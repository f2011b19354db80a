--------------------------- MODULE RuntimeRunProofs ---------------------------
(***************************************************************************)
(* For any number of runs and of recover and retry commands: a retry runs  *)
(* beside a live parent only after a blind verdict, and records do not     *)
(* claim more than happened.  The strengthening follows one fact through   *)
(* the system: a child that is gone stays gone.  A pid in a record or in a *)
(* snapshot means the child was launched; a verdict of a reader that saw a *)
(* pid therefore concerns a child that can only be gone for good.          *)
(***************************************************************************)
EXTENDS RuntimeRun, TLAPS

(* No process of run r is alive or will be.                                 *)
Gone(r) == Exited(r) \/ (child[r] = "none" /\ runner[r] = "done")

(* What the runner's position says of the child and of the record.          *)
RunnerInv ==
  \A r \in Runs :
    /\ runner[r] \in {"none", "create"} => state[r] = NoRecord
    /\ runner[r] \in {"none", "create", "launch"} => child[r] = "none"
    /\ runner[r] \in {"record", "monitor"} => child[r] # "none"
    /\ runner[r] = "ended" => Exited(r)
    /\ runner[r] \notin {"none", "create"} => state[r].status # "absent"
    /\ state[r].pid => child[r] # "none"

(* What a terminal record says.                                             *)
RecordInv ==
  \A r \in Runs :
    /\ state[r].status = "success" =>
         runner[r] = "done" /\ child[r] = "ok" /\ stopped[r] = "no"
    /\ state[r].status \in TERMINAL_STATES => Gone(r) \/ r \in blind

(* What a reader in progress knows.                                         *)
ReaderInv ==
  \A p \in Readers :
    LET r == reader[p].run IN
    /\ reader[p].step \notin {"idle", "done"} =>
         r \in Runs /\ runner[r] \notin {"none", "create"}
    /\ reader[p].step \in {"decide", "write"} /\ reader[p].seen.pid => child[r] # "none"
    /\ reader[p].step = "write" =>
         /\ reader[p].verdict \in {"orphaned", "interrupted"}
         /\ reader[p].verdict = "interrupted" => Exited(r) \/ r \in blind

(* A retried run is gone, or was declared dead blindly.                     *)
RetryInv == \A r, s \in Runs : origin[s] = r => Gone(r) \/ r \in blind

IInv == TypeOK /\ RunnerInv /\ RecordInv /\ ReaderInv /\ RetryInv

(* No process has been started at first.                                    *)
LEMMA IInvInit == Init => IInv
  BY RuntimeRunAssumption
     DEF Init, IInv, TypeOK, RunnerInv, RecordInv, ReaderInv, RetryInv, Gone, Exited,
         NoRecord, IdleReader, Record, Records, RunnerSteps, ReaderSteps, ReaderStates,
         TERMINAL_STATES, ACTIVE_STATES

(* A reader's step is an update of its record.                              *)
LEMMA ReaderUpdate ==
  ASSUME NEW rd \in ReaderStates, NEW s \in ReaderSteps, NEW x \in Records,
         NEW v \in {"none", "unchanged", "orphaned", "interrupted"}
  PROVE  /\ [rd EXCEPT !.step = s] \in ReaderStates
         /\ [rd EXCEPT !.step = s, !.seen = x] \in ReaderStates
         /\ [rd EXCEPT !.verdict = v, !.step = s] \in ReaderStates
  BY DEF ReaderStates

(* Every step of a runner, a child or a reader preserves the invariant.     *)
LEMMA IInvStep == IInv /\ [Next]_vars => IInv'
<1> SUFFICES ASSUME IInv, [Next]_vars PROVE IInv'
  OBVIOUS
<1> USE DEF IInv, TypeOK, RunnerInv, RecordInv, ReaderInv, RetryInv, Gone, Exited,
            Records, NoRecord, Record, RunnerSteps, ReaderSteps, TERMINAL_STATES,
            ACTIVE_STATES, Proceed, Update
<1>1. ASSUME NEW r \in Runs, Create(r) PROVE IInv'
  BY RuntimeRunAssumption, <1>1 DEF Create
<1>2. ASSUME NEW r \in Runs, LaunchFails(r) PROVE IInv'
  BY RuntimeRunAssumption, <1>2 DEF LaunchFails
<1>3. ASSUME NEW r \in Runs, Launch(r) PROVE IInv'
  BY RuntimeRunAssumption, <1>3 DEF Launch
<1>4. ASSUME NEW r \in Runs, RecordPid(r) PROVE IInv'
  BY RuntimeRunAssumption, <1>4 DEF RecordPid
<1>5. ASSUME NEW r \in Runs, Heartbeat(r) PROVE IInv'
  BY RuntimeRunAssumption, <1>5 DEF Heartbeat
<1>6. ASSUME NEW r \in Runs, SeeExit(r) PROVE IInv'
  BY RuntimeRunAssumption, <1>6 DEF SeeExit
<1>7. ASSUME NEW r \in Runs, SeeCancel(r) PROVE IInv'
  BY RuntimeRunAssumption, <1>7 DEF SeeCancel, Stop
<1>8. ASSUME NEW r \in Runs, SeeTimeout(r) PROVE IInv'
  BY RuntimeRunAssumption, <1>8 DEF SeeTimeout, Stop
<1>9. ASSUME NEW r \in Runs, KeyboardInterrupt(r) PROVE IInv'
  BY RuntimeRunAssumption, <1>9 DEF KeyboardInterrupt, Stop
<1>10. ASSUME NEW r \in Runs, Finish(r) PROVE IInv'
  <2>1. TypeOK'
    BY RuntimeRunAssumption, <1>10 DEF Finish, Outcome
  <2>2. RunnerInv'
    BY RuntimeRunAssumption, <1>10 DEF Finish, Outcome
  <2>6. Outcome(r) = "success" => child[r] = "ok" /\ stopped[r] = "no"
    <3>1. stopped[r] \in {"no", "cancelled", "timed_out"}
      BY DEF TypeOK
    <3> QED
      BY <3>1 DEF Outcome
  <2>7. Exited(r) /\ Outcome(r) \in TERMINAL_STATES
    BY <1>10 DEF Finish, Outcome
  <2>3. RecordInv'
    BY <1>10, <2>6, <2>7 DEF Finish
  <2>4. ReaderInv'
    BY RuntimeRunAssumption, <1>10 DEF Finish, Outcome
  <2>5. RetryInv'
    BY RuntimeRunAssumption, <1>10 DEF Finish, Outcome
  <2> QED
    BY <2>1, <2>2, <2>3, <2>4, <2>5
<1>11. ASSUME NEW r \in Runs, Crash(r) PROVE IInv'
  BY RuntimeRunAssumption, <1>11 DEF Crash
<1>12. ASSUME NEW r \in Runs, ChildExits(r) PROVE IInv'
  BY RuntimeRunAssumption, <1>12 DEF ChildExits
<1>13. ASSUME NEW r \in Runs, RequestCancel(r) PROVE IInv'
  BY RuntimeRunAssumption, <1>13 DEF RequestCancel
<1>14. ASSUME NEW p \in Readers, Begin(p) PROVE IInv'
  <2>1. TypeOK'
    <3>1. PICK r \in Runs, why \in {"recover", "retry"} :
            reader' = [reader EXCEPT ![p] =
                         [IdleReader EXCEPT !.step = "read", !.run = r, !.purpose = why]]
      BY <1>14 DEF Begin, Purposes
    <3>2. [IdleReader EXCEPT !.step = "read", !.run = r, !.purpose = why] \in ReaderStates
      BY DEF IdleReader, ReaderStates
    <3> QED
      BY <1>14, <3>1, <3>2 DEF Begin
  <2>2. RunnerInv'
    BY RuntimeRunAssumption, <1>14 DEF Begin, IdleReader
  <2>3. RecordInv'
    BY RuntimeRunAssumption, <1>14 DEF Begin, IdleReader
  <2>4. ReaderInv'
    BY RuntimeRunAssumption, <1>14 DEF Begin, IdleReader
  <2>5. RetryInv'
    BY RuntimeRunAssumption, <1>14 DEF Begin, IdleReader
  <2> QED
    BY <2>1, <2>2, <2>3, <2>4, <2>5
<1>15. ASSUME NEW p \in Readers, Read(p) PROVE IInv'
  <2>1. TypeOK'
    <3>1. reader[p].run \in Runs /\ state[reader[p].run] \in Records
      BY <1>15 DEF Read
    <3>2. [reader[p] EXCEPT !.step = "decide", !.seen = state[reader[p].run]] \in ReaderStates
      <4>1. reader[p] \in ReaderStates /\ "decide" \in ReaderSteps
        OBVIOUS
      <4> QED
        BY <3>1, <4>1, ReaderUpdate
    <3>3. reader' = [reader EXCEPT ![p] =
                       [reader[p] EXCEPT !.step = "decide", !.seen = state[reader[p].run]]]
      BY <1>15 DEF Read
    <3> QED
      BY <1>15, <3>2, <3>3 DEF Read
  <2>2. RunnerInv'
    BY RuntimeRunAssumption, <1>15 DEF Read
  <2>3. RecordInv'
    BY RuntimeRunAssumption, <1>15 DEF Read
  <2>4. ReaderInv'
    BY RuntimeRunAssumption, <1>15 DEF Read
  <2>5. RetryInv'
    BY RuntimeRunAssumption, <1>15 DEF Read
  <2> QED
    BY <2>1, <2>2, <2>3, <2>4, <2>5
<1>16. ASSUME NEW p \in Readers, Decide(p) PROVE IInv'
  <2> DEFINE q == reader[p].run
             next(v) == [reader[p] EXCEPT
                           !.verdict = v,
                           !.step = IF v = "unchanged" THEN AfterReconcile(p) ELSE "write"]
  <2>1. PICK alive \in SeenAlive(p), fresh \in BOOLEAN :
          LET v == Verdict(reader[p].seen.status, alive, fresh) IN
          /\ reader' = [reader EXCEPT ![p] = next(v)]
          /\ blind' = IF v = "interrupted" /\ ~ reader[p].seen.pid
                      THEN blind \cup {q} ELSE blind
    <3> HIDE DEF IInv
    <3> QED
      BY <1>16 DEF Decide
  <2> DEFINE v == Verdict(reader[p].seen.status, alive, fresh)
  <2>2. /\ reader[p].step = "decide" /\ q \in Runs
        /\ v \in {"unchanged", "orphaned", "interrupted"}
        /\ UNCHANGED <<state, runner, stopped, child, cancel, origin>>
    BY <1>16 DEF Decide, Verdict
  <2>3. v = "interrupted" => Exited(q) \/ q \in blind'
    <3> SUFFICES ASSUME v = "interrupted", reader[p].seen.pid PROVE Exited(q)
      BY <2>1, <2>2
    <3>1. ~ alive
      BY <2>1 DEF Verdict, SeenAlive
    <3>2. child[q] # "alive" /\ child[q] # "none"
      BY <3>1, <2>2 DEF SeenAlive
    <3> QED
      BY <3>2, <2>2
  <2> HIDE DEF v
  <2>4. next(v) \in ReaderStates
    <3>1. /\ reader[p] \in ReaderStates
          /\ (IF v = "unchanged" THEN AfterReconcile(p) ELSE "write") \in ReaderSteps
      BY DEF AfterReconcile
    <3> QED
      BY <2>2, <3>1, ReaderUpdate
  <2>5. blind \subseteq blind' /\ blind' \subseteq Runs
    BY <2>1, <2>2 DEF v
  <2>6. reader' = [reader EXCEPT ![p] = next(v)]
    BY <2>1 DEF v
  <2>7. TypeOK'
    BY <2>2, <2>4, <2>5, <2>6
  <2>8. RunnerInv' /\ RecordInv' /\ RetryInv'
    BY <2>2, <2>5
  <2>9. ReaderInv'
    <3> SUFFICES ASSUME NEW o \in Readers PROVE ReaderInv!(o)'
      BY DEF ReaderInv
    <3>1. CASE o = p
      BY <3>1, <2>2, <2>3, <2>5, <2>6 DEF AfterReconcile
    <3>2. CASE o # p
      BY <3>2, <2>2, <2>5, <2>6
    <3> QED
      BY <3>1, <3>2
  <2> QED
    BY <2>7, <2>8, <2>9
<1>17. ASSUME NEW p \in Readers, Write(p) PROVE IInv'
  <2> DEFINE q == reader[p].run
  <2>6. /\ q \in Runs /\ runner[q] \notin {"none", "create"}
        /\ reader[p].verdict \in {"orphaned", "interrupted"}
        /\ reader[p].seen.pid \in BOOLEAN /\ (reader[p].seen.pid => child[q] # "none")
    BY <1>17 DEF Write, ReaderStates
  <2>1. TypeOK'
    <3>1. [reader[p] EXCEPT !.step = AfterReconcile(p)] \in ReaderStates
      <4>1. reader[p] \in ReaderStates
        OBVIOUS
      <4>2. AfterReconcile(p) \in ReaderSteps
        BY DEF AfterReconcile
      <4>3. NoRecord \in Records
        OBVIOUS
      <4> HIDE DEF Records, NoRecord, ReaderSteps
      <4> QED
        BY <4>1, <4>2, <4>3, ReaderUpdate
    <3>2. reader' = [reader EXCEPT ![p] = [reader[p] EXCEPT !.step = AfterReconcile(p)]]
      BY <1>17 DEF Write
    <3>3. Record(reader[p].verdict, reader[p].seen.pid) \in Records
      BY <2>6
    <3> QED
      BY <1>17, <2>6, <3>1, <3>2, <3>3 DEF Write
  <2>2. RunnerInv'
    BY <1>17, <2>6 DEF Write
  <2>3. RecordInv'
    BY RuntimeRunAssumption, <1>17 DEF Write, AfterReconcile
  <2>4. ReaderInv'
    BY RuntimeRunAssumption, <1>17 DEF Write, AfterReconcile
  <2>5. RetryInv'
    BY RuntimeRunAssumption, <1>17 DEF Write, AfterReconcile
  <2> QED
    BY <2>1, <2>2, <2>3, <2>4, <2>5
<1>18. ASSUME NEW p \in Readers, Refuse(p) PROVE IInv'
  <2>1. TypeOK'
    <3>1. [reader[p] EXCEPT !.step = "done"] \in ReaderStates
      <4>1. reader[p] \in ReaderStates /\ "done" \in ReaderSteps /\ NoRecord \in Records
        OBVIOUS
      <4> HIDE DEF Records, NoRecord, ReaderSteps
      <4> QED
        BY <4>1, ReaderUpdate
    <3>2. reader' = [reader EXCEPT ![p] = [reader[p] EXCEPT !.step = "done"]]
      BY <1>18 DEF Refuse
    <3> QED
      BY <1>18, <3>1, <3>2 DEF Refuse
  <2>2. RunnerInv'
    BY RuntimeRunAssumption, <1>18 DEF Refuse
  <2>3. RecordInv'
    BY RuntimeRunAssumption, <1>18 DEF Refuse
  <2>4. ReaderInv'
    BY RuntimeRunAssumption, <1>18 DEF Refuse
  <2>5. RetryInv'
    BY RuntimeRunAssumption, <1>18 DEF Refuse
  <2> QED
    BY <2>1, <2>2, <2>3, <2>4, <2>5
<1>19. ASSUME NEW p \in Readers, Retry(p) PROVE IInv'
  <2>1. TypeOK'
    <3>1. [reader[p] EXCEPT !.step = "done"] \in ReaderStates /\ reader[p].run \in Runs
      <4>1. reader[p] \in ReaderStates /\ "done" \in ReaderSteps /\ reader[p].run \in Runs
        BY <1>19 DEF Retry
      <4> QED
        BY <4>1, ReaderUpdate
    <3>2. reader' = [reader EXCEPT ![p] = [reader[p] EXCEPT !.step = "done"]]
      BY <1>19 DEF Retry
    <3> QED
      BY <1>19, <3>1, <3>2 DEF Retry
  <2>2. RunnerInv'
    BY RuntimeRunAssumption, <1>19 DEF Retry
  <2>3. RecordInv'
    BY RuntimeRunAssumption, <1>19 DEF Retry
  <2>4. ReaderInv'
    BY RuntimeRunAssumption, <1>19 DEF Retry
  <2>5. RetryInv'
    BY RuntimeRunAssumption, <1>19 DEF Retry
  <2> QED
    BY <2>1, <2>2, <2>3, <2>4, <2>5
<1>20. CASE UNCHANGED vars
  BY <1>20 DEF vars
<1> QED
  BY <1>1, <1>2, <1>3, <1>4, <1>5, <1>6, <1>7, <1>8, <1>9, <1>10, <1>11,
     <1>12, <1>13, <1>14, <1>15, <1>16, <1>17, <1>18, <1>19, <1>20
     DEF Next, RunnerStep, ReaderStep

(* The variables keep their types.                                          *)
THEOREM RuntimeTyped == Spec => []TypeOK
<1>1. IInv => TypeOK
  BY DEF IInv
<1> QED
  BY IInvInit, IInvStep, <1>1, PTL DEF Spec

(* A retry runs beside its live parent only if a reader declared the parent *)
(* dead from a record without a pid: for any number of commands.            *)
THEOREM RuntimeNoDuplicate == Spec => []NoDuplicateUnlessBlind
<1>1. IInv => NoDuplicateUnlessBlind
  BY DEF IInv, RetryInv, NoDuplicateUnlessBlind, Gone, Exited
<1> QED
  BY IInvInit, IInvStep, <1>1, PTL DEF Spec

(* Success is only recorded of a child that exited with 0 by itself, and a  *)
(* terminal record of a child that is gone, blind verdicts excepted.        *)
THEOREM RuntimeRecordHonest == Spec => []RecordHonest
<1>1. IInv => RecordHonest
  BY DEF IInv, RecordInv, RecordHonest, Gone, Exited
<1> QED
  BY IInvInit, IInvStep, <1>1, PTL DEF Spec

-----------------------------------------------------------------------------
(***************************************************************************)
(* The refinement of DurableRun.  Each write of the record is one step of  *)
(* one run's life there.                                                   *)
(***************************************************************************)
(* "running" and "orphaned" are only written with a pid, and only a record  *)
(* with a pid makes a reader write "orphaned".                              *)
PidInv ==
  /\ \A r \in Runs : state[r].status \in {"running", "orphaned"} => state[r].pid
  /\ \A p \in Readers :
       /\ reader[p].step = "decide" /\ reader[p].seen.status \in {"running", "orphaned"}
            => reader[p].seen.pid
       /\ reader[p].step = "write" /\ reader[p].verdict = "orphaned" => reader[p].seen.pid

(* A run not started yet repeats none.                                      *)
OriginInv == \A r \in Runs : runner[r] = "none" => origin[r] = NoRun

DInv == IInv /\ PidInv /\ OriginInv

(* At first nobody has written or repeated anything.                        *)
LEMMA DInvInit == Init => DInv
<1>1. Init => PidInv /\ OriginInv
  BY DEF Init, PidInv, OriginInv, NoRecord, Record, IdleReader
<1> QED
  BY <1>1, IInvInit DEF DInv

(* A reader that begins or ends is not deciding.                            *)
LEMMA ReaderLeaves ==
  ASSUME TypeOK, NEW p \in Readers, Begin(p) \/ Refuse(p) \/ Retry(p)
  PROVE  reader[p].step \in {"idle", "reread"} /\ reader'[p].step \in {"read", "done"}
<1>1. reader \in [Readers -> ReaderStates]
  BY DEF TypeOK
<1>2. CASE Begin(p)
  <2>1. PICK r \in Runs, why \in {"recover", "retry"} :
          reader' = [reader EXCEPT ![p] =
                       [IdleReader EXCEPT !.step = "read", !.run = r, !.purpose = why]]
    BY <1>2 DEF Begin, Purposes
  <2>2. reader'[p] = [IdleReader EXCEPT !.step = "read", !.run = r, !.purpose = why]
    BY <1>1, <2>1
  <2> QED
    BY <1>2, <2>2 DEF Begin, IdleReader
<1>3. CASE Refuse(p) \/ Retry(p)
  <2>1. reader'[p] = [reader[p] EXCEPT !.step = "done"]
    BY <1>1, <1>3 DEF Refuse, Retry
  <2> QED
    BY <1>1, <1>3, <2>1 DEF Refuse, Retry, ReaderStates
<1> QED
  BY <1>2, <1>3

(* The runners, the children and the readers' commands keep that.           *)
LEMMA DInvStep == DInv /\ [Next]_vars => DInv'
<1> SUFFICES ASSUME DInv, [Next]_vars PROVE PidInv' /\ OriginInv'
  BY IInvStep DEF DInv
<1> USE DEF DInv, IInv, TypeOK, PidInv, OriginInv, Proceed, Update, Record
<1>1. ASSUME NEW r \in Runs,
             RunnerStep(r) \/ Heartbeat(r) \/ KeyboardInterrupt(r) \/ Crash(r)
               \/ ChildExits(r) \/ RequestCancel(r)
      PROVE  PidInv' /\ OriginInv'
  <2>1. reader' = reader /\ origin' = origin /\ (\A q \in Runs : runner'[q] = "none" => runner[q] = "none")
    BY <1>1 DEF RunnerStep, Create, LaunchFails, Launch, RecordPid, Heartbeat, SeeExit,
         SeeCancel, SeeTimeout, KeyboardInterrupt, Stop, Finish, Crash, ChildExits,
         RequestCancel
  <2>2. \/ state' = state
        \/ \E st \in {"created", "blocked"} : state' = [state EXCEPT ![r] = Record(st, FALSE)]
        \/ \E st \in TERMINAL_STATES \cup {"running"} : state' = [state EXCEPT ![r] = Record(st, TRUE)]
    BY <1>1 DEF RunnerStep, Create, LaunchFails, Launch, RecordPid, Heartbeat, SeeExit,
         SeeCancel, SeeTimeout, KeyboardInterrupt, Stop, Finish, Crash, ChildExits,
         RequestCancel, Outcome, TERMINAL_STATES
  <2> QED
    BY <2>1, <2>2
<1>2. ASSUME NEW p \in Readers, Begin(p) \/ Refuse(p) \/ Retry(p) PROVE PidInv' /\ OriginInv'
  <2>1. state' = state /\ \A q \in Readers \ {p} : reader'[q] = reader[q]
    BY <1>2 DEF Begin, Refuse, Retry
  <2>3. reader'[p].step \notin {"decide", "write"}
    BY <1>2, ReaderLeaves
  <2>2. OriginInv'
    BY <1>2 DEF Begin, Refuse, Retry
  <2> QED
    BY <2>1, <2>2, <2>3
<1>3. ASSUME NEW p \in Readers, Read(p) PROVE PidInv' /\ OriginInv'
  BY <1>3 DEF Read, ReaderInv, ReaderStates
<1>4. ASSUME NEW p \in Readers, Decide(p) PROVE PidInv' /\ OriginInv'
  BY <1>4 DEF Decide, Verdict, SeenAlive, AfterReconcile, ReaderStates
<1>5. ASSUME NEW p \in Readers, Write(p) PROVE PidInv' /\ OriginInv'
  BY <1>5 DEF Write, AfterReconcile, ReaderStates, ReaderInv
<1>6. CASE UNCHANGED vars
  BY <1>6 DEF vars
<1> QED
  BY <1>1, <1>2, <1>3, <1>4, <1>5, <1>6 DEF Next, ReaderStep

(* No run is recorded, started or doubted at first.                         *)
LEMMA RunInit == Init => Run!Init
  BY DEF Init, Run!Init, StatusOf, ProcessOf, Watched, Misread, Doubted, NoRecord, Record,
     IdleReader, Exited

(* What a step of a runner or a child leaves alone.                         *)
LEMMA ReadersAside ==
  ASSUME reader' = reader, blind' = blind
  PROVE  Doubted' = Doubted
  BY DEF Doubted, Misread

(* A write of the record, as others see it.                                 *)
LEMMA UpdateSeen ==
  ASSUME TypeOK, NEW r \in Runs, NEW s, NEW pid, Update(r, s, pid)
  PROVE  StatusOf' = [StatusOf EXCEPT ![r] = s]
  BY DEF TypeOK, Update, Record, StatusOf

(* A runner's and a child's steps.                                          *)
LEMMA RunnerRuns ==
  ASSUME DInv, NEW r \in Runs,
         RunnerStep(r) \/ Heartbeat(r) \/ KeyboardInterrupt(r) \/ Crash(r)
           \/ ChildExits(r) \/ RequestCancel(r)
  PROVE  [Run!Next]_(Run!vars)
<1> USE DEF DInv, IInv, TypeOK, RunnerInv, Proceed, StatusOf, ProcessOf, Watched
<1>0. reader' = reader /\ blind' = blind /\ origin' = origin /\ Doubted' = Doubted
  <2>1. reader' = reader /\ blind' = blind /\ origin' = origin
    BY DEF RunnerStep, Create, LaunchFails, Launch, RecordPid, Heartbeat, SeeExit,
       SeeCancel, SeeTimeout, KeyboardInterrupt, Stop, Finish, Crash, ChildExits, RequestCancel
  <2> QED
    BY <2>1, ReadersAside
<1>1. CASE Create(r)
  <2>1. runner[r] = "create" /\ runner' = [runner EXCEPT ![r] = "launch"]
    BY <1>1 DEF Create
  <2>5. StatusOf' = [StatusOf EXCEPT ![r] = "created"]
    BY <1>1, UpdateSeen DEF Create
  <2>6. StatusOf[r] = "absent"
    BY <2>1 DEF NoRecord, Record
  <2>4. r \in Watched /\ Watched' = Watched
    BY <2>1
  <2>2. ProcessOf' = ProcessOf
    BY <1>1 DEF Create, Exited
  <2>3. Run!Create(r)
    BY <1>0, <2>2, <2>4, <2>5, <2>6 DEF Run!Create, Run!Records
  <2> QED
    BY <2>3 DEF Run!Next
<1>2. CASE LaunchFails(r)
  <2>1. StatusOf' = [StatusOf EXCEPT ![r] = "blocked"]
    BY <1>2, UpdateSeen DEF LaunchFails
  <2>2. ProcessOf' = ProcessOf /\ ProcessOf[r] = "none" /\ StatusOf[r] # "absent"
    BY <1>2 DEF LaunchFails, Exited
  <2>3. r \in Watched /\ Watched' = Watched \ {r}
    BY <1>2 DEF LaunchFails
  <2>4. Run!End(r)
    BY <1>0, <2>1, <2>2, <2>3 DEF Run!End, Run!Records
  <2> QED
    BY <2>4 DEF Run!Next
<1>3. CASE Launch(r)
  <2>1. ASSUME NEW q \in Runs, ProcessOf[q] = "alive"
        PROVE  /\ origin[r] = q => q \in Doubted
               /\ origin[q] = r => r \in Doubted
    <3>1. child[q] = "alive" /\ ~ Exited(q)
      BY <2>1
    <3>2. ~ Gone(q)
      BY <3>1 DEF Gone
    <3>3. ~ Gone(r)
      BY <1>3 DEF Launch, Gone, Exited
    <3> QED
      BY <3>2, <3>3 DEF RetryInv, Doubted
  <2>2. Watched' = Watched /\ r \in Watched /\ StatusOf' = StatusOf
    BY <1>3 DEF Launch
  <2>3. ProcessOf' = [ProcessOf EXCEPT ![r] = "alive"] /\ ProcessOf[r] = "none"
    BY <1>3 DEF Launch, Exited
  <2>4. StatusOf[r] # "absent"
    BY <1>3 DEF Launch
  <2>5. Run!Launch(r)
    BY <1>0, <2>1, <2>2, <2>3, <2>4 DEF Run!Launch, Run!Process
  <2> QED
    BY <2>5 DEF Run!Next
<1>4. CASE RecordPid(r) \/ Heartbeat(r)
  <2>5. StatusOf' = [StatusOf EXCEPT ![r] = "running"]
    BY <1>4, UpdateSeen DEF RecordPid, Heartbeat
  <2>1. /\ runner[r] \in {"record", "monitor"}
        /\ runner' = runner \/ runner' = [runner EXCEPT ![r] = "monitor"]
    BY <1>4 DEF RecordPid, Heartbeat
  <2>4. r \in Watched /\ Watched' = Watched
    BY <2>1
  <2>2. ProcessOf' = ProcessOf /\ ProcessOf[r] # "none"
    BY <1>4 DEF RecordPid, Heartbeat, Exited
  <2>3. Run!Note(r)
    BY <1>0, <2>2, <2>4, <2>5 DEF Run!Note, Run!Records
  <2> QED
    BY <2>3 DEF Run!Next
<1>5. CASE SeeExit(r) \/ RequestCancel(r)
  <2>1. StatusOf' = StatusOf /\ ProcessOf' = ProcessOf /\ Watched' = Watched
    BY <1>5 DEF SeeExit, RequestCancel, Exited
  <2> QED
    BY <1>0, <2>1 DEF Run!vars
<1>6. CASE SeeCancel(r) \/ SeeTimeout(r) \/ KeyboardInterrupt(r) \/ ChildExits(r)
  <2>1. StatusOf' = StatusOf /\ Watched' = Watched
    BY <1>6 DEF SeeCancel, SeeTimeout, KeyboardInterrupt, Stop, ChildExits
  <2>2. \/ ProcessOf' = ProcessOf
        \/ ProcessOf[r] = "alive" /\ ProcessOf' = [ProcessOf EXCEPT ![r] = "gone"]
    <3>1. \/ child' = child
          \/ \E x \in {"ok", "bad"} : child[r] = "alive" /\ child' = [child EXCEPT ![r] = x]
      BY <1>6 DEF SeeCancel, SeeTimeout, KeyboardInterrupt, Stop, ChildExits
    <3> QED
      BY <3>1 DEF Exited
  <2>3. UNCHANGED Run!vars \/ Run!Exit(r)
    BY <1>0, <2>1, <2>2 DEF Run!Exit, Run!Process, Run!vars
  <2> QED
    BY <2>3 DEF Run!Next
<1>7. CASE Finish(r)
  <2>1. Outcome(r) \in {"success", "failed", "timed_out", "cancelled"}
    BY DEF Outcome
  <2>2. StatusOf' = [StatusOf EXCEPT ![r] = Outcome(r)]
    BY <1>7, UpdateSeen DEF Finish
  <2>4. /\ ProcessOf' = [ProcessOf EXCEPT ![r] = "gone"]
        /\ ProcessOf[r] = "gone" /\ StatusOf[r] # "absent"
    BY <1>7 DEF Finish, Exited
  <2>5. r \in Watched /\ Watched' = Watched \ {r}
    BY <1>7 DEF Finish
  <2>3. Run!End(r)
    BY <1>0, <2>1, <2>2, <2>4, <2>5 DEF Run!End, Run!Records, Run!Process, Run!EndStates
  <2> QED
    BY <2>3 DEF Run!Next
<1>8. CASE Crash(r)
  <2>1. Run!Abandon
    BY <1>0, <1>8 DEF Crash, Run!Abandon, Exited
  <2> QED
    BY <2>1 DEF Run!Next
<1> QED
  BY <1>1, <1>2, <1>3, <1>4, <1>5, <1>6, <1>7, <1>8 DEF RunnerStep

(* A reader's steps.                                                        *)
LEMMA ReaderRuns ==
  ASSUME DInv, NEW p \in Readers, Begin(p) \/ ReaderStep(p)
  PROVE  [Run!Next]_(Run!vars)
<1> DEFINE r == reader[p].run
<1> USE DEF DInv, IInv, TypeOK
<1>1. CASE Begin(p) \/ Refuse(p)
  <2>1. UNCHANGED <<StatusOf, ProcessOf, Watched, origin>>
    BY <1>1 DEF Begin, Refuse, StatusOf, ProcessOf, Watched, Exited
  <2>2. blind' = blind /\ \A q \in Readers \ {p} : reader'[q] = reader[q]
    BY <1>1 DEF Begin, Refuse
  <2>4. p \notin Misread /\ p \notin Misread'
    BY <1>1, ReaderLeaves DEF Misread
  <2>5. Misread' = Misread /\ \A q \in Misread : reader'[q].run = reader[q].run
    BY <2>2, <2>4 DEF Misread
  <2>3. Doubted' = Doubted
    BY <2>2, <2>5 DEF Doubted
  <2> QED
    BY <2>1, <2>3 DEF Run!vars
<1>2. CASE Read(p)
  <2>1. UNCHANGED <<StatusOf, ProcessOf, Watched, origin>> /\ blind' = blind
    BY <1>2 DEF Read, StatusOf, ProcessOf, Watched, Exited
  <2>2. r \in Runs /\ StatusOf[r] # "absent"
    BY <1>2 DEF Read, ReaderInv, RunnerInv, StatusOf
  <2>3. \A q \in Readers : reader'[q].run = reader[q].run
    BY <1>2 DEF Read, ReaderStates
  <2>4. Misread' = IF state[r].status = "created" /\ ~ state[r].pid
                   THEN Misread \cup {p} ELSE Misread
    BY <1>2 DEF Read, Misread, ReaderStates
  <2>5. Misread \subseteq Readers
    BY DEF Misread
  <2>6. CASE state[r].status = "created" /\ ~ state[r].pid
    <3>1. Doubted' = Doubted \cup {r}
      BY <2>1, <2>3, <2>4, <2>5, <2>6 DEF Doubted
    <3>2. StatusOf[r] = "created"
      BY <2>2, <2>6 DEF StatusOf
    <3>3. Run!Judge(r)
      BY <2>1, <3>1, <3>2 DEF Run!Judge
    <3> QED
      BY <2>2, <3>3 DEF Run!Next
  <2>7. CASE ~ (state[r].status = "created" /\ ~ state[r].pid)
    <3>1. Doubted' = Doubted
      BY <2>1, <2>3, <2>4, <2>5, <2>7 DEF Doubted
    <3> QED
      BY <2>1, <3>1 DEF Run!vars
  <2> QED
    BY <2>6, <2>7
<1>3. CASE Decide(p)
  <2>1. UNCHANGED <<StatusOf, ProcessOf, Watched, origin>>
    BY <1>3 DEF Decide, StatusOf, ProcessOf, Watched, Exited
  <2>2. \A q \in Readers : reader'[q].run = reader[q].run
    BY <1>3 DEF Decide, ReaderStates
  <2>3. Misread' = Misread \ {p} /\ Misread \subseteq Readers
    BY <1>3 DEF Decide, Misread, AfterReconcile, ReaderStates
  <2>4. blind' = IF p \in Misread THEN blind \cup {r} ELSE blind
    <3>1. reader[p].step = "decide" /\ reader[p] \in ReaderStates /\ reader[p].seen \in Records
      BY <1>3 DEF Decide, ReaderStates
    <3>2. PICK alive \in SeenAlive(p), fresh \in BOOLEAN :
            blind' = IF Verdict(reader[p].seen.status, alive, fresh) = "interrupted"
                        /\ ~ reader[p].seen.pid
                     THEN blind \cup {r} ELSE blind
      BY <1>3 DEF Decide
    <3>3. p \in Misread <=> reader[p].seen.status = "created" /\ ~ reader[p].seen.pid
      BY <3>1 DEF Misread, Records
    <3>4. CASE p \in Misread
      BY <3>2, <3>3, <3>4 DEF SeenAlive, Verdict, ACTIVE_STATES
    <3>5. CASE p \notin Misread
      BY <3>1, <3>2, <3>3, <3>5 DEF PidInv, Verdict, ACTIVE_STATES
    <3> QED
      BY <3>4, <3>5
  <2>5. Doubted' = Doubted
    BY <2>2, <2>3, <2>4 DEF Doubted
  <2> QED
    BY <2>1, <2>5 DEF Run!vars
<1>4. CASE Write(p)
  <2>1. UNCHANGED <<ProcessOf, Watched, origin>> /\ blind' = blind
    BY <1>4 DEF Write, ProcessOf, Watched, Exited
  <2>2. r \in Runs /\ StatusOf[r] # "absent"
    BY <1>4 DEF Write, ReaderInv, RunnerInv, StatusOf
  <2>3. StatusOf' = [StatusOf EXCEPT ![r] = reader[p].verdict]
    BY <1>4, <2>2 DEF Write, Update, Record, StatusOf
  <2>4. Misread' = Misread /\ \A q \in Readers : reader'[q].run = reader[q].run
    BY <1>4 DEF Write, Misread, AfterReconcile, ReaderStates
  <2>5. Doubted' = Doubted
    BY <2>1, <2>4 DEF Doubted, Misread
  <2>6. \/ reader[p].verdict = "interrupted" /\ (ProcessOf[r] = "gone" \/ r \in Doubted)
        \/ reader[p].verdict = "orphaned" /\ ProcessOf[r] # "none"
    <3>1. reader[p].verdict \in {"orphaned", "interrupted"}
      BY <1>4 DEF Write, ReaderInv
    <3>2. CASE reader[p].verdict = "interrupted"
      BY <1>4, <2>2, <3>2 DEF Write, ReaderInv, ProcessOf, Doubted
    <3>3. CASE reader[p].verdict = "orphaned"
      BY <1>4, <2>2, <3>3 DEF Write, ReaderInv, PidInv, ProcessOf
    <3> QED
      BY <3>1, <3>2, <3>3
  <2>7. Run!Judge(r)
    BY <2>1, <2>2, <2>3, <2>5, <2>6 DEF Run!Judge, Run!Records
  <2> QED
    BY <2>2, <2>7 DEF Run!Next
<1>5. CASE Retry(p)
  <2>1. PICK s \in Runs : /\ runner[s] = "none" /\ runner' = [runner EXCEPT ![s] = "create"]
                          /\ origin' = [origin EXCEPT ![s] = r]
    BY <1>5 DEF Retry, Proceed
  <2>2. UNCHANGED <<StatusOf, ProcessOf>> /\ blind' = blind
    BY <1>5 DEF Retry, StatusOf, ProcessOf, Exited
  <2>3. Watched' = Watched \cup {s} /\ s \notin Watched
    BY <2>1 DEF Watched
  <2>4. StatusOf[s] = "absent" /\ ProcessOf[s] = "none" /\ origin[s] = NoRun
    BY <2>1 DEF RunnerInv, OriginInv, StatusOf, ProcessOf, NoRecord, Record, Exited
  <2>5. Misread' = Misread /\ \A q \in Readers : reader'[q].run = reader[q].run
    BY <1>5 DEF Retry, Misread, ReaderStates
  <2>6. Doubted' = Doubted
    BY <2>2, <2>5 DEF Doubted, Misread
  <2>7. r \in Runs /\ (Gone(r) \/ r \in blind)
    BY <1>5 DEF Retry, ReaderInv, RunnerInv, RecordInv, Records, TERMINAL_STATES
  <2>8. Run!Over(r) \/ r \in Doubted
    BY <2>7 DEF Gone, Run!Over, ProcessOf, Watched, Doubted, Exited
  <2>10. r # s
    BY <1>5, <2>1 DEF Retry, ReaderInv
  <2>9. Run!Repeat(s, r)
    BY <2>1, <2>2, <2>3, <2>4, <2>6, <2>8, <2>10 DEF Run!Repeat, Run!Fresh
  <2> QED
    BY <2>7, <2>9 DEF Run!Next
<1> QED
  BY <1>1, <1>2, <1>3, <1>4, <1>5 DEF ReaderStep

(* One runner and any number of readers implement the abstract run: every   *)
(* step of either is a step of one run's life or leaves it alone.           *)
THEOREM RuntimeFollowsDurableRun == Spec => FollowsDurableRun
<1>1. DInv /\ [Next]_vars => [Run!Next]_(Run!vars)
  <2> SUFFICES ASSUME DInv, [Next]_vars PROVE [Run!Next]_(Run!vars)
    OBVIOUS
  <2>1. CASE UNCHANGED vars
    BY <2>1 DEF vars, Run!vars, StatusOf, ProcessOf, Watched, Misread, Doubted, Exited
  <2> QED
    BY <2>1, RunnerRuns, ReaderRuns DEF Next
<1> QED
  BY DInvInit, DInvStep, RunInit, <1>1, PTL DEF Spec, FollowsDurableRun, Run!Spec

-----------------------------------------------------------------------------
(* What the abstract run promises follows from its steps alone, so it holds *)
(* of whatever implements it.                                               *)

PromiseInv ==
  /\ StatusOf \in [Runs -> {"absent", "created", "running", "orphaned"} \cup TERMINAL_STATES]
  /\ ProcessOf \in [Runs -> {"none", "alive", "gone"}]
  /\ origin \in [Runs -> Runs \cup {NoRun}]
  /\ Run!NoTwins
  /\ \A r \in Runs :
       /\ origin[r] # r
       /\ StatusOf[r] \in Run!EndStates => ProcessOf[r] = "gone"
       /\ StatusOf[r] = "blocked" =>
            (ProcessOf[r] = "none" /\ r \notin Watched) \/ ProcessOf[r] = "gone"
       /\ StatusOf[r] = "interrupted" => ProcessOf[r] = "gone" \/ r \in Doubted

(* The steps of the abstract run keep it.                                   *)
LEMMA PromiseStep == PromiseInv /\ [Run!Next]_(Run!vars) => PromiseInv'
<1> SUFFICES ASSUME PromiseInv, [Run!Next]_(Run!vars) PROVE PromiseInv'
  OBVIOUS
<1> USE DEF PromiseInv, TERMINAL_STATES, Run!EndStates, Run!NoTwins, Run!Records, Run!Process,
            Run!Fresh
<1>1. ASSUME NEW r \in Runs, NEW p \in Runs, Run!Repeat(r, p) PROVE PromiseInv'
  BY <1>1 DEF Run!Repeat
<1>2. ASSUME NEW r \in Runs, Run!Begin(r) \/ Run!Create(r) \/ Run!Exit(r) \/ Run!Note(r)
      PROVE  PromiseInv'
  BY <1>2 DEF Run!Begin, Run!Create, Run!Exit, Run!Note
<1>3. ASSUME NEW r \in Runs, Run!Launch(r) PROVE PromiseInv'
  BY <1>3 DEF Run!Launch
<1>4. ASSUME NEW r \in Runs, Run!End(r) PROVE PromiseInv'
  BY <1>4 DEF Run!End
<1>5. ASSUME NEW r \in Runs, Run!Lose(r) PROVE PromiseInv'
  BY <1>5 DEF Run!Lose
<1>6. ASSUME NEW r \in Runs, Run!Judge(r) PROVE PromiseInv'
  BY <1>6 DEF Run!Judge
<1>7. CASE Run!Abandon
  BY <1>7 DEF Run!Abandon
<1>8. CASE UNCHANGED Run!vars
  BY <1>8 DEF Run!vars
<1> QED
  BY <1>1, <1>2, <1>3, <1>4, <1>5, <1>6, <1>7, <1>8 DEF Run!Next

(* No run is repeated beside its live process, and no end is recorded that  *)
(* did not happen, unless the run is doubted: whoever implements DurableRun.*)
THEOREM DurableRunPromises == FollowsDurableRun => [](Run!NoTwins /\ Run!EndsHonest)
<1>1. Run!Init => PromiseInv
  BY RuntimeRunAssumption DEF Run!Init, PromiseInv, Run!NoTwins, Run!EndStates
<1>2. PromiseInv => Run!NoTwins /\ Run!EndsHonest
  BY DEF PromiseInv, Run!EndsHonest, Run!EndStates
<1> QED
  BY <1>1, <1>2, PromiseStep, PTL DEF FollowsDurableRun, Run!Spec
=============================================================================
