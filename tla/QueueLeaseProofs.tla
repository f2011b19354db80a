--------------------------- MODULE QueueLeaseProofs ---------------------------
(***************************************************************************)
(* For any set of writers, the lease is exclusive until some process goes  *)
(* through the stale-file branch.  Inductive strengthening: until then the *)
(* file at the path is the one of the process between its O_EXCL create    *)
(* and its own unlink, so there is at most one such process, dead or alive.*)
(***************************************************************************)
EXTENDS QueueLease, TLAPS

Owning == {"hold", "check", "drop"}

FileIsOwners ==
  \A w \in Writers :
    /\ pc[w] = "write" => lock = Empty(w)
    /\ pc[w] \in Owning => lock = Payload(w)

(* A process about to try has a try left.                                   *)
TryLeft == \A w \in Writers : pc[w] \in {"idle", "open"} => tries[w] < Attempts

IInv == TypeOK /\ TryLeft /\ (takeovers = {} => FileIsOwners)

(* Whose payload a file has is determined by the file.                      *)
LEMMA FilesDiffer ==
  \A v, w \in Writers :
    /\ Empty(v) # Payload(w) /\ Absent # Empty(w) /\ Absent # Payload(w)
    /\ Payload(v) = Payload(w) => v = w
    /\ Empty(v) = Empty(w) => v = w
  BY QueueLeaseAssumption DEF Empty, Payload, Absent

(* The lease starts free.                                                   *)
LEMMA IInvInit == Init => IInv
  BY DEF Init, IInv, TypeOK, TryLeft, FileIsOwners, Absent, Steps, Owning, Attempts

(* Every step keeps the variables in their types and a try for the retry.   *)
LEMMA TypeStep == TypeOK /\ TryLeft /\ [Next]_vars => TypeOK' /\ TryLeft'
<1> SUFFICES ASSUME TypeOK, TryLeft, [Next]_vars PROVE TypeOK' /\ TryLeft'
  OBVIOUS
<1> USE DEF TypeOK, TryLeft, Goto, At, Steps, Attempts
<1>1. ASSUME NEW w \in Writers, Begin(w) PROVE TypeOK' /\ TryLeft'
  BY <1>1 DEF Begin
<1>2. ASSUME NEW w \in Writers, Create(w) PROVE TypeOK' /\ TryLeft'
  BY <1>2 DEF Create
<1>3. ASSUME NEW w \in Writers, Exists(w) PROVE TypeOK' /\ TryLeft'
  BY <1>3 DEF Exists
<1>4. ASSUME NEW w \in Writers, Probe(w) PROVE TypeOK' /\ TryLeft'
  BY <1>4 DEF Probe
<1>5. ASSUME NEW w \in Writers, Read(w) PROVE TypeOK' /\ TryLeft'
  BY <1>5 DEF Read
<1>6. ASSUME NEW w \in Writers, TakeOver(w) PROVE TypeOK' /\ TryLeft'
  BY <1>6 DEF TakeOver
<1>7. ASSUME NEW w \in Writers, WritePayload(w) PROVE TypeOK' /\ TryLeft'
  BY <1>7 DEF WritePayload
<1>8. ASSUME NEW w \in Writers, Heartbeat(w) PROVE TypeOK' /\ TryLeft'
  BY <1>8 DEF Heartbeat
<1>9. ASSUME NEW w \in Writers, Finish(w) PROVE TypeOK' /\ TryLeft'
  BY <1>9 DEF Finish
<1>10. ASSUME NEW w \in Writers, Check(w) PROVE TypeOK' /\ TryLeft'
  BY <1>10 DEF Check
<1>11. ASSUME NEW w \in Writers, Drop(w) PROVE TypeOK' /\ TryLeft'
  BY <1>11 DEF Drop
<1>12. ASSUME NEW w \in Writers, Crash(w) PROVE TypeOK' /\ TryLeft'
  BY <1>12 DEF Crash
<1>13. CASE UNCHANGED vars
  BY <1>13 DEF vars
<1> QED
  BY <1>1, <1>2, <1>3, <1>4, <1>5, <1>6, <1>7, <1>8, <1>9, <1>10, <1>11, <1>12, <1>13
     DEF Next, Acquiring, Releasing

(* Until a takeover, only the process that owns the file changes it.        *)
LEMMA FileStep ==
  IInv /\ [Next]_vars => (takeovers' = {} => FileIsOwners')
<1> SUFFICES ASSUME IInv, [Next]_vars, takeovers' = {} PROVE FileIsOwners'
  OBVIOUS
<1>1. TypeOK /\ takeovers \subseteq takeovers'
  <2>1. ASSUME NEW w \in Writers,
               Begin(w) \/ Acquiring(w) \/ Heartbeat(w) \/ Finish(w) \/ Releasing(w) \/ Crash(w)
        PROVE  takeovers \subseteq takeovers'
    BY <2>1 DEF Begin, Acquiring, Create, Exists, Probe, Read, TakeOver, WritePayload,
                Heartbeat, Finish, Releasing, Check, Drop, Crash
  <2> QED
    BY <2>1 DEF IInv, Next, vars
<1>2. takeovers = {} /\ FileIsOwners
  BY <1>1 DEF IInv
<1> USE DEF FileIsOwners, Owning, Goto, At
<1>3. ASSUME NEW w \in Writers, Begin(w) PROVE FileIsOwners'
  BY <1>1, <1>2, <1>3 DEF Begin, TypeOK
<1>4. ASSUME NEW w \in Writers, Create(w) PROVE FileIsOwners'
  BY <1>1, <1>2, FilesDiffer, <1>4 DEF Create, TypeOK
<1>5. ASSUME NEW w \in Writers, Exists(w) PROVE FileIsOwners'
  BY <1>1, <1>2, <1>5 DEF Exists, TypeOK
<1>6. ASSUME NEW w \in Writers, Probe(w) PROVE FileIsOwners'
  BY <1>1, <1>2, <1>6 DEF Probe, TypeOK
<1>7. ASSUME NEW w \in Writers, Read(w) PROVE FileIsOwners'
  BY <1>1, <1>2, <1>7 DEF Read, TypeOK
<1>8. ASSUME NEW w \in Writers, TakeOver(w) PROVE FileIsOwners'
  BY <1>1, <1>8 DEF TakeOver, TypeOK
<1>9. ASSUME NEW w \in Writers, WritePayload(w) PROVE FileIsOwners'
  BY <1>1, <1>2, FilesDiffer, <1>9 DEF WritePayload, TypeOK
<1>10. ASSUME NEW w \in Writers, Heartbeat(w) PROVE FileIsOwners'
  BY <1>1, <1>2, FilesDiffer, <1>10 DEF Heartbeat, TypeOK
<1>11. ASSUME NEW w \in Writers, Finish(w) PROVE FileIsOwners'
  BY <1>1, <1>2, <1>11 DEF Finish, TypeOK
<1>12. ASSUME NEW w \in Writers, Check(w) PROVE FileIsOwners'
  BY <1>1, <1>2, <1>12 DEF Check, TypeOK
<1>13. ASSUME NEW w \in Writers, Drop(w) PROVE FileIsOwners'
  BY <1>1, <1>2, FilesDiffer, <1>13 DEF Drop, TypeOK
<1>14. ASSUME NEW w \in Writers, Crash(w) PROVE FileIsOwners'
  BY <1>1, <1>2, <1>14 DEF Crash, TypeOK
<1>15. CASE UNCHANGED vars
  BY <1>2, <1>15 DEF vars, Empty, Payload
<1> QED
  BY <1>3, <1>4, <1>5, <1>6, <1>7, <1>8, <1>9, <1>10, <1>11, <1>12, <1>13, <1>14, <1>15
     DEF Next, Acquiring, Releasing

(* Together: the strengthening is inductive.                                *)
LEMMA IInvStep == IInv /\ [Next]_vars => IInv'
  BY TypeStep, FileStep DEF IInv

(* While nobody has taken over, a live holder's file is changed by its own  *)
(* unlink only.                                                             *)
LEMMA HolderStep ==
  ASSUME IInv, Next, NEW w \in Writers,
         takeovers' = {}, Holds(w), lock = Payload(w), lock' # lock
  PROVE  pc[w] = "drop" /\ pc'[w] = "done"
<1>1. PICK v \in Writers :
        Begin(v) \/ Acquiring(v) \/ Heartbeat(v) \/ Finish(v) \/ Releasing(v) \/ Crash(v)
  BY DEF Next
<1>2. TypeOK
  BY DEF IInv
<1>3. takeovers = {} /\ FileIsOwners
  BY <1>1 DEF IInv, Begin, Acquiring, Create, Exists, Probe, Read, TakeOver, WritePayload,
              Heartbeat, Finish, Releasing, Check, Drop, Crash
<1>4. CASE Acquiring(v)
  <2>1. ~ Create(v)
    BY FilesDiffer DEF Create
  <2>2. ~ TakeOver(v)
    BY DEF TakeOver
  <2>3. ~ WritePayload(v)
    BY FilesDiffer DEF WritePayload
  <2> QED
    BY <1>4, <2>1, <2>2, <2>3 DEF Acquiring, Exists, Probe, Read
<1>5. CASE Heartbeat(v)
  BY <1>3, <1>5, FilesDiffer DEF Heartbeat, At, FileIsOwners, Owning
<1>6. CASE Releasing(v)
  <2>1. Drop(v)
    BY <1>6 DEF Releasing, Check
  <2>2. v = w
    BY <2>1, <1>3, FilesDiffer DEF Drop, At, FileIsOwners, Owning
  <2> QED
    BY <2>1, <2>2, <1>2 DEF Drop, At, Goto, TypeOK
<1> QED
  BY <1>1, <1>4, <1>5, <1>6 DEF Begin, Finish, Crash

(* The variables keep their types for any set of writers.                   *)
THEOREM LeaseTyped == Spec => []TypeOK
<1>1. IInv => TypeOK
  BY DEF IInv
<1> QED
  BY IInvInit, IInvStep, <1>1, PTL DEF Spec

(* With any number of processes acquiring, heartbeating, releasing and      *)
(* dying, two hold the lease only after a stale-file takeover.              *)
THEOREM LeaseExclusiveUntilTakeover == Spec => []ExclusiveUntilTakeover
<1>1. IInv => ExclusiveUntilTakeover
  BY FilesDiffer DEF IInv, ExclusiveUntilTakeover, Exclusive, Holds, FileIsOwners, Owning
<1> QED
  BY IInvInit, IInvStep, <1>1, PTL DEF Spec

(* Until a takeover a holder's lock file is removed by its own release()    *)
(* and by nothing else.                                                     *)
THEOREM LeaseFileKept == Spec => HolderKeepsFile
<1>1. IInv /\ [Next]_vars =>
        [\A w \in Writers :
           takeovers' = {} /\ Holds(w) /\ lock = Payload(w) /\ lock' # lock
             => pc[w] = "drop" /\ pc'[w] = "done"]_vars
  BY HolderStep
<1> QED
  BY IInvInit, IInvStep, <1>1, PTL DEF Spec, HolderKeepsFile
=============================================================================
