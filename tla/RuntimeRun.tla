------------------------------ MODULE RuntimeRun ------------------------------
(***************************************************************************)
(* runtime_runner: one command run under a durable record (state.json),    *)
(* and the processes that look at that record without the runner knowing:  *)
(* recovery (reconcile_run), cancellation (request_cancel) and retry       *)
(* (retry_run).  The runner (run_persistent_command) may die between any   *)
(* two of its writes; its child is in a session of its own and lives on.   *)
(* A reader of the record is one command of the CLI: it reads, asks the    *)
(* operating system about the pid, writes its verdict, and, for a retry,   *)
(* reads again and starts a new run, all in separate steps.                *)
(***************************************************************************)
EXTENDS Integers, FiniteSets

CONSTANTS
  Runs,      \* run ids, one directory of the runtime root each
  Root,      \* the run started first; the others are retries
  Recoverers, Retriers,  \* commands that may recover or retry a run, each executed once
  NoRun

ASSUME RuntimeRunAssumption == Root \in Runs /\ NoRun \notin Runs

TERMINAL_STATES == {"success", "failed", "timed_out", "cancelled", "blocked", "interrupted"}
ACTIVE_STATES == {"created", "running", "orphaned"}

Readers == Recoverers \cup Retriers
Purposes(p) ==
  {why \in {"recover", "retry"} : p \in IF why = "retry" THEN Retriers ELSE Recoverers}

VARIABLES
  state,    \* state.json of a run: its status and whether it names a pid
  runner,   \* where the runner of a run is
  stopped,  \* why its loop terminated the child: "no", "cancelled", "timed_out"
  child,    \* the process: "none", "alive", "ok" (exit status 0) or "bad"
  cancel,   \* the control file CANCEL
  origin,   \* retry_of
  reader,   \* a reader's step, run, purpose, snapshot of the record and verdict
  blind     \* history: runs declared dead by a reader whose snapshot had no pid

vars == <<state, runner, stopped, child, cancel, origin, reader, blind>>

Record(status, pid) == [status |-> status, pid |-> pid]
NoRecord == Record("absent", FALSE)
Records == [status : {"absent"} \cup ACTIVE_STATES \cup TERMINAL_STATES, pid : BOOLEAN]

RunnerSteps == {"none", "create", "launch", "record", "monitor", "ended", "done", "dead"}
ReaderSteps == {"idle", "read", "decide", "write", "reread", "done"}

ReaderStates ==
  [step : ReaderSteps, run : Runs \cup {NoRun}, purpose : {"none", "recover", "retry"},
   seen : Records, verdict : {"none", "unchanged", "orphaned", "interrupted"}]

IdleReader == [step |-> "idle", run |-> NoRun, purpose |-> "none",
               seen |-> NoRecord, verdict |-> "none"]

TypeOK ==
  /\ state \in [Runs -> Records]
  /\ runner \in [Runs -> RunnerSteps]
  /\ stopped \in [Runs -> {"no", "cancelled", "timed_out"}]
  /\ child \in [Runs -> {"none", "alive", "ok", "bad"}]
  /\ cancel \in [Runs -> BOOLEAN]
  /\ origin \in [Runs -> Runs \cup {NoRun}]
  /\ reader \in [Readers -> ReaderStates]
  /\ blind \subseteq Runs

Init ==
  /\ state = [r \in Runs |-> NoRecord]
  /\ runner = [r \in Runs |-> IF r = Root THEN "create" ELSE "none"]
  /\ stopped = [r \in Runs |-> "no"]
  /\ child = [r \in Runs |-> "none"]
  /\ cancel = [r \in Runs |-> FALSE]
  /\ origin = [r \in Runs |-> NoRun]
  /\ reader = [p \in Readers |-> IdleReader]
  /\ blind = {}

-----------------------------------------------------------------------------
(* The runner.  Its journal keeps the record in memory and every update     *)
(* writes all of it, over whatever a reader has written meanwhile.          *)

Proceed(r, from, to) == runner[r] = from /\ runner' = [runner EXCEPT ![r] = to]
Update(r, status, pid) == state' = [state EXCEPT ![r] = Record(status, pid)]

Exited(r) == child[r] \in {"ok", "bad"}

(* mkdir(exist_ok=False), spec.json and the first record.                   *)
Create(r) ==
  /\ Proceed(r, "create", "launch")
  /\ Update(r, "created", FALSE)
  /\ UNCHANGED <<stopped, child, cancel, origin, reader, blind>>

(* Popen raises, or the command does not even parse.                        *)
LaunchFails(r) ==
  /\ Proceed(r, "launch", "done")
  /\ Update(r, "blocked", FALSE)
  /\ UNCHANGED <<stopped, child, cancel, origin, reader, blind>>

Launch(r) ==
  /\ Proceed(r, "launch", "record")
  /\ child' = [child EXCEPT ![r] = "alive"]
  /\ UNCHANGED <<state, stopped, cancel, origin, reader, blind>>

(* journal.update(status="running", pid=process.pid, ...)                   *)
RecordPid(r) ==
  /\ Proceed(r, "record", "monitor")
  /\ Update(r, "running", TRUE)
  /\ UNCHANGED <<stopped, child, cancel, origin, reader, blind>>

(* The child has not been seen to exit: heartbeat and resource summary.     *)
Heartbeat(r) ==
  /\ runner[r] = "monitor"
  /\ Update(r, "running", TRUE)
  /\ UNCHANGED <<runner, stopped, child, cancel, origin, reader, blind>>

(* process.poll() returns a status: the loop ends.                          *)
SeeExit(r) ==
  /\ Exited(r)
  /\ Proceed(r, "monitor", "ended")
  /\ UNCHANGED <<state, stopped, child, cancel, origin, reader, blind>>

(* The loop stops the child; SIGTERM may still let it exit with 0, and a    *)
(* child that has exited since poll() keeps its status.                     *)
Stop(r, why) ==
  /\ Proceed(r, "monitor", "ended")
  /\ stopped' = [stopped EXCEPT ![r] = why]
  /\ \E result \in {"ok", "bad"} :
       child' = [child EXCEPT ![r] = IF @ = "alive" THEN result ELSE @]
  /\ UNCHANGED <<state, cancel, origin, reader, blind>>

(* CANCEL is there.                                                         *)
SeeCancel(r) == cancel[r] /\ Stop(r, "cancelled")

(* The runner's own process gets a KeyboardInterrupt in its loop.           *)
KeyboardInterrupt(r) == Stop(r, "cancelled")

\* Mutant: the clock is only looked at when the child has exited.
SeeTimeoutLate(r) == ~ cancel[r] /\ Exited(r) /\ Stop(r, "timed_out")

(* CANCEL is looked at before the clock.                                    *)
SeeTimeout(r) == ~ cancel[r] /\ Stop(r, "timed_out")

\* Mutant: a cancelled or timed-out child that exits with 0 counts as success.
OutcomeByExit(r) ==
  IF child[r] = "ok" THEN "success"
  ELSE IF stopped[r] # "no" THEN stopped[r]
  ELSE "failed"

Outcome(r) ==
  IF stopped[r] # "no" THEN stopped[r]
  ELSE IF child[r] = "ok" THEN "success"
  ELSE "failed"

(* The final journal.update.                                                *)
Finish(r) ==
  /\ Proceed(r, "ended", "done")
  /\ Update(r, Outcome(r), TRUE)
  /\ UNCHANGED <<stopped, child, cancel, origin, reader, blind>>

(* The runner's process dies; the child does not.                           *)
Crash(r) ==
  /\ runner[r] \in {"launch", "record", "monitor", "ended"}
  /\ runner' = [runner EXCEPT ![r] = "dead"]
  /\ UNCHANGED <<state, stopped, child, cancel, origin, reader, blind>>

(* The child exits by itself.                                               *)
ChildExits(r) ==
  /\ child[r] = "alive"
  /\ \E result \in {"ok", "bad"} : child' = [child EXCEPT ![r] = result]
  /\ UNCHANGED <<state, runner, stopped, cancel, origin, reader, blind>>

-----------------------------------------------------------------------------
(* request_cancel: terminal and orphaned runs get no control file.          *)
RequestCancel(r) ==
  /\ state[r].status \in {"created", "running"}
  /\ cancel' = [cancel EXCEPT ![r] = TRUE]
  /\ UNCHANGED <<state, runner, stopped, child, origin, reader, blind>>

(* A recover or retry command picks a run whose state.json exists.          *)
Begin(p) ==
  /\ reader[p].step = "idle"
  /\ \E r \in Runs, why \in Purposes(p) :
       /\ state[r] # NoRecord
       /\ reader' = [reader EXCEPT ![p] =
                       [IdleReader EXCEPT !.step = "read", !.run = r, !.purpose = why]]
  /\ UNCHANGED <<state, runner, stopped, child, cancel, origin, blind>>

(* reconcile_run: read_json(state_path).                                    *)
Read(p) ==
  /\ reader[p].step = "read"
  /\ reader' = [reader EXCEPT ![p].step = "decide", ![p].seen = state[reader[p].run]]
  /\ UNCHANGED <<state, runner, stopped, child, cancel, origin, blind>>

(* pid_is_alive on the snapshot's pid.  A child that has exited but has not *)
(* been polled is a zombie for os.kill(pid, 0) and gone for Windows.        *)
SeenAlive(p) ==
  LET r == reader[p].run IN
  IF ~ reader[p].seen.pid THEN {FALSE}
  ELSE IF child[r] = "alive" THEN {TRUE}
  ELSE IF Exited(r) /\ runner[r] \in {"record", "monitor"} THEN BOOLEAN
  ELSE {FALSE}

\* Mutant: a live process with a stale heartbeat is declared interrupted.
VerdictForgetsOrphans(status, alive, fresh) ==
  IF status \notin ACTIVE_STATES THEN "unchanged"
  ELSE IF alive /\ (fresh \/ status = "orphaned") THEN "unchanged"
  ELSE "interrupted"

\* Mutant: a dead process is left alone unless its heartbeat is stale.
VerdictTrustsHeartbeat(status, alive, fresh) ==
  IF status \notin ACTIVE_STATES \/ fresh THEN "unchanged"
  ELSE IF alive THEN "orphaned"
  ELSE "interrupted"

(* fresh: the heartbeat is at most stale_after_seconds old.  That bound is  *)
(* 0 for the queue and 30 by default, the runner may be arbitrarily late:   *)
(* both answers are possible.                                               *)
Verdict(status, alive, fresh) ==
  IF status \notin ACTIVE_STATES THEN "unchanged"
  ELSE IF ~ alive THEN "interrupted"
  ELSE IF fresh \/ status = "orphaned" THEN "unchanged"
  ELSE "orphaned"

AfterReconcile(p) == IF reader[p].purpose = "retry" THEN "reread" ELSE "done"

Decide(p) ==
  /\ reader[p].step = "decide"
  /\ \E alive \in SeenAlive(p), fresh \in BOOLEAN :
       LET v == Verdict(reader[p].seen.status, alive, fresh) IN
       /\ reader' = [reader EXCEPT
            ![p].verdict = v,
            ![p].step = IF v = "unchanged" THEN AfterReconcile(p) ELSE "write"]
       /\ blind' = IF v = "interrupted" /\ ~ reader[p].seen.pid
                   THEN blind \cup {reader[p].run} ELSE blind
  /\ UNCHANGED <<state, runner, stopped, child, cancel, origin>>

(* atomic_write_json of the snapshot with the new status.                   *)
Write(p) ==
  /\ reader[p].step = "write"
  /\ Update(reader[p].run, reader[p].verdict, reader[p].seen.pid)
  /\ reader' = [reader EXCEPT ![p].step = AfterReconcile(p)]
  /\ UNCHANGED <<runner, stopped, child, cancel, origin, blind>>

(* retry_run reads the record again; active, orphaned and (without          *)
(* allow_success_retry) successful runs are refused ...                     *)
Refuse(p) ==
  /\ reader[p].step = "reread"
  /\ state[reader[p].run].status \in ACTIVE_STATES \cup {"success"}
  /\ reader' = [reader EXCEPT ![p].step = "done"]
  /\ UNCHANGED <<state, runner, stopped, child, cancel, origin, blind>>

\* Mutant: a retry does not refuse an orphaned run.
RetryOrphans(p) ==
  /\ reader[p].step = "reread"
  /\ state[reader[p].run].status \notin {"created", "running", "success"}
  /\ \E r \in Runs :
       /\ Proceed(r, "none", "create")
       /\ origin' = [origin EXCEPT ![r] = reader[p].run]
  /\ reader' = [reader EXCEPT ![p].step = "done"]
  /\ UNCHANGED <<state, stopped, child, cancel, blind>>

(* ... anything else is run again under a new run id.                       *)
Retry(p) ==
  /\ reader[p].step = "reread"
  /\ state[reader[p].run].status \notin ACTIVE_STATES \cup {"success"}
  /\ \E r \in Runs :
       /\ Proceed(r, "none", "create")
       /\ origin' = [origin EXCEPT ![r] = reader[p].run]
  /\ reader' = [reader EXCEPT ![p].step = "done"]
  /\ UNCHANGED <<state, stopped, child, cancel, blind>>

-----------------------------------------------------------------------------
RunnerStep(r) ==
  \/ Create(r) \/ LaunchFails(r) \/ Launch(r) \/ RecordPid(r)
  \/ SeeExit(r) \/ SeeCancel(r) \/ SeeTimeout(r) \/ Finish(r)

ReaderStep(p) == Read(p) \/ Decide(p) \/ Write(p) \/ Refuse(p) \/ Retry(p)

Next ==
  \/ \E r \in Runs :
       \/ RunnerStep(r) \/ Heartbeat(r) \/ KeyboardInterrupt(r) \/ Crash(r)
       \/ ChildExits(r) \/ RequestCancel(r)
  \/ \E p \in Readers : Begin(p) \/ ReaderStep(p)

Spec == Init /\ [][Next]_vars

(* A live runner goes on: its loop wakes every 0.05 s and always reaches    *)
(* the exit of the child or its positive timeout.  A command once started   *)
(* goes on too.  Children need not exit, nobody need cancel or recover.     *)
FairSpec ==
  /\ Spec
  /\ \A r \in Runs : WF_vars(RunnerStep(r))
  /\ \A p \in Readers : WF_vars(ReaderStep(p))

-----------------------------------------------------------------------------
(* "A live process [...] Do not launch a duplicate": a retry runs beside    *)
(* its live parent only if some reader declared the parent dead from a      *)
(* record that had no pid yet.  Where the pid is recorded, orphan marking   *)
(* protects a live child against every interleaving of recoveries, retries, *)
(* runner crashes and late writes.                                          *)
NoDuplicateUnlessBlind ==
  \A r, s \in Runs :
    origin[s] = r /\ child[s] = "alive" /\ child[r] = "alive" => r \in blind

(* What a record says of a finished command happened: success only of a     *)
(* child that exited with 0 and was not stopped, and no terminal record of  *)
(* a live child, unless it was declared dead blindly.                       *)
RecordHonest ==
  \A r \in Runs :
    /\ state[r].status = "success" => child[r] = "ok" /\ stopped[r] = "no"
    /\ state[r].status \in TERMINAL_STATES => child[r] # "alive" \/ r \in blind

(* Every run ends, by itself, by cancellation or by its timeout, unless its *)
(* runner dies.                                                             *)
RunEnds == \A r \in Runs : (runner[r] = "create") ~> (runner[r] \in {"done", "dead"})

(* One recovery after the runner and its child are gone settles the record. *)
RecoverySettles ==
  \A r \in Runs :
    (/\ runner[r] = "dead" /\ child[r] # "alive"
     /\ \E p \in Readers : reader[p].step = "read" /\ reader[p].run = r)
      ~> (state[r].status \in TERMINAL_STATES)

(* "Successful runs are not retryable unless the caller explicitly allows": *)
(* a reader's late write replaces the runner's success by interrupted.      *)
SuccessNotRetried ==
  [][\A r, s \in Runs :
       origin[s] # r /\ origin'[s] = r => ~ (runner[r] = "done" /\ Outcome(r) = "success")]_vars

-----------------------------------------------------------------------------
(* A run as its record tells it to others: see DurableRun.  A run is        *)
(* doubted as soon as a reader has read a record without a pid: it will     *)
(* declare it dead.                                                         *)
StatusOf == [r \in Runs |-> state[r].status]
ProcessOf == [r \in Runs |-> IF Exited(r) THEN "gone" ELSE child[r]]
Watched == {r \in Runs : runner[r] \notin {"none", "done", "dead"}}
Misread ==
  {p \in Readers : reader[p].step = "decide" /\ reader[p].seen.status = "created"
                                           /\ ~ reader[p].seen.pid}
Doubted == blind \cup {reader[p].run : p \in Misread}

(* Whatever the runner, its child, its death and the readers do, in any     *)
(* order: one launch, an end recorded only by who watched it, verdicts      *)
(* that the process bears out, and no repetition beside a live process      *)
(* that a record had named.                                                 *)
Run ==
  INSTANCE DurableRun WITH
    record <- StatusOf, process <- ProcessOf, watched <- Watched, doubted <- Doubted
FollowsDurableRun == Run!Spec
=============================================================================
