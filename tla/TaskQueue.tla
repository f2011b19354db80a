------------------------------ MODULE TaskQueue ------------------------------
(***************************************************************************)
(* task_queue.run_queue: the scheduler of a durable research queue, with   *)
(* its worker threads, the commands that change the queue between its runs *)
(* (add, retry, recover), the cancel command that needs no lease, and      *)
(* crashes.  A job is its position in the queue's list.  Every transition  *)
(* of a job is written to queue.json at once, so a crash loses only what   *)
(* the scheduler keeps in its own variables.  That one process at a time   *)
(* holds the lease is taken from QueueLease; run_persistent_command and    *)
(* reconcile_run appear with the steps of RuntimeRun a scheduler can tell  *)
(* apart.                                                                  *)
(***************************************************************************)
EXTENDS Integers, Sequences, FiniteSets, Functions

CONSTANTS
  N,            \* how many jobs the queue may ever have
  Resources,    \* cpu_slots, gpu_slots, memory_mib
  Specs,        \* the job specs that may be added
  Budgets,      \* the totals a scheduler may be started with
  FailFasts,    \* whether it may be started with --fail-fast, without, or both
  MaxWorkers,
  Outcomes,     \* how a run may end that is not cancelled
  Markable,     \* the jobs somebody may want to cancel
  Breakable,    \* the jobs whose worker, or the writing of whose start or result, may raise
  Fragile       \* the steps at which the scheduler may be interrupted or die

Jobs == 1 .. N
Amounts == [Resources -> Nat]

ASSUME TaskQueueAssumption ==
  /\ N \in Nat
  /\ MaxWorkers \in Nat \ {0}
  /\ Budgets \subseteq Amounts
  /\ FailFasts \subseteq BOOLEAN
  /\ Outcomes \subseteq {"success", "failed", "timed_out"}
  /\ Markable \subseteq Jobs
  /\ Breakable \subseteq Jobs
  /\ Specs \subseteq [deps : Seq(Jobs), request : Amounts, priority : Int]

JOB_TERMINAL_STATES ==
  {"success", "failed", "timed_out", "cancelled", "blocked", "interrupted", "skipped"}
JOB_ACTIVE_STATES == {"queued", "running", "orphaned"}
FAILURE_STATES == JOB_TERMINAL_STATES \ {"success"}

VARIABLES
  \* queue.json, written at every transition
  entry,         \* what a job was added with, and the job it is a retry of
  status,        \* its status, "absent" for a position not used yet
  marker,        \* control/cancel: the jobs with a cancel marker
  \* the runtime root: one run per launched job
  record,        \* state.json of the job's run
  child,         \* its process: "none", "alive" or "gone"
  cancelFile,    \* the runs with a control file CANCEL
  \* the scheduler's process
  worker,        \* the step of a job's worker thread
  pc,            \* where the scheduler is
  at,            \* the job its loop over the jobs has come to
  totals,        \* its resource budget
  available,     \* what of it is not in use
  futures,       \* the jobs whose workers have not been collected
  batch,         \* those of them the current pass found done
  failFast,
  failureSeen,
  launched,      \* whether this round has launched a job
  candidates,    \* the jobs its scan for launches has not come to
  \* history
  launches,      \* how often a job was launched
  early,         \* jobs marked while they were queued and no scheduler ran
  blind          \* jobs settled while nobody could tell whether they still run

queueVars == <<entry, status, marker>>
runVars == <<record, child, cancelFile>>
loopVars == <<at, totals, available, futures, batch, failFast, failureSeen, launched,
              candidates>>
history == <<launches, early, blind>>
vars == <<queueVars, runVars, worker, pc, loopVars, history>>

LoopSteps ==
  {"markers", "collect", "rejudge", "skip", "failfast", "launch", "decide", "giveup"}
Steps == {"down", "recover", "reconcile", "admit", "abort"} \cup LoopSteps
LiveWorker == {"submitted", "created", "launched", "monitor"}
EndedWorker == {"returned", "raised"}

NoJob == 0
Nothing == [r \in Resources |-> 0]
Unlisted == [deps |-> <<>>, request |-> Nothing, priority |-> 0, parent |-> NoJob]

Entries == [deps : Seq(Jobs), request : Amounts, priority : Int, parent : 0 .. N]
Statuses == {"absent"} \cup JOB_ACTIVE_STATES \cup JOB_TERMINAL_STATES
RunStatuses == {"absent", "created", "running", "orphaned"}
                 \cup (JOB_TERMINAL_STATES \ {"skipped"})

QueueTyped ==
  /\ entry \in [Jobs -> Entries]
  /\ status \in [Jobs -> Statuses]
  /\ marker \subseteq Jobs

RunTyped ==
  /\ record \in [Jobs -> RunStatuses]
  /\ child \in [Jobs -> {"none", "alive", "gone"}]
  /\ cancelFile \subseteq Jobs
  /\ worker \in [Jobs -> {"none", "dead"} \cup LiveWorker \cup EndedWorker]

LoopTyped ==
  /\ pc \in Steps
  /\ at \in 0 .. N
  /\ totals \in Amounts
  /\ available \in Amounts
  /\ futures \subseteq Jobs
  /\ batch \subseteq futures
  /\ failFast \in BOOLEAN
  /\ failureSeen \in BOOLEAN
  /\ launched \in BOOLEAN
  /\ candidates \subseteq Jobs

HistoryTyped ==
  /\ launches \in [Jobs -> Nat]
  /\ early \subseteq Jobs
  /\ blind \subseteq Jobs

TypeOK == QueueTyped /\ RunTyped /\ LoopTyped /\ HistoryTyped

Init ==
  /\ entry = [j \in Jobs |-> Unlisted]
  /\ status = [j \in Jobs |-> "absent"]
  /\ marker = {}
  /\ record = [j \in Jobs |-> "absent"]
  /\ child = [j \in Jobs |-> "none"]
  /\ cancelFile = {}
  /\ worker = [j \in Jobs |-> "none"]
  /\ pc = "down"
  /\ at = 0
  /\ totals = Nothing
  /\ available = Nothing
  /\ futures = {}
  /\ batch = {}
  /\ failFast = FALSE
  /\ failureSeen = FALSE
  /\ launched = FALSE
  /\ candidates = {}
  /\ launches = [j \in Jobs |-> 0]
  /\ early = {}
  /\ blind = {}

Becomes(j, s) == status' = [status EXCEPT ![j] = s]
DependsOn(j) == Range(entry[j].deps)
InState(S) == {j \in Jobs : status[j] \in S}
First(S) == {j \in S : \A i \in S : j <= i}
Fits(request, amount) == \A r \in Resources : request[r] <= amount[r]

(* A scheduler that ends, or whose process dies, leaves no variables.       *)
Ends ==
  /\ pc' = "down"
  /\ at' = 0
  /\ totals' = Nothing
  /\ available' = Nothing
  /\ futures' = {}
  /\ batch' = {}
  /\ failFast' = FALSE
  /\ failureSeen' = FALSE
  /\ launched' = FALSE
  /\ candidates' = {}

-----------------------------------------------------------------------------
(* The commands between two runs of the scheduler.                          *)

(* normalize_job_spec and the append: a job must not depend on itself, but  *)
(* it may depend on jobs that are not there (yet).                          *)
Enlist(j, e) ==
  /\ j \in First(InState({"absent"}))
  /\ j \notin Range(e.deps)
  /\ entry' = [entry EXCEPT ![j] = e]
  /\ Becomes(j, "queued")
  /\ UNCHANGED <<marker, runVars, worker, pc, loopVars, history>>

(* add_jobs, one job of the batch.                                          *)
AddJob(j) ==
  /\ pc = "down"
  /\ \E s \in Specs :
       Enlist(j, [deps |-> s.deps, request |-> s.request, priority |-> s.priority,
                  parent |-> NoJob])

(* retry_job: the clone of a terminal job under a new id and a new run id.  *)
(* A successful parent needs allow_success_retry, which the caller may give.*)
RetryJob(j) ==
  /\ pc = "down"
  /\ \E p \in InState(JOB_TERMINAL_STATES) :
       Enlist(j, [entry[p] EXCEPT !.parent = p])

(* request_job_cancel, without the lease and at any time; the status it     *)
(* read may have changed when it touches the marker.                        *)
CancelJob(j) ==
  /\ j \in Markable
  /\ status[j] # "absent"
  /\ marker' = marker \cup {j}
  /\ early' = IF pc = "down" /\ status[j] = "queued" THEN early \cup {j} ELSE early
  /\ UNCHANGED <<entry, status, runVars, worker, pc, loopVars, launches, blind>>

-----------------------------------------------------------------------------
(* The worker thread of a job, run_persistent_command; cf. RuntimeRun.      *)

Works(j, from, to) ==
  /\ j \in futures
  /\ worker[j] = from
  /\ worker' = [worker EXCEPT ![j] = to]

Records(j, s) == record' = [record EXCEPT ![j] = s]

WorkerCreates(j) ==
  /\ Works(j, "submitted", "created")
  /\ Records(j, "created")
  /\ UNCHANGED <<queueVars, child, cancelFile, pc, loopVars, history>>

WorkerCannotLaunch(j) ==
  /\ Works(j, "created", "returned")
  /\ Records(j, "blocked")
  /\ UNCHANGED <<queueVars, child, cancelFile, pc, loopVars, history>>

WorkerLaunches(j) ==
  /\ Works(j, "created", "launched")
  /\ child' = [child EXCEPT ![j] = "alive"]
  /\ UNCHANGED <<queueVars, record, cancelFile, pc, loopVars, history>>

WorkerRecordsPid(j) ==
  /\ Works(j, "launched", "monitor")
  /\ Records(j, "running")
  /\ UNCHANGED <<queueVars, child, cancelFile, pc, loopVars, history>>

\* Mutant: the process is signalled, and nobody waits for it.
WorkerReturnsEarly(j) ==
  /\ Works(j, "monitor", "returned")
  /\ \E s \in {"success", "failed", "timed_out", "cancelled"} :
       /\ IF s = "cancelled" THEN j \in cancelFile ELSE s \in Outcomes
       /\ Records(j, s)
  /\ UNCHANGED <<queueVars, child, cancelFile, pc, loopVars, history>>

(* The process exits or is stopped, and the final record says how.          *)
WorkerReturns(j) ==
  /\ Works(j, "monitor", "returned")
  /\ \E s \in {"success", "failed", "timed_out", "cancelled"} :
       /\ IF s = "cancelled" THEN j \in cancelFile ELSE s \in Outcomes
       /\ Records(j, s)
  /\ child' = [child EXCEPT ![j] = "gone"]
  /\ UNCHANGED <<queueVars, cancelFile, pc, loopVars, history>>

(* Any of its file operations may raise; the process is left as it is.      *)
WorkerRaises(j) ==
  /\ j \in Breakable
  /\ \E step \in LiveWorker : Works(j, step, "raised")
  /\ UNCHANGED <<queueVars, runVars, pc, loopVars, history>>

(* A process without a monitor exits; nobody records it.                    *)
OrphanExits(j) ==
  /\ child[j] = "alive"
  /\ worker[j] \in {"raised", "dead"}
  /\ child' = [child EXCEPT ![j] = "gone"]
  /\ UNCHANGED <<queueVars, record, cancelFile, worker, pc, loopVars, history>>

-----------------------------------------------------------------------------
(* run_queue and reconcile_queue: jobs that a previous scheduler left       *)
(* running or orphaned are reconciled with their runs, never run again.     *)

StartRun ==
  /\ pc = "down"
  /\ pc' = "reconcile"
  /\ totals' \in Budgets
  /\ failFast' \in FailFasts
  /\ UNCHANGED <<queueVars, runVars, worker, at, available, futures, batch, failureSeen,
                 launched, candidates, history>>

StartRecover ==
  /\ pc = "down"
  /\ pc' = "recover"
  /\ UNCHANGED <<queueVars, runVars, worker, loopVars, history>>

(* What a loop over the jobs has not come to yet.                           *)
Rest(S) == {j \in S : j > at}

\* Mutant: only orphans are reconciled, not what a dead scheduler left running.
LeftOrphans == InState({"orphaned"})

\* Mutant: whatever has a run is reconciled, settled or not.
LeftWithRuns ==
  InState({"running", "orphaned"}) \cup {j \in Jobs : record[j] # "absent"}

Left == InState({"running", "orphaned"})

\* Mutant: a process that is still alive is not told from one that is gone.
ReconciledForgetsOrphans(j) ==
  IF record[j] \in JOB_TERMINAL_STATES THEN record[j] ELSE "interrupted"

\* Mutant: a job whose run is gone is queued again.
ReconciledReplays(j) ==
  IF record[j] \in JOB_TERMINAL_STATES THEN record[j]
  ELSE IF record[j] \in {"running", "orphaned"} /\ child[j] = "alive" THEN "orphaned"
  ELSE "queued"

(* No state.json: interrupted.  Otherwise what reconcile_run makes of it; a *)
(* record without a pid is taken for dead.                                  *)
Reconciled(j) ==
  IF record[j] \in JOB_TERMINAL_STATES THEN record[j]
  ELSE IF record[j] \in {"running", "orphaned"} /\ child[j] = "alive" THEN "orphaned"
  ELSE "interrupted"

(* What reconcile_run leaves in the record: a process with a fresh heartbeat *)
(* is still said to be running, though its job is orphaned.                 *)
Rewritten(j) ==
  IF record[j] = "absent" THEN {"absent"}
  ELSE IF Reconciled(j) = "orphaned" THEN {record[j], "orphaned"}
  ELSE {Reconciled(j)}

Reconcile(j) ==
  /\ pc \in {"recover", "reconcile"}
  /\ j \in First(Rest(Left))
  /\ at' = j
  /\ Becomes(j, Reconciled(j))
  /\ \E s \in Rewritten(j) : record' = [record EXCEPT ![j] = s]
  /\ blind' = IF record[j] = "created" THEN blind \cup {j} ELSE blind
  /\ UNCHANGED <<entry, marker, child, cancelFile, worker, pc, totals, available, futures,
                 batch, failFast, failureSeen, launched, candidates, launches, early>>

EndReconcile ==
  /\ pc \in {"recover", "reconcile"}
  /\ Rest(Left) = {}
  /\ IF pc = "recover" THEN Ends ELSE pc' = "admit" /\ UNCHANGED loopVars
  /\ UNCHANGED <<queueVars, runVars, worker, history>>

-----------------------------------------------------------------------------
(* Admission: three loops over the queued jobs block what can never run.    *)

Cycles == INSTANCE DependencyCycles

Missing == {j \in InState({"queued"}) : \E d \in DependsOn(j) : status[d] = "absent"}

(* The graph of all listed jobs, whatever their status.                     *)
Listed(d) == status[d] # "absent"
ListedOf(deps) ==
  LET kept[n \in 0 .. Len(deps)] ==
        IF n = 0 THEN <<>>
        ELSE IF Listed(deps[n]) THEN Append(kept[n - 1], deps[n])
        ELSE kept[n - 1]
  IN  kept[Len(deps)]
Graph == [j \in Jobs |-> ListedOf(entry[j].deps)]
Cyclic == Cycles!CycleMembers(Graph) \cap InState({"queued"})

Oversize == {j \in InState({"queued"}) : ~ Fits(entry[j].request, totals)}

Block(j) ==
  /\ Becomes(j, "blocked")
  /\ UNCHANGED <<entry, marker, runVars, worker, pc, loopVars, history>>

BlockMissing(j) == pc = "admit" /\ j \in First(Missing) /\ Block(j)

BlockCyclic(j) == pc = "admit" /\ Missing = {} /\ j \in Cyclic /\ Block(j)

BlockOversize(j) ==
  pc = "admit" /\ Missing = {} /\ j \in First(Oversize) /\ Cyclic = {} /\ Block(j)

(* scheduler_started: the loop's variables are set up.                      *)
StartLoop ==
  /\ pc = "admit"
  /\ Missing = {} /\ Oversize = {} /\ Cyclic = {}
  /\ pc' = "markers"
  /\ at' = 0
  /\ available' = totals
  /\ failureSeen' = (InState(FAILURE_STATES) # {})
  /\ UNCHANGED <<queueVars, runVars, worker, totals, futures, batch, failFast, launched,
                 candidates, history>>

-----------------------------------------------------------------------------
(* The loop.  Markers, in the order of the jobs: a queued job is cancelled, *)
(* the run of a running one gets its control file, others keep going.       *)

\* Mutant: the marker of a queued job is consumed without cancelling it.
MarkerForgotten(j) ==
  /\ status[j] # "running"
  /\ UNCHANGED <<status, cancelFile>>

MarkerOfQueued(j) ==
  /\ status[j] # "running"
  /\ status' = [status EXCEPT ![j] = IF @ = "queued" THEN "cancelled" ELSE @]
  /\ UNCHANGED cancelFile

(* request_cancel: a finished run is left alone.                            *)
MarkerOfRunning(j) ==
  /\ status[j] = "running"
  /\ record[j] # "absent"
  /\ cancelFile' = IF record[j] \in JOB_TERMINAL_STATES THEN cancelFile
                   ELSE cancelFile \cup {j}
  /\ UNCHANGED status

TakeMarker(j) ==
  /\ pc = "markers"
  /\ j \in First(Rest(marker))
  /\ at' = j
  /\ marker' = marker \ {j}
  /\ MarkerOfQueued(j) \/ MarkerOfRunning(j)
  /\ UNCHANGED <<entry, record, child, worker, pc, totals, available, futures, batch,
                 failFast, failureSeen, launched, candidates, history>>

(* Without a state.json request_cancel raises FileNotFoundError, which ends *)
(* the loop.                                                                *)
MarkerRaises(j) ==
  /\ pc = "markers"
  /\ j \in First(Rest(marker))
  /\ status[j] = "running" /\ record[j] = "absent"
  /\ pc' = "abort"
  /\ UNCHANGED <<queueVars, runVars, worker, loopVars, history>>

(* done = [future for future in futures if future.done()]                   *)
EndMarkers ==
  /\ pc = "markers"
  /\ Rest(marker) = {}
  /\ pc' = "collect"
  /\ batch' = {j \in futures : worker[j] \in EndedWorker}
  /\ UNCHANGED <<queueVars, runVars, worker, at, totals, available, futures, failFast,
                 failureSeen, launched, candidates, history>>

(* The status the runtime returned, or failed for a worker that raised.     *)
Result(j) == IF worker[j] = "raised" THEN "failed" ELSE record[j]

\* Mutant: only jobs that succeeded give their resources back.
ReleaseOfSuccess(j) ==
  /\ pc = "collect"
  /\ j \in batch
  /\ batch' = batch \ {j}
  /\ futures' = futures \ {j}
  /\ available' = IF Result(j) # "success" THEN available
                  ELSE [r \in Resources |-> available[r] + entry[j].request[r]]

(* futures.pop: the resources are given back before the result is looked at. *)
Release(j) ==
  /\ pc = "collect"
  /\ j \in batch
  /\ batch' = batch \ {j}
  /\ futures' = futures \ {j}
  /\ available' = [r \in Resources |-> available[r] + entry[j].request[r]]

Collect(j) ==
  /\ Release(j)
  /\ Becomes(j, Result(j))
  /\ failureSeen' = (failureSeen \/ Result(j) \in FAILURE_STATES)
  /\ blind' = IF worker[j] = "raised" THEN blind \cup {j} ELSE blind
  /\ UNCHANGED <<entry, marker, runVars, worker, pc, at, totals, failFast, launched,
                 candidates, launches, early>>

(* The writing of a result that the worker returned fails, either before    *)
(* queue.json is replaced or after it, at the journal.                      *)
CollectBreaks(j) ==
  /\ Release(j)
  /\ j \in Breakable /\ worker[j] = "returned"
  /\ at' = j
  /\ UNCHANGED status \/ Becomes(j, Result(j))
  /\ pc' = "rejudge"
  /\ UNCHANGED <<entry, marker, runVars, worker, totals, failFast, failureSeen, launched,
                 candidates, history>>

(* The same try block covers the worker and that writing, so the job is     *)
(* recorded as failed, whatever its run says.                               *)
Rejudge(j) ==
  /\ pc = "rejudge"
  /\ j = at
  /\ Becomes(j, "failed")
  /\ failureSeen' = TRUE
  /\ pc' = "collect"
  /\ UNCHANGED <<entry, marker, runVars, worker, at, totals, available, futures, batch,
                 failFast, launched, candidates, history>>

EndCollect ==
  /\ pc = "collect"
  /\ batch = {}
  /\ pc' = "skip"
  /\ at' = 0
  /\ UNCHANGED <<queueVars, runVars, worker, totals, available, futures, batch, failFast,
                 failureSeen, launched, candidates, history>>

Skippable ==
  {j \in InState({"queued"}) : \E d \in DependsOn(j) : status[d] \in FAILURE_STATES}

(* One pass in the order of the list: a job listed before the one it        *)
(* depends on is not looked at again when that one is skipped after it.     *)
Skip(j) ==
  /\ pc = "skip"
  /\ j \in First(Rest(Skippable))
  /\ at' = j
  /\ Becomes(j, "skipped")
  /\ failureSeen' = TRUE
  /\ UNCHANGED <<entry, marker, runVars, worker, pc, totals, available, futures, batch,
                 failFast, launched, candidates, history>>

(* What is still queued is the list of candidates, unless all of it fails   *)
(* fast.                                                                    *)
EndSkip ==
  /\ pc = "skip"
  /\ Rest(Skippable) = {}
  /\ IF failFast /\ failureSeen
     THEN pc' = "failfast" /\ UNCHANGED candidates
     ELSE pc' = "launch" /\ candidates' = InState({"queued"})
  /\ launched' = FALSE
  /\ UNCHANGED <<queueVars, runVars, worker, at, totals, available, futures, batch,
                 failFast, failureSeen, history>>

FailFast(j) ==
  /\ pc = "failfast"
  /\ j \in First(InState({"queued"}))
  /\ Becomes(j, "skipped")
  /\ UNCHANGED <<entry, marker, runVars, worker, pc, loopVars, history>>

EndFailFast ==
  /\ pc = "failfast"
  /\ InState({"queued"}) = {}
  /\ pc' = "launch"
  /\ UNCHANGED <<queueVars, runVars, worker, loopVars, history>>

-----------------------------------------------------------------------------
\* Mutant: a dependency need only not have failed.
ReadyUnlessFailed(j) == \A d \in DependsOn(j) : status[d] \notin FAILURE_STATES

Ready(j) == \A d \in DependsOn(j) : status[d] = "success"

Launchable(j) == status[j] = "queued" /\ Ready(j) /\ Fits(entry[j].request, available)

\* Mutant: lower numbers first.
AheadByLowest(i, j) ==
  \/ entry[i].priority < entry[j].priority
  \/ entry[i].priority = entry[j].priority /\ i < j

(* (-priority, created_at, job_id): ids are given in the order of the list. *)
Ahead(i, j) ==
  \/ entry[i].priority > entry[j].priority
  \/ entry[i].priority = entry[j].priority /\ i < j

(* The candidates are gone through once, in their order, as long as there   *)
(* is a worker for them.                                                    *)
Scans(j) ==
  /\ pc = "launch"
  /\ Cardinality(futures) < MaxWorkers
  /\ j \in candidates
  /\ \A i \in candidates \ {j} : Ahead(j, i)

\* Mutant: the first candidate that cannot be launched ends the scan.
PassOverAll(j) ==
  /\ Scans(j)
  /\ ~ Launchable(j)
  /\ candidates' = {}
  /\ UNCHANGED <<queueVars, runVars, worker, pc, at, totals, available, futures, batch,
                 failFast, failureSeen, launched, history>>

PassOver(j) ==
  /\ Scans(j)
  /\ ~ Launchable(j)
  /\ candidates' = candidates \ {j}
  /\ UNCHANGED <<queueVars, runVars, worker, pc, at, totals, available, futures, batch,
                 failFast, failureSeen, launched, history>>

(* The job is written down as running before its worker is submitted.       *)
Launch(j) ==
  /\ Scans(j)
  /\ Launchable(j)
  /\ candidates' = candidates \ {j}
  /\ available' = [r \in Resources |-> available[r] - entry[j].request[r]]
  /\ Becomes(j, "running")
  /\ futures' = futures \cup {j}
  /\ worker' = [worker EXCEPT ![j] = "submitted"]
  /\ launched' = TRUE
  /\ launches' = [launches EXCEPT ![j] = @ + 1]
  /\ UNCHANGED <<entry, marker, runVars, pc, at, totals, batch, failFast, failureSeen,
                 early, blind>>

(* An exception between the two ends the loop.                              *)
LaunchBreaks(j) ==
  /\ Scans(j)
  /\ Launchable(j)
  /\ j \in Breakable
  /\ Becomes(j, "running")
  /\ pc' = "abort"
  /\ UNCHANGED <<entry, marker, runVars, worker, loopVars, history>>

EndLaunch ==
  /\ pc = "launch"
  /\ candidates = {} \/ Cardinality(futures) >= MaxWorkers
  /\ pc' = "decide"
  /\ candidates' = {}
  /\ UNCHANGED <<queueVars, runVars, worker, at, totals, available, futures, batch,
                 failFast, failureSeen, launched, history>>

(* Another round, after a wait when only workers can make progress.         *)
NextRound ==
  /\ pc' = "markers"
  /\ at' = 0
  /\ UNCHANGED <<totals, available, futures, batch, failFast, failureSeen, launched,
                 candidates>>

\* Mutant: the loop goes on as long as a job is not settled.
DecideWaits ==
  /\ pc = "decide"
  /\ IF InState(JOB_ACTIVE_STATES) = {} THEN Ends ELSE NextRound
  /\ UNCHANGED <<queueVars, runVars, worker, history>>

\* Mutant: the loop ends when nothing was launched, whoever still runs.
DecideHasty ==
  /\ pc = "decide"
  /\ IF InState({"queued", "running"}) = {} THEN Ends
     ELSE IF launched THEN NextRound
     ELSE pc' = "giveup" /\ UNCHANGED loopVars
  /\ UNCHANGED <<queueVars, runVars, worker, history>>

(* Nothing queued or running: the end.  With nothing launched and nothing   *)
(* to wait for, the rest is given up.                                       *)
Decide ==
  /\ pc = "decide"
  /\ IF InState({"queued", "running"}) = {} THEN Ends
     ELSE IF launched \/ futures # {} THEN NextRound
     ELSE pc' = "giveup" /\ UNCHANGED loopVars
  /\ UNCHANGED <<queueVars, runVars, worker, history>>

(* dependency-not-runnable                                                  *)
GiveUp(j) ==
  /\ pc = "giveup"
  /\ j \in First(InState({"queued"}))
  /\ Block(j)

EndGiveUp ==
  /\ pc = "giveup"
  /\ InState({"queued"}) = {}
  /\ Ends
  /\ UNCHANGED <<queueVars, runVars, worker, history>>

-----------------------------------------------------------------------------
(* KeyboardInterrupt in the loop, or a transition that cannot be written,   *)
(* before or after it has reached queue.json.                               *)
Interrupt ==
  /\ pc \in LoopSteps \cap Fragile
  /\ pc' = "abort"
  /\ UNCHANGED <<queueVars, runVars, worker, loopVars, history>>

(* An exception leaves the executor's block, which waits for all workers;   *)
(* their results are not collected.  That request_cancel is called for the  *)
(* running jobs only then changes nothing any more.                         *)
EndAbort ==
  /\ pc = "abort"
  /\ \A j \in futures : worker[j] \in EndedWorker
  /\ Ends
  /\ UNCHANGED <<queueVars, runVars, worker, history>>

(* The scheduler's process dies with its worker threads; the processes they *)
(* started live on.                                                         *)
Crash ==
  /\ pc \in Fragile \ {"down"}
  /\ Ends
  /\ worker' = [j \in Jobs |-> IF worker[j] \in LiveWorker THEN "dead" ELSE worker[j]]
  /\ UNCHANGED <<queueVars, runVars, history>>

Command == \E j \in Jobs : AddJob(j) \/ RetryJob(j) \/ CancelJob(j)

Worker(j) ==
  \/ WorkerCreates(j) \/ WorkerCannotLaunch(j) \/ WorkerLaunches(j)
  \/ WorkerRecordsPid(j) \/ WorkerReturns(j) \/ WorkerRaises(j)

Recovery == (\E j \in Jobs : Reconcile(j)) \/ EndReconcile

Admission ==
  (\E j \in Jobs : BlockMissing(j) \/ BlockCyclic(j) \/ BlockOversize(j)) \/ StartLoop

Round ==
  \/ \E j \in Jobs : TakeMarker(j) \/ MarkerRaises(j) \/ Collect(j) \/ CollectBreaks(j)
                     \/ Rejudge(j) \/ Skip(j) \/ FailFast(j) \/ PassOver(j) \/ Launch(j)
                     \/ LaunchBreaks(j) \/ GiveUp(j)
  \/ EndMarkers \/ EndCollect \/ EndSkip \/ EndFailFast \/ EndLaunch
  \/ Decide \/ EndGiveUp \/ EndAbort

Scheduler == Recovery \/ Admission \/ Round

Next ==
  \/ Command \/ StartRun \/ StartRecover \/ Scheduler \/ Interrupt \/ Crash
  \/ \E j \in Jobs : Worker(j) \/ OrphanExits(j)

Spec == Init /\ [][Next]_vars

(* The scheduler's thread and its workers go on: a round waits 0.2 s at     *)
(* most and a run ends by its timeout.  Nobody need start a command, and    *)
(* orphans need not exit.                                                   *)
FairSpec == Spec /\ WF_vars(Scheduler) /\ \A j \in Jobs : WF_vars(Worker(j))

-----------------------------------------------------------------------------
(* A job was launched only after everything it depends on had succeeded,    *)
(* and that stays true: no crash, recovery or retry takes a success back.   *)
DependencyGate ==
  \A j \in Jobs : launches[j] > 0 => \A d \in DependsOn(j) : status[d] = "success"

(* "Recovery [...] never auto-replays work": a job is launched at most      *)
(* once, by whichever scheduler; running it again takes a retry.            *)
LaunchedOnce == \A j \in Jobs : launches[j] <= 1

(* The job whose result the scheduler has failed to write.                  *)
Unsure == IF pc = "rejudge" THEN {at} ELSE {}

(* In the loop, the jobs that queue.json calls running are exactly those    *)
(* some worker of this scheduler watches, but for the one whose result it   *)
(* is writing a second time.                                                *)
RunningIsWatched == pc \in LoopSteps => InState({"running"}) \ Unsure = futures

Used(r) == SumFunctionOnSet([j \in Jobs |-> entry[j].request[r]], futures)

(* Admission: what is available and what the workers were launched with     *)
(* make up the budget, through collections, failures and interrupts.        *)
BudgetConserved ==
  pc \in LoopSteps =>
    /\ Cardinality(futures) <= MaxWorkers
    /\ \A r \in Resources : available[r] + Used(r) = totals[r]

(* "Queued work is cancelled before launch": a job marked while it was      *)
(* queued and no scheduler ran is never launched.                           *)
EarlyCancelHolds == \A j \in early : launches[j] = 0

(* "explicit retry creates a new job": it runs beside the process of the    *)
(* job it repeats only if that job was settled when nobody could tell       *)
(* whether its process still runs.                                          *)
NoLiveTwin ==
  \A j \in Jobs :
    LET p == entry[j].parent IN
    p # NoJob /\ child[j] = "alive" => child[p] # "alive" \/ p \in blind

(* The sorted list and one pass over it do what they are for, although the  *)
(* resources change along the way: no job is launched past one of a higher  *)
(* priority that could be launched as well, and the scan leaves no job that *)
(* could be launched while a worker is free.                                *)
PriorityRespected ==
  [][/\ \A j \in Jobs : launches'[j] > launches[j] =>
          \A i \in Jobs \ {j} : Launchable(i) => entry[i].priority <= entry[j].priority
     /\ pc = "launch" /\ pc' = "decide" =>
          Cardinality(futures) >= MaxWorkers \/ \A j \in Jobs : ~ Launchable(j)]_vars

(* What each queued job waits for.                                          *)
Awaits == [j \in Jobs |-> IF status[j] = "queued" THEN DependsOn(j) ELSE {}]

(* The scheduler gives up when no job runs, and each job it gives up waits, *)
(* through jobs that all are queued, for one that is orphaned or did not    *)
(* succeed: none that could run, and none because jobs wait for each other. *)
(* If one of its own dependencies did not succeed, that one is listed after *)
(* it and was skipped in the same pass: any other had it skipped as well.   *)
GivenUpForCause ==
  [][pc = "decide" /\ pc' = "giveup" =>
       /\ InState({"running"}) = {}
       /\ \A j \in InState({"queued"}) :
            /\ \E d \in InState(FAILURE_STATES \cup {"orphaned"}) :
                 Cycles!Reaches(Awaits, j, d)
            /\ \A d \in DependsOn(j) :
                 status[d] \in FAILURE_STATES => status[d] = "skipped" /\ d > j]_vars

(* "A failed dependency makes downstream work `skipped`": no job that has a *)
(* failed dependency is left to be blocked as not runnable.  Not so for a   *)
(* job listed before a dependency that is skipped itself.                   *)
FailureSkips == pc = "giveup" => Skippable = {}

(* Every run and recovery ends, whatever the workers do and whoever marks   *)
(* jobs meanwhile.                                                          *)
CommandEnds == (pc # "down") ~> (pc = "down")

(* The jobs' lives, whatever happens to the scheduler: see JobLifecycle.    *)
Lifecycle ==
  INSTANCE JobLifecycle WITH
    Settled <- JOB_TERMINAL_STATES \ {"skipped"},
    Refused <- {"blocked", "skipped", "cancelled"},
    needs <- [j \in Jobs |-> DependsOn(j)],
    unsure <- Unsure
FollowsLifecycle == Lifecycle!Spec

(* "a monitored running job receives the runtime's normal cancel request":  *)
(* a pass over the markers that nobody interrupts comes to every watched    *)
(* job that has one.  With the marker of a job whose worker has not written *)
(* its state.json yet, request_cancel ends the loop instead.                *)
MarkersServed ==
  [][pc = "markers" /\ pc' # "markers" => \A j \in marker \cap futures : j <= at]_vars

(* The jobs' runs, as in RuntimeRun: see DurableRun.  Nobody can tell what  *)
(* became of a process whose worker raised.                                 *)
Watched == {j \in Jobs : worker[j] \in LiveWorker}
ParentOf == [j \in Jobs |-> entry[j].parent]
Doubted == blind \cup {j \in Jobs : worker[j] = "raised"}

(* The scheduler, its workers and its recoveries together keep what one     *)
(* runner and its readers promise of a run.                                 *)
Run ==
  INSTANCE DurableRun WITH
    Runs <- Jobs, NoRun <- NoJob, process <- child, watched <- Watched,
    origin <- ParentOf, doubted <- Doubted
FollowsDurableRun == Run!Spec
=============================================================================
