--------------------------- MODULE TaskQueueProofs ---------------------------
(***************************************************************************)
(* TaskQueue keeps its safety invariants for any number of jobs, any specs, *)
(* budgets and worker limit, wherever the scheduler is interrupted or dies. *)
(* The invariants are not inductive by themselves: that a job is launched   *)
(* once needs that a queued job has no worker yet, that its process is gone *)
(* when it is settled needs what each step of a worker has recorded, and    *)
(* both need that outside the loop nobody watches a run.  IInv says so, one *)
(* step per action shows that it is kept, and the invariants follow.        *)
(***************************************************************************)
EXTENDS TaskQueue, FiniteSetTheorems, TLAPS

(* A job that was never launched has no run, none is launched twice, and   *)
(* what was launched had its dependencies.                                 *)
QueueInv ==
  \A j \in Jobs :
    /\ status[j] \in {"absent", "queued"} =>
         launches[j] = 0 /\ worker[j] = "none" /\ record[j] = "absent" /\ child[j] = "none"
    /\ launches[j] <= 1
    /\ launches[j] > 0 => \A d \in DependsOn(j) : status[d] = "success"

(* Which jobs may be running, and which of them are watched, at each step   *)
(* of the scheduler.                                                        *)
WatchInv ==
  /\ pc \notin LoopSteps \cup {"abort"} => futures = {}
  /\ \A j \in futures : status[j] = "running"
  /\ \A j \in batch : worker[j] \in EndedWorker
  /\ pc \in LoopSteps =>
       \A j \in Jobs : status[j] = "running" => j \in futures \/ (pc = "rejudge" /\ j = at)
  /\ pc \in {"recover", "reconcile"} => \A j \in 1 .. at : status[j] # "running"
  /\ pc = "down" => at = 0
  /\ pc = "giveup" => futures = {}
  /\ pc = "admit" => \A j \in Jobs : status[j] # "running"

(* What a worker at a given step has recorded, and when a process may still *)
(* live without a record that says so.                                      *)
WorkerInv ==
  \A j \in Jobs :
    /\ worker[j] \in LiveWorker => j \in futures
    /\ worker[j] = "submitted" => record[j] = "absent"
    /\ worker[j] = "created" => record[j] = "created" /\ child[j] = "none"
    /\ worker[j] = "launched" => record[j] = "created"
    /\ worker[j] = "monitor" => record[j] = "running"
    /\ worker[j] = "returned" => record[j] \in JOB_TERMINAL_STATES /\ child[j] # "alive"
    /\ record[j] = "absent" => child[j] = "none"
    /\ record[j] \in JOB_TERMINAL_STATES => child[j] # "alive" \/ j \in blind

(* A settled job has no live process unless it was settled blindly, and     *)
(* only settled jobs are repeated.                                          *)
SettledInv ==
  \A j \in Jobs :
    /\ status[j] \in JOB_TERMINAL_STATES => child[j] # "alive" \/ j \in blind
    /\ entry[j].parent # NoJob => status[entry[j].parent] \in JOB_TERMINAL_STATES

(* A job marked early is still marked until the next scheduler's first pass *)
(* over the markers has come to it, and is not queued after that.           *)
EarlyInv ==
  \A j \in early :
    /\ launches[j] = 0
    /\ status[j] # "absent"
    /\ status[j] = "queued" =>
         /\ j \in marker
         /\ pc \notin LoopSteps \ {"markers"}
         /\ pc = "markers" => at < j

(* The job whose result could not be written has ended, nobody watches it   *)
(* any more, and no job that depends on it has been launched.               *)
RejudgeInv ==
  pc = "rejudge" =>
    /\ at \in Jobs \ futures
    /\ status[at] \in {"running"} \cup JOB_TERMINAL_STATES
    /\ worker[at] = "returned"
    /\ \A i \in Jobs : at \in DependsOn(i) => launches[i] = 0

(* The inductive invariant.                                                 *)
IInv == TypeOK /\ QueueInv /\ WatchInv /\ WorkerInv /\ SettledInv /\ EarlyInv /\ RejudgeInv

(* The empty amount is an amount.                                           *)
LEMMA NothingTyped == Nothing \in Amounts
  BY DEF Nothing, Amounts

(* What Init, AddJob and RetryJob put into the list are entries.             *)
LEMMA EntryTyped ==
  /\ \A s \in Specs : [deps |-> s.deps, request |-> s.request, priority |-> s.priority,
                        parent |-> NoJob] \in Entries
  /\ \A e \in Entries, p \in Jobs : [e EXCEPT !.parent = p] \in Entries
  /\ Unlisted \in Entries
  /\ \A e \in Entries : e.request \in Amounts /\ e.parent \in 0 .. N
  BY TaskQueueAssumption, NothingTyped DEF Entries, Jobs, NoJob, Unlisted

(* The variables of a scheduler that is gone have their types.              *)
LEMMA EndsTyped == Ends => LoopTyped'
<1> SUFFICES ASSUME Ends PROVE LoopTyped'
  OBVIOUS
<1>1. pc' \in Steps /\ at' \in 0 .. N
  BY TaskQueueAssumption DEF Ends, Steps
<1>2. totals' \in Amounts /\ available' \in Amounts
  BY NothingTyped DEF Ends
<1>3. futures' \subseteq Jobs /\ batch' \subseteq futures'
  BY DEF Ends
<1>4. failFast' \in BOOLEAN /\ failureSeen' \in BOOLEAN /\ launched' \in BOOLEAN
  BY DEF Ends
<1>5. candidates' \subseteq Jobs
  BY DEF Ends
<1> QED
  BY <1>1, <1>2, <1>3, <1>4, <1>5 DEF LoopTyped

(* The invariant holds of an empty queue.                                    *)
LEMMA IInvInit == Init => IInv
<1> SUFFICES ASSUME Init PROVE IInv
  OBVIOUS
<1> USE TaskQueueAssumption DEF Init, Jobs
<1>1. TypeOK
  <2>1. QueueTyped
    BY EntryTyped DEF QueueTyped, Statuses
  <2>2. RunTyped
    BY DEF RunTyped, RunStatuses
  <2>3. LoopTyped
    <3>1. pc \in Steps /\ at \in 0 .. N
      BY DEF Steps
    <3>2. totals \in Amounts /\ available \in Amounts
      BY NothingTyped
    <3>3. futures \subseteq Jobs /\ batch \subseteq futures
      OBVIOUS
    <3>4. failFast \in BOOLEAN /\ failureSeen \in BOOLEAN /\ launched \in BOOLEAN
      OBVIOUS
    <3>5. candidates \subseteq Jobs
      OBVIOUS
    <3> QED
      BY <3>1, <3>2, <3>3, <3>4, <3>5 DEF LoopTyped
  <2>4. HistoryTyped
    BY DEF HistoryTyped
  <2> QED
    BY <2>1, <2>2, <2>3, <2>4 DEF TypeOK
<1>2. QueueInv /\ WatchInv /\ WorkerInv /\ EarlyInv /\ RejudgeInv
  BY DEF QueueInv, WatchInv, WorkerInv, EarlyInv, RejudgeInv, LoopSteps, LiveWorker,
     JOB_TERMINAL_STATES
<1>3. SettledInv
  BY DEF SettledInv, JOB_TERMINAL_STATES, Unlisted, NoJob
<1> QED
  BY <1>1, <1>2, <1>3 DEF IInv

(* Only a failed writing of a result leads there, and only workers, cancel  *)
(* requests and what ends the scheduler act before the job is judged again. *)
LEMMA RejudgeStep ==
  ASSUME IInv, [Next]_vars
  PROVE  RejudgeInv'
<1> SUFFICES ASSUME pc' = "rejudge"
             PROVE  /\ at' \in Jobs \ futures'
                    /\ status'[at'] \in {"running"} \cup JOB_TERMINAL_STATES
                    /\ worker'[at'] = "returned"
                    /\ \A i \in Jobs : at' \in DependsOn(i)' => launches'[i] = 0
  BY DEF RejudgeInv
<1> USE DEF queueVars, runVars, loopVars, history, LoopSteps, IInv, TypeOK
<1>1. ASSUME NEW j \in Jobs, CollectBreaks(j)
      PROVE  /\ at' \in Jobs \ futures'
             /\ status'[at'] \in {"running"} \cup JOB_TERMINAL_STATES
             /\ worker'[at'] = "returned"
             /\ \A i \in Jobs : at' \in DependsOn(i)' => launches'[i] = 0
  <2>1. status[j] = "running" /\ worker[j] = "returned" /\ Result(j) \in JOB_TERMINAL_STATES
    BY <1>1 DEF CollectBreaks, Release, Result, WatchInv, WorkerInv, LoopTyped
  <2>2. /\ at' = j /\ futures' = futures \ {j}
        /\ status' = status \/ status' = [status EXCEPT ![j] = Result(j)]
        /\ UNCHANGED <<entry, worker, launches>>
    BY <1>1 DEF CollectBreaks, Release, Becomes
  <2>3. \A i \in Jobs : j \in DependsOn(i) => launches[i] = 0
    BY <2>1 DEF QueueInv, HistoryTyped
  <2> QED
    BY <2>1, <2>2, <2>3 DEF QueueTyped, DependsOn
<1>2. CASE pc = "rejudge" /\ UNCHANGED <<entry, status, at, futures, launches>>
           /\ worker'[at] = worker[at]
  BY <1>2 DEF RejudgeInv, DependsOn
<1>3. ASSUME NEW j \in Jobs, CancelJob(j) \/ OrphanExits(j)
      PROVE  /\ pc = "rejudge" /\ UNCHANGED <<entry, status, at, futures, launches>>
             /\ worker'[at] = worker[at]
  BY <1>3 DEF CancelJob, OrphanExits
<1>4. ASSUME NEW j \in Jobs, Worker(j)
      PROVE  /\ pc = "rejudge" /\ UNCHANGED <<entry, status, at, futures, launches>>
             /\ worker'[at] = worker[at]
  <2>1. /\ pc' = pc /\ UNCHANGED <<entry, status, at, futures, launches>>
        /\ \E a \in LiveWorker : \E b : Works(j, a, b)
    BY <1>4 DEF Worker, WorkerCreates, WorkerCannotLaunch, WorkerLaunches, WorkerRecordsPid,
         WorkerReturns, WorkerRaises, LiveWorker
  <2>2. j # at
    BY <2>1 DEF Works, RejudgeInv
  <2> QED
    BY <2>1, <2>2 DEF Works, RunTyped
<1>5. ASSUME NEW j \in Jobs,
             \/ AddJob(j) \/ RetryJob(j) \/ Reconcile(j) \/ BlockMissing(j) \/ BlockCyclic(j)
             \/ BlockOversize(j) \/ TakeMarker(j) \/ MarkerRaises(j) \/ Collect(j)
             \/ Rejudge(j) \/ Skip(j) \/ FailFast(j) \/ PassOver(j) \/ Launch(j)
             \/ LaunchBreaks(j) \/ GiveUp(j)
      PROVE  FALSE
  BY <1>5 DEF AddJob, RetryJob, Enlist, Reconcile, BlockMissing, BlockCyclic, BlockOversize,
       Block, TakeMarker, MarkerRaises, Collect, Release, Rejudge, Skip, FailFast, PassOver,
       Launch, Scans, LaunchBreaks, GiveUp
<1>6. CASE StartRun \/ StartRecover \/ EndReconcile \/ StartLoop \/ Crash \/ Interrupt
             \/ EndAbort \/ EndGiveUp
  BY <1>6 DEF StartRun, StartRecover, EndReconcile, StartLoop, Crash, Interrupt, EndAbort,
       EndGiveUp, Ends
<1>7. CASE EndMarkers \/ EndCollect \/ EndSkip \/ EndFailFast \/ EndLaunch \/ Decide
  BY <1>7 DEF EndMarkers, EndCollect, EndSkip, EndFailFast, EndLaunch, Decide, NextRound, Ends
<1>8. CASE UNCHANGED vars
  BY <1>2, <1>8 DEF vars
<1> QED
  BY <1>1, <1>2, <1>3, <1>4, <1>5, <1>6, <1>7, <1>8
     DEF Next, Command, Scheduler, Recovery, Admission, Round

(* Every step of the scheduler, a worker, a command or a crash keeps it.     *)
LEMMA IInvStep == IInv /\ [Next]_vars => IInv'
<1> SUFFICES ASSUME IInv, [Next]_vars PROVE IInv'
  OBVIOUS
<1> DEFINE Main == TypeOK /\ QueueInv /\ WatchInv /\ WorkerInv /\ SettledInv /\ EarlyInv
<1> USE TaskQueueAssumption DEF IInv, TypeOK, Statuses, RunStatuses, Jobs, NoJob, LoopSteps, Steps,
        LiveWorker, EndedWorker, JOB_TERMINAL_STATES, JOB_ACTIVE_STATES, FAILURE_STATES,
        Becomes, queueVars, runVars, loopVars, history
<1>0. \A i \in Jobs : entry[i].parent \in 0 .. N
  BY EntryTyped DEF QueueTyped
<1>1. ASSUME NEW j \in Jobs, AddJob(j) PROVE Main'
  <2>1. RunTyped' /\ LoopTyped' /\ HistoryTyped' /\ WorkerInv'
    BY <1>1 DEF AddJob, Enlist, RunTyped, LoopTyped, HistoryTyped, WorkerInv
  <2>2. QueueTyped'
    <3>1. PICK s \in Specs :
            Enlist(j, [deps |-> s.deps, request |-> s.request, priority |-> s.priority,
                       parent |-> NoJob])
      BY <1>1 DEF AddJob
    <3> QED
      BY <3>1, EntryTyped DEF Enlist, QueueTyped
  <2>3. QueueInv'
    BY <1>1 DEF AddJob, Enlist, First, InState, QueueInv, QueueTyped, DependsOn
  <2>4. WatchInv'
    BY <1>1 DEF AddJob, Enlist, First, InState, WatchInv, QueueTyped
  <2>5. SettledInv'
    BY <1>1 DEF AddJob, Enlist, First, InState, SettledInv, QueueTyped
  <2>6. EarlyInv'
    BY <1>1 DEF AddJob, Enlist, First, InState, EarlyInv, QueueTyped
  <2> QED
    BY <2>1, <2>2, <2>3, <2>4, <2>5, <2>6
<1>2. ASSUME NEW j \in Jobs, RetryJob(j) PROVE Main'
  <2>1. RunTyped' /\ LoopTyped' /\ HistoryTyped' /\ WorkerInv'
    BY <1>2 DEF RetryJob, Enlist, RunTyped, LoopTyped, HistoryTyped, WorkerInv
  <2>2. QueueTyped'
    <3>1. PICK p \in Jobs : Enlist(j, [entry[p] EXCEPT !.parent = p])
      BY <1>2 DEF RetryJob, InState
    <3>2. [entry[p] EXCEPT !.parent = p] \in Entries
      BY EntryTyped DEF QueueTyped
    <3> QED
      BY <3>1, <3>2 DEF Enlist, QueueTyped
  <2>3. QueueInv'
    BY <1>2 DEF RetryJob, Enlist, First, InState, QueueInv, QueueTyped, DependsOn
  <2>4. WatchInv'
    BY <1>2 DEF RetryJob, Enlist, First, InState, WatchInv, QueueTyped
  <2>5. SettledInv'
    <3>1. PICK p \in Jobs : /\ Enlist(j, [entry[p] EXCEPT !.parent = p])
                           /\ status[p] \in JOB_TERMINAL_STATES
      BY <1>2 DEF RetryJob, InState
    <3>2. entry'[j].parent = p
      BY <3>1 DEF Enlist, QueueTyped, Entries
    <3>3. /\ status[j] = "absent"
          /\ status' = [status EXCEPT ![j] = "queued"]
          /\ \A i \in Jobs : i # j => entry'[i] = entry[i]
          /\ UNCHANGED <<child, blind>>
      BY <3>1 DEF Enlist, First, InState, QueueTyped
    <3> QED
      BY <3>1, <3>2, <3>3, EntryTyped DEF SettledInv, QueueTyped
  <2>6. EarlyInv'
    BY <1>2 DEF RetryJob, Enlist, First, InState, EarlyInv, QueueTyped
  <2> QED
    BY <2>1, <2>2, <2>3, <2>4, <2>5, <2>6
<1>3. ASSUME NEW j \in Jobs, CancelJob(j) PROVE Main'
  <2>1. RunTyped' /\ LoopTyped' /\ QueueInv' /\ WatchInv' /\ WorkerInv' /\ SettledInv'
    BY <1>3 DEF CancelJob, RunTyped, LoopTyped, QueueInv, WatchInv, WorkerInv, SettledInv,
       DependsOn
  <2>2. QueueTyped'
    BY <1>3 DEF CancelJob, QueueTyped
  <2>3. HistoryTyped'
    BY <1>3 DEF CancelJob, HistoryTyped
  <2>4. EarlyInv'
    BY <1>3 DEF CancelJob, EarlyInv, QueueTyped, RunTyped, LoopTyped, HistoryTyped,
       WatchInv, QueueInv
  <2> QED
    BY <2>1, <2>2, <2>3, <2>4
<1>4. ASSUME NEW j \in Jobs, WorkerCreates(j) PROVE Main'
  <2>1. QueueTyped' /\ LoopTyped' /\ HistoryTyped' /\ SettledInv' /\ EarlyInv'
    BY <1>4 DEF WorkerCreates, Works, Records, QueueTyped, LoopTyped, HistoryTyped,
       SettledInv, EarlyInv
  <2>2. RunTyped'
    BY <1>4 DEF WorkerCreates, Works, Records, RunTyped
  <2>3. QueueInv'
    BY <1>4 DEF WorkerCreates, Works, Records, QueueInv, RunTyped, DependsOn
  <2>4. WatchInv'
    BY <1>4 DEF WorkerCreates, Works, Records, WatchInv, RunTyped
  <2>5. WorkerInv'
    BY <1>4 DEF WorkerCreates, Works, Records, WorkerInv, WatchInv, RunTyped
  <2> QED
    BY <2>1, <2>2, <2>3, <2>4, <2>5
<1>5. ASSUME NEW j \in Jobs, WorkerCannotLaunch(j) PROVE Main'
  <2>1. QueueTyped' /\ LoopTyped' /\ HistoryTyped' /\ SettledInv' /\ EarlyInv'
    BY <1>5 DEF WorkerCannotLaunch, Works, Records, QueueTyped, LoopTyped, HistoryTyped,
       SettledInv, EarlyInv
  <2>2. RunTyped'
    BY <1>5 DEF WorkerCannotLaunch, Works, Records, RunTyped
  <2>3. QueueInv'
    BY <1>5 DEF WorkerCannotLaunch, Works, Records, QueueInv, RunTyped, DependsOn
  <2>4. WatchInv'
    BY <1>5 DEF WorkerCannotLaunch, Works, Records, WatchInv, RunTyped
  <2>5. WorkerInv'
    BY <1>5 DEF WorkerCannotLaunch, Works, Records, WorkerInv, WatchInv, RunTyped
  <2> QED
    BY <2>1, <2>2, <2>3, <2>4, <2>5
<1>6. ASSUME NEW j \in Jobs, WorkerLaunches(j) PROVE Main'
  <2>1. QueueTyped' /\ LoopTyped' /\ HistoryTyped' /\ EarlyInv'
    BY <1>6 DEF WorkerLaunches, Works, QueueTyped, LoopTyped, HistoryTyped, EarlyInv
  <2>2. RunTyped'
    BY <1>6 DEF WorkerLaunches, Works, RunTyped
  <2>3. QueueInv'
    BY <1>6 DEF WorkerLaunches, Works, QueueInv, RunTyped, DependsOn
  <2>4. WatchInv'
    BY <1>6 DEF WorkerLaunches, Works, WatchInv, RunTyped
  <2>5. WorkerInv'
    BY <1>6 DEF WorkerLaunches, Works, WorkerInv, WatchInv, RunTyped
  <2>6. SettledInv'
    BY <1>0, <1>6 DEF WorkerLaunches, Works, SettledInv, WatchInv, QueueTyped, RunTyped,
       LoopTyped, HistoryTyped
  <2> QED
    BY <2>1, <2>2, <2>3, <2>4, <2>5, <2>6
<1>7. ASSUME NEW j \in Jobs, WorkerRecordsPid(j) PROVE Main'
  <2>1. QueueTyped' /\ LoopTyped' /\ HistoryTyped' /\ SettledInv' /\ EarlyInv'
    BY <1>7 DEF WorkerRecordsPid, Works, Records, QueueTyped, LoopTyped, HistoryTyped,
       SettledInv, EarlyInv
  <2>2. RunTyped'
    BY <1>7 DEF WorkerRecordsPid, Works, Records, RunTyped
  <2>3. QueueInv'
    BY <1>7 DEF WorkerRecordsPid, Works, Records, QueueInv, RunTyped, DependsOn
  <2>4. WatchInv'
    BY <1>7 DEF WorkerRecordsPid, Works, Records, WatchInv, RunTyped
  <2>5. WorkerInv'
    BY <1>7 DEF WorkerRecordsPid, Works, Records, WorkerInv, WatchInv, RunTyped
  <2> QED
    BY <2>1, <2>2, <2>3, <2>4, <2>5
<1>8. ASSUME NEW j \in Jobs, WorkerReturns(j) PROVE Main'
  <2>1. QueueTyped' /\ LoopTyped' /\ HistoryTyped' /\ EarlyInv'
    BY <1>8 DEF WorkerReturns, Works, Records, QueueTyped, LoopTyped, HistoryTyped, EarlyInv
  <2>2. RunTyped'
    BY <1>8 DEF WorkerReturns, Works, Records, RunTyped
  <2>3. QueueInv'
    BY <1>8 DEF WorkerReturns, Works, Records, QueueInv, RunTyped, DependsOn
  <2>4. WatchInv'
    BY <1>8 DEF WorkerReturns, Works, Records, WatchInv, RunTyped
  <2>5. WorkerInv'
    BY <1>8 DEF WorkerReturns, Works, Records, WorkerInv, WatchInv, RunTyped
  <2>6. SettledInv'
    BY <1>8 DEF WorkerReturns, Works, Records, SettledInv, RunTyped
  <2> QED
    BY <2>1, <2>2, <2>3, <2>4, <2>5, <2>6
<1>9. ASSUME NEW j \in Jobs, WorkerRaises(j) PROVE Main'
  <2>1. QueueTyped' /\ LoopTyped' /\ HistoryTyped' /\ SettledInv' /\ EarlyInv'
    BY <1>9 DEF WorkerRaises, Works, QueueTyped, LoopTyped, HistoryTyped, SettledInv,
       EarlyInv
  <2>2. RunTyped'
    BY <1>9 DEF WorkerRaises, Works, RunTyped
  <2>3. QueueInv'
    BY <1>9 DEF WorkerRaises, Works, QueueInv, RunTyped, DependsOn
  <2>4. WatchInv'
    BY <1>9 DEF WorkerRaises, Works, WatchInv, RunTyped
  <2>5. WorkerInv'
    BY <1>9 DEF WorkerRaises, Works, WorkerInv, WatchInv, RunTyped
  <2> QED
    BY <2>1, <2>2, <2>3, <2>4, <2>5
<1>10. ASSUME NEW j \in Jobs, OrphanExits(j) PROVE Main'
  <2>1. QueueTyped' /\ LoopTyped' /\ HistoryTyped' /\ WatchInv' /\ EarlyInv'
    BY <1>10 DEF OrphanExits, QueueTyped, LoopTyped, HistoryTyped, WatchInv, EarlyInv
  <2>2. RunTyped'
    BY <1>10 DEF OrphanExits, RunTyped
  <2>3. QueueInv'
    BY <1>10 DEF OrphanExits, QueueInv, RunTyped, DependsOn
  <2>4. WorkerInv'
    BY <1>10 DEF OrphanExits, WorkerInv, WatchInv, RunTyped
  <2>5. SettledInv'
    BY <1>10 DEF OrphanExits, SettledInv, RunTyped
  <2> QED
    BY <2>1, <2>2, <2>3, <2>4, <2>5
<1>11. ASSUME StartRun PROVE Main'
  <2>1. QueueTyped' /\ RunTyped' /\ HistoryTyped' /\ QueueInv' /\ WorkerInv' /\ SettledInv'
    BY <1>11 DEF StartRun, QueueTyped, RunTyped, HistoryTyped, QueueInv, WorkerInv,
       SettledInv, DependsOn
  <2>2. LoopTyped'
    BY <1>11 DEF StartRun, LoopTyped
  <2>3. WatchInv'
    BY <1>11 DEF StartRun, WatchInv
  <2>4. EarlyInv'
    BY <1>11 DEF StartRun, EarlyInv
  <2> QED
    BY <2>1, <2>2, <2>3, <2>4
<1>12. ASSUME StartRecover PROVE Main'
  <2>1. QueueTyped' /\ RunTyped' /\ HistoryTyped' /\ QueueInv' /\ WorkerInv' /\ SettledInv'
    BY <1>12 DEF StartRecover, QueueTyped, RunTyped, HistoryTyped, QueueInv, WorkerInv,
       SettledInv, DependsOn
  <2>2. LoopTyped'
    BY <1>12 DEF StartRecover, LoopTyped
  <2>3. WatchInv'
    BY <1>12 DEF StartRecover, WatchInv
  <2>4. EarlyInv'
    BY <1>12 DEF StartRecover, EarlyInv
  <2> QED
    BY <2>1, <2>2, <2>3, <2>4
<1>13. ASSUME NEW j \in Jobs, Reconcile(j) PROVE Main'
  <2>1. QueueTyped'
    BY <1>13 DEF Reconcile, Rest, First, Left, InState, Reconciled, Rewritten, QueueTyped
  <2>2. RunTyped'
    BY <1>13 DEF Reconcile, Rest, First, Left, InState, Reconciled, Rewritten, RunTyped
  <2>3. LoopTyped'
    BY <1>13 DEF Reconcile, Rest, First, Left, InState, Reconciled, Rewritten, LoopTyped
  <2>4. HistoryTyped'
    BY <1>13 DEF Reconcile, Rest, First, Left, InState, Reconciled, Rewritten, HistoryTyped
  <2>5. QueueInv'
    BY <1>13 DEF Reconcile, Rest, First, Left, InState, Reconciled, Rewritten, QueueInv,
       QueueTyped, RunTyped, DependsOn
  <2>6. WatchInv'
    BY <1>13 DEF Reconcile, Rest, First, Left, InState, Reconciled, Rewritten, WatchInv,
       QueueTyped, LoopTyped
  <2>7. WorkerInv'
    BY <1>13 DEF Reconcile, Rest, First, Left, InState, Reconciled, Rewritten, WorkerInv,
       WatchInv, RunTyped
  <2>8. SettledInv'
    BY <1>13 DEF Reconcile, Rest, First, Left, InState, Reconciled, Rewritten, SettledInv,
       QueueTyped, RunTyped, HistoryTyped, WorkerInv
  <2>9. EarlyInv'
    BY <1>13 DEF Reconcile, Rest, First, Left, InState, Reconciled, Rewritten, EarlyInv,
       QueueTyped, LoopTyped
  <2> QED
    BY <2>1, <2>2, <2>3, <2>4, <2>5, <2>6, <2>7, <2>8, <2>9
<1>14. ASSUME EndReconcile PROVE Main'
  <2>1. QueueTyped' /\ RunTyped' /\ HistoryTyped' /\ QueueInv' /\ SettledInv'
    BY <1>14 DEF EndReconcile, Ends, QueueTyped, RunTyped, HistoryTyped, QueueInv,
       SettledInv, DependsOn
  <2>2. LoopTyped'
    <3>1. CASE pc = "recover"
      BY <1>14, <3>1, EndsTyped DEF EndReconcile
    <3>2. CASE pc # "recover"
      BY <1>14, <3>2 DEF EndReconcile, LoopTyped
    <3> QED
      BY <3>1, <3>2
  <2>3. WatchInv'
    <3>1. CASE pc = "recover"
      BY <1>14, <3>1 DEF EndReconcile, Ends, WatchInv, LoopTyped
    <3>2. CASE pc # "recover"
      <4>1. pc' = "admit" /\ UNCHANGED <<futures, batch, worker, status, at>>
        BY <1>14, <3>2 DEF EndReconcile
      <4>2. \A i \in Jobs : i <= at => status[i] # "running"
        BY <1>14 DEF EndReconcile, WatchInv, LoopTyped
      <4>3. \A i \in Jobs : i > at => status[i] # "running"
        BY <1>14 DEF EndReconcile, Rest, Left, InState
      <4>4. futures = {}
        BY <1>14 DEF EndReconcile, WatchInv
      <4>5. \A i \in Jobs : status[i] # "running"
        BY <4>2, <4>3 DEF LoopTyped
      <4> QED
        BY <4>1, <4>4, <4>5 DEF WatchInv, LoopTyped
    <3> QED
      BY <3>1, <3>2
  <2>4. WorkerInv'
    BY <1>14 DEF EndReconcile, Rest, Left, InState, Ends, WorkerInv, WatchInv, LoopTyped
  <2>5. EarlyInv'
    BY <1>14 DEF EndReconcile, Rest, Left, InState, Ends, EarlyInv, LoopTyped
  <2> QED
    BY <2>1, <2>2, <2>3, <2>4, <2>5
<1>15. ASSUME NEW j \in Jobs, BlockMissing(j) PROVE Main'
  <2>1. RunTyped' /\ LoopTyped' /\ HistoryTyped' /\ WorkerInv'
    BY <1>15 DEF BlockMissing, Block, RunTyped, LoopTyped, HistoryTyped, WorkerInv
  <2>2. QueueTyped'
    BY <1>15 DEF BlockMissing, Missing, First, InState, Block, QueueTyped
  <2>3. QueueInv'
    BY <1>15 DEF BlockMissing, Missing, First, InState, Block, QueueInv, QueueTyped,
       DependsOn
  <2>4. WatchInv'
    BY <1>15 DEF BlockMissing, Missing, First, InState, Block, WatchInv, QueueTyped
  <2>5. SettledInv'
    BY <1>15 DEF BlockMissing, Missing, First, InState, Block, SettledInv, QueueTyped,
       RunTyped, QueueInv
  <2>6. EarlyInv'
    BY <1>15 DEF BlockMissing, Missing, First, InState, Block, EarlyInv, QueueTyped
  <2> QED
    BY <2>1, <2>2, <2>3, <2>4, <2>5, <2>6
<1>16. ASSUME NEW j \in Jobs, BlockCyclic(j) PROVE Main'
  <2>1. RunTyped' /\ LoopTyped' /\ HistoryTyped' /\ WorkerInv'
    BY <1>16 DEF BlockCyclic, Block, RunTyped, LoopTyped, HistoryTyped, WorkerInv
  <2>2. QueueTyped'
    BY <1>16 DEF BlockCyclic, Cyclic, InState, Block, QueueTyped
  <2>3. QueueInv'
    BY <1>16 DEF BlockCyclic, Cyclic, InState, Block, QueueInv, QueueTyped, DependsOn
  <2>4. WatchInv'
    BY <1>16 DEF BlockCyclic, Cyclic, InState, Block, WatchInv, QueueTyped
  <2>5. SettledInv'
    BY <1>16 DEF BlockCyclic, Cyclic, InState, Block, SettledInv, QueueTyped, RunTyped,
       QueueInv
  <2>6. EarlyInv'
    BY <1>16 DEF BlockCyclic, Cyclic, InState, Block, EarlyInv, QueueTyped
  <2> QED
    BY <2>1, <2>2, <2>3, <2>4, <2>5, <2>6
<1>17. ASSUME NEW j \in Jobs, BlockOversize(j) PROVE Main'
  <2>1. RunTyped' /\ LoopTyped' /\ HistoryTyped' /\ WorkerInv'
    BY <1>17 DEF BlockOversize, Block, RunTyped, LoopTyped, HistoryTyped, WorkerInv
  <2>2. QueueTyped'
    BY <1>17 DEF BlockOversize, Oversize, First, InState, Block, QueueTyped
  <2>3. QueueInv'
    BY <1>17 DEF BlockOversize, Oversize, First, InState, Block, QueueInv, QueueTyped,
       DependsOn
  <2>4. WatchInv'
    BY <1>17 DEF BlockOversize, Oversize, First, InState, Block, WatchInv, QueueTyped
  <2>5. SettledInv'
    BY <1>17 DEF BlockOversize, Oversize, First, InState, Block, SettledInv, QueueTyped,
       RunTyped, QueueInv
  <2>6. EarlyInv'
    BY <1>17 DEF BlockOversize, Oversize, First, InState, Block, EarlyInv, QueueTyped
  <2> QED
    BY <2>1, <2>2, <2>3, <2>4, <2>5, <2>6
<1>18. ASSUME StartLoop PROVE Main'
  <2>1. QueueTyped' /\ RunTyped' /\ HistoryTyped' /\ QueueInv' /\ WorkerInv' /\ SettledInv'
    BY <1>18 DEF StartLoop, QueueTyped, RunTyped, HistoryTyped, QueueInv, WorkerInv,
       SettledInv, DependsOn
  <2>2. LoopTyped'
    BY <1>18 DEF StartLoop, InState, LoopTyped
  <2>3. WatchInv'
    BY <1>18 DEF StartLoop, InState, WatchInv, LoopTyped
  <2>4. EarlyInv'
    BY <1>18 DEF StartLoop, InState, EarlyInv, QueueTyped, RunTyped, LoopTyped,
       HistoryTyped, WatchInv, QueueInv
  <2> QED
    BY <2>1, <2>2, <2>3, <2>4
<1>19. ASSUME NEW j \in Jobs, TakeMarker(j) PROVE Main'
  <2>1. HistoryTyped' /\ WorkerInv'
    BY <1>19 DEF TakeMarker, HistoryTyped, WorkerInv
  <2>2. QueueTyped'
    BY <1>19 DEF TakeMarker, Rest, First, MarkerOfQueued, MarkerOfRunning, QueueTyped
  <2>3. RunTyped'
    BY <1>19 DEF TakeMarker, Rest, First, MarkerOfQueued, MarkerOfRunning, RunTyped
  <2>4. LoopTyped'
    BY <1>19 DEF TakeMarker, Rest, First, MarkerOfQueued, MarkerOfRunning, LoopTyped
  <2>5. QueueInv'
    <3>1. CASE MarkerOfQueued(j)
      BY <1>19, <3>1 DEF TakeMarker, MarkerOfQueued, QueueTyped, RunTyped, LoopTyped,
         HistoryTyped, QueueInv, WatchInv, DependsOn
    <3>2. CASE MarkerOfRunning(j)
      BY <1>19, <3>2 DEF TakeMarker, MarkerOfRunning, QueueTyped, RunTyped, LoopTyped,
         HistoryTyped, QueueInv, WatchInv, DependsOn
    <3> QED
      BY <1>19, <3>1, <3>2 DEF TakeMarker
  <2>6. WatchInv'
    BY <1>19 DEF TakeMarker, Rest, First, MarkerOfQueued, MarkerOfRunning, WatchInv,
       QueueTyped, LoopTyped
  <2>7. SettledInv'
    <3>1. CASE MarkerOfQueued(j)
      BY <1>19, <3>1 DEF TakeMarker, MarkerOfQueued, QueueTyped, RunTyped, LoopTyped,
         HistoryTyped, SettledInv, QueueInv
    <3>2. CASE MarkerOfRunning(j)
      BY <1>19, <3>2 DEF TakeMarker, MarkerOfRunning, QueueTyped, RunTyped, LoopTyped,
         HistoryTyped, SettledInv, QueueInv
    <3> QED
      BY <1>19, <3>1, <3>2 DEF TakeMarker
  <2>8. EarlyInv'
    BY <1>19 DEF TakeMarker, Rest, First, MarkerOfQueued, MarkerOfRunning, EarlyInv,
       QueueTyped, RunTyped, LoopTyped, HistoryTyped, WatchInv, QueueInv
  <2> QED
    BY <2>1, <2>2, <2>3, <2>4, <2>5, <2>6, <2>7, <2>8
<1>20. ASSUME NEW j \in Jobs, MarkerRaises(j) PROVE Main'
  <2>1. QueueTyped' /\ RunTyped' /\ HistoryTyped' /\ QueueInv' /\ WorkerInv' /\ SettledInv'
    BY <1>20 DEF MarkerRaises, QueueTyped, RunTyped, HistoryTyped, QueueInv, WorkerInv,
       SettledInv, DependsOn
  <2>2. LoopTyped'
    BY <1>20 DEF MarkerRaises, LoopTyped
  <2>3. WatchInv'
    BY <1>20 DEF MarkerRaises, WatchInv
  <2>4. EarlyInv'
    BY <1>20 DEF MarkerRaises, EarlyInv
  <2> QED
    BY <2>1, <2>2, <2>3, <2>4
<1>21. ASSUME EndMarkers PROVE Main'
  <2>1. QueueTyped' /\ RunTyped' /\ HistoryTyped' /\ QueueInv' /\ WorkerInv' /\ SettledInv'
    BY <1>21 DEF EndMarkers, QueueTyped, RunTyped, HistoryTyped, QueueInv, WorkerInv,
       SettledInv, DependsOn
  <2>2. LoopTyped'
    BY <1>21 DEF EndMarkers, Rest, LoopTyped
  <2>3. WatchInv'
    BY <1>21 DEF EndMarkers, Rest, WatchInv, LoopTyped
  <2>4. EarlyInv'
    BY <1>21 DEF EndMarkers, Rest, EarlyInv
  <2> QED
    BY <2>1, <2>2, <2>3, <2>4
<1>22. ASSUME NEW j \in Jobs, Collect(j) PROVE Main'
  <2>0. /\ status[j] = "running" /\ j \in futures /\ worker[j] \in EndedWorker
        /\ Result(j) \in JOB_TERMINAL_STATES
        /\ child[j] # "alive" \/ j \in blind'
    BY <1>22 DEF Collect, Release, Result, WatchInv, WorkerInv, LoopTyped, RunTyped
  <2>1. RunTyped'
    BY <1>22 DEF Collect, Release, RunTyped
  <2>2. QueueTyped'
    BY <1>22, <2>0 DEF Collect, Release, QueueTyped, RunTyped, LoopTyped, HistoryTyped
  <2>3. LoopTyped'
    <3>1. [r \in Resources |-> available[r] + entry[j].request[r]] \in Amounts
      BY EntryTyped DEF QueueTyped, LoopTyped, Amounts
    <3> QED
      BY <1>22, <3>1 DEF Collect, Release, LoopTyped
  <2>4. HistoryTyped'
    BY <1>22 DEF Collect, Release, Result, HistoryTyped
  <2>5. QueueInv'
    BY <1>22, <2>0 DEF Collect, Release, QueueTyped, RunTyped, LoopTyped, HistoryTyped, QueueInv,
       DependsOn
  <2>6. WatchInv'
    BY <1>22, <2>0 DEF Collect, Release, QueueTyped, RunTyped, LoopTyped, HistoryTyped, WatchInv
  <2>7. WorkerInv'
    BY <1>22 DEF Collect, Release, Result, WorkerInv, WatchInv, LoopTyped
  <2>8. SettledInv'
    <3>1. /\ status' = [status EXCEPT ![j] = Result(j)]
          /\ blind \subseteq blind'
          /\ UNCHANGED <<entry, child>>
      BY <1>22 DEF Collect, Release
    <3> HIDE DEF JOB_TERMINAL_STATES
    <3>2. "running" \notin JOB_TERMINAL_STATES
      BY DEF JOB_TERMINAL_STATES
    <3> QED
      BY <1>0, <2>0, <3>1, <3>2 DEF SettledInv, QueueTyped, NoJob
  <2>9. EarlyInv'
    BY <1>22, <2>0 DEF Collect, Release, QueueTyped, RunTyped, LoopTyped, HistoryTyped, EarlyInv,
       WatchInv, QueueInv
  <2> QED
    BY <2>1, <2>2, <2>3, <2>4, <2>5, <2>6, <2>7, <2>8, <2>9
<1>23. ASSUME EndCollect PROVE Main'
  <2>1. QueueTyped' /\ RunTyped' /\ HistoryTyped' /\ QueueInv' /\ WorkerInv' /\ SettledInv'
    BY <1>23 DEF EndCollect, QueueTyped, RunTyped, HistoryTyped, QueueInv, WorkerInv,
       SettledInv, DependsOn
  <2>2. LoopTyped'
    BY <1>23 DEF EndCollect, LoopTyped
  <2>3. WatchInv'
    BY <1>23 DEF EndCollect, WatchInv, LoopTyped
  <2>4. EarlyInv'
    BY <1>23 DEF EndCollect, EarlyInv, LoopTyped
  <2> QED
    BY <2>1, <2>2, <2>3, <2>4
<1>24. ASSUME NEW j \in Jobs, Skip(j) PROVE Main'
  <2>1. RunTyped' /\ HistoryTyped' /\ WorkerInv'
    BY <1>24 DEF Skip, RunTyped, HistoryTyped, WorkerInv
  <2>2. QueueTyped'
    BY <1>24 DEF Skip, Rest, First, Skippable, InState, QueueTyped
  <2>3. LoopTyped'
    BY <1>24 DEF Skip, Rest, First, Skippable, InState, LoopTyped
  <2>4. QueueInv'
    BY <1>24 DEF Skip, Rest, First, Skippable, InState, QueueInv, QueueTyped, DependsOn
  <2>5. WatchInv'
    BY <1>24 DEF Skip, Rest, First, Skippable, InState, WatchInv, QueueTyped, LoopTyped
  <2>6. SettledInv'
    BY <1>24 DEF Skip, Rest, First, Skippable, InState, SettledInv, QueueTyped, RunTyped,
       QueueInv
  <2>7. EarlyInv'
    BY <1>24 DEF Skip, Rest, First, Skippable, InState, EarlyInv, QueueTyped, LoopTyped
  <2> QED
    BY <2>1, <2>2, <2>3, <2>4, <2>5, <2>6, <2>7
<1>25. ASSUME EndSkip PROVE Main'
  <2>1. QueueTyped' /\ RunTyped' /\ HistoryTyped' /\ QueueInv' /\ WorkerInv' /\ SettledInv'
    BY <1>25 DEF EndSkip, QueueTyped, RunTyped, HistoryTyped, QueueInv, WorkerInv,
       SettledInv, DependsOn
  <2>2. LoopTyped'
    <3>1. launched' \in BOOLEAN
      BY <1>25 DEF EndSkip
    <3>2. candidates' \subseteq Jobs /\ pc' \in Steps
      BY <1>25 DEF EndSkip, InState, LoopTyped
    <3> QED
      BY <1>25, <3>1, <3>2 DEF EndSkip, LoopTyped
  <2>3. WatchInv'
    BY <1>25 DEF EndSkip, WatchInv
  <2>4. EarlyInv'
    BY <1>25 DEF EndSkip, EarlyInv
  <2> QED
    BY <2>1, <2>2, <2>3, <2>4
<1>26. ASSUME NEW j \in Jobs, FailFast(j) PROVE Main'
  <2>1. RunTyped' /\ LoopTyped' /\ HistoryTyped' /\ WorkerInv'
    BY <1>26 DEF FailFast, RunTyped, LoopTyped, HistoryTyped, WorkerInv
  <2>2. QueueTyped'
    BY <1>26 DEF FailFast, First, InState, QueueTyped
  <2>3. QueueInv'
    BY <1>26 DEF FailFast, First, InState, QueueInv, QueueTyped, DependsOn
  <2>4. WatchInv'
    BY <1>26 DEF FailFast, First, InState, WatchInv, QueueTyped
  <2>5. SettledInv'
    BY <1>26 DEF FailFast, First, InState, SettledInv, QueueTyped, RunTyped, QueueInv
  <2>6. EarlyInv'
    BY <1>26 DEF FailFast, First, InState, EarlyInv, QueueTyped
  <2> QED
    BY <2>1, <2>2, <2>3, <2>4, <2>5, <2>6
<1>27. ASSUME EndFailFast PROVE Main'
  <2>1. QueueTyped' /\ RunTyped' /\ HistoryTyped' /\ QueueInv' /\ WorkerInv' /\ SettledInv'
    BY <1>27 DEF EndFailFast, QueueTyped, RunTyped, HistoryTyped, QueueInv, WorkerInv,
       SettledInv, DependsOn
  <2>2. LoopTyped'
    BY <1>27 DEF EndFailFast, InState, LoopTyped
  <2>3. WatchInv'
    BY <1>27 DEF EndFailFast, InState, WatchInv
  <2>4. EarlyInv'
    BY <1>27 DEF EndFailFast, InState, EarlyInv
  <2> QED
    BY <2>1, <2>2, <2>3, <2>4
<1>28. ASSUME NEW j \in Jobs, Launch(j) PROVE Main'
  <2>0. /\ status[j] = "queued" /\ pc = "launch" /\ Ready(j)
        /\ \A r \in Resources : entry[j].request[r] <= available[r]
    BY <1>28 DEF Launch, Scans, Launchable, Fits
  <2>a. /\ status' = [status EXCEPT ![j] = "running"]
        /\ futures' = futures \cup {j}
        /\ launches' = [launches EXCEPT ![j] = @ + 1]
        /\ worker' = [worker EXCEPT ![j] = "submitted"]
        /\ UNCHANGED <<entry, marker, record, child, pc, at, batch, early, blind>>
    BY <1>28 DEF Launch
  <2>1. QueueTyped'
    BY <1>28 DEF Launch, Launchable, Ready, Fits, QueueTyped
  <2>2. RunTyped'
    BY <1>28 DEF Launch, Launchable, Ready, Fits, RunTyped
  <2>3. LoopTyped'
    <3>1. [r \in Resources |-> available[r] - entry[j].request[r]] \in Amounts
      BY <2>0, EntryTyped DEF QueueTyped, LoopTyped, Amounts
    <3> QED
      BY <1>28, <3>1 DEF Launch, LoopTyped
  <2>4. HistoryTyped'
    BY <1>28 DEF Launch, Launchable, Ready, Fits, HistoryTyped
  <2>5. QueueInv'
    BY <2>0, <2>a DEF QueueTyped, RunTyped, LoopTyped, HistoryTyped, QueueInv, Ready,
       DependsOn
  <2>6. WatchInv'
    BY <2>0, <2>a DEF QueueTyped, RunTyped, LoopTyped, HistoryTyped, WatchInv
  <2>7. WorkerInv'
    BY <2>0, <2>a DEF QueueTyped, RunTyped, LoopTyped, HistoryTyped, WorkerInv, QueueInv
  <2>8. SettledInv'
    BY <1>0, <2>0, <2>a DEF SettledInv, QueueTyped
  <2>9. EarlyInv'
    BY <2>0, <2>a DEF QueueTyped, RunTyped, LoopTyped, HistoryTyped, EarlyInv
  <2> QED
    BY <2>1, <2>2, <2>3, <2>4, <2>5, <2>6, <2>7, <2>8, <2>9
<1>29. ASSUME EndLaunch PROVE Main'
  <2>1. QueueTyped' /\ RunTyped' /\ HistoryTyped' /\ QueueInv' /\ WorkerInv' /\ SettledInv'
    BY <1>29 DEF EndLaunch, QueueTyped, RunTyped, HistoryTyped, QueueInv, WorkerInv,
       SettledInv, DependsOn
  <2>2. LoopTyped'
    BY <1>29 DEF EndLaunch, LoopTyped
  <2>3. WatchInv'
    BY <1>29 DEF EndLaunch, WatchInv
  <2>4. EarlyInv'
    BY <1>29 DEF EndLaunch, EarlyInv
  <2> QED
    BY <2>1, <2>2, <2>3, <2>4
<1>30. ASSUME Decide PROVE Main'
  <2>1. QueueTyped' /\ RunTyped' /\ HistoryTyped' /\ QueueInv' /\ SettledInv'
    BY <1>30 DEF Decide, Ends, QueueTyped, RunTyped, HistoryTyped, QueueInv, SettledInv,
       DependsOn
  <2>2. LoopTyped'
    <3>1. CASE Ends
      BY <3>1, EndsTyped
    <3>2. CASE NextRound
      BY <3>2 DEF NextRound, LoopTyped
    <3>3. CASE pc' = "giveup" /\ UNCHANGED loopVars
      BY <3>3 DEF LoopTyped
    <3> QED
      BY <1>30, <3>1, <3>2, <3>3 DEF Decide
  <2>3. WatchInv'
    BY <1>30 DEF Decide, Ends, NextRound, InState, WatchInv, LoopTyped
  <2>4. WorkerInv'
    <3>1. LiveWorker \cap {worker[i] : i \in futures'} = LiveWorker \cap {worker[i] : i \in futures}
      BY <1>30 DEF Decide, Ends, NextRound, InState, WatchInv, LoopTyped
    <3> QED
      BY <1>30, <3>1 DEF Decide, Ends, NextRound, InState, WatchInv, WorkerInv, RunTyped,
         LoopTyped
  <2>5. EarlyInv'
    BY <1>30 DEF Decide, Ends, NextRound, InState, EarlyInv, LoopTyped
  <2> QED
    BY <2>1, <2>2, <2>3, <2>4, <2>5
<1>31. ASSUME NEW j \in Jobs, GiveUp(j) PROVE Main'
  <2>1. RunTyped' /\ LoopTyped' /\ HistoryTyped' /\ WorkerInv'
    BY <1>31 DEF GiveUp, Block, RunTyped, LoopTyped, HistoryTyped, WorkerInv
  <2>2. QueueTyped'
    BY <1>31 DEF GiveUp, First, InState, Block, QueueTyped
  <2>3. QueueInv'
    BY <1>31 DEF GiveUp, First, InState, Block, QueueInv, QueueTyped, DependsOn
  <2>4. WatchInv'
    BY <1>31 DEF GiveUp, First, InState, Block, WatchInv, QueueTyped
  <2>5. SettledInv'
    BY <1>31 DEF GiveUp, First, InState, Block, SettledInv, QueueTyped, RunTyped, QueueInv
  <2>6. EarlyInv'
    BY <1>31 DEF GiveUp, First, InState, Block, EarlyInv, QueueTyped
  <2> QED
    BY <2>1, <2>2, <2>3, <2>4, <2>5, <2>6
<1>32. ASSUME EndGiveUp PROVE Main'
  <2>1. QueueTyped' /\ RunTyped' /\ HistoryTyped' /\ QueueInv' /\ SettledInv'
    BY <1>32 DEF EndGiveUp, Ends, QueueTyped, RunTyped, HistoryTyped, QueueInv, SettledInv,
       DependsOn
  <2>2. LoopTyped'
    BY <1>32, EndsTyped DEF EndGiveUp
  <2>3. WatchInv'
    BY <1>32 DEF EndGiveUp, Ends, WatchInv, LoopTyped
  <2>4. WorkerInv'
    BY <1>32 DEF EndGiveUp, Ends, WorkerInv, WatchInv, LoopTyped
  <2>5. EarlyInv'
    BY <1>32 DEF EndGiveUp, Ends, EarlyInv, LoopTyped
  <2> QED
    BY <2>1, <2>2, <2>3, <2>4, <2>5
<1>33. ASSUME Interrupt PROVE Main'
  <2>1. QueueTyped' /\ RunTyped' /\ HistoryTyped' /\ QueueInv' /\ WorkerInv' /\ SettledInv'
    BY <1>33 DEF Interrupt, QueueTyped, RunTyped, HistoryTyped, QueueInv, WorkerInv,
       SettledInv, DependsOn
  <2>2. LoopTyped'
    BY <1>33 DEF Interrupt, LoopTyped
  <2>3. WatchInv'
    BY <1>33 DEF Interrupt, WatchInv
  <2>4. EarlyInv'
    BY <1>33 DEF Interrupt, EarlyInv
  <2> QED
    BY <2>1, <2>2, <2>3, <2>4
<1>34. ASSUME EndAbort PROVE Main'
  <2>1. QueueTyped' /\ RunTyped' /\ HistoryTyped' /\ QueueInv' /\ SettledInv'
    BY <1>34 DEF EndAbort, Ends, QueueTyped, RunTyped, HistoryTyped, QueueInv, SettledInv,
       DependsOn
  <2>2. LoopTyped'
    BY <1>34, EndsTyped DEF EndAbort
  <2>3. WatchInv'
    BY <1>34 DEF EndAbort, Ends, WatchInv, LoopTyped
  <2>4. WorkerInv'
    BY <1>34 DEF EndAbort, Ends, WorkerInv, WatchInv, LoopTyped
  <2>5. EarlyInv'
    BY <1>34 DEF EndAbort, Ends, EarlyInv, LoopTyped
  <2> QED
    BY <2>1, <2>2, <2>3, <2>4, <2>5
<1>35. ASSUME Crash PROVE Main'
  <2>1. QueueTyped' /\ HistoryTyped' /\ SettledInv'
    BY <1>35 DEF Crash, Ends, QueueTyped, HistoryTyped, SettledInv
  <2>2. RunTyped'
    BY <1>35 DEF Crash, Ends, RunTyped
  <2>3. LoopTyped'
    BY <1>35, EndsTyped DEF Crash
  <2>4. QueueInv'
    BY <1>35 DEF Crash, Ends, QueueInv, RunTyped, DependsOn
  <2>5. WatchInv'
    BY <1>35 DEF Crash, Ends, WatchInv, RunTyped, LoopTyped
  <2>6. WorkerInv'
    BY <1>35 DEF Crash, Ends, WorkerInv, WatchInv, RunTyped, LoopTyped
  <2>7. EarlyInv'
    BY <1>35 DEF Crash, Ends, EarlyInv, LoopTyped
  <2> QED
    BY <2>1, <2>2, <2>3, <2>4, <2>5, <2>6, <2>7
<1>37. ASSUME NEW j \in Jobs, CollectBreaks(j) PROVE Main'
  <2>0. /\ status[j] = "running" /\ j \in futures /\ pc = "collect" /\ worker[j] = "returned"
        /\ Result(j) \in JOB_TERMINAL_STATES
        /\ child[j] # "alive"
    BY <1>37 DEF CollectBreaks, Release, Result, WatchInv, WorkerInv, LoopTyped
  <2>a. /\ status' = status \/ status' = [status EXCEPT ![j] = Result(j)]
        /\ futures' = futures \ {j} /\ batch' = batch \ {j}
        /\ pc' = "rejudge" /\ at' = j
        /\ UNCHANGED <<entry, marker, record, child, worker, launches, early, blind>>
    BY <1>37 DEF CollectBreaks, Release
  <2>1. RunTyped' /\ HistoryTyped'
    BY <1>37 DEF CollectBreaks, RunTyped, HistoryTyped
  <2>2. QueueTyped'
    BY <2>0, <2>a DEF QueueTyped
  <2>3. LoopTyped'
    <3>1. [r \in Resources |-> available[r] + entry[j].request[r]] \in Amounts
      BY EntryTyped DEF QueueTyped, LoopTyped, Amounts
    <3> QED
      BY <1>37, <3>1 DEF CollectBreaks, Release, LoopTyped
  <2>4. QueueInv'
    <3>1. /\ status'[j] \notin {"absent", "queued"}
          /\ \A i \in Jobs : i # j => status'[i] = status[i]
      BY <2>0, <2>a DEF QueueTyped
    <3>2. \A i \in Jobs : launches[i] > 0 => j \notin DependsOn(i)
      BY <2>0 DEF QueueInv
    <3>3. \A i \in Jobs : DependsOn(i) \subseteq Jobs /\ DependsOn(i)' = DependsOn(i)
      BY <2>a DEF QueueTyped, Entries, DependsOn, Range
    <3> HIDE DEF JOB_TERMINAL_STATES
    <3> QED
      BY <2>a, <3>1, <3>2, <3>3 DEF QueueInv
  <2>5. WatchInv'
    BY <2>0, <2>a DEF QueueTyped, LoopTyped, WatchInv
  <2>6. WorkerInv'
    BY <2>0, <2>a DEF WorkerInv
  <2>7. SettledInv'
    BY <1>0, <2>0, <2>a DEF SettledInv, QueueTyped
  <2>8. EarlyInv'
    BY <2>0, <2>a DEF QueueTyped, HistoryTyped, EarlyInv
  <2> QED
    BY <2>1, <2>2, <2>3, <2>4, <2>5, <2>6, <2>7, <2>8
<1>38. ASSUME NEW j \in Jobs, Rejudge(j) PROVE Main'
  <2>0. /\ pc = "rejudge" /\ j = at /\ j \notin futures
        /\ status[j] \in {"running"} \cup JOB_TERMINAL_STATES
        /\ \A i \in Jobs : j \in DependsOn(i) => launches[i] = 0
        /\ child[j] # "alive"
    BY <1>38 DEF Rejudge, RejudgeInv, WorkerInv
  <2>a. /\ status' = [status EXCEPT ![j] = "failed"]
        /\ pc' = "collect"
        /\ UNCHANGED <<entry, marker, record, child, worker, at, futures, batch, launches,
                       early, blind>>
    BY <1>38 DEF Rejudge
  <2>1. RunTyped' /\ LoopTyped' /\ HistoryTyped' /\ WorkerInv'
    BY <1>38 DEF Rejudge, RunTyped, LoopTyped, HistoryTyped, WorkerInv
  <2>2. QueueTyped'
    BY <2>a DEF QueueTyped
  <2>3. QueueInv'
    BY <2>0, <2>a DEF QueueTyped, QueueInv, DependsOn
  <2>4. WatchInv'
    BY <2>0, <2>a DEF QueueTyped, LoopTyped, WatchInv
  <2>5. SettledInv'
    BY <1>0, <2>0, <2>a DEF SettledInv, QueueTyped
  <2>6. EarlyInv'
    BY <2>0, <2>a DEF QueueTyped, HistoryTyped, EarlyInv
  <2> QED
    BY <2>1, <2>2, <2>3, <2>4, <2>5, <2>6
<1>39. ASSUME NEW j \in Jobs, PassOver(j) PROVE Main'
  <2>1. QueueTyped' /\ RunTyped' /\ HistoryTyped' /\ QueueInv' /\ WorkerInv' /\ SettledInv'
    BY <1>39 DEF PassOver, QueueTyped, RunTyped, HistoryTyped, QueueInv, WorkerInv,
       SettledInv, DependsOn
  <2>2. LoopTyped'
    BY <1>39 DEF PassOver, LoopTyped
  <2>3. WatchInv' /\ EarlyInv'
    BY <1>39 DEF PassOver, WatchInv, EarlyInv
  <2> QED
    BY <2>1, <2>2, <2>3
<1>40. ASSUME NEW j \in Jobs, LaunchBreaks(j) PROVE Main'
  <2>0. status[j] = "queued" /\ pc = "launch" /\ Ready(j)
    BY <1>40 DEF LaunchBreaks, Scans, Launchable
  <2>a. /\ status' = [status EXCEPT ![j] = "running"] /\ pc' = "abort"
        /\ UNCHANGED <<entry, marker, record, child, worker, at, futures, batch, launches,
                       early, blind>>
    BY <1>40 DEF LaunchBreaks
  <2>1. RunTyped' /\ LoopTyped' /\ HistoryTyped' /\ WorkerInv'
    BY <1>40 DEF LaunchBreaks, RunTyped, LoopTyped, HistoryTyped, WorkerInv
  <2>2. QueueTyped'
    BY <2>a DEF QueueTyped
  <2>3. QueueInv'
    BY <2>0, <2>a DEF QueueTyped, QueueInv, DependsOn
  <2>4. WatchInv'
    BY <2>0, <2>a DEF QueueTyped, WatchInv
  <2>5. SettledInv'
    BY <1>0, <2>0, <2>a DEF SettledInv, QueueTyped
  <2>6. EarlyInv'
    BY <2>0, <2>a DEF QueueTyped, HistoryTyped, EarlyInv
  <2> QED
    BY <2>1, <2>2, <2>3, <2>4, <2>5, <2>6
<1>36. ASSUME UNCHANGED vars PROVE Main'
  <2>1. QueueTyped' /\ RunTyped' /\ LoopTyped' /\ HistoryTyped'
    BY <1>36 DEF vars, QueueTyped, RunTyped, LoopTyped, HistoryTyped
  <2>2. QueueInv' /\ WatchInv' /\ WorkerInv' /\ SettledInv' /\ EarlyInv'
    BY <1>36 DEF vars, QueueInv, WatchInv, WorkerInv, SettledInv, EarlyInv, DependsOn
  <2> QED
    BY <2>1, <2>2
<1> QED
  BY <1>1, <1>2, <1>3, <1>4, <1>5, <1>6, <1>7, <1>8, <1>9, <1>10, <1>11, <1>12, <1>13,
     <1>14, <1>15, <1>16, <1>17, <1>18, <1>19, <1>20, <1>21, <1>22, <1>23, <1>24, <1>25,
     <1>26, <1>27, <1>28, <1>29, <1>30, <1>31, <1>32, <1>33, <1>34, <1>35, <1>36, <1>37,
     <1>38, <1>39, <1>40, RejudgeStep
     DEF Next, Command, Scheduler, Recovery, Admission, Round, Worker

(* IInv holds in every reachable state.                                     *)
LEMMA IInvAlways == Spec => []IInv
  BY IInvInit, IInvStep, PTL DEF Spec

(* Every variable keeps its type; the budget never goes below zero.         *)
THEOREM QueueTypeCorrect == Spec => []TypeOK
<1>1. IInv => TypeOK
  BY DEF IInv
<1> QED
  BY <1>1, IInvAlways, PTL

(* A launched job's dependencies have succeeded and stay so.                *)
THEOREM QueueDependencyGate == Spec => []DependencyGate
<1>1. IInv => DependencyGate
  BY DEF IInv, QueueInv, DependencyGate
<1> QED
  BY <1>1, IInvAlways, PTL

(* No job is launched twice, by one scheduler or by several in turn.        *)
THEOREM QueueLaunchedOnce == Spec => []LaunchedOnce
<1>1. IInv => LaunchedOnce
  BY DEF IInv, QueueInv, LaunchedOnce
<1> QED
  BY <1>1, IInvAlways, PTL

(* In the loop, running and watched are the same.                           *)
THEOREM QueueRunningIsWatched == Spec => []RunningIsWatched
<1>1. IInv => RunningIsWatched
  BY DEF IInv, TypeOK, LoopTyped, WatchInv, RejudgeInv, RunningIsWatched, Unsure, InState
<1> QED
  BY <1>1, IInvAlways, PTL

(* A retried job's process and that of its parent do not both live, except  *)
(* after a blind settlement of the parent.                                  *)
THEOREM QueueNoLiveTwin == Spec => []NoLiveTwin
<1>1. ASSUME IInv, NEW j \in Jobs, entry[j].parent # NoJob
      PROVE child[entry[j].parent] # "alive" \/ entry[j].parent \in blind
  <2>1. entry[j].parent \in Jobs
    BY <1>1, EntryTyped, TaskQueueAssumption DEF IInv, TypeOK, QueueTyped, Jobs, NoJob
  <2> QED
    BY <1>1, <2>1 DEF IInv, SettledInv
<1>2. IInv => NoLiveTwin
  BY <1>1 DEF NoLiveTwin
<1> QED
  BY <1>2, IInvAlways, PTL

(* A cancellation in time holds.                                            *)
THEOREM QueueEarlyCancel == Spec => []EarlyCancelHolds
<1>1. IInv => EarlyCancelHolds
  BY DEF IInv, EarlyInv, EarlyCancelHolds
<1> QED
  BY <1>1, IInvAlways, PTL
-----------------------------------------------------------------------------
(***************************************************************************)
(* TaskQueue implements JobLifecycle: every step of the scheduler, of a    *)
(* worker, of a command or of a crash is, seen from the jobs, a step of one *)
(* job's life or no step at all.  The steps that write a job's status are   *)
(* matched one by one; IInv says that a job whose result is collected was  *)
(* running, and that what is launched was queued with its dependencies met. *)
(***************************************************************************)
(* What each job depends on, as the lifecycle sees it.                      *)
Needs == [j \in Jobs |-> DependsOn(j)]

(* One job's status changes and what the jobs depend on does not; no result *)
(* is waiting to be written again.                                          *)
Moves(j, from, to) ==
  /\ pc # "rejudge" /\ pc' # "rejudge"
  /\ status[j] \in from
  /\ \E s \in to : Becomes(j, s)
  /\ entry' = entry

(* The three ways a listed job's status may change are lifecycle steps.     *)
LEMMA MovesAreSteps ==
  ASSUME NEW j \in Jobs
  PROVE  /\ Moves(j, {"queued"}, {"blocked", "skipped", "cancelled"}) => Lifecycle!Next
         /\ Moves(j, {"running", "orphaned"}, JOB_TERMINAL_STATES \ {"skipped"})
              => Lifecycle!Next
         /\ Moves(j, {"running", "orphaned"}, {"orphaned"}) => Lifecycle!Next
         /\ Moves(j, {"queued"}, {"running"}) /\ Ready(j) => Lifecycle!Next
<1> USE DEF Becomes, Moves
<1>0. pc # "rejudge" /\ pc' # "rejudge" => Unsure = {} /\ Unsure' = {}
  BY DEF Unsure
<1>1. entry' = entry => Needs' = Needs
  BY DEF Needs, DependsOn
<1>2. Moves(j, {"queued"}, {"blocked", "skipped", "cancelled"}) => Lifecycle!Refuse(j)
  BY <1>0, <1>1 DEF Lifecycle!Refuse, Lifecycle!Becomes, Needs
<1>3. Moves(j, {"running", "orphaned"}, JOB_TERMINAL_STATES \ {"skipped"})
        => Lifecycle!Settle(j)
  BY <1>0, <1>1 DEF Lifecycle!Settle, Lifecycle!Becomes, Needs
<1>4. Moves(j, {"running", "orphaned"}, {"orphaned"}) => Lifecycle!Orphan(j)
  BY <1>0, <1>1 DEF Lifecycle!Orphan, Lifecycle!Becomes, Needs
<1>5. Moves(j, {"queued"}, {"running"}) /\ Ready(j) => Lifecycle!Start(j)
  BY <1>0, <1>1 DEF Lifecycle!Start, Lifecycle!Becomes, Needs, Ready
<1> QED
  BY <1>2, <1>3, <1>4, <1>5 DEF Lifecycle!Next

(* The append of a job is the lifecycle's addition.                         *)
LEMMA EnlistIsAdd ==
  ASSUME QueueTyped, pc = "down", NEW j \in Jobs, NEW e \in Entries, Enlist(j, e)
  PROVE  Lifecycle!Next
<1>1. status[j] = "absent" /\ Becomes(j, "queued")
  BY DEF Enlist, First, InState
<1>2. Range(e.deps) \in SUBSET (Jobs \ {j})
  BY DEF Enlist, Entries, Range
<1>3. Needs' = [Needs EXCEPT ![j] = Range(e.deps)]
  BY DEF Enlist, Needs, DependsOn, QueueTyped
<1>4. Unsure' = Unsure
  BY DEF Enlist, Unsure
<1>5. Lifecycle!Add(j)
  BY <1>1, <1>2, <1>3, <1>4 DEF Lifecycle!Add, Lifecycle!Becomes, Becomes, Needs
<1> QED
  BY <1>5 DEF Lifecycle!Next

(* An empty queue is an empty queue.                                        *)
LEMMA LifecycleInit == Init => Lifecycle!Init
<1> SUFFICES ASSUME Init PROVE Lifecycle!Init
  OBVIOUS
<1>1. \A j \in Jobs : DependsOn(j) = {}
  BY DEF Init, DependsOn, Range, Unlisted
<1> QED
  BY <1>1 DEF Init, Unsure, Lifecycle!Init

(* Every step is a step of the lifecycle or leaves the jobs as they are.    *)
LEMMA LifecycleStep == IInv /\ [Next]_vars => [Lifecycle!Next]_(Lifecycle!vars)
<1> SUFFICES ASSUME IInv, [Next]_vars
             PROVE  Lifecycle!Next \/ UNCHANGED <<status, Needs, Unsure>>
  BY DEF Lifecycle!vars, Needs
<1>0. ASSUME UNCHANGED <<entry, status>>, UNCHANGED <<pc, at>> \/ (pc # "rejudge" /\ pc' # "rejudge")
      PROVE  UNCHANGED <<status, Needs, Unsure>>
  BY <1>0 DEF Needs, DependsOn, Unsure
<1> USE DEF queueVars, runVars, loopVars
<1>1. ASSUME NEW j \in Jobs, AddJob(j) PROVE Lifecycle!Next
  BY <1>1, EntryTyped, EnlistIsAdd DEF AddJob, IInv, TypeOK
<1>2. ASSUME NEW j \in Jobs, RetryJob(j) PROVE Lifecycle!Next
  <2>1. PICK p \in Jobs : Enlist(j, [entry[p] EXCEPT !.parent = p])
    BY <1>2 DEF RetryJob, InState
  <2>2. [entry[p] EXCEPT !.parent = p] \in Entries
    BY EntryTyped DEF IInv, TypeOK, QueueTyped
  <2>3. pc = "down"
    BY <1>2 DEF RetryJob
  <2> QED
    BY <2>1, <2>2, <2>3, EnlistIsAdd DEF IInv, TypeOK
<1>3. ASSUME NEW j \in Jobs, Reconcile(j) PROVE Lifecycle!Next
  <2>1. /\ status[j] \in {"running", "orphaned"}
        /\ Becomes(j, Reconciled(j))
        /\ entry' = entry /\ pc \in {"recover", "reconcile"} /\ pc' = pc
    BY <1>3 DEF Reconcile, First, Rest, Left, InState
  <2>2. record[j] \in JOB_TERMINAL_STATES => record[j] \in JOB_TERMINAL_STATES \ {"skipped"}
    BY DEF IInv, TypeOK, RunTyped, RunStatuses
  <2>3. Reconciled(j) \in (JOB_TERMINAL_STATES \ {"skipped"}) \cup {"orphaned"}
    BY <2>2 DEF Reconciled, JOB_TERMINAL_STATES
  <2> QED
    BY <2>1, <2>3, MovesAreSteps DEF Moves
<1>4. ASSUME NEW j \in Jobs, j \in InState({"queued"}), pc # "rejudge", Block(j)
      PROVE  Lifecycle!Next
  BY <1>4, MovesAreSteps DEF Moves, Block, InState
<1>5. ASSUME NEW j \in Jobs, BlockMissing(j) \/ BlockCyclic(j) \/ BlockOversize(j) \/ GiveUp(j)
      PROVE  Lifecycle!Next
  BY <1>4, <1>5 DEF BlockMissing, BlockCyclic, BlockOversize, GiveUp, First, Missing, Cyclic,
       Oversize
<1>6. ASSUME NEW j \in Jobs, Skip(j) \/ FailFast(j) PROVE Lifecycle!Next
  BY <1>6, MovesAreSteps DEF Moves, Skip, FailFast, First, Rest, Skippable, InState
<1>7. ASSUME NEW j \in Jobs, TakeMarker(j)
      PROVE  Lifecycle!Next \/ UNCHANGED <<status, Needs, Unsure>>
  <2>0. pc = "markers" /\ pc' = "markers" /\ entry' = entry
    BY <1>7 DEF TakeMarker
  <2>1. CASE status[j] = "queued" /\ Becomes(j, "cancelled")
    BY <2>0, <2>1, MovesAreSteps DEF Moves
  <2>2. CASE UNCHANGED status
    BY <1>0, <2>0, <2>2
  <2>3. (status[j] = "queued" /\ Becomes(j, "cancelled")) \/ UNCHANGED status
    BY <1>7 DEF TakeMarker, MarkerOfQueued, MarkerOfRunning, Becomes, IInv, TypeOK, QueueTyped
  <2> QED
    BY <2>1, <2>2, <2>3
<1>8. ASSUME NEW j \in Jobs, Collect(j) \/ CollectBreaks(j) PROVE Lifecycle!Next
  <2>1. status[j] = "running" /\ worker[j] \in EndedWorker /\ pc = "collect"
    BY <1>8 DEF Collect, CollectBreaks, Release, IInv, TypeOK, LoopTyped, WatchInv
  <2>2. Result(j) \in JOB_TERMINAL_STATES \ {"skipped"}
    BY <2>1 DEF Result, IInv, TypeOK, RunTyped, RunStatuses, WorkerInv, EndedWorker,
         JOB_TERMINAL_STATES
  <2>3. CASE Collect(j)
    BY <2>1, <2>2, <2>3, MovesAreSteps DEF Collect, Moves
  <2>4. CASE CollectBreaks(j)
    <3>1. entry' = entry /\ Unsure = {} /\ Unsure' = {j}
      BY <2>1, <2>4 DEF CollectBreaks, Unsure
    <3>2. Needs' = Needs
      BY <3>1 DEF Needs, DependsOn
    <3>3. UNCHANGED status \/ Becomes(j, Result(j))
      BY <2>4 DEF CollectBreaks
    <3>4. Lifecycle!Stumble(j)
      BY <2>1, <2>2, <3>1, <3>2, <3>3
         DEF Lifecycle!Stumble, Lifecycle!Becomes, Becomes, Needs
    <3> QED
      BY <3>4 DEF Lifecycle!Next
  <2> QED
    BY <1>8, <2>3, <2>4
<1>9. ASSUME NEW j \in Jobs, Launch(j) \/ LaunchBreaks(j) PROVE Lifecycle!Next
  BY <1>9, MovesAreSteps DEF Launch, LaunchBreaks, Scans, Launchable, Moves
<1>10. ASSUME pc = "rejudge", pc' # "rejudge", entry' = entry,
              UNCHANGED status \/ Becomes(at, "failed")
       PROVE  Lifecycle!Next
  <2>1. at \in Jobs /\ at \in Unsure /\ Unsure' = {}
    BY <1>10 DEF Unsure, IInv, RejudgeInv
  <2>2. Needs' = Needs
    BY <1>10 DEF Needs, DependsOn
  <2>3. Lifecycle!Retract(at)
    BY <1>10, <2>1, <2>2 DEF Lifecycle!Retract, Lifecycle!Becomes, Becomes, Needs
  <2> QED
    BY <2>1, <2>3 DEF Lifecycle!Next
<1>11. ASSUME NEW j \in Jobs, Rejudge(j) PROVE Lifecycle!Next
  BY <1>10, <1>11 DEF Rejudge
<1>12. CASE Interrupt \/ Crash
  <2>1. UNCHANGED <<entry, status>> /\ pc' # "rejudge"
    BY <1>12 DEF Interrupt, Crash, Ends
  <2> QED
    BY <1>0, <1>10, <2>1
<1>13. ASSUME NEW j \in Jobs,
              CancelJob(j) \/ MarkerRaises(j) \/ OrphanExits(j) \/ Worker(j) \/ PassOver(j)
       PROVE  UNCHANGED <<status, Needs, Unsure>>
  <2>1. UNCHANGED <<entry, status>> /\ (UNCHANGED <<pc, at>> \/ (pc # "rejudge" /\ pc' # "rejudge"))
    BY <1>13 DEF CancelJob, MarkerRaises, OrphanExits, Worker, WorkerCreates,
         WorkerCannotLaunch, WorkerLaunches, WorkerRecordsPid, WorkerReturns, WorkerRaises,
         PassOver
  <2> QED
    BY <1>0, <2>1
<1>14. CASE StartRun \/ StartRecover \/ EndReconcile \/ StartLoop
  <2>1. UNCHANGED <<entry, status>> /\ pc # "rejudge" /\ pc' # "rejudge"
    BY <1>14 DEF StartRun, StartRecover, EndReconcile, StartLoop, Ends
  <2> QED
    BY <1>0, <2>1
<1>15. CASE EndMarkers \/ EndCollect \/ EndSkip \/ EndFailFast \/ EndLaunch \/ Decide
              \/ EndGiveUp \/ EndAbort
  <2>1. UNCHANGED <<entry, status>> /\ pc # "rejudge" /\ pc' # "rejudge"
    BY <1>15 DEF EndMarkers, EndCollect, EndSkip, EndFailFast, EndLaunch, Decide, NextRound,
         EndGiveUp, EndAbort, Ends
  <2> QED
    BY <1>0, <2>1
<1>16. CASE UNCHANGED vars
  BY <1>0, <1>16 DEF vars
<1> QED
  BY <1>1, <1>2, <1>3, <1>5, <1>6, <1>7, <1>8, <1>9, <1>11, <1>12, <1>13, <1>14, <1>15, <1>16
     DEF Next, Command, Scheduler, Recovery, Admission, Round

(* The jobs live as JobLifecycle says, through every crash and recovery.    *)
THEOREM QueueFollowsLifecycle == Spec => FollowsLifecycle
  BY LifecycleInit, LifecycleStep, IInvAlways, PTL DEF Spec, FollowsLifecycle, Lifecycle!Spec

-----------------------------------------------------------------------------
(***************************************************************************)
(* The refinement of DurableRun: the runs of the jobs.  Most steps of the  *)
(* scheduler leave them alone; a launch begins a run, a worker's step is a *)
(* step of its run, a recovery judges it, a retry repeats it.              *)
(***************************************************************************)
(* A worker that has launched its process has not seen it end; a record     *)
(* that names a process has had one; a position not used repeats no job.    *)
RunInv ==
  \A j \in Jobs :
    /\ worker[j] \in {"launched", "monitor"} => child[j] = "alive"
    /\ record[j] \in {"running", "orphaned"} => child[j] # "none"
    /\ status[j] = "absent" => entry[j].parent = NoJob

(* The steps that leave the runs alone.                                     *)
Elsewhere(j) ==
  \/ CancelJob(j) \/ BlockMissing(j) \/ BlockCyclic(j) \/ BlockOversize(j)
  \/ TakeMarker(j) \/ MarkerRaises(j) \/ Collect(j) \/ CollectBreaks(j) \/ Rejudge(j)
  \/ Skip(j) \/ FailFast(j) \/ PassOver(j) \/ LaunchBreaks(j) \/ GiveUp(j)
Aside ==
  \/ StartRun \/ StartRecover \/ EndReconcile \/ StartLoop \/ Interrupt \/ EndMarkers
  \/ EndCollect \/ EndSkip \/ EndFailFast \/ EndLaunch \/ Decide \/ EndGiveUp \/ EndAbort

(* A collected job whose worker raised was doubted before.                  *)
LEMMA RunsAside ==
  ASSUME Aside \/ \E j \in Jobs : Elsewhere(j)
  PROVE  UNCHANGED <<entry, record, child, worker, Doubted>>
<1> USE DEF runVars, queueVars, history
<1>1. ASSUME Aside PROVE UNCHANGED <<entry, record, child, worker, blind>>
  BY <1>1 DEF Aside, StartRun, StartRecover, EndReconcile, StartLoop, Interrupt, EndMarkers,
       EndCollect, EndSkip, EndFailFast, EndLaunch, Decide, EndGiveUp, EndAbort
<1>2. ASSUME NEW j \in Jobs, Elsewhere(j), ~ Collect(j)
      PROVE  UNCHANGED <<entry, record, child, worker, blind>>
  BY <1>2 DEF Elsewhere, CancelJob, BlockMissing, BlockCyclic, BlockOversize, Block,
       TakeMarker, MarkerRaises, CollectBreaks, Rejudge, Skip, FailFast, PassOver,
       LaunchBreaks, GiveUp
<1>3. UNCHANGED <<worker, blind>> => Doubted' = Doubted
  BY DEF Doubted
<1>4. ASSUME NEW j \in Jobs, Collect(j) PROVE UNCHANGED <<entry, record, child, worker, Doubted>>
  BY <1>4 DEF Collect, Release, Doubted
<1> QED
  BY <1>1, <1>2, <1>3, <1>4

(* What is left to look at.                                                 *)
LEMMA RunSteps ==
  ASSUME [Next]_vars
  PROVE  \/ Aside \/ UNCHANGED vars \/ Crash
         \/ \E j \in Jobs : \/ Elsewhere(j) \/ AddJob(j) \/ RetryJob(j) \/ Reconcile(j)
                            \/ Launch(j) \/ Worker(j) \/ OrphanExits(j)
  BY DEF Next, Command, Scheduler, Recovery, Admission, Round, Aside, Elsewhere

(* A listed job stays listed.                                               *)
LEMMA StaysListed ==
  ASSUME IInv, [Next]_vars, NEW j \in Jobs, status'[j] = "absent"
  PROVE  status[j] = "absent"
<1>1. status \in [Jobs -> Statuses]
  BY DEF IInv, TypeOK, QueueTyped
<1>2. CASE UNCHANGED status
  BY <1>2
<1>3. CASE Lifecycle!Next /\ ~ UNCHANGED status
  <2>1. \E i \in Jobs : \E s : s # "absent" /\ status' = [status EXCEPT ![i] = s]
    BY <1>3 DEF Lifecycle!Next, Lifecycle!Add, Lifecycle!Start, Lifecycle!Refuse,
         Lifecycle!Orphan, Lifecycle!Settle, Lifecycle!Stumble, Lifecycle!Retract,
         Lifecycle!Becomes, JOB_TERMINAL_STATES
  <2> QED
    BY <1>1, <2>1
<1> QED
  BY <1>2, <1>3, LifecycleStep DEF Lifecycle!vars

(* RunInv is kept by every step.                                            *)
LEMMA RunInvStep == IInv /\ RunInv /\ [Next]_vars => RunInv'
<1> SUFFICES ASSUME IInv, RunInv, [Next]_vars PROVE RunInv'
  OBVIOUS
<1>0. \A j \in Jobs : status'[j] = "absent" => status[j] = "absent"
  BY StaysListed
<1> USE DEF runVars, queueVars, IInv, TypeOK, RunTyped
<1>1. CASE Aside \/ \E j \in Jobs : Elsewhere(j)
  BY <1>0, <1>1, RunsAside DEF RunInv
<1>2. CASE UNCHANGED vars
  BY <1>0, <1>2 DEF RunInv, vars
<1>3. CASE Crash
  BY <1>0, <1>3 DEF RunInv, Crash
<1>4. ASSUME NEW j \in Jobs, AddJob(j) \/ RetryJob(j) PROVE RunInv'
  <2>1. \E e : Enlist(j, e)
    BY <1>4 DEF AddJob, RetryJob
  <2>2. UNCHANGED <<record, child, worker>> /\ status'[j] = "queued"
        /\ \A i \in Jobs \ {j} : entry'[i] = entry[i]
    BY <2>1 DEF Enlist, Becomes, QueueTyped
  <2> QED
    BY <1>0, <2>2 DEF RunInv
<1>5. ASSUME NEW j \in Jobs, Reconcile(j) PROVE RunInv'
  <2>1. UNCHANGED <<entry, child, worker>>
        /\ \E s \in Rewritten(j) : record' = [record EXCEPT ![j] = s]
    BY <1>5 DEF Reconcile, Records
  <2>2. \A s \in Rewritten(j) : s \in {"running", "orphaned"} => child[j] # "none"
    BY DEF Rewritten, Reconciled, RunInv, JOB_TERMINAL_STATES
  <2> QED
    BY <1>0, <2>1, <2>2 DEF RunInv
<1>6. ASSUME NEW j \in Jobs, Launch(j) PROVE RunInv'
  BY <1>0, <1>6 DEF Launch, RunInv
<1>7. ASSUME NEW j \in Jobs, Worker(j) PROVE RunInv'
  <2>1. entry' = entry /\ j \in futures
    BY <1>7 DEF Worker, WorkerCreates, WorkerCannotLaunch, WorkerLaunches,
         WorkerRecordsPid, WorkerReturns, WorkerRaises, Works
  <2>2. CASE WorkerCreates(j) \/ WorkerCannotLaunch(j) \/ WorkerRaises(j)
    BY <1>0, <2>1, <2>2 DEF WorkerCreates, WorkerCannotLaunch, WorkerRaises, Works, Records,
         RunInv
  <2>3. CASE WorkerLaunches(j)
    BY <1>0, <2>1, <2>3 DEF WorkerLaunches, Works, Records, RunInv
  <2>4. CASE WorkerRecordsPid(j)
    BY <1>0, <2>1, <2>4 DEF WorkerRecordsPid, Works, Records, RunInv
  <2>5. CASE WorkerReturns(j)
    BY <1>0, <2>1, <2>5 DEF WorkerReturns, Works, Records, RunInv
  <2> QED
    BY <1>7, <2>2, <2>3, <2>4, <2>5 DEF Worker
<1>8. ASSUME NEW j \in Jobs, OrphanExits(j) PROVE RunInv'
  BY <1>0, <1>8 DEF OrphanExits, RunInv
<1> QED
  BY <1>1, <1>2, <1>3, <1>4, <1>5, <1>6, <1>7, <1>8, RunSteps

(* An empty queue has no runs.                                              *)
LEMMA RunInit == Init => RunInv /\ Run!Init
<1>1. Init => RunInv
  BY DEF Init, RunInv, Unlisted
<1>2. Init => Run!Init
  BY DEF Init, Run!Init, Watched, ParentOf, Doubted, LiveWorker, Unlisted
<1> QED
  BY <1>1, <1>2

(* A job added again is a run that repeats one that is over.                *)
LEMMA EnlistRepeats ==
  ASSUME IInv, RunInv, NEW j \in Jobs, AddJob(j) \/ RetryJob(j)
  PROVE  [Run!Next]_(Run!vars)
<1>1. PICK e : Enlist(j, e) /\ (e.parent = NoJob \/ e.parent \in InState(JOB_TERMINAL_STATES))
  <2>1. CASE AddJob(j)
    BY <2>1 DEF AddJob
  <2>2. CASE RetryJob(j)
    <3>1. PICK p \in InState(JOB_TERMINAL_STATES) : Enlist(j, [entry[p] EXCEPT !.parent = p])
      BY <2>2 DEF RetryJob
    <3>2. [entry[p] EXCEPT !.parent = p].parent = p
      BY <3>1 DEF InState, IInv, TypeOK, QueueTyped, Entries
    <3> QED
      BY <3>1, <3>2
  <2> QED
    BY <2>1, <2>2
<1>2. UNCHANGED <<record, child, worker, blind>> /\ status[j] = "absent"
  BY <1>1 DEF Enlist, First, InState, runVars, history
<1>3. Doubted' = Doubted /\ Watched' = Watched
  BY <1>2 DEF Doubted, Watched
<1>4. ParentOf' = [ParentOf EXCEPT ![j] = e.parent] /\ ParentOf[j] = NoJob
  BY <1>1, <1>2 DEF Enlist, ParentOf, RunInv, IInv, TypeOK, QueueTyped
<1>5. CASE e.parent = NoJob
  <2>1. ParentOf' = ParentOf
    BY <1>4, <1>5 DEF ParentOf
  <2> QED
    BY <1>2, <1>3, <2>1 DEF Run!vars
<1>6. CASE e.parent \in InState(JOB_TERMINAL_STATES)
  <2> DEFINE p == e.parent
  <2>1. p \in Jobs /\ p # j /\ status[p] \in JOB_TERMINAL_STATES
    BY <1>2, <1>6 DEF InState, JOB_TERMINAL_STATES
  <2>2. Run!Fresh(j)
    BY <1>2 DEF Run!Fresh, IInv, QueueInv, Watched, LiveWorker
  <2>3. p \notin Watched
    BY <2>1 DEF Watched, IInv, WorkerInv, WatchInv, JOB_TERMINAL_STATES
  <2>4. Run!Over(p) \/ p \in Doubted
    <3>1. child[p] # "alive" \/ p \in blind
      BY <2>1 DEF IInv, SettledInv
    <3>2. child[p] \in {"none", "alive", "gone"}
      BY <2>1 DEF IInv, TypeOK, RunTyped
    <3> QED
      BY <2>3, <3>1, <3>2 DEF Run!Over, Doubted
  <2>5. Run!Repeat(j, p)
    BY <1>2, <1>3, <1>4, <2>1, <2>2, <2>4 DEF Run!Repeat
  <2> QED
    BY <2>1, <2>5 DEF Run!Next
<1> QED
  BY <1>1, <1>5, <1>6

(* A worker's step is its run's.                                            *)
LEMMA WorkerRuns ==
  ASSUME IInv, RunInv, NEW j \in Jobs, Worker(j)
  PROVE  Run!Next
<1> USE DEF runVars, queueVars, history
<1>1. UNCHANGED <<entry, blind>> /\ ParentOf' = ParentOf /\ j \in futures
  BY DEF Worker, WorkerCreates, WorkerCannotLaunch, WorkerLaunches, WorkerRecordsPid,
     WorkerReturns, WorkerRaises, Works, ParentOf
<1>2. worker \in [Jobs -> {"none", "dead"} \cup LiveWorker \cup EndedWorker]
  BY DEF IInv, TypeOK, RunTyped
<1>3. ASSUME NEW a \in LiveWorker, NEW b \in LiveWorker \cup EndedWorker, Works(j, a, b)
      PROVE  /\ j \in Watched
             /\ Watched' = IF b \in LiveWorker THEN Watched ELSE Watched \ {j}
             /\ Doubted' = IF b = "raised" THEN Doubted \cup {j} ELSE Doubted
  BY <1>1, <1>2, <1>3 DEF Works, Watched, Doubted, LiveWorker, EndedWorker
<1>4. CASE WorkerCreates(j)
  <2>1. j \in Watched /\ Watched' = Watched /\ Doubted' = Doubted
    BY <1>3, <1>4 DEF WorkerCreates, LiveWorker, EndedWorker
  <2>2. Run!Create(j)
    BY <1>1, <1>4, <2>1 DEF WorkerCreates, Works, Records, Run!Create, Run!Records, IInv,
         WorkerInv
  <2> QED
    BY <2>2 DEF Run!Next
<1>5. CASE WorkerCannotLaunch(j)
  <2>1. j \in Watched /\ Watched' = Watched \ {j} /\ Doubted' = Doubted
    BY <1>3, <1>5 DEF WorkerCannotLaunch, LiveWorker, EndedWorker
  <2>2. Run!End(j)
    BY <1>1, <1>5, <2>1 DEF WorkerCannotLaunch, Works, Records, Run!End, Run!Records, IInv,
         WorkerInv
  <2> QED
    BY <2>2 DEF Run!Next
<1>6. CASE WorkerLaunches(j)
  <2>1. j \in Watched /\ Watched' = Watched /\ Doubted' = Doubted
    BY <1>3, <1>6 DEF WorkerLaunches, LiveWorker, EndedWorker
  <2>2. status[j] = "running"
    BY <1>1 DEF IInv, WatchInv
  <2>3. ASSUME NEW q \in Jobs, child[q] = "alive"
        PROVE  /\ ParentOf[j] = q => q \in Doubted
               /\ ParentOf[q] = j => j \in Doubted
    <3>1. ParentOf[j] = q => status[q] \in JOB_TERMINAL_STATES
      BY TaskQueueAssumption DEF ParentOf, IInv, SettledInv, Jobs, NoJob
    <3>2. ParentOf[q] # j
      BY <2>2, TaskQueueAssumption
         DEF ParentOf, IInv, SettledInv, Jobs, NoJob, JOB_TERMINAL_STATES
    <3> QED
      BY <2>3, <3>1, <3>2 DEF IInv, SettledInv, Doubted
  <2>4. Run!Launch(j)
    BY <1>1, <1>6, <2>1, <2>3 DEF WorkerLaunches, Works, Run!Launch, Run!Process, IInv,
         WorkerInv
  <2> QED
    BY <2>4 DEF Run!Next
<1>7. CASE WorkerRecordsPid(j)
  <2>1. j \in Watched /\ Watched' = Watched /\ Doubted' = Doubted
    BY <1>3, <1>7 DEF WorkerRecordsPid, LiveWorker, EndedWorker
  <2>2. Run!Note(j)
    BY <1>1, <1>7, <2>1 DEF WorkerRecordsPid, Works, Records, Run!Note, Run!Records, RunInv
  <2> QED
    BY <2>2 DEF Run!Next
<1>8. CASE WorkerReturns(j)
  <2>1. j \in Watched /\ Watched' = Watched \ {j} /\ Doubted' = Doubted
    BY <1>3, <1>8 DEF WorkerReturns, LiveWorker, EndedWorker
  <2>2. child[j] = "alive" /\ record[j] = "running"
    BY <1>8 DEF WorkerReturns, Works, RunInv, IInv, WorkerInv
  <2>3. Run!End(j)
    BY <1>1, <1>8, <2>1, <2>2 DEF WorkerReturns, Records, Run!End, Run!Records, Run!Process,
         Run!EndStates
  <2> QED
    BY <2>3 DEF Run!Next
<1>9. CASE WorkerRaises(j)
  <2>1. j \in Watched /\ Watched' = Watched \ {j} /\ Doubted' = Doubted \cup {j}
    BY <1>3, <1>9 DEF WorkerRaises, LiveWorker, EndedWorker
  <2>2. Run!Lose(j)
    BY <1>1, <1>9, <2>1 DEF WorkerRaises, Run!Lose
  <2> QED
    BY <2>2 DEF Run!Next
<1> QED
  BY <1>4, <1>5, <1>6, <1>7, <1>8, <1>9 DEF Worker

(* A recovery's verdict on a job is one on its run.                         *)
LEMMA ReconcileJudges ==
  ASSUME IInv, RunInv, NEW j \in Jobs, Reconcile(j)
  PROVE  [Run!Next]_(Run!vars)
<1>1. /\ UNCHANGED <<entry, child, worker>>
      /\ \E s \in Rewritten(j) : record' = [record EXCEPT ![j] = s]
      /\ blind' = IF record[j] = "created" THEN blind \cup {j} ELSE blind
  BY DEF Reconcile, Records
<1>2. UNCHANGED <<child, Watched, ParentOf>>
  BY <1>1 DEF Watched, ParentOf
<1>3. Doubted' = IF record[j] = "created" THEN Doubted \cup {j} ELSE Doubted
  BY <1>1 DEF Doubted
<1>4. record \in [Jobs -> RunStatuses] /\ child[j] \in {"none", "alive", "gone"}
  BY DEF IInv, TypeOK, RunTyped
<1>5. CASE record[j] = "absent"
  <2>1. record' = record
    BY <1>1, <1>4, <1>5 DEF Rewritten
  <2> QED
    BY <1>2, <1>3, <1>5, <2>1 DEF Run!vars
<1>6. CASE record[j] # "absent"
  <2>1. PICK s \in Rewritten(j) : record' = [record EXCEPT ![j] = s]
    BY <1>1
  <2>2. \/ s = record[j]
        \/ s = "orphaned" /\ child[j] # "none"
        \/ s = "interrupted" /\ (child[j] = "gone" \/ record[j] = "created")
    BY <1>4, <1>6 DEF Rewritten, Reconciled, RunInv, RunStatuses, JOB_TERMINAL_STATES
  <2>3. s = record[j] => record' = record
    BY <1>4, <2>1
  <2>4. Run!Judge(j)
    BY <1>2, <1>3, <1>6, <2>1, <2>2, <2>3 DEF Run!Judge, Run!Records
  <2> QED
    BY <2>4 DEF Run!Next
<1> QED
  BY <1>5, <1>6

(* The jobs' runs are durable runs: a scheduler with any number of workers, *)
(* its recoveries and the retries keep what DurableRun promises.            *)
THEOREM QueueFollowsDurableRun == Spec => FollowsDurableRun
<1>1. IInv /\ RunInv /\ [Next]_vars => [Run!Next]_(Run!vars)
  <2> SUFFICES ASSUME IInv, RunInv, [Next]_vars PROVE [Run!Next]_(Run!vars)
    OBVIOUS
  <2>1. CASE Aside \/ \E j \in Jobs : Elsewhere(j)
    BY <2>1, RunsAside DEF Run!vars, Watched, ParentOf
  <2>2. CASE UNCHANGED vars
    BY <2>2 DEF vars, runVars, queueVars, history, Run!vars, Watched, ParentOf, Doubted
  <2>3. CASE Crash
    <3>1. Run!Abandon
      BY <2>3 DEF Crash, runVars, queueVars, history, Run!Abandon, Watched, ParentOf, Doubted,
           LiveWorker, IInv, TypeOK, RunTyped
    <3> QED
      BY <3>1 DEF Run!Next
  <2>4. ASSUME NEW j \in Jobs, Launch(j) PROVE Run!Next
    <3>1. Run!Fresh(j)
      BY <2>4 DEF Launch, Scans, Launchable, Run!Fresh, IInv, QueueInv, Watched, LiveWorker
    <3>2. Watched' = Watched \cup {j} /\ Doubted' = Doubted
      BY <2>4, <3>1 DEF Launch, Run!Fresh, Launchable, IInv, TypeOK, RunTyped, QueueInv,
           Watched, Doubted, LiveWorker
    <3>3. Run!Begin(j)
      BY <2>4, <3>1, <3>2 DEF Launch, runVars, Run!Begin, ParentOf
    <3> QED
      BY <3>3 DEF Run!Next
  <2>5. ASSUME NEW j \in Jobs, OrphanExits(j) PROVE Run!Next
    <3>1. Run!Exit(j)
      BY <2>5 DEF OrphanExits, queueVars, history, Run!Exit, Run!Process, Watched, ParentOf,
           Doubted
    <3> QED
      BY <3>1 DEF Run!Next
  <2> QED
    BY <2>1, <2>2, <2>3, <2>4, <2>5, EnlistRepeats, WorkerRuns, ReconcileJudges, RunSteps
<1> QED
  BY <1>1, RunInit, RunInvStep, IInvAlways, PTL DEF Spec, FollowsDurableRun, Run!Spec

-----------------------------------------------------------------------------
(***************************************************************************)
(* Inside the loop.  The budget: what is available and the sum of what the *)
(* workers were launched with make up the totals, by induction over their  *)
(* set.  Giving up: blocking what the search of cycles reports leaves no    *)
(* circle of queued jobs, so when nothing can be launched and nothing runs, *)
(* following what a queued job waits for must end at a job that is orphaned *)
(* or did not succeed.                                                      *)
(***************************************************************************)
(* The facts on sums and on the search of cycles, which hold of every graph.*)
Search ==
  INSTANCE CycleSearchProofs WITH
    Graphs <- {}, RecursionLimit <- 0, graph <- Graph, dfs <- Cycles!Start

(* The operators they are about are those the scheduler's model uses.       *)
LEMMA SameOperators ==
  /\ \A f, S : Search!SumFunctionOnSet(f, S) = SumFunctionOnSet(f, S)
  /\ \A S : Search!IsFiniteSet(S) = IsFiniteSet(S)
<1>1. ASSUME NEW f, NEW S PROVE Search!SumFunctionOnSet(f, S) = SumFunctionOnSet(f, S)
  BY DEF Search!SumFunctionOnSet, SumFunctionOnSet, Search!FoldFunctionOnSet,
       FoldFunctionOnSet, Search!MapThenFoldSet, MapThenFoldSet
<1>2. ASSUME NEW S PROVE Search!IsFiniteSet(S) = IsFiniteSet(S)
  BY DEF Search!IsFiniteSet, IsFiniteSet
<1> QED
  BY <1>1, <1>2

(* So is the search.                                                        *)
LEMMA SameSearch ==
  ASSUME NEW g
  PROVE  Search!CycleMembers(g) = Cycles!CycleMembers(g)
  BY DEF Search!Nodes, Cycles!Nodes, Search!SumFunction, Cycles!SumFunction,
       Search!SumFunctionOnSet, Cycles!SumFunctionOnSet, Search!FoldFunctionOnSet,
       Cycles!FoldFunctionOnSet, Search!MapThenFoldSet, Cycles!MapThenFoldSet,
       Search!StepBound, Cycles!StepBound, Search!Start, Cycles!Start, Search!Step,
       Cycles!Step, Search!AtRoot, Cycles!AtRoot, Search!HasDependency,
       Cycles!HasDependency, Search!Exhausted, Cycles!Exhausted, Search!VisitRoot,
       Cycles!VisitRoot, Search!VisitDependency, Cycles!VisitDependency, Search!Close,
       Cycles!Close, Search!Open, Cycles!Open, Search!ClosedBy, Cycles!ClosedBy,
       Search!Visiting, Cycles!Visiting, Search!Top, Cycles!Top, Search!Search,
       Cycles!Search, Search!CycleMembers, Cycles!CycleMembers

(* And what it is about.                                                    *)
LEMMA SameReaching ==
  /\ \A E, a, b : Search!Reaches(E, a, b) <=> Cycles!Reaches(E, a, b)
  /\ \A E, a : Search!OnCycle(E, a) <=> Cycles!OnCycle(E, a)
  /\ \A g : Search!Edges(g) = Cycles!Edges(g)
  /\ \A E, C : Search!Without(E, C) = Cycles!Without(E, C)
  /\ Search!Nodes = Jobs /\ Cycles!Nodes = Jobs
  BY DEF Search!Reaches, Cycles!Reaches, Search!OnCycle, Cycles!OnCycle, Search!Edges,
       Cycles!Edges, Search!Without, Cycles!Without, Search!Nodes, Cycles!Nodes, Jobs,
       Search!Range, Cycles!Range

(* Sums of numbers over finite sets, and what a member adds to them.        *)
LEMMA SumFacts ==
  ASSUME NEW f, NEW S, IsFiniteSet(S), \A x \in S : f[x] \in Nat
  PROVE  /\ SumFunctionOnSet(f, S) \in Nat
         /\ \A x \in S : SumFunctionOnSet(f, S) = f[x] + SumFunctionOnSet(f, S \ {x})
<1>1. Search!IsFiniteSet(S)
  BY SameOperators
<1>2. Search!SumFunctionOnSet(f, S) \in Nat
  BY <1>1, Search!SumNat, TaskQueueAssumption
<1>3. ASSUME NEW x \in S
      PROVE  Search!SumFunctionOnSet(f, S) = f[x] + Search!SumFunctionOnSet(f, S \ {x})
  BY <1>1, Search!SumRemove, TaskQueueAssumption
<1> QED
  BY <1>2, <1>3, SameOperators

(* Nothing adds up to zero.                                                 *)
LEMMA NoSum == \A f : SumFunctionOnSet(f, {}) = 0
  BY Search!SumEmpty, SameOperators, TaskQueueAssumption

(* There are finitely many jobs.                                            *)
LEMMA JobsFinite == IsFiniteSet(Jobs) /\ \A S \in SUBSET Jobs : IsFiniteSet(S)
<1>1. IsFiniteSet(Jobs)
  BY TaskQueueAssumption, FS_Interval DEF Jobs
<1> QED
  BY <1>1, FS_Subset

(* A round of the loop changes no entry and no total, and queues no job.    *)
LEMMA LoopGoesOn ==
  ASSUME IInv, [Next]_vars, pc' \in LoopSteps, ~ StartLoop
  PROVE  /\ pc \in LoopSteps
         /\ entry' = entry /\ totals' = totals
         /\ \A j \in Jobs : /\ status'[j] = "queued" => status[j] = "queued"
                            /\ status'[j] = "absent" => status[j] = "absent"
<1> USE DEF queueVars, runVars, loopVars, LoopSteps, Becomes, IInv, TypeOK
<1>0. QueueTyped
  OBVIOUS
<1>1. ASSUME NEW j \in Jobs, AddJob(j) \/ RetryJob(j) PROVE FALSE
  BY <1>1 DEF AddJob, RetryJob, Enlist
<1>2. CASE StartRun \/ StartRecover \/ EndReconcile \/ Crash \/ Interrupt \/ EndAbort \/ EndGiveUp
  BY <1>2 DEF StartRun, StartRecover, EndReconcile, Crash, Interrupt, EndAbort, EndGiveUp, Ends
<1>3. ASSUME NEW j \in Jobs, Reconcile(j) \/ BlockMissing(j) \/ BlockCyclic(j) \/ BlockOversize(j)
      PROVE  FALSE
  BY <1>3 DEF Reconcile, BlockMissing, BlockCyclic, BlockOversize, Block
<1> DEFINE Goal == /\ pc \in LoopSteps
                   /\ entry' = entry /\ totals' = totals
                   /\ \A j \in Jobs : /\ status'[j] = "queued" => status[j] = "queued"
                                      /\ status'[j] = "absent" => status[j] = "absent"
<1>4. ASSUME NEW j \in Jobs, CancelJob(j) \/ MarkerRaises(j) \/ OrphanExits(j) \/ Worker(j)
      PROVE  Goal
  BY <1>4 DEF CancelJob, MarkerRaises, OrphanExits, Worker, WorkerCreates,
       WorkerCannotLaunch, WorkerLaunches, WorkerRecordsPid, WorkerReturns, WorkerRaises
<1>5. CASE EndMarkers \/ EndCollect \/ EndSkip \/ EndFailFast \/ EndLaunch
  BY <1>5 DEF EndMarkers, EndCollect, EndSkip, EndFailFast, EndLaunch
<1>6. CASE Decide
  BY <1>6 DEF Decide, Ends, NextRound
<1>7. ASSUME NEW j \in Jobs, TakeMarker(j) PROVE Goal
  BY <1>0, <1>7 DEF TakeMarker, MarkerOfQueued, MarkerOfRunning, QueueTyped
<1>8. ASSUME NEW j \in Jobs, Collect(j) \/ CollectBreaks(j) PROVE Goal
  <2>1. worker[j] \in EndedWorker /\ pc = "collect"
    BY <1>8 DEF Collect, CollectBreaks, Release, WatchInv
  <2>2. Result(j) \notin {"queued", "absent"}
    BY <2>1 DEF Result, WorkerInv, EndedWorker, JOB_TERMINAL_STATES
  <2> QED
    BY <1>0, <1>8, <2>1, <2>2 DEF Collect, CollectBreaks, QueueTyped
<1>9. ASSUME NEW j \in Jobs,
             Rejudge(j) \/ Skip(j) \/ FailFast(j) \/ PassOver(j) \/ Launch(j) \/ GiveUp(j)
      PROVE  Goal
  BY <1>0, <1>9 DEF Rejudge, Skip, FailFast, PassOver, Launch, Scans, GiveUp, Block, QueueTyped
<1>11. ASSUME NEW j \in Jobs, LaunchBreaks(j) PROVE FALSE
  BY <1>11 DEF LaunchBreaks
<1>10. CASE UNCHANGED vars
  BY <1>10 DEF vars
<1> QED
  BY <1>1, <1>2, <1>3, <1>4, <1>5, <1>6, <1>7, <1>8, <1>9, <1>10, <1>11
     DEF Next, Command, Scheduler, Recovery, Admission, Round

-----------------------------------------------------------------------------
(* The budget.                                                              *)

(* The budget, with what makes it inductive.                                *)
BudgetInv == IInv /\ BudgetConserved

(* What each job asks of a resource.                                        *)
Requests(r) == [j \in Jobs |-> entry[j].request[r]]

(* A job among others adds its request to theirs.                           *)
LEMMA RequestOfOne ==
  ASSUME NEW S \in SUBSET Jobs, NEW j \in S, NEW r \in Resources, QueueTyped
  PROVE  /\ SumFunctionOnSet(Requests(r), S)
              = entry[j].request[r] + SumFunctionOnSet(Requests(r), S \ {j})
         /\ SumFunctionOnSet(Requests(r), S \ {j}) \in Nat
         /\ entry[j].request[r] \in Nat
<1>1. \A i \in S : Requests(r)[i] \in Nat
  BY EntryTyped DEF QueueTyped, Amounts, Requests
<1>2. IsFiniteSet(S) /\ IsFiniteSet(S \ {j})
  BY JobsFinite
<1>3. Requests(r)[j] = entry[j].request[r]
  BY DEF Requests
<1> QED
  BY <1>1, <1>2, <1>3, SumFacts

(* Only a launch and a collected result change what is available.           *)
LEMMA LoopKeepsBudget ==
  ASSUME IInv, [Next]_vars, pc' \in LoopSteps, ~ StartLoop,
         \A j \in Jobs : ~ Launch(j) /\ ~ Release(j)
  PROVE  UNCHANGED <<available, futures>>
<1> USE DEF queueVars, runVars, loopVars, LoopSteps
<1>1. ASSUME NEW j \in Jobs,
             AddJob(j) \/ RetryJob(j) \/ Reconcile(j) \/ BlockMissing(j) \/ BlockCyclic(j)
               \/ BlockOversize(j) \/ Collect(j) \/ CollectBreaks(j) \/ LaunchBreaks(j)
      PROVE  FALSE
  BY <1>1 DEF AddJob, RetryJob, Enlist, Reconcile, BlockMissing, BlockCyclic, BlockOversize,
       Block, Collect, CollectBreaks, LaunchBreaks
<1>2. CASE StartRun \/ StartRecover \/ EndReconcile \/ Crash \/ Interrupt \/ EndAbort \/ EndGiveUp
  BY <1>2 DEF StartRun, StartRecover, EndReconcile, Crash, Interrupt, EndAbort, EndGiveUp, Ends
<1>3. ASSUME NEW j \in Jobs, CancelJob(j) \/ MarkerRaises(j) \/ OrphanExits(j) \/ Worker(j)
      PROVE  UNCHANGED <<available, futures>>
  BY <1>3 DEF CancelJob, MarkerRaises, OrphanExits, Worker, WorkerCreates,
       WorkerCannotLaunch, WorkerLaunches, WorkerRecordsPid, WorkerReturns, WorkerRaises
<1>4. CASE EndMarkers \/ EndCollect \/ EndSkip \/ EndFailFast \/ EndLaunch
  BY <1>4 DEF EndMarkers, EndCollect, EndSkip, EndFailFast, EndLaunch
<1>5. CASE Decide
  BY <1>5 DEF Decide, Ends, NextRound
<1>6. ASSUME NEW j \in Jobs,
             TakeMarker(j) \/ Rejudge(j) \/ Skip(j) \/ FailFast(j) \/ PassOver(j) \/ GiveUp(j)
      PROVE  UNCHANGED <<available, futures>>
  BY <1>6 DEF TakeMarker, Rejudge, Skip, FailFast, PassOver, GiveUp, Block
<1>7. CASE UNCHANGED vars
  BY <1>7 DEF vars
<1> QED
  BY <1>1, <1>2, <1>3, <1>4, <1>5, <1>6, <1>7
     DEF Next, Command, Scheduler, Recovery, Admission, Round

(* Each step keeps the budget.                                              *)
LEMMA BudgetStep == BudgetInv /\ [Next]_vars => BudgetConserved'
<1> SUFFICES ASSUME BudgetInv, [Next]_vars, pc' \in LoopSteps
             PROVE  /\ Cardinality(futures') <= MaxWorkers
                    /\ \A r \in Resources : available'[r] + Used(r)' = totals'[r]
  BY DEF BudgetConserved
<1>1. CASE StartLoop
  <2>1. futures = {} /\ futures' = {} /\ available' = totals /\ totals' = totals
    BY <1>1 DEF StartLoop, BudgetInv, IInv, WatchInv, LoopSteps
  <2>2. Cardinality(futures') = 0
    BY <2>1, FS_EmptySet
  <2>3. ASSUME NEW r \in Resources PROVE Used(r)' = 0 /\ totals[r] \in Nat
    BY <2>1, NoSum DEF Used, Requests, BudgetInv, IInv, TypeOK, LoopTyped, Amounts
  <2> QED
    BY <2>1, <2>2, <2>3, TaskQueueAssumption
<1>2. CASE ~ StartLoop
  <2>0. IInv
    BY DEF BudgetInv
  <2>1. /\ pc \in LoopSteps /\ entry' = entry /\ totals' = totals
        /\ Cardinality(futures) <= MaxWorkers
        /\ \A r \in Resources : available[r] + Used(r) = totals[r]
    BY <1>2, LoopGoesOn DEF BudgetInv, BudgetConserved
  <2>2. QueueTyped /\ LoopTyped /\ futures \subseteq Jobs
    BY DEF BudgetInv, IInv, TypeOK, LoopTyped
  <2>3. ASSUME NEW j \in Jobs, Launch(j)
        PROVE  /\ Cardinality(futures') <= MaxWorkers
               /\ \A r \in Resources : available'[r] + Used(r)' = totals'[r]
    <3>1. futures' = futures \cup {j} /\ j \notin futures /\ Cardinality(futures) < MaxWorkers
      BY <2>3 DEF Launch, Scans, Launchable, BudgetInv, IInv, WatchInv
    <3>2. IsFiniteSet(futures) /\ Cardinality(futures) \in Nat
      BY <2>2, JobsFinite, FS_CardinalityType
    <3>3. Cardinality(futures') = Cardinality(futures) + 1
      BY <3>1, <3>2, FS_AddElement
    <3>4. ASSUME NEW r \in Resources PROVE available'[r] + Used(r)' = totals'[r]
      <4>1. futures' \in SUBSET Jobs /\ j \in futures' /\ futures' \ {j} = futures
        BY <2>2, <3>1
      <4>2. /\ Used(r)' = entry[j].request[r] + Used(r)
            /\ Used(r) \in Nat /\ entry[j].request[r] \in Nat
        <5>1. Used(r)' = SumFunctionOnSet(Requests(r), futures')
          BY <2>1 DEF Used, Requests
        <5>2. Used(r) = SumFunctionOnSet(Requests(r), futures' \ {j})
          BY <4>1 DEF Used, Requests
        <5> QED
          BY <2>2, <4>1, <5>1, <5>2, RequestOfOne
      <4>3. available'[r] = available[r] - entry[j].request[r] /\ available[r] \in Nat
        BY <2>2, <2>3 DEF Launch, LoopTyped, Amounts
      <4> QED
        BY <2>1, <4>2, <4>3
    <3> QED
      BY <3>1, <3>2, <3>3, <3>4, TaskQueueAssumption
  <2>4. ASSUME NEW j \in Jobs, Release(j)
        PROVE  /\ Cardinality(futures') <= MaxWorkers
               /\ \A r \in Resources : available'[r] + Used(r)' = totals'[r]
    <3>1. futures' = futures \ {j} /\ j \in futures
      BY <2>2, <2>4 DEF Release, LoopTyped
    <3>2. IsFiniteSet(futures) /\ Cardinality(futures) \in Nat
      BY <2>2, JobsFinite, FS_CardinalityType
    <3>3. Cardinality(futures') = Cardinality(futures) - 1
      BY <3>1, <3>2, FS_RemoveElement
    <3>4. ASSUME NEW r \in Resources PROVE available'[r] + Used(r)' = totals'[r]
      <4>1. /\ Used(r) = entry[j].request[r] + Used(r)'
            /\ Used(r)' \in Nat /\ entry[j].request[r] \in Nat
        <5>1. Used(r) = SumFunctionOnSet(Requests(r), futures)
          BY DEF Used, Requests
        <5>2. Used(r)' = SumFunctionOnSet(Requests(r), futures \ {j})
          BY <2>1, <3>1 DEF Used, Requests
        <5> QED
          BY <2>2, <3>1, <5>1, <5>2, RequestOfOne
      <4>2. available'[r] = available[r] + entry[j].request[r] /\ available[r] \in Nat
        BY <2>2, <2>4 DEF Release, LoopTyped, Amounts
      <4> QED
        BY <2>1, <4>1, <4>2
    <3> QED
      BY <2>1, <3>2, <3>3, <3>4, TaskQueueAssumption
  <2>5. CASE \A j \in Jobs : ~ Launch(j) /\ ~ Release(j)
    <3>1. UNCHANGED <<available, futures>>
      BY <1>2, <2>0, <2>5, LoopKeepsBudget
    <3>2. \A r \in Resources : Used(r)' = Used(r)
      BY <2>1, <3>1 DEF Used
    <3> QED
      BY <2>1, <3>1, <3>2
  <2> QED
    BY <2>3, <2>4, <2>5
<1> QED
  BY <1>1, <1>2

-----------------------------------------------------------------------------
(* What admission leaves, and the loop keeps: a queued job fits the whole   *)
(* budget, depends only on jobs of the queue and is in no circle of queued  *)
(* jobs.                                                                    *)

(* The queued jobs that a queued job waits for.                             *)
Waits ==
  [j \in Jobs |-> IF status[j] = "queued" THEN {d \in DependsOn(j) : status[d] = "queued"}
                  ELSE {}]

(* A job that no loop of the admission blocks.                              *)
Admitted(j) ==
  /\ Fits(entry[j].request, totals)
  /\ \A d \in DependsOn(j) : status[d] # "absent"

(* No queued jobs wait for each other in a circle.                          *)
NoCircularWait == pc \in LoopSteps => \A j \in Jobs : ~ Cycles!OnCycle(Waits, j)

(* Every queued job in the loop is one.                                     *)
AdmittedInv == pc \in LoopSteps => \A j \in InState({"queued"}) : Admitted(j)

(* kept is the function with which ListedOf goes through a list.            *)
IsKept(deps, b, kept) ==
  kept = [n \in 0 .. b |->
            IF n = 0 THEN <<>>
            ELSE IF Listed(deps[n]) THEN Append(kept[n - 1], deps[n])
            ELSE kept[n - 1]]

(* The one that ListedOf chooses.                                           *)
Kept(deps, b) == CHOOSE kept : IsKept(deps, b, kept)

(* There is such a function for every length.                               *)
LEMMA KeptExists ==
  ASSUME NEW deps, NEW b \in Nat
  PROVE  IsKept(deps, b, Kept(deps, b))
<1> DEFINE T == {n \in Nat : ~ \E kept : IsKept(deps, n, kept)}
<1> SUFFICES ASSUME b \in T PROVE FALSE
  BY DEF Kept
<1>1. PICK m \in T : \A k \in T : m <= k
  <2>1. T \in SUBSET Nat
    OBVIOUS
  <2> HIDE DEF T
  <2> QED
    BY <2>1, Search!LeastNumber, TaskQueueAssumption
<1>2. m # 0
  <2> DEFINE none == [n \in 0 .. 0 |-> <<>>]
  <2>1. none = [n \in 0 .. 0 |-> IF n = 0 THEN <<>>
                                 ELSE IF Listed(deps[n]) THEN Append(none[n - 1], deps[n])
                                 ELSE none[n - 1]]
    OBVIOUS
  <2>2. IsKept(deps, 0, none)
    BY <2>1 DEF IsKept
  <2> QED
    BY <2>2
<1>3. m - 1 \in Nat /\ m - 1 \notin T
  BY <1>1, <1>2
<1>4. PICK kept : IsKept(deps, m - 1, kept)
  BY <1>3
<1> DEFINE more == [n \in 0 .. m |-> IF n < m THEN kept[n]
                                     ELSE IF Listed(deps[m]) THEN Append(kept[m - 1], deps[m])
                                     ELSE kept[m - 1]]
<1>5. ASSUME NEW n \in 0 .. m
      PROVE  more[n] = IF n = 0 THEN <<>>
                       ELSE IF Listed(deps[n]) THEN Append(more[n - 1], deps[n])
                       ELSE more[n - 1]
  <2>1. CASE n = m
    <3>1. more[m - 1] = kept[m - 1] /\ m - 1 \in 0 .. m
      BY <1>2, <1>3
    <3>2. more[n] = IF Listed(deps[m]) THEN Append(kept[m - 1], deps[m]) ELSE kept[m - 1]
      BY <2>1
    <3> HIDE DEF more
    <3> QED
      BY <1>2, <2>1, <3>1, <3>2
  <2>2. CASE n # m
    <3>1. n \in 0 .. m - 1 /\ n < m /\ (n # 0 => n - 1 \in 0 .. m /\ n - 1 < m)
      BY <1>3, <2>2
    <3>2. kept[n] = IF n = 0 THEN <<>>
                    ELSE IF Listed(deps[n]) THEN Append(kept[n - 1], deps[n])
                    ELSE kept[n - 1]
      BY <1>4, <3>1 DEF IsKept
    <3>3. more[n] = kept[n] /\ (n # 0 => more[n - 1] = kept[n - 1])
      BY <3>1
    <3> HIDE DEF more
    <3> QED
      BY <3>2, <3>3
  <2> QED
    BY <2>1, <2>2
<1>6. IsKept(deps, m, more)
  <2>1. more = [n \in 0 .. m |-> more[n]]
    OBVIOUS
  <2> HIDE DEF more
  <2> QED
    BY <1>5, <2>1 DEF IsKept
<1> QED
  BY <1>6

(* An element appended to a list joins its range.                           *)
LEMMA RangeOfAppend ==
  ASSUME NEW s \in Seq(Jobs), NEW d \in Jobs
  PROVE  Append(s, d) \in Seq(Jobs) /\ Range(Append(s, d)) = Range(s) \cup {d}
<1> DEFINE t == Append(s, d)
<1>1. /\ t \in Seq(Jobs) /\ Len(s) \in Nat /\ DOMAIN t = 1 .. Len(s) + 1
      /\ DOMAIN s = 1 .. Len(s) /\ t[Len(s) + 1] = d
      /\ \A k \in 1 .. Len(s) : t[k] = s[k] /\ k \in 1 .. Len(s) + 1
  OBVIOUS
<1>2. \A k \in 1 .. Len(s) + 1 : k \in 1 .. Len(s) \/ k = Len(s) + 1
  BY <1>1
<1> HIDE DEF t
<1>3. Range(t) \subseteq Range(s) \cup {d}
  BY <1>1, <1>2 DEF Range
<1>4. Len(s) + 1 \in DOMAIN t
  BY <1>1
<1>5. Range(s) \cup {d} \subseteq Range(t)
  BY <1>1, <1>4 DEF Range
<1> QED
  BY <1>1, <1>3, <1>5 DEF t

(* The filter gives a list of jobs and leaves out none that is listed.      *)
LEMMA ListedOfKeeps ==
  ASSUME NEW deps \in Seq(Jobs)
  PROVE  /\ ListedOf(deps) \in Seq(Jobs)
         /\ \A d \in Range(deps) : Listed(d) => d \in Range(ListedOf(deps))
<1> DEFINE b == Len(deps)
           kept == Kept(deps, b)
           Good(n) == /\ kept[n] \in Seq(Jobs)
                      /\ \A i \in 1 .. n : Listed(deps[i]) => deps[i] \in Range(kept[n])
           T == {n \in Nat : n <= b /\ ~ Good(n)}
<1>1. b \in Nat /\ IsKept(deps, b, kept)
  BY KeptExists
<1>2. ListedOf(deps) = kept[b]
  BY DEF ListedOf, Kept, IsKept
<1>3. \A n \in 1 .. b : deps[n] \in Jobs
  OBVIOUS
<1> HIDE DEF kept, b
<1>4. ASSUME NEW n \in 0 .. b
      PROVE  kept[n] = IF n = 0 THEN <<>>
                       ELSE IF Listed(deps[n]) THEN Append(kept[n - 1], deps[n])
                       ELSE kept[n - 1]
  BY <1>1 DEF IsKept
<1>5. \A n \in Nat : n <= b => Good(n)
  <2> SUFFICES ASSUME NEW n \in T PROVE FALSE
    OBVIOUS
  <2>1. PICK m \in T : \A k \in T : m <= k
    <3>1. T \in SUBSET Nat
      OBVIOUS
    <3> HIDE DEF T
    <3> QED
      BY <3>1, Search!LeastNumber, TaskQueueAssumption
  <2>2. m # 0
    <3>1. kept[0] = <<>>
      BY <1>1, <1>4
    <3>2. Good(0)
      BY <3>1
    <3> QED
      BY <2>1, <3>2
  <2>3. m \in 1 .. b /\ m - 1 \in Nat /\ m - 1 <= b /\ m - 1 \notin T
    BY <1>1, <2>1, <2>2
  <2>4. Good(m - 1)
    BY <2>3
  <2>5. CASE Listed(deps[m])
    <3>1. kept[m] = Append(kept[m - 1], deps[m])
      <4>1. m \in 0 .. b
        BY <2>3
      <4> HIDE DEF T
      <4> QED
        BY <1>4, <2>2, <2>5, <4>1
    <3>2. kept[m] \in Seq(Jobs) /\ Range(kept[m]) = Range(kept[m - 1]) \cup {deps[m]}
      <4>1. deps[m] \in Jobs /\ kept[m - 1] \in Seq(Jobs)
        BY <1>3, <2>3, <2>4
      <4> QED
        BY <3>1, <4>1, RangeOfAppend
    <3>3. \A i \in 1 .. m : i \in 1 .. m - 1 \/ i = m
      BY <2>3
    <3> QED
      BY <2>1, <2>4, <3>2, <3>3
  <2>6. CASE ~ Listed(deps[m])
    <3>1. kept[m] = kept[m - 1]
      BY <1>4, <2>2, <2>3, <2>6
    <3>2. \A i \in 1 .. m : i \in 1 .. m - 1 \/ i = m
      BY <2>3
    <3> QED
      BY <2>1, <2>4, <2>6, <3>1, <3>2
  <2> QED
    BY <2>5, <2>6
<1>6. Good(b)
  BY <1>1, <1>5
<1>7. \A d \in Range(deps) : \E i \in 1 .. b : d = deps[i]
  BY DEF Range, b
<1> QED
  BY <1>2, <1>6, <1>7

(* The graph that is searched has all of a job's listed dependencies.       *)
LEMMA GraphTyped ==
  ASSUME QueueTyped
  PROVE  /\ Graph \in [Jobs -> Seq(Jobs)]
         /\ \A j \in Jobs : \A d \in DependsOn(j) : Listed(d) => d \in Cycles!Edges(Graph)[j]
         /\ \A j \in Jobs : DependsOn(j) \subseteq Jobs
<1>1. \A j \in Jobs : entry[j].deps \in Seq(Jobs)
  BY DEF QueueTyped, Entries
<1>2. \A j \in Jobs : Cycles!Edges(Graph)[j] = Range(ListedOf(entry[j].deps))
  BY SameReaching DEF Cycles!Edges, Cycles!Range, Range, Graph
<1>3. \A j \in Jobs : DependsOn(j) \subseteq Jobs
  BY <1>1 DEF DependsOn, Range
<1> QED
  BY <1>1, <1>2, <1>3, ListedOfKeeps DEF Graph, DependsOn

(* Fewer edges have fewer cycles.                                           *)
LEMMA FewerOnNoCycle ==
  ASSUME NEW D, NEW E, \A n \in Jobs : D[n] \subseteq E[n], NEW j \in Jobs, Cycles!OnCycle(D, j)
  PROVE  Cycles!OnCycle(E, j)
<1>1. Search!Reaches(D, j, j)
  BY SameReaching DEF Cycles!OnCycle
<1>2. Search!Reaches(E, j, j)
  BY <1>1, SameReaching, Search!FewerReachLess, TaskQueueAssumption
<1> QED
  BY <1>2, SameReaching DEF Cycles!OnCycle

(* The search and the blocking of what it reports leave no circle.          *)
LEMMA AdmittedAcyclic ==
  ASSUME QueueTyped, Cyclic = {}
  PROVE  \A j \in Jobs : ~ Cycles!OnCycle(Waits, j)
<1> DEFINE C == Cycles!CycleMembers(Graph)
           E == Cycles!Without(Cycles!Edges(Graph), C)
<1>1. \A j \in Jobs \ C : ~ Cycles!OnCycle(E, j)
  <2>1. Graph \in [Search!Nodes -> Seq(Search!Nodes)]
    BY GraphTyped, SameReaching
  <2>2. \A j \in Search!Nodes \ Search!CycleMembers(Graph) :
          ~ Search!OnCycle(Search!Without(Search!Edges(Graph), Search!CycleMembers(Graph)), j)
    BY <2>1, Search!CycleMembersRight, TaskQueueAssumption
  <2> QED
    BY <2>2, SameSearch, SameReaching
<1>2. \A j \in Jobs : status[j] = "queued" => j \notin C
  BY DEF Cyclic, InState
<1>3. \A j \in Jobs : E[j] = IF j \in C THEN {} ELSE Cycles!Edges(Graph)[j] \ C
  BY SameReaching DEF Cycles!Without
<1> HIDE DEF C, E
<1>4. ASSUME NEW j \in Jobs, NEW d \in Waits[j] PROVE d \in E[j]
  <2>1. status[j] = "queued" /\ d \in DependsOn(j) /\ status[d] = "queued"
    BY <1>4 DEF Waits
  <2>2. d \in Jobs /\ d \in Cycles!Edges(Graph)[j]
    BY <2>1, GraphTyped DEF Listed
  <2> QED
    BY <1>2, <1>3, <2>1, <2>2
<1>5. ASSUME NEW j \in Jobs, Cycles!OnCycle(Waits, j) PROVE FALSE
  <2>1. Cycles!OnCycle(E, j)
    BY <1>4, <1>5, FewerOnNoCycle
  <2>2. j \in C
    BY <1>1, <2>1
  <2>3. status[j] # "queued"
    BY <1>2, <2>2
  <2>4. Waits[j] = {}
    BY <2>3 DEF Waits
  <2> QED
    BY <1>5, <2>4 DEF Cycles!OnCycle, Cycles!Reaches
<1> QED
  BY <1>5

(* The scan has passed over no job that can be launched now, and it ends    *)
(* when it has come to the end of the list or no worker is free.            *)
ScanInv ==
  /\ pc = "launch" => \A j \in Jobs \ candidates : ~ Launchable(j)
  /\ pc = "decide" => Cardinality(futures) >= MaxWorkers \/ \A j \in Jobs : ~ Launchable(j)

(* Behind the pass that skips, a dependency of a queued job has failed only *)
(* if it is listed after that job and was skipped by the same pass.         *)
SkippedLater(j) ==
  \A d \in DependsOn(j) : status[d] \in FAILURE_STATES => status[d] = "skipped" /\ d > j
SkipInv ==
  \A j \in InState({"queued"}) :
    pc \in {"launch", "decide"} \/ (pc = "skip" /\ j <= at) => SkippedLater(j)

(* The loop's invariant.                                                    *)
LoopInv == IInv /\ BudgetConserved /\ AdmittedInv /\ NoCircularWait /\ ScanInv /\ SkipInv

(* It holds of an empty queue.                                              *)
LEMMA LoopInvInit == Init => LoopInv
<1>1. Init => IInv
  BY IInvInit
<1>2. Init => BudgetConserved /\ AdmittedInv /\ NoCircularWait /\ ScanInv /\ SkipInv
  BY DEF Init, LoopSteps, BudgetConserved, AdmittedInv, NoCircularWait, ScanInv, SkipInv
<1> QED
  BY <1>1, <1>2 DEF LoopInv

(* No step of the loop queues a job or changes what it asks for.            *)
LEMMA AdmittedStep ==
  ASSUME IInv, [Next]_vars, AdmittedInv
  PROVE  AdmittedInv'
<1> SUFFICES ASSUME pc' \in LoopSteps, NEW j \in Jobs, status'[j] = "queued"
             PROVE  Admitted(j)'
  BY DEF AdmittedInv, InState
<1>1. CASE StartLoop
  <2>1. /\ Oversize = {} /\ Missing = {}
        /\ UNCHANGED <<entry, status, totals>>
    BY <1>1 DEF StartLoop, queueVars
  <2>2. Fits(entry[j].request, totals) /\ \A d \in DependsOn(j) : status[d] # "absent"
    BY <2>1 DEF Oversize, Missing, InState
  <2> QED
    BY <2>1, <2>2 DEF Admitted, Fits, DependsOn
<1>2. CASE ~ StartLoop
  <2>1. /\ pc \in LoopSteps /\ entry' = entry /\ totals' = totals
        /\ status[j] = "queued"
        /\ \A i \in Jobs : status'[i] = "absent" => status[i] = "absent"
    BY <1>2, LoopGoesOn
  <2>2. Admitted(j) /\ DependsOn(j) \subseteq Jobs
    BY <2>1, GraphTyped DEF AdmittedInv, InState, IInv, TypeOK
  <2> QED
    BY <2>1, <2>2 DEF Admitted, Fits, DependsOn
<1> QED
  BY <1>1, <1>2

(* So the circles only get fewer.                                           *)
LEMMA AcyclicStep ==
  ASSUME IInv, [Next]_vars, NoCircularWait
  PROVE  NoCircularWait'
<1> SUFFICES ASSUME pc' \in LoopSteps, NEW j \in Jobs
             PROVE  ~ Cycles!OnCycle(Waits', j)
  BY DEF NoCircularWait, Cycles!OnCycle, Cycles!Reaches, Cycles!Nodes
<1>1. CASE StartLoop
  <2>1. Cyclic = {} /\ UNCHANGED <<entry, status>>
    BY <1>1 DEF StartLoop, queueVars
  <2>2. Waits' = Waits
    BY <2>1 DEF Waits, DependsOn
  <2> QED
    BY <2>1, <2>2, AdmittedAcyclic DEF IInv, TypeOK
<1>2. CASE ~ StartLoop
  <2>1. /\ pc \in LoopSteps /\ entry' = entry
        /\ \A i \in Jobs : status'[i] = "queued" => status[i] = "queued"
    BY <1>2, LoopGoesOn
  <2>2. \A i \in Jobs : DependsOn(i) \subseteq Jobs /\ DependsOn(i)' = DependsOn(i)
    BY <2>1, GraphTyped DEF IInv, TypeOK, DependsOn
  <2>3. \A i \in Jobs : Waits'[i] \subseteq Waits[i]
    BY <2>1, <2>2 DEF Waits
  <2>4. ~ Cycles!OnCycle(Waits, j)
    BY <2>1 DEF NoCircularWait
  <2> QED
    BY <2>3, <2>4, FewerOnNoCycle
<1> QED
  BY <1>1, <1>2

(* What the scheduler does while it skips, launches and decides; nobody     *)
(* else changes a job meanwhile.                                            *)
Idle == UNCHANGED <<entry, status, pc, at, available, futures, candidates>>

LEMMA LoopActs ==
  ASSUME [Next]_vars, pc' \in {"skip", "launch", "decide"}
  PROVE  \/ Idle \/ EndCollect \/ EndSkip \/ EndFailFast \/ EndLaunch
         \/ \E j \in Jobs : Skip(j) \/ PassOver(j) \/ Launch(j)
<1> USE DEF queueVars, runVars, loopVars
<1>1. ASSUME NEW j \in Jobs, CancelJob(j) \/ OrphanExits(j) \/ Worker(j)
      PROVE  Idle
  BY <1>1 DEF Idle, CancelJob, OrphanExits, Worker, WorkerCreates, WorkerCannotLaunch,
       WorkerLaunches, WorkerRecordsPid, WorkerReturns, WorkerRaises
<1>2. ASSUME NEW j \in Jobs,
             AddJob(j) \/ RetryJob(j) \/ Reconcile(j) \/ BlockMissing(j) \/ BlockCyclic(j)
               \/ BlockOversize(j)
      PROVE  FALSE
  BY <1>2 DEF AddJob, RetryJob, Enlist, Reconcile, BlockMissing, BlockCyclic, BlockOversize,
       Block
<1>3. ASSUME NEW j \in Jobs,
             TakeMarker(j) \/ MarkerRaises(j) \/ Collect(j) \/ CollectBreaks(j) \/ Rejudge(j)
               \/ FailFast(j) \/ LaunchBreaks(j) \/ GiveUp(j)
      PROVE  FALSE
  BY <1>3 DEF TakeMarker, MarkerRaises, Collect, CollectBreaks, Release, Rejudge, FailFast,
       LaunchBreaks, GiveUp, Block
<1>4. CASE StartRun \/ StartRecover \/ EndReconcile \/ StartLoop \/ Crash \/ Interrupt
             \/ EndAbort \/ EndGiveUp
  BY <1>4 DEF StartRun, StartRecover, EndReconcile, StartLoop, Crash, Interrupt, EndAbort,
       EndGiveUp, Ends
<1>5. CASE EndMarkers \/ Decide
  BY <1>5 DEF EndMarkers, Decide, NextRound, Ends
<1>6. CASE UNCHANGED vars
  BY <1>6 DEF Idle, vars
<1> QED
  BY <1>1, <1>2, <1>3, <1>4, <1>5, <1>6
     DEF Next, Command, Scheduler, Recovery, Admission, Round

(* A launch makes no other job launchable.                                  *)
LEMMA LaunchMakesNone ==
  ASSUME IInv, NEW j \in Jobs, Launch(j), NEW i \in Jobs, Launchable(i)'
  PROVE  Launchable(i) /\ i # j
<1> USE DEF IInv, TypeOK
<1>1. /\ status[j] = "queued" /\ status' = [status EXCEPT ![j] = "running"]
      /\ available' = [r \in Resources |-> available[r] - entry[j].request[r]]
      /\ entry' = entry
  BY DEF Launch, Launchable, Becomes
<1>2. i # j /\ status[i] = "queued" /\ Ready(i)
  BY <1>1 DEF Launchable, Ready, DependsOn, QueueTyped
<1>3. ASSUME NEW r \in Resources PROVE entry[i].request[r] <= available[r]
  <2>1. /\ entry[i].request[r] \in Nat /\ entry[j].request[r] \in Nat
        /\ available[r] \in Nat
    BY EntryTyped DEF QueueTyped, LoopTyped, Amounts
  <2>2. entry[i].request[r] <= available'[r]
    BY <1>1 DEF Launchable, Fits
  <2> QED
    BY <1>1, <2>1, <2>2
<1> QED
  BY <1>2, <1>3 DEF Launchable, Fits

(* So one pass is enough, although the resources change along the way.      *)
LEMMA ScanStep ==
  ASSUME IInv, [Next]_vars, ScanInv
  PROVE  ScanInv'
<1> SUFFICES ASSUME pc' \in {"launch", "decide"} PROVE ScanInv'
  BY DEF ScanInv
<1> USE DEF queueVars, runVars, loopVars
<1>0. UNCHANGED <<entry, status, available>> => \A j : Launchable(j)' <=> Launchable(j)
  BY DEF Launchable, Ready, Fits, DependsOn
<1>1. CASE Idle
  BY <1>0, <1>1 DEF Idle, ScanInv
<1>2. CASE EndSkip
  BY <1>0, <1>2 DEF EndSkip, ScanInv, InState, Launchable
<1>3. CASE EndFailFast
  BY <1>0, <1>3 DEF EndFailFast, ScanInv, InState, Launchable
<1>4. CASE EndLaunch
  BY <1>0, <1>4 DEF EndLaunch, ScanInv
<1>5. ASSUME NEW j \in Jobs, PassOver(j) PROVE ScanInv'
  BY <1>0, <1>5 DEF PassOver, Scans, ScanInv
<1>6. ASSUME NEW j \in Jobs, Launch(j) PROVE ScanInv'
  <2>1. pc = "launch" /\ pc' = "launch" /\ candidates' = candidates \ {j}
    BY <1>6 DEF Launch, Scans
  <2> QED
    BY <1>6, <2>1, LaunchMakesNone DEF ScanInv
<1>7. CASE EndCollect \/ \E j \in Jobs : Skip(j)
  BY <1>7 DEF EndCollect, Skip
<1> QED
  BY <1>1, <1>2, <1>3, <1>4, <1>5, <1>6, <1>7, LoopActs

(* The pass over the jobs skips whatever has a failed dependency when it    *)
(* comes to it; what it skips can only be missing for jobs it has passed.   *)
LEMMA SkipStep ==
  ASSUME IInv, [Next]_vars, SkipInv
  PROVE  SkipInv'
<1> SUFFICES ASSUME pc' \in {"skip", "launch", "decide"} PROVE SkipInv'
  BY DEF SkipInv
<1> USE DEF queueVars, runVars, loopVars, IInv, TypeOK
<1>0. UNCHANGED <<entry, status>> => \A j \in Jobs : SkippedLater(j) => SkippedLater(j)'
  BY DEF SkippedLater, DependsOn
<1>1. CASE Idle
  BY <1>0, <1>1 DEF Idle, SkipInv, InState
<1>2. CASE EndCollect
  BY <1>2, TaskQueueAssumption DEF EndCollect, SkipInv, InState, Jobs
<1>3. CASE EndSkip
  <2>1. ASSUME NEW j \in Jobs, status[j] = "queued" PROVE SkippedLater(j)
    <3>1. CASE j <= at
      BY <1>3, <2>1, <3>1 DEF EndSkip, SkipInv, InState
    <3>2. CASE j > at
      BY <1>3, <2>1, <3>2 DEF EndSkip, Rest, Skippable, InState, SkippedLater
    <3> QED
      BY <3>1, <3>2, TaskQueueAssumption DEF Jobs, LoopTyped
  <2> QED
    BY <1>0, <1>3, <2>1 DEF EndSkip, SkipInv, InState
<1>4. CASE EndFailFast
  BY <1>4 DEF EndFailFast, SkipInv, InState
<1>5. CASE EndLaunch \/ \E j \in Jobs : PassOver(j)
  BY <1>0, <1>5 DEF EndLaunch, PassOver, Scans, SkipInv, InState
<1>6. ASSUME NEW j \in Jobs, Launch(j) PROVE SkipInv'
  <2>1. /\ pc = "launch" /\ entry' = entry
        /\ status' = [status EXCEPT ![j] = "running"]
    BY <1>6 DEF Launch, Scans, Becomes
  <2>2. ASSUME NEW i \in Jobs, SkippedLater(i) PROVE SkippedLater(i)'
    BY <2>1, <2>2 DEF SkippedLater, DependsOn, QueueTyped, FAILURE_STATES,
         JOB_TERMINAL_STATES
  <2> QED
    BY <2>1, <2>2 DEF SkipInv, InState, QueueTyped
<1>7. ASSUME NEW j \in Jobs, Skip(j) PROVE SkipInv'
  <2>1. /\ pc = "skip" /\ pc' = "skip" /\ at' = j /\ entry' = entry /\ j > at
        /\ status[j] = "queued" /\ status' = [status EXCEPT ![j] = "skipped"]
        /\ \A i \in Rest(Skippable) : j <= i
    BY <1>7 DEF Skip, First, Rest, Skippable, InState, Becomes
  <2>2. ASSUME NEW i \in Jobs, status'[i] = "queued", i <= j PROVE SkippedLater(i)'
    <3>1. i # j /\ i < j /\ status[i] = "queued"
      BY <2>1, <2>2, TaskQueueAssumption DEF QueueTyped, Jobs
    <3>2. CASE i <= at
      <4>1. SkippedLater(i)
        BY <2>1, <3>1, <3>2 DEF SkipInv, InState
      <4> QED
        BY <2>1, <3>1, <4>1 DEF SkippedLater, DependsOn, QueueTyped
    <3>3. CASE i > at
      <4>1. i \notin Skippable
        BY <2>1, <3>1, <3>3, TaskQueueAssumption DEF Rest, Jobs
      <4>2. \A d \in DependsOn(i) : status[d] \notin FAILURE_STATES
        BY <3>1, <4>1 DEF Skippable, InState
      <4> QED
        BY <2>1, <3>1, <4>2 DEF SkippedLater, DependsOn, QueueTyped
    <3> QED
      BY <3>2, <3>3, TaskQueueAssumption DEF Jobs, LoopTyped
  <2> QED
    BY <2>1, <2>2 DEF SkipInv, InState
<1> QED
  BY <1>1, <1>2, <1>3, <1>4, <1>5, <1>6, <1>7, LoopActs

(* Each step keeps it.                                                      *)
LEMMA LoopInvStep == LoopInv /\ [Next]_vars => LoopInv'
  BY IInvStep, BudgetStep, AdmittedStep, AcyclicStep, ScanStep, SkipStep
     DEF LoopInv, BudgetInv

(* It holds in every reachable state.                                       *)
LEMMA LoopInvAlways == Spec => []LoopInv
  BY LoopInvInit, LoopInvStep, PTL DEF Spec

(* What is available and what the workers use always make up the totals, so *)
(* no round launches more than the budget holds, nor loses any of it.       *)
THEOREM QueueBudgetConserved == Spec => []BudgetConserved
<1>1. LoopInv => BudgetConserved
  BY DEF LoopInv
<1> QED
  BY <1>1, LoopInvAlways, PTL

(* In the loop no jobs wait for each other in a circle, whatever the queue  *)
(* was given: the search reports enough, and blocking it is enough.         *)
THEOREM QueueNoCircularWait == Spec => []NoCircularWait
<1>1. LoopInv => NoCircularWait
  BY DEF LoopInv
<1> QED
  BY <1>1, LoopInvAlways, PTL

(* With nothing to wait for and nothing launched, no queued job is ready.   *)
LEMMA StuckNotReady ==
  ASSUME LoopInv, pc = "decide", futures = {}, NEW j \in Jobs, status[j] = "queued"
  PROVE  \E d \in DependsOn(j) : status[d] # "success"
<1>1. pc \in LoopSteps /\ ~ Launchable(j)
  BY FS_EmptySet, TaskQueueAssumption DEF LoopInv, ScanInv, LoopSteps
<1>2. Fits(entry[j].request, totals)
  BY <1>1 DEF LoopInv, AdmittedInv, Admitted, InState
<1>3. \A r \in Resources : available[r] = totals[r]
  <2> SUFFICES ASSUME NEW r \in Resources PROVE available[r] = totals[r]
    OBVIOUS
  <2>1. Used(r) = 0
    BY NoSum DEF Used
  <2>2. available[r] + Used(r) = totals[r] /\ available[r] \in Nat
    BY <1>1 DEF LoopInv, BudgetConserved, IInv, TypeOK, LoopTyped, Amounts
  <2> QED
    BY <2>1, <2>2
<1>4. Fits(entry[j].request, available)
  BY <1>2, <1>3 DEF Fits
<1> QED
  BY <1>1, <1>4 DEF Launchable, Ready

(* An edge is a way to reach, and reaching is transitive.                   *)
LEMMA AwaitsReach ==
  ASSUME NEW E, NEW a, NEW b
  PROVE  /\ b \in E[a] => Cycles!Reaches(E, a, b)
         /\ \A c : Cycles!Reaches(E, a, b) /\ Cycles!Reaches(E, b, c) => Cycles!Reaches(E, a, c)
  BY DEF Cycles!Reaches

(* Jobs that each wait for another of them wait in a circle.                *)
LEMMA NeedsMakeCircle ==
  ASSUME NEW E, NEW S \in SUBSET Jobs, S # {}, \A n \in S : E[n] \cap S # {}
  PROVE  \E n \in S : Cycles!OnCycle(E, n)
<1>1. \E n \in S : Search!OnCycle(E, n)
  BY SameReaching, Search!NeedsMakeCycle, TaskQueueAssumption
<1> QED
  BY <1>1, SameReaching

(* Otherwise the queued jobs it waits for would wait for each other.        *)
LEMMA StuckForCause ==
  ASSUME LoopInv, pc = "decide", futures = {}, NEW j \in Jobs, status[j] = "queued"
  PROVE  \E d \in InState(FAILURE_STATES \cup {"orphaned"}) : Cycles!Reaches(Awaits, j, d)
<1> DEFINE Dead == FAILURE_STATES \cup {"orphaned"}
           S == {n \in Jobs : status[n] = "queued" /\ (n = j \/ Cycles!Reaches(Awaits, j, n))}
<1> SUFFICES ASSUME \A d \in InState(Dead) : ~ Cycles!Reaches(Awaits, j, d) PROVE FALSE
  OBVIOUS
<1>1. S \in SUBSET Jobs /\ j \in S
  OBVIOUS
<1>2. ASSUME NEW n \in S PROVE Waits[n] \cap S # {}
  <2>1. n \in Jobs /\ status[n] = "queued" /\ (n = j \/ Cycles!Reaches(Awaits, j, n))
    OBVIOUS
  <2>2. PICK d \in DependsOn(n) : status[d] # "success"
    BY <2>1, StuckNotReady
  <2>3. d \in Jobs /\ d \in Awaits[n]
    BY <2>1, GraphTyped DEF Awaits, LoopInv, IInv, TypeOK
  <2>4. Cycles!Reaches(Awaits, j, d)
    BY <2>1, <2>3, AwaitsReach
  <2>5. status[d] \notin Dead
    BY <2>3, <2>4 DEF InState
  <2>6. status[d] # "absent" /\ status[d] # "running"
    <3>1. pc \in LoopSteps
      BY DEF LoopSteps
    <3> QED
      BY <2>1, <2>2, <2>3, <3>1 DEF LoopInv, AdmittedInv, Admitted, InState, IInv, WatchInv
  <2>7. status[d] = "queued"
    BY <2>2, <2>3, <2>5, <2>6 DEF LoopInv, IInv, TypeOK, QueueTyped, Statuses, FAILURE_STATES,
         JOB_ACTIVE_STATES, JOB_TERMINAL_STATES
  <2>8. d \in Waits[n] /\ d \in S
    BY <2>1, <2>3, <2>4, <2>7 DEF Waits
  <2> QED
    BY <2>8
<1> HIDE DEF S
<1>3. PICK n \in S : Cycles!OnCycle(Waits, n)
  BY <1>1, <1>2, NeedsMakeCircle
<1>4. pc \in LoopSteps
  BY DEF LoopSteps
<1> QED
  BY <1>1, <1>3, <1>4 DEF LoopInv, NoCircularWait

(* The scheduler gives up only when it has nothing to wait for.             *)
LEMMA DecidesAlone ==
  ASSUME Next, pc = "decide", pc' = "giveup"
  PROVE  futures = {}
<1> USE DEF queueVars, runVars, loopVars
<1>1. ASSUME NEW j \in Jobs, CancelJob(j) \/ OrphanExits(j) \/ Worker(j) PROVE FALSE
  BY <1>1 DEF CancelJob, OrphanExits, Worker, WorkerCreates,
       WorkerCannotLaunch, WorkerLaunches, WorkerRecordsPid, WorkerReturns, WorkerRaises
<1>2. ASSUME NEW j \in Jobs,
             AddJob(j) \/ RetryJob(j) \/ Reconcile(j) \/ BlockMissing(j) \/ BlockCyclic(j)
               \/ BlockOversize(j)
      PROVE  FALSE
  BY <1>2 DEF AddJob, RetryJob, Enlist, Reconcile, BlockMissing, BlockCyclic, BlockOversize,
       Block
<1>3. ASSUME NEW j \in Jobs,
             TakeMarker(j) \/ MarkerRaises(j) \/ Collect(j) \/ CollectBreaks(j) \/ Rejudge(j)
               \/ Skip(j) \/ FailFast(j) \/ PassOver(j) \/ Launch(j) \/ LaunchBreaks(j)
               \/ GiveUp(j)
      PROVE  FALSE
  BY <1>3 DEF TakeMarker, MarkerRaises, Collect, CollectBreaks, Release, Rejudge, Skip,
       FailFast, PassOver, Launch, Scans, LaunchBreaks, GiveUp, Block
<1>4. CASE StartRun \/ StartRecover \/ EndReconcile \/ StartLoop \/ Crash \/ Interrupt
             \/ EndAbort \/ EndGiveUp
  BY <1>4 DEF StartRun, StartRecover, EndReconcile, StartLoop, Crash, Interrupt, EndAbort,
       EndGiveUp, Ends
<1>5. CASE EndMarkers \/ EndCollect \/ EndSkip \/ EndFailFast \/ EndLaunch \/ Decide
  BY <1>5 DEF EndMarkers, EndCollect, EndSkip, EndFailFast, EndLaunch, Decide, NextRound, Ends
<1> QED
  BY <1>1, <1>2, <1>3, <1>4, <1>5 DEF Next, Command, Scheduler, Recovery, Admission, Round

(* Each job that is given up waits for one that is orphaned or did not      *)
(* succeed: none could have run, and none is only in a circle of others.    *)
(* It is not skipped instead only if the one was skipped behind its back.   *)
THEOREM QueueGivenUpForCause == Spec => GivenUpForCause
<1> DEFINE Cause(j) ==
             /\ \E d \in InState(FAILURE_STATES \cup {"orphaned"}) : Cycles!Reaches(Awaits, j, d)
             /\ \A d \in DependsOn(j) :
                  status[d] \in FAILURE_STATES => status[d] = "skipped" /\ d > j
<1>1. LoopInv /\ [Next]_vars =>
        [pc = "decide" /\ pc' = "giveup" =>
           /\ InState({"running"}) = {}
           /\ \A j \in InState({"queued"}) : Cause(j)]_vars
  <2> SUFFICES ASSUME LoopInv, Next, pc = "decide", pc' = "giveup"
               PROVE  InState({"running"}) = {} /\ \A j \in InState({"queued"}) : Cause(j)
    OBVIOUS
  <2>1. futures = {}
    BY DecidesAlone DEF LoopInv
  <2>2. InState({"running"}) = {}
    BY <2>1 DEF LoopInv, IInv, WatchInv, InState, LoopSteps
  <2>3. \A j \in InState({"queued"}) : SkippedLater(j)
    BY DEF LoopInv, SkipInv
  <2> QED
    BY <2>1, <2>2, <2>3, StuckForCause DEF InState, SkippedLater
<1> QED
  BY <1>1, LoopInvAlways, PTL DEF Spec, GivenUpForCause

(* Only a launch counts as one.                                             *)
LEMMA OnlyLaunchCounts ==
  ASSUME IInv, Next, NEW j \in Jobs, launches'[j] > launches[j]
  PROVE  Launch(j)
<1> USE DEF history
<1>1. CASE UNCHANGED launches
  BY <1>1 DEF IInv, TypeOK, HistoryTyped
<1>2. ASSUME NEW i \in Jobs, Launch(i) PROVE i = j
  BY <1>2 DEF Launch, IInv, TypeOK, HistoryTyped
<1>3. ASSUME NEW i \in Jobs,
             \/ AddJob(i) \/ RetryJob(i) \/ CancelJob(i) \/ OrphanExits(i) \/ Worker(i)
             \/ Reconcile(i) \/ BlockMissing(i) \/ BlockCyclic(i) \/ BlockOversize(i)
      PROVE  UNCHANGED launches
  BY <1>3 DEF AddJob, RetryJob, Enlist, CancelJob, OrphanExits, Worker, WorkerCreates,
       WorkerCannotLaunch, WorkerLaunches, WorkerRecordsPid, WorkerReturns, WorkerRaises,
       Reconcile, BlockMissing, BlockCyclic, BlockOversize, Block
<1>4. ASSUME NEW i \in Jobs,
             TakeMarker(i) \/ MarkerRaises(i) \/ Collect(i) \/ CollectBreaks(i) \/ Rejudge(i)
               \/ Skip(i) \/ FailFast(i) \/ PassOver(i) \/ LaunchBreaks(i) \/ GiveUp(i)
      PROVE  UNCHANGED launches
  BY <1>4 DEF TakeMarker, MarkerRaises, Collect, CollectBreaks, Rejudge, Skip, FailFast,
       PassOver, LaunchBreaks, GiveUp, Block
<1>5. CASE StartRun \/ StartRecover \/ EndReconcile \/ StartLoop \/ Crash \/ Interrupt
             \/ EndAbort \/ EndGiveUp
  BY <1>1, <1>5 DEF StartRun, StartRecover, EndReconcile, StartLoop, Crash, Interrupt,
       EndAbort, EndGiveUp
<1>6. CASE EndMarkers \/ EndCollect \/ EndSkip \/ EndFailFast \/ EndLaunch \/ Decide
  BY <1>1, <1>6 DEF EndMarkers, EndCollect, EndSkip, EndFailFast, EndLaunch, Decide
<1> QED
  BY <1>1, <1>2, <1>3, <1>4, <1>5, <1>6
     DEF Next, Command, Scheduler, Recovery, Admission, Round

(* The sorted list and one pass over it are enough: no job is launched past *)
(* one with a higher priority that could be launched as well, and none that *)
(* could be launched is left while a worker is free.                        *)
THEOREM QueuePriorityRespected == Spec => PriorityRespected
<1> DEFINE InOrder ==
             \A j \in Jobs : launches'[j] > launches[j] =>
               \A i \in Jobs \ {j} : Launchable(i) => entry[i].priority <= entry[j].priority
           Exhaustive ==
             pc = "launch" /\ pc' = "decide" =>
               Cardinality(futures) >= MaxWorkers \/ \A j \in Jobs : ~ Launchable(j)
<1>1. ASSUME LoopInv, Next PROVE InOrder
  <2> SUFFICES ASSUME NEW j \in Jobs, launches'[j] > launches[j],
                      NEW i \in Jobs \ {j}, Launchable(i)
               PROVE  entry[i].priority <= entry[j].priority
    OBVIOUS
  <2>1. Launch(j)
    BY <1>1, OnlyLaunchCounts DEF LoopInv
  <2>2. i \in candidates
    BY <1>1, <2>1 DEF Launch, Scans, LoopInv, ScanInv
  <2>3. Ahead(j, i)
    BY <2>1, <2>2 DEF Launch, Scans
  <2>4. entry[i].priority \in Int /\ entry[j].priority \in Int
    BY <1>1 DEF LoopInv, IInv, TypeOK, QueueTyped, Entries
  <2> QED
    BY <2>3, <2>4 DEF Ahead
<1>2. ASSUME LoopInv, Next PROVE Exhaustive
  <2> SUFFICES ASSUME pc = "launch", pc' = "decide"
               PROVE  Cardinality(futures) >= MaxWorkers \/ \A j \in Jobs : ~ Launchable(j)
    OBVIOUS
  <2>1. EndLaunch
    BY <1>2, LoopActs DEF Idle, EndCollect, EndSkip, EndFailFast, Skip, PassOver, Launch
  <2> QED
    BY <1>2, <2>1 DEF EndLaunch, LoopInv, ScanInv
<1>3. LoopInv /\ [Next]_vars => [InOrder /\ Exhaustive]_vars
  BY <1>1, <1>2
<1> QED
  BY <1>3, LoopInvAlways, PTL DEF Spec, PriorityRespected
=============================================================================
