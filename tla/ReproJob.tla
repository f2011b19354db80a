------------------------------- MODULE ReproJob -------------------------------
(***************************************************************************)
(* repro_job: one output directory, the start commands that race for it,   *)
(* the worker that is launched for it (and launches of it that are         *)
(* repeated), and status and cancel commands.  The worker runs three child *)
(* processes one after the other (planning, execution, verification) under *)
(* a deadline each.  Every process may die, and every write of the worker  *)
(* may fail, between any two steps; a child has a session of its own and   *)
(* survives its worker.                                                    *)
(***************************************************************************)
EXTENDS Integers, FiniteSets

CONSTANTS
  Starters,    \* start commands
  Workers,     \* _work processes; the first is launched by a start command
  Observers,   \* status and cancel commands
  Requests,    \* what a start may ask for (their digests)
  NoRequest, NoWorker

ASSUME ReproJobAssumption == NoRequest \notin Requests /\ NoWorker \notin Workers

TERMINAL == {"completed", "cancelled", "failed"}   \* "interrupted" is only reported

VARIABLES
  control,     \* the directory .repro_job is there
  request,     \* request.json
  record,      \* state.json: lifecycle, worker_pid, result
  claim,       \* the worker that created worker.claim
  cancel,      \* the marker CANCEL
  starter,     \* a start command's step and request
  worker,      \* a worker's step, phase, exit code of the execution, result in memory
  child,       \* a worker's current child: "none", "alive", "ok", "bad"
  observer,    \* an observer's step, purpose and snapshot of the record
  launches,    \* history: execution children launched
  early,       \* history: CANCEL was there when the job was claimed or planned
  over         \* history: some command reported a terminal state it could confirm

files == <<control, request, record, claim, cancel>>
history == <<launches, early, over>>
vars == <<files, starter, worker, child, observer, history>>

Record(life, pid, result) == [life |-> life, worker |-> pid, result |-> result]
NoRecord == Record("absent", NoWorker, "none")
Records == [life : {"absent", "queued", "working"} \cup TERMINAL, worker : Workers \cup {NoWorker},
            result : {"none", "accepted", "refused"}]

Phases == {"planning", "execution", "verification"}

TypeOK ==
  /\ control \in BOOLEAN /\ cancel \in BOOLEAN /\ claim \in Workers \cup {NoWorker}
  /\ request \in Requests \cup {NoRequest}
  /\ record \in Records
  /\ starter \in [Starters -> [step : {"idle", "look", "inspect", "empty", "mkdir", "freeze",
                                       "queue", "launch", "recant", "done"},
                               want : Requests \cup {NoRequest}]]
  /\ worker \in [Workers -> [step : {"none", "start", "claimed", "ready", "launch", "watch",
                                     "conclude", "failing", "done", "dead"},
                             phase : Phases, code : {"none", "ok", "bad"},
                             result : {"none", "accepted", "refused"}]]
  /\ child \in [Workers -> {"none", "alive", "ok", "bad"}]
  /\ observer \in [Observers -> [step : {"idle", "judge", "mark", "done"},
                                 purpose : {"status", "cancel"}, seen : Records]]
  /\ launches \in Nat /\ early \in BOOLEAN /\ over \in BOOLEAN

Init ==
  /\ control = FALSE /\ request = NoRequest /\ record = NoRecord
  /\ claim = NoWorker /\ cancel = FALSE
  /\ starter = [s \in Starters |-> [step |-> "idle", want |-> NoRequest]]
  /\ worker = [w \in Workers |->
                 [step |-> "none", phase |-> "planning", code |-> "none", result |-> "none"]]
  /\ child = [w \in Workers |-> "none"]
  /\ observer = [o \in Observers |-> [step |-> "idle", purpose |-> "status", seen |-> NoRecord]]
  /\ launches = 0 /\ early = FALSE /\ over = FALSE

-----------------------------------------------------------------------------
(* start                                                                    *)
StarterAt(s, step) == starter[s].step = step
StarterGoes(s, step) == starter' = [starter EXCEPT ![s].step = step]

Begin(s) ==
  /\ StarterAt(s, "idle")
  /\ \E q \in Requests : starter' = [starter EXCEPT ![s] = [step |-> "look", want |-> q]]
  /\ UNCHANGED <<files, worker, child, observer, history>>

Look(s) ==
  /\ StarterAt(s, "look")
  /\ StarterGoes(s, IF control THEN "inspect" ELSE "empty")
  /\ UNCHANGED <<files, worker, child, observer, history>>

(* read_job: an error while the records are incomplete; a conflict with     *)
(* another request; or the same receipt again.                              *)
Inspect(s) ==
  /\ StarterAt(s, "inspect")
  /\ StarterGoes(s, "done")
  /\ UNCHANGED <<files, worker, child, observer, history>>

(* The output directory must be empty.                                      *)
Empty(s) ==
  /\ StarterAt(s, "empty")
  /\ StarterGoes(s, IF control THEN "done" ELSE "mkdir")
  /\ UNCHANGED <<files, worker, child, observer, history>>

\* Mutant: mkdir(exist_ok=True).
MkdirExistOk(s) ==
  /\ StarterAt(s, "mkdir")
  /\ control' = TRUE
  /\ StarterGoes(s, "freeze")
  /\ UNCHANGED <<request, record, claim, cancel, worker, child, observer, history>>

(* control.mkdir: the atomic ownership claim.                               *)
Mkdir(s) ==
  /\ StarterAt(s, "mkdir")
  /\ control' = TRUE
  /\ StarterGoes(s, IF control THEN "done" ELSE "freeze")
  /\ UNCHANGED <<request, record, claim, cancel, worker, child, observer, history>>

Freeze(s) ==
  /\ StarterAt(s, "freeze")
  /\ request' = starter[s].want
  /\ StarterGoes(s, "queue")
  /\ UNCHANGED <<control, record, claim, cancel, worker, child, observer, history>>

Queue(s) ==
  /\ StarterAt(s, "queue")
  /\ record' = Record("queued", NoWorker, "none")
  /\ StarterGoes(s, "launch")
  /\ UNCHANGED <<control, request, claim, cancel, worker, child, observer, history>>

LaunchWorker(s) ==
  /\ StarterAt(s, "launch")
  /\ \/ /\ StarterGoes(s, "done")
        /\ \E w \in Workers : /\ worker[w].step = "none"
                              /\ worker' = [worker EXCEPT ![w].step = "start"]
     \/ StarterGoes(s, "recant") /\ UNCHANGED worker
  /\ UNCHANGED <<files, child, observer, history>>

\* Mutant: the reported lifecycle "interrupted" gets into the record.
RecantInterrupted(s) ==
  /\ StarterAt(s, "recant")
  /\ record' = Record("interrupted", NoWorker, "none")
  /\ StarterGoes(s, "done")
  /\ UNCHANGED <<control, request, claim, cancel, worker, child, observer, history>>

(* The launch failed: the start command records that itself.                *)
Recant(s) ==
  /\ StarterAt(s, "recant")
  /\ record' = Record("failed", NoWorker, "none")
  /\ StarterGoes(s, "done")
  /\ UNCHANGED <<control, request, claim, cancel, worker, child, observer, history>>

StarterDies(s) ==
  /\ starter[s].step \notin {"idle", "done"}
  /\ StarterGoes(s, "done")
  /\ UNCHANGED <<files, worker, child, observer, history>>

-----------------------------------------------------------------------------
(* worker                                                                   *)
WorkerAt(w, step) == worker[w].step = step
WorkerGoes(w, step) == worker' = [worker EXCEPT ![w].step = step]

(* The launch is delivered twice: the recorded command line is run again.   *)
Relaunch(w) ==
  /\ WorkerAt(w, "none")
  /\ \E v \in Workers : worker[v].step # "none"
  /\ WorkerGoes(w, "start")
  /\ UNCHANGED <<files, starter, child, observer, history>>

\* Mutant: the claim file is opened for writing, not created.
ClaimAnyway(w) ==
  /\ WorkerAt(w, "start")
  /\ claim' = w /\ early' = cancel
  /\ WorkerGoes(w, "claimed")
  /\ UNCHANGED <<control, request, record, cancel, starter, child, observer, launches, over>>

Claim(w) ==
  /\ WorkerAt(w, "start") /\ claim = NoWorker
  /\ claim' = w /\ early' = cancel
  /\ WorkerGoes(w, "claimed")
  /\ UNCHANGED <<control, request, record, cancel, starter, child, observer, launches, over>>

Refuse(w) ==
  /\ WorkerAt(w, "start") /\ claim # NoWorker
  /\ WorkerGoes(w, "done")
  /\ UNCHANGED <<files, starter, child, observer, history>>

(* update writes the worker's whole state; when the write fails, the        *)
(* exception leads to one more update, of "failed".                         *)
Announce(w) ==
  /\ WorkerAt(w, "claimed")
  /\ \/ WorkerGoes(w, "ready") /\ record' = Record("working", w, "none")
     \/ WorkerGoes(w, "failing") /\ UNCHANGED record
  /\ UNCHANGED <<control, request, claim, cancel, starter, child, observer, history>>

\* Mutant: CANCEL is looked at once, before planning.
CheckedOnce(w) == worker[w].phase = "planning"

(* CANCEL is looked at before planning and before execution.                *)
Checked(w) == worker[w].phase \in {"planning", "execution"}

SeeCancel(w) ==
  /\ WorkerAt(w, "ready") /\ Checked(w) /\ cancel
  /\ \/ WorkerGoes(w, "done") /\ record' = Record("cancelled", w, "none")
     \/ WorkerGoes(w, "failing") /\ UNCHANGED record
  /\ UNCHANGED <<control, request, claim, cancel, starter, child, observer, history>>

PassCancel(w) ==
  /\ WorkerAt(w, "ready")
  /\ Checked(w) => ~ cancel
  /\ WorkerGoes(w, "launch")
  /\ UNCHANGED <<files, starter, child, observer, history>>

(* invoke: a child in a session of its own.  A marker touched since the     *)
(* look at it does not stop it.                                             *)
Launch(w) ==
  /\ WorkerAt(w, "launch")
  /\ \/ /\ WorkerGoes(w, "watch")
        /\ child' = [child EXCEPT ![w] = "alive"]
        /\ launches' = IF worker[w].phase = "execution" THEN launches + 1 ELSE launches
     \/ WorkerGoes(w, "failing") /\ UNCHANGED <<child, launches>>
  /\ UNCHANGED <<files, starter, observer, early, over>>

ChildExits(w) ==
  /\ child[w] = "alive"
  /\ \E code \in {"ok", "bad"} : child' = [child EXCEPT ![w] = code]
  /\ UNCHANGED <<files, starter, worker, observer, history>>

(* The end of a phase.  A plan that failed, that is not one, or that        *)
(* selects training ends the job; an execution that failed is verified too. *)
SeeExit(w) ==
  /\ WorkerAt(w, "watch") /\ child[w] # "alive"
  /\ CASE worker[w].phase = "planning" ->
            \/ /\ child[w] = "ok"
               /\ worker' = [worker EXCEPT ![w].step = "ready", ![w].phase = "execution"]
               /\ UNCHANGED record
            \/ WorkerGoes(w, "done") /\ record' = Record("failed", w, "none")
            \/ WorkerGoes(w, "failing") /\ UNCHANGED record
       [] worker[w].phase = "execution" ->
            /\ worker' = [worker EXCEPT ![w].step = "ready", ![w].phase = "verification",
                                        ![w].code = child[w]]
            /\ UNCHANGED record
       [] worker[w].phase = "verification" ->
            /\ \E verdict \in IF child[w] = "ok" /\ worker[w].code = "ok"
                              THEN {"accepted", "refused"} ELSE {"refused"} :
                 worker' = [worker EXCEPT ![w].step = "conclude", ![w].result = verdict]
            /\ UNCHANGED record
  /\ early' = (early \/ (worker[w].phase = "planning" /\ cancel))
  /\ UNCHANGED <<control, request, claim, cancel, starter, child, observer, launches, over>>

\* Mutant: no watchdog over the execution.
DeadlineOfPreflight(w) ==
  /\ WorkerAt(w, "watch") /\ child[w] = "alive"
  /\ worker[w].phase # "execution"
  /\ child' = [child EXCEPT ![w] = "bad"]
  /\ WorkerGoes(w, "failing")
  /\ UNCHANGED <<files, starter, observer, history>>

(* The deadline, or a heartbeat that cannot be written: the child is killed *)
(* and the job fails.                                                       *)
Deadline(w) ==
  /\ WorkerAt(w, "watch") /\ child[w] = "alive"
  /\ child' = [child EXCEPT ![w] = "bad"]
  /\ WorkerGoes(w, "failing")
  /\ UNCHANGED <<files, starter, observer, history>>

Conclude(w) ==
  /\ WorkerAt(w, "conclude")
  /\ \/ WorkerGoes(w, "done") /\ record' = Record("completed", w, worker[w].result)
     \/ WorkerGoes(w, "failing") /\ UNCHANGED record
  /\ UNCHANGED <<control, request, claim, cancel, starter, child, observer, history>>

(* The last update, with whatever the memory holds; it may fail as well.    *)
Fail(w) ==
  /\ WorkerAt(w, "failing")
  /\ \/ WorkerGoes(w, "done") /\ record' = Record("failed", w, worker[w].result)
     \/ WorkerGoes(w, "dead") /\ UNCHANGED record
  /\ UNCHANGED <<control, request, claim, cancel, starter, child, observer, history>>

WorkerDies(w) ==
  /\ worker[w].step \notin {"none", "done", "dead"}
  /\ WorkerGoes(w, "dead")
  /\ UNCHANGED <<files, starter, child, observer, history>>

-----------------------------------------------------------------------------
(* status and cancel                                                        *)
ObserverAt(o, step) == observer[o].step = step
ObserverGoes(o, step) == observer' = [observer EXCEPT ![o].step = step]

(* read_job: nothing but an error until both records are there.             *)
Read(o) ==
  /\ ObserverAt(o, "idle")
  /\ request # NoRequest /\ record # NoRecord
  /\ \E purpose \in {"status", "cancel"} :
       observer' = [observer EXCEPT ![o] = [step |-> "judge", purpose |-> purpose, seen |-> record]]
  /\ UNCHANGED <<files, starter, worker, child, history>>

Ended(o) == observer[o].seen.life \in TERMINAL

(* worker_lost: the process that the record names is gone by now.           *)
Lost(o) ==
  /\ observer[o].seen.worker # NoWorker
  /\ worker[observer[o].seen.worker].step \in {"done", "dead"}

(* status: a terminal record and a lost worker are certain; a record that   *)
(* is too old ("worker_unconfirmed") is reported terminal just as well,     *)
(* and cancel then returns without its marker.                              *)
Judge(o) ==
  /\ ObserverAt(o, "judge")
  /\ IF Ended(o) \/ Lost(o)
     THEN over' = TRUE /\ ObserverGoes(o, "done")
     ELSE /\ UNCHANGED over
          /\ \/ ObserverGoes(o, "done")
             \/ observer[o].purpose = "cancel" /\ ObserverGoes(o, "mark")
  /\ UNCHANGED <<files, starter, worker, child, launches, early>>

Mark(o) ==
  /\ ObserverAt(o, "mark")
  /\ cancel' = TRUE
  /\ ObserverGoes(o, "done")
  /\ UNCHANGED <<control, request, record, claim, starter, worker, child, history>>

-----------------------------------------------------------------------------
StarterStep(s) ==
  \/ Begin(s) \/ Look(s) \/ Inspect(s) \/ Empty(s) \/ Mkdir(s)
  \/ Freeze(s) \/ Queue(s) \/ LaunchWorker(s) \/ Recant(s)

WorkerStep(w) ==
  \/ Claim(w) \/ Refuse(w) \/ Announce(w) \/ SeeCancel(w)
  \/ PassCancel(w) \/ Launch(w)
  \/ SeeExit(w) \/ Deadline(w) \/ Conclude(w) \/ Fail(w)

Next ==
  \/ \E s \in Starters : StarterStep(s) \/ StarterDies(s)
  \/ \E w \in Workers : WorkerStep(w) \/ Relaunch(w) \/ ChildExits(w) \/ WorkerDies(w)
  \/ \E o \in Observers : Read(o) \/ Judge(o) \/ Mark(o)

Spec == Init /\ [][Next]_vars

(* A worker that lives keeps running.  Its children need not end, and       *)
(* nothing makes a start command or an observer go on.                      *)
FairSpec == Spec /\ \A w \in Workers : WF_vars(WorkerStep(w))

-----------------------------------------------------------------------------
(* "An atomic .repro_job/ ownership claim and a one-use worker claim        *)
(* prevent duplicate dispatch", and a recorded end is final: for any        *)
(* number of starts and relaunches, with deaths between any two steps.      *)
Job == INSTANCE OneShotJob WITH
  owner <- request,
  life <- IF record.life = "absent" THEN "absent"
          ELSE IF record.life \in TERMINAL THEN "over" ELSE "open",
  dispatched <- launches
FollowsOneShot == Job!Spec

(* A cancel that is on disk before the worker's last look at it keeps the   *)
(* command from being launched, whatever else fails.                        *)
CancelledNotExecuted == early => launches = 0

(* After a command has reported a recorded end or a dead worker, from a     *)
(* snapshot that may be old by then, the job launches nothing any more.     *)
ReportedOver == [][over => launches' = launches]_vars

(* A claimed job gets a recorded end, or the worker that claimed it is dead *)
(* (status then says worker_lost): a hanging child does not keep it open.   *)
JobSettles ==
  \A w \in Workers :
    claim = w ~> (record.life \in TERMINAL \/ worker[w].step = "dead")

(* "cancel records intent": a cancel that has returned left its marker, if  *)
(* nobody has seen the end of the job.                                      *)
CancelRecorded ==
  \A o \in Observers :
    observer[o].purpose = "cancel" /\ observer[o].step = "done" => cancel \/ over
=============================================================================
