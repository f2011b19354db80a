----------------------------- MODULE JobLifecycle -----------------------------
(***************************************************************************)
(* What a research queue promises of its jobs, whatever the scheduler,     *)
(* its crashes and its recoveries do in between: a job leaves "queued" at  *)
(* most once, it starts only when everything it depends on has succeeded,  *)
(* and a job that is settled stays as it is, once its result is written    *)
(* down: a result the writing of which fails may be changed to a failure,  *)
(* at once and before any job starts on the strength of it.                *)
(***************************************************************************)
CONSTANTS
  Jobs,      \* the jobs that may ever be added
  Settled,   \* final states that a job can reach after it was started
  Refused    \* final states that a job can reach without being started

VARIABLES
  status,    \* "absent", "queued", "running", "orphaned" or a final state
  needs,     \* the jobs it depends on
  unsure     \* the job whose result could not be written down, if any

vars == <<status, needs, unsure>>

Init ==
  /\ status = [j \in Jobs |-> "absent"]
  /\ needs = [j \in Jobs |-> {}]
  /\ unsure = {}

Becomes(j, s) == status' = [status EXCEPT ![j] = s]

Add(j) ==
  /\ status[j] = "absent"
  /\ Becomes(j, "queued")
  /\ \E D \in SUBSET (Jobs \ {j}) : needs' = [needs EXCEPT ![j] = D]
  /\ UNCHANGED unsure

Start(j) ==
  /\ status[j] = "queued"
  /\ unsure = {}
  /\ \A d \in needs[j] : status[d] = "success"
  /\ Becomes(j, "running")
  /\ UNCHANGED <<needs, unsure>>

Refuse(j) ==
  /\ status[j] = "queued"
  /\ \E s \in Refused : Becomes(j, s)
  /\ UNCHANGED <<needs, unsure>>

(* The scheduler is gone, the process is not.                               *)
Orphan(j) ==
  /\ status[j] \in {"running", "orphaned"}
  /\ Becomes(j, "orphaned")
  /\ UNCHANGED <<needs, unsure>>

Settle(j) ==
  /\ status[j] \in {"running", "orphaned"}
  /\ \E s \in Settled : Becomes(j, s)
  /\ UNCHANGED <<needs, unsure>>

(* The writing of a job's result fails, before or after it is settled ...   *)
Stumble(j) ==
  /\ unsure = {}
  /\ status[j] = "running"
  /\ UNCHANGED status \/ \E s \in Settled : Becomes(j, s)
  /\ unsure' = {j}
  /\ UNCHANGED needs

(* ... and the job is called failed instead, or somebody dies first.        *)
Retract(j) ==
  /\ j \in unsure
  /\ Becomes(j, "failed") \/ UNCHANGED status
  /\ unsure' = {}
  /\ UNCHANGED needs

Next ==
  \E j \in Jobs :
    \/ Add(j) \/ Start(j) \/ Refuse(j) \/ Orphan(j) \/ Settle(j)
    \/ Stumble(j) \/ Retract(j)

Spec == Init /\ [][Next]_vars
=============================================================================
