-------------------------------- MODULE Trial --------------------------------
(***************************************************************************)
(* benchmarks/trial_controller: run_trial, the loop that asks a provider   *)
(* and hands its tool calls to the broker, composed with the ledger of     *)
(* BudgetLedger and its file.  Anything may fail between any two steps:    *)
(* the provider, an append to the ledger (refused before it is written, or *)
(* failed on the way to the disk with the line there, not there or torn),  *)
(* a line of the trace, the process.  The clock is not modelled: at every  *)
(* check the time cap may or may not have been reached.                    *)
(***************************************************************************)
EXTENDS BudgetLedger

CONSTANTS
  MaxBatch,    \* tool calls in one answer
  MaxStarts    \* bound: processes that open the ledger, one after the other

ASSUME TrialAssumption == MaxBatch \in Nat \ {0} /\ MaxStarts \in Nat

VARIABLES
  file,        \* budget.jsonl: "none", "whole", or "torn" (its last line is)
  disk,        \* the ledger that the file's whole lines amount to
  mem,         \* the ledger of the running process
  pc,          \* where run_trial is; "off" when no process runs
  todo,        \* tool calls of the answer that are still to be handled
  claims,      \* the last of them is finish
  grade,       \* the broker's grade of the claim: "none", "wrong", "correct"
  traceFailed, \* some record of this run's trace failed
  status,      \* run_trial's status
  raised,      \* the handler of an exception has raised itself
  result,      \* what run_trial returned: "none", "rejected" or "accepted"
  starts,      \* processes so far
  asked,       \* history: calls of provider.complete
  acted,       \* history: calls of broker.dispatch
  traced       \* history: answers and tool results in the trace

ledgerVars == <<file, disk, mem>>
runVars == <<todo, claims, grade, status, raised, result>>
history == <<asked, acted, traced>>
vars == <<ledgerVars, pc, runVars, traceFailed, starts, history>>

Steps == {"off", "begin", "loop", "reserved", "announced", "asking", "settled", "excess",
          "answered", "taken", "started", "ran", "reported", "error", "end"}

TypeOK ==
  /\ file \in {"none", "whole", "torn"}
  /\ disk \in Ledgers /\ mem \in Ledgers
  /\ pc \in Steps
  /\ todo \in 0..MaxBatch /\ claims \in BOOLEAN
  /\ grade \in {"none", "wrong", "correct"}
  /\ traceFailed \in BOOLEAN /\ raised \in BOOLEAN
  /\ status \in {"stopped", "completed"}
  /\ result \in {"none", "rejected", "accepted"}
  /\ starts \in 0..MaxStarts
  /\ asked \in Nat /\ acted \in Nat /\ traced \in Nat

Init ==
  /\ file = "none" /\ disk = Created /\ mem = Created
  /\ pc = "off" /\ starts = 0
  /\ todo = 0 /\ claims = FALSE /\ grade = "none" /\ traceFailed = FALSE
  /\ status = "stopped" /\ raised = FALSE /\ result = "none"
  /\ asked = 0 /\ acted = 0 /\ traced = 0

-----------------------------------------------------------------------------
(* _append: synced to disk before it counts; refused when the file is full  *)
(* or has changed; or failed, after which nobody knows what the disk has.   *)
Written(new) == mem' = new /\ disk' = new /\ file' = "whole"

Failed(l, new) ==
  /\ mem' = Broken(l)
  /\ \/ disk' = disk /\ file' \in {file, "torn"}
     \/ disk' = new /\ file' = "whole"

\* Mutant: a failed append is taken for a written one.
AppendUnsynced(new, written, otherwise) ==
  \/ Written(new) /\ pc' = written
  \/ mem' = new /\ UNCHANGED <<disk, file>> /\ pc' = written

Append(new, written, otherwise) ==
  \/ Written(new) /\ pc' = written
  \/ (UNCHANGED ledgerVars \/ Failed(mem, new)) /\ pc' = otherwise

(* _stop, and stop: one more line if the ledger is active, then out of the  *)
(* loop.                                                                    *)
Halt(unknown) ==
  IF mem.status = "active"
  THEN Append(Closed(mem, unknown), "end", "end")
  ELSE pc' = "end" /\ UNCHANGED ledgerVars

(* record: a failure is remembered and raised again.                        *)
Record(recorded) ==
  \/ pc' = recorded /\ UNCHANGED traceFailed
  \/ pc' = "error" /\ traceFailed' = TRUE

-----------------------------------------------------------------------------
(* BudgetLedger on a path without a file.                                   *)
Create ==
  /\ pc = "off" /\ file = "none" /\ starts < MaxStarts
  /\ starts' = starts + 1
  /\ \/ Written(Created) /\ pc' = "begin"
     \/ Failed(Created, Created) /\ pc' = "off"
  /\ UNCHANGED <<runVars, traceFailed, history>>

\* Mutant: what is pending is forgotten, and the trial goes on.
ReopenForgets ==
  /\ pc = "off" /\ file = "whole" /\ starts < MaxStarts
  /\ starts' = starts + 1
  /\ Written([disk EXCEPT !.pending = FALSE, !.calls = IF disk.pending THEN @ - 1 ELSE @])
  /\ pc' = IF disk.tools = 0 THEN "begin" ELSE "off"
  /\ UNCHANGED <<runVars, traceFailed, history>>

(* On an existing file: replay it, and count what is pending as unknown.    *)
(* A torn file is refused.  run_trial then refuses a ledger that was used.  *)
Reopen ==
  /\ pc = "off" /\ file = "whole" /\ starts < MaxStarts
  /\ starts' = starts + 1
  /\ IF disk.pending /\ disk.status = "active"
     THEN /\ \/ Written(Closed(disk, TRUE))
             \/ mem' = disk /\ UNCHANGED <<disk, file>>
             \/ Failed(disk, Closed(disk, TRUE))
          /\ pc' = "off"
     ELSE /\ mem' = disk /\ UNCHANGED <<disk, file>>
          /\ pc' = IF disk.calls = 0 /\ disk.tools = 0 THEN "begin" ELSE "off"
  /\ UNCHANGED <<runVars, traceFailed, history>>

Begin ==
  /\ pc = "begin"
  /\ todo' = 0 /\ claims' = FALSE /\ grade' = "none"
  /\ status' = "stopped" /\ raised' = FALSE /\ result' = "none"
  /\ \/ pc' = "loop" /\ traceFailed' = FALSE
     \/ pc' = "error" /\ traceFailed' = TRUE
  /\ UNCHANGED <<ledgerVars, starts, history>>

(* A check that finds the time cap reached or the ledger stopped.           *)
CheckStops ==
  /\ pc \in {"loop", "announced", "settled", "excess", "answered", "started", "reported"}
  /\ pc = "loop" => grade = "none"
  /\ Halt(mem.pending)
  /\ UNCHANGED <<runVars, traceFailed, starts, history>>

-----------------------------------------------------------------------------
Reserve ==
  /\ pc = "loop" /\ grade = "none"
  /\ CanReserve(mem)
  /\ Append(Reserved(mem), "reserved", "end")
  /\ UNCHANGED <<runVars, traceFailed, starts, history>>

CapReached ==
  /\ \/ pc = "loop" /\ grade = "none" /\ ~ CanReserve(mem)
     \/ pc = "answered" /\ todo > 0 /\ ~ CanTakeTool(mem)
  /\ Halt(mem.pending)
  /\ UNCHANGED <<runVars, traceFailed, starts, history>>

(* The context of the request has grown beyond its limit.                   *)
RequestTooLarge ==
  /\ pc = "loop" /\ grade = "none" /\ mem.status = "active"
  /\ pc' = "error"
  /\ UNCHANGED <<ledgerVars, runVars, traceFailed, starts, history>>

Announce ==
  /\ pc = "reserved"
  /\ Record("announced")
  /\ UNCHANGED <<ledgerVars, runVars, starts, history>>

Ask ==
  /\ pc = "announced" /\ mem.status = "active"
  /\ pc' = "asking"
  /\ asked' = asked + 1
  /\ UNCHANGED <<ledgerVars, runVars, traceFailed, starts, acted, traced>>

(* The transport raises, and perhaps the record of it too; or the answer    *)
(* comes without usable usage.                                              *)
AnswerLost ==
  /\ pc = "asking"
  /\ Halt(TRUE)
  /\ traceFailed' \in {traceFailed, TRUE}
  /\ UNCHANGED <<runVars, starts, history>>

(* Accounted for before anything else, however late or large.               *)
Settle ==
  /\ pc = "asking"
  /\ \E u \in Usages :
       Append(Settled(mem, u), IF u > Reservation THEN "excess" ELSE "settled", "end")
  /\ UNCHANGED <<runVars, traceFailed, starts, history>>

(* Beyond the reservation, another model, malformed calls.                  *)
Reject ==
  /\ pc \in {"settled", "excess"} /\ mem.status = "active"
  /\ pc' = "error"
  /\ UNCHANGED <<ledgerVars, runVars, traceFailed, starts, history>>

Respond ==
  /\ pc = "settled" /\ mem.status = "active"
  /\ todo' \in 1..MaxBatch
  /\ claims' \in BOOLEAN
  /\ \/ pc' = "answered" /\ traced' = traced + 1 /\ UNCHANGED traceFailed
     \/ pc' = "error" /\ traceFailed' = TRUE /\ UNCHANGED traced
  /\ UNCHANGED <<ledgerVars, grade, status, raised, result, starts, asked, acted>>

-----------------------------------------------------------------------------
TakeTool ==
  /\ pc = "answered" /\ todo > 0
  /\ CanTakeTool(mem)
  /\ Append(ToolTaken(mem), "taken", "end")
  /\ UNCHANGED <<runVars, traceFailed, starts, history>>

TraceStart ==
  /\ pc = "taken"
  /\ Record("started")
  /\ UNCHANGED <<ledgerVars, runVars, starts, history>>

(* The broker answers, refuses, or grades a finish, which comes last.  An   *)
(* oversized result is an error after the fact.                             *)
Dispatch ==
  /\ pc = "started" /\ mem.status = "active"
  /\ acted' = acted + 1
  /\ todo' = todo - 1
  /\ grade' \in {"none"} \cup (IF claims /\ todo = 1 THEN {"wrong", "correct"} ELSE {})
  /\ pc' \in {"ran", "error"}
  /\ UNCHANGED <<ledgerVars, claims, status, raised, result, traceFailed, starts, asked, traced>>

\* Mutant: a result that cannot be recorded is only a warning.
TraceResultBestEffort ==
  /\ pc = "ran"
  /\ pc' = "reported"
  /\ traced' \in {traced, traced + 1}
  /\ UNCHANGED <<ledgerVars, runVars, traceFailed, starts, asked, acted>>

TraceResult ==
  /\ pc = "ran"
  /\ \/ pc' = "reported" /\ traced' = traced + 1 /\ UNCHANGED traceFailed
     \/ pc' = "error" /\ traceFailed' = TRUE /\ UNCHANGED traced
  /\ UNCHANGED <<ledgerVars, runVars, starts, asked, acted>>

NextCall ==
  /\ pc = "reported" /\ mem.status = "active"
  /\ pc' = IF todo > 0 THEN "answered" ELSE "loop"
  /\ UNCHANGED <<ledgerVars, runVars, traceFailed, starts, history>>

-----------------------------------------------------------------------------
(* The loop ends: completed, whether or not the ledger can still be closed. *)
Finish ==
  /\ pc = "loop" /\ grade # "none"
  /\ status' = "completed"
  /\ Halt(mem.pending)
  /\ UNCHANGED <<todo, claims, grade, raised, result, traceFailed, starts, history>>

(* except Exception: stop the ledger; if that raises, nothing is returned.  *)
HandleError ==
  /\ pc = "error" /\ pc' = "end"
  /\ IF mem.status = "active"
     THEN \/ Written(Closed(mem, mem.pending)) /\ UNCHANGED raised
          \/ UNCHANGED ledgerVars /\ raised' = TRUE
          \/ Failed(mem, Closed(mem, mem.pending)) /\ raised' = TRUE
     ELSE UNCHANGED <<ledgerVars, raised>>
  /\ UNCHANGED <<todo, claims, grade, status, result, traceFailed, starts, history>>

Accepts == status = "completed" /\ ~ traceFailed /\ grade = "correct"

\* Mutant: a last line that cannot be written is one more exception.
EndInTry ==
  /\ pc = "end"
  /\ \/ pc' = "off" /\ UNCHANGED traceFailed
     \/ pc' = "error" /\ traceFailed' = TRUE
  /\ result' = IF raised THEN "none" ELSE IF Accepts THEN "accepted" ELSE "rejected"
  /\ UNCHANGED <<ledgerVars, todo, claims, grade, status, raised, starts, history>>

(* finally: the verdict, and the last line of the trace.                    *)
End ==
  /\ pc = "end" /\ pc' = "off"
  /\ \E recorded \in BOOLEAN :
       /\ traceFailed' = (traceFailed \/ ~ recorded)
       /\ status' = IF recorded THEN status ELSE "stopped"
       /\ result' = IF raised THEN "none"
                    ELSE IF recorded /\ Accepts THEN "accepted" ELSE "rejected"
  /\ UNCHANGED <<ledgerVars, todo, claims, grade, raised, starts, history>>

(* The process dies; a line being appended may be left torn.                *)
Crash ==
  /\ pc # "off" /\ pc' = "off"
  /\ \/ UNCHANGED file
     \/ /\ pc \notin {"begin", "reserved", "taken", "ran", "end"} /\ mem.status = "active"
        /\ file' = "torn"
  /\ UNCHANGED <<disk, mem, runVars, traceFailed, starts, history>>

-----------------------------------------------------------------------------
Step ==
  \/ Begin \/ CheckStops
  \/ Reserve \/ CapReached \/ RequestTooLarge \/ Announce \/ Ask
  \/ AnswerLost \/ Settle \/ Reject \/ Respond
  \/ TakeTool \/ TraceStart \/ Dispatch \/ TraceResult \/ NextCall
  \/ Finish \/ HandleError \/ End

Next == Create \/ Reopen \/ Step \/ Crash

Spec == Init /\ [][Next]_vars

(* The controller is one thread; the transport and the broker's commands    *)
(* come back within the timeouts they are given.                            *)
FairSpec == Spec /\ WF_vars(Step)

-----------------------------------------------------------------------------
(* "Reserve before dispatch and sync the event to disk": every call of the  *)
(* provider and of the broker is covered by a whole line of the file, over  *)
(* failed appends, crashes and restarts.                                    *)
RecordedFirst == asked <= disk.calls /\ acted <= disk.tools

(* "Any trace-write failure makes completion unaccepted"                    *)
(* (docs/CONTROLLED_TRIALS.md:147); accepted means graded                   *)
(* correct, every answer and tool result in the trace, nothing owed, and    *)
(* the tokens within the budget, however the ledger's closing went.         *)
AcceptedIsEarned ==
  result = "accepted" =>
    /\ grade = "correct"
    /\ traced = asked + acted
    /\ asked = Accounted(disk)
    /\ disk.known <= MaxTotalTokens

(* Limits, the order of answers and actions, and the end of a trial whose   *)
(* answer was lost, in any interleaving of failures and restarts.           *)
Budget == INSTANCE MeteredCalls WITH
  owed <- asked > Accounted(disk), calls <- asked, tools <- acted, spent <- disk.known
FollowsBudget == Budget!Spec

(* A started trial ends, by completion, cap, time, failure or death.        *)
TrialEnds == (pc = "begin") ~> (pc = "off")
=============================================================================
