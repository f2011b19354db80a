----------------------------- MODULE BudgetLedger -----------------------------
(***************************************************************************)
(* benchmarks/trial_budget: what BudgetLedger keeps of a trial, and how    *)
(* each kind of event changes it.  The same operators give the state in    *)
(* memory and the state that a replay of the file's lines arrives at,      *)
(* because both go through _apply.  At most one request is pending, so     *)
(* pending is a flag; request ids are numbered by the caller.              *)
(***************************************************************************)
EXTENDS Integers

CONSTANTS
  MaxTotalTokens, MaxModelCalls, MaxToolCalls,   \* three of the four limits
  Reservation,   \* input_reservation + max_output_tokens of a request
  Usages         \* sums of the token counts that an answer may report

ASSUME BudgetAssumption ==
  /\ MaxTotalTokens \in Nat \ {0} /\ MaxModelCalls \in Nat \ {0}
  /\ MaxToolCalls \in Nat \ {0}   /\ Reservation \in Nat \ {0}
  /\ Usages \subseteq Nat

Ledgers ==
  [status : {"active", "stopped"}, unknown : BOOLEAN, pending : BOOLEAN,
   calls : 0..MaxModelCalls, tools : 0..MaxToolCalls, known : Nat]

Created == [status |-> "active", unknown |-> FALSE, pending |-> FALSE,
            calls |-> 0, tools |-> 0, known |-> 0]

(* Guards of reserve and tool_call (check and _apply repeat the status).    *)
CanReserve(l) ==
  /\ l.status = "active" /\ ~ l.pending
  /\ l.calls < MaxModelCalls
  /\ l.known + Reservation <= MaxTotalTokens

\* Mutant: one tool call too many.
CanTakeToolTooMany(l) == l.status = "active" /\ ~ l.pending /\ l.tools <= MaxToolCalls

CanTakeTool(l) == l.status = "active" /\ ~ l.pending /\ l.tools < MaxToolCalls

(* The events.                                                              *)
Reserved(l) == [l EXCEPT !.pending = TRUE, !.calls = @ + 1]

Settled(l, u) ==
  [l EXCEPT !.pending = FALSE, !.known = @ + u,
            !.status = IF l.known + u > MaxTotalTokens THEN "stopped" ELSE @]

ToolTaken(l) == [l EXCEPT !.tools = @ + 1]

Closed(l, unknown) == [l EXCEPT !.status = "stopped", !.unknown = unknown]

(* An append that failed on the way to the disk: the line may be there.     *)
Broken(l) == [l EXCEPT !.status = "stopped", !.unknown = @ \/ l.pending]

(* The requests whose usage is in the ledger.                               *)
Accounted(l) == IF l.pending THEN l.calls - 1 ELSE l.calls
=============================================================================
