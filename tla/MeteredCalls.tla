---------------------------- MODULE MeteredCalls ----------------------------
(***************************************************************************)
(* What the two loops around a paid provider promise of their budgets,     *)
(* whatever fails in between: a model is asked only while no earlier       *)
(* answer is owed and the reservation fits the budget, a tool is used only *)
(* between answers and within the budget, and an answer that is never      *)
(* accounted for ends the run for good.  Only the answer that ends the run *)
(* may overdraw the budget.                                                *)
(***************************************************************************)
EXTENDS Integers

CONSTANTS
  MaxTotalTokens, MaxModelCalls, MaxToolCalls,   \* the limits of the run
  Reservation,                                   \* tokens reserved for a request
  Usages                                         \* tokens an answer may have cost

VARIABLES
  owed,     \* a request was sent and its usage is not accounted for
  calls,    \* requests sent to the provider
  tools,    \* tool calls executed
  spent     \* tokens accounted for

vars == <<owed, calls, tools, spent>>

Init == owed = FALSE /\ calls = 0 /\ tools = 0 /\ spent = 0

Ask ==
  /\ ~ owed
  /\ calls < MaxModelCalls
  /\ spent + Reservation <= MaxTotalTokens
  /\ owed' = TRUE
  /\ calls' = calls + 1
  /\ UNCHANGED <<tools, spent>>

Account ==
  /\ owed
  /\ owed' = FALSE
  /\ \E u \in Usages : spent' = spent + u
  /\ UNCHANGED <<calls, tools>>

Act ==
  /\ ~ owed
  /\ tools < MaxToolCalls
  /\ spent <= MaxTotalTokens
  /\ tools' = tools + 1
  /\ UNCHANGED <<owed, calls, spent>>

Next == Ask \/ Account \/ Act

Spec == Init /\ [][Next]_vars
=============================================================================
