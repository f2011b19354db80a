------------------------------ MODULE TrialProofs ------------------------------
(***************************************************************************)
(* Proofs about Trial for every budget, reservation, usage and batch size. *)
(* The inductive invariant has three parts: how memory, file and history   *)
(* agree at each step of the loop, how far the trace is behind, and what a *)
(* verdict rests on.                                                       *)
(***************************************************************************)
EXTENDS Trial, TLAPS

(* Between the account of an answer and the next reservation.               *)
Settling == {"loop", "settled", "excess", "answered", "taken", "started", "ran", "reported"}

(* Memory and file agree while the ledger is active; a request is sent only *)
(* from a reservation on disk, a tool call only from a line on disk.        *)
LedgerInv ==
  /\ file = "none" => disk = Created /\ pc = "off"
  /\ pc # "off" /\ mem.status = "active" => mem = disk /\ file = "whole"
  /\ disk.status = "active" => disk.known <= MaxTotalTokens
  /\ disk.pending => disk.calls >= 1 /\ asked \in {disk.calls - 1, disk.calls}
  /\ ~ disk.pending => asked = disk.calls
  /\ acted <= disk.tools
  /\ pc \in {"reserved", "announced"} =>
       /\ mem.status = "active" /\ disk.pending /\ asked = disk.calls - 1
       /\ disk.known + Reservation <= MaxTotalTokens
  /\ pc = "asking" => mem.status = "active" /\ disk.pending /\ asked = disk.calls
  /\ pc \in Settling => ~ disk.pending
  /\ pc \in {"taken", "started"} => mem.status = "active" /\ acted < disk.tools /\ todo > 0

(* The trace misses at most the answer or result at hand.                   *)
TraceInv ==
  /\ traced <= asked + acted
  /\ pc = "begin" => disk.calls = 0 /\ disk.tools = 0
  /\ pc \in {"loop", "reserved", "announced", "answered", "taken", "started", "reported"} =>
       traced = asked + acted
  /\ pc \in {"asking", "settled", "excess", "ran"} => traced = asked + acted - 1

(* Completed is only said after the last check of an active ledger.         *)
VerdictInv ==
  /\ pc \notin {"off", "begin"} => result = "none"
  /\ pc \notin {"off", "begin", "end"} => status = "stopped"
  /\ pc = "loop" /\ grade # "none" => mem.status = "active"
  /\ pc = "end" /\ status = "completed" =>
       /\ ~ disk.pending /\ disk.known <= MaxTotalTokens
       /\ traced = asked + acted
  /\ AcceptedIsEarned

Inv == TypeOK /\ LedgerInv /\ TraceInv /\ VerdictInv

(* A ledger that was just created.                                          *)
LEMMA CreatedLedger ==
  /\ Created \in Ledgers
  /\ ~ Created.pending /\ Created.calls = 0 /\ Created.tools = 0 /\ Created.known = 0
  BY BudgetAssumption DEF Created, Ledgers

(* Closing a ledger changes its status and nothing that is counted.         *)
LEMMA ClosedLedger ==
  ASSUME NEW l \in Ledgers, NEW unknown \in BOOLEAN
  PROVE  /\ Closed(l, unknown) \in Ledgers
         /\ Closed(l, unknown).status = "stopped"
         /\ Closed(l, unknown).pending = l.pending
         /\ Closed(l, unknown).calls = l.calls
         /\ Closed(l, unknown).tools = l.tools
         /\ Closed(l, unknown).known = l.known
  BY DEF Ledgers, Closed

(* A ledger whose file failed is stopped.                                   *)
LEMMA BrokenLedger ==
  ASSUME NEW l \in Ledgers
  PROVE  Broken(l) \in Ledgers /\ Broken(l).status = "stopped"
<1>1. (l.unknown \/ l.pending) \in BOOLEAN
  OBVIOUS
<1> QED
  BY <1>1 DEF Ledgers, Broken

(* A fresh process, before it has opened a ledger.                          *)
LEMMA TrialInit == Init => Inv
<1> SUFFICES ASSUME Init PROVE Inv
  OBVIOUS
<1> USE DEF Init
<1>1. TypeOK
  <2>1. claims \in BOOLEAN /\ traceFailed \in BOOLEAN /\ raised \in BOOLEAN
    OBVIOUS
  <2>2. todo \in 0..MaxBatch /\ starts \in 0..MaxStarts
    BY TrialAssumption
  <2> QED
    BY <2>1, <2>2, CreatedLedger DEF TypeOK, Steps
<1>2. LedgerInv
  BY CreatedLedger, BudgetAssumption DEF LedgerInv, Settling
<1>3. TraceInv /\ VerdictInv
  BY DEF TraceInv, VerdictInv, AcceptedIsEarned
<1> QED
  BY <1>1, <1>2, <1>3 DEF Inv

(* The events that change pending.                                   *)
LEMMA ReservedLedger ==
  ASSUME NEW l \in Ledgers, l.calls < MaxModelCalls
  PROVE  /\ Reserved(l) \in Ledgers
         /\ Reserved(l).pending = TRUE /\ Reserved(l).calls = l.calls + 1
         /\ Reserved(l).status = l.status
         /\ Reserved(l).tools = l.tools /\ Reserved(l).known = l.known
<1>1. l.calls + 1 \in 0..MaxModelCalls
  BY BudgetAssumption DEF Ledgers
<1> DEFINE flag == TRUE
<1>2. flag \in BOOLEAN
  OBVIOUS
<1>3. Reserved(l) = [l EXCEPT !.pending = flag, !.calls = l.calls + 1]
  BY DEF Reserved
<1> HIDE DEF flag
<1>4. /\ Reserved(l) \in Ledgers
      /\ Reserved(l).pending = flag /\ Reserved(l).calls = l.calls + 1
      /\ Reserved(l).status = l.status
      /\ Reserved(l).tools = l.tools /\ Reserved(l).known = l.known
  BY <1>1, <1>2, <1>3 DEF Ledgers
<1> QED
  BY <1>4 DEF flag

(* The ledger after a settlement.                                           *)
LEMMA SettledLedger ==
  ASSUME NEW l \in Ledgers, NEW u \in Nat
  PROVE  /\ Settled(l, u) \in Ledgers
         /\ Settled(l, u).pending = FALSE /\ Settled(l, u).calls = l.calls
         /\ Settled(l, u).tools = l.tools /\ Settled(l, u).known = l.known + u
         /\ Settled(l, u).status = "active" => l.known + u <= MaxTotalTokens
<1> DEFINE flag == FALSE
           after == IF l.known + u > MaxTotalTokens THEN "stopped" ELSE l.status
<1>1. flag \in BOOLEAN
  OBVIOUS
<1>2. l.known + u \in Nat /\ after \in {"active", "stopped"}
  BY DEF Ledgers
<1>3. after = "active" => l.known + u <= MaxTotalTokens
  BY <1>2, BudgetAssumption
<1>4. Settled(l, u) = [l EXCEPT !.pending = flag, !.known = l.known + u, !.status = after]
  BY DEF Settled
<1> HIDE DEF flag, after
<1>5. /\ Settled(l, u) \in Ledgers
      /\ Settled(l, u).pending = flag /\ Settled(l, u).calls = l.calls
      /\ Settled(l, u).tools = l.tools /\ Settled(l, u).known = l.known + u
      /\ Settled(l, u).status = after
  BY <1>1, <1>2, <1>4 DEF Ledgers
<1> QED
  BY <1>3, <1>5 DEF flag

(* What counts in the file is as before, and memory agrees or is stopped.   *)
SameCounts ==
  /\ disk' \in Ledgers /\ mem' \in Ledgers
  /\ file' \in {"whole", "torn"}
  /\ disk'.pending = disk.pending /\ disk'.calls = disk.calls
  /\ disk'.tools = disk.tools /\ disk'.known = disk.known
  /\ disk'.status = "active" => disk.status = "active"
  /\ mem'.status = "active" => mem' = disk' /\ file' = "whole"

(* A failed append stops the ledger in memory.                              *)
LEMMA FailedAppend ==
  ASSUME NEW l \in Ledgers, NEW new \in Ledgers, Failed(l, new), file = "whole"
  PROVE  /\ mem' \in Ledgers /\ mem'.status = "stopped"
         /\ disk' \in {disk, new} /\ file' \in {"whole", "torn"}
  BY BrokenLedger DEF Failed

(* An append that does not return leaves the ledger as it was, or stopped   *)
(* with the new line on disk or not.                                        *)
LEMMA LostAppend ==
  ASSUME Inv, pc # "off", mem.status = "active", NEW new \in Ledgers,
         UNCHANGED ledgerVars \/ Failed(mem, new)
  PROVE  /\ mem' \in Ledgers /\ file' \in {"whole", "torn"}
         /\ disk' \in {disk, new}
         /\ mem'.status = "active" => mem' = disk' /\ file' = "whole" /\ disk' = disk
  BY BrokenLedger DEF Inv, TypeOK, LedgerInv, ledgerVars, Failed

(* However the last append of a process goes, it keeps the counts.          *)
LEMMA HaltKeepsCounts ==
  ASSUME Inv, pc # "off", NEW unknown \in BOOLEAN, Halt(unknown)
  PROVE  SameCounts /\ pc' = "end"
<1> USE DEF Inv, TypeOK, LedgerInv
<1>0. file \in {"whole", "torn"}
  OBVIOUS
<1>1. CASE mem.status = "active"
  <2>1. mem = disk /\ file = "whole"
    BY <1>1
  <2>2. Append(Closed(mem, unknown), "end", "end")
    BY <1>1 DEF Halt
  <2>3. CASE Written(Closed(mem, unknown)) /\ pc' = "end"
    BY <2>1, <2>3, ClosedLedger DEF Written, SameCounts
  <2>4. CASE UNCHANGED ledgerVars /\ pc' = "end"
    BY <2>1, <2>4 DEF ledgerVars, SameCounts
  <2>5. CASE Failed(mem, Closed(mem, unknown)) /\ pc' = "end"
    <3>1. /\ mem' \in Ledgers /\ mem'.status = "stopped"
          /\ disk' \in {disk, Closed(mem, unknown)} /\ file' \in {"whole", "torn"}
      BY <2>1, <2>5, ClosedLedger, FailedAppend
    <3> DEFINE new == Closed(mem, unknown)
    <3>2. /\ new \in Ledgers /\ new.status = "stopped" /\ new.pending = mem.pending
          /\ new.calls = mem.calls /\ new.tools = mem.tools /\ new.known = mem.known
      BY ClosedLedger
    <3> HIDE DEF new
    <3>3. disk' \in {disk, new}
      BY <3>1 DEF new
    <3> QED
      BY <2>1, <2>5, <3>1, <3>2, <3>3 DEF SameCounts
  <2> QED
    BY <2>2, <2>3, <2>4, <2>5 DEF Append
<1>2. CASE mem.status # "active"
  BY <1>0, <1>2 DEF Halt, ledgerVars, SameCounts
<1> QED
  BY <1>1, <1>2

(* A step that ends the loop with the counts as they are.                   *)
LEMMA Ending ==
  ASSUME Inv, TypeOK', SameCounts, pc \notin {"off", "begin", "end"}, pc' = "end",
         UNCHANGED <<asked, acted, traced, result>>,
         \/ status' = "stopped"
         \/ ~ disk.pending /\ disk.known <= MaxTotalTokens /\ traced = asked + acted
  PROVE  Inv'
<1> USE BudgetAssumption DEF Inv, TypeOK, SameCounts
<1>1. LedgerInv'
  BY DEF LedgerInv, Settling, Ledgers
<1>2. TraceInv'
  BY DEF TraceInv
<1>3. VerdictInv'
  BY DEF VerdictInv, AcceptedIsEarned
<1> QED
  BY <1>1, <1>2, <1>3

-----------------------------------------------------------------------------
(* One step, by action.                                                     *)
LEMMA TrialStep == Inv /\ [Next]_vars => Inv'
<1> SUFFICES ASSUME Inv, [Next]_vars PROVE Inv'
  OBVIOUS
<1> USE BudgetAssumption, TrialAssumption
<1> USE DEF Inv, TypeOK, history, runVars, ledgerVars
<1>1. CASE Create
  <2>1. disk = Created /\ asked = 0 /\ acted = 0 /\ traced = 0 /\ pc = "off"
    BY <1>1 DEF Create, LedgerInv, TraceInv, Created, Ledgers
  <2>2. Created \in Ledgers /\ Broken(Created) \in Ledgers /\ Broken(Created).status = "stopped"
    BY CreatedLedger, BrokenLedger
  <2>3. /\ disk' = Created /\ mem' \in Ledgers
        /\ file' \in {"none", "torn", "whole"}
        /\ pc' \in {"off", "begin"}
        /\ pc' = "begin" => mem' = Created /\ file' = "whole"
    BY <1>1, <2>1, <2>2 DEF Create, Written, Failed
  <2>4. UNCHANGED <<runVars, traceFailed, history>> /\ starts' \in 0..MaxStarts
    BY <1>1 DEF Create
  <2>5. TypeOK'
    BY <2>2, <2>3, <2>4 DEF Steps
  <2>6. LedgerInv' /\ TraceInv'
    BY <2>1, <2>3, <2>4 DEF LedgerInv, TraceInv, Created, Settling
  <2>7. VerdictInv'
    BY <2>1, <2>3, <2>4 DEF VerdictInv, AcceptedIsEarned
  <2> QED
    BY <2>5, <2>6, <2>7
<1>2. CASE Reopen
  <2>1. /\ disk' \in Ledgers /\ mem' \in Ledgers /\ file' \in {"whole", "torn"}
        /\ disk'.pending = disk.pending /\ disk'.calls = disk.calls
        /\ disk'.tools = disk.tools /\ disk'.known = disk.known
        /\ disk'.status = "active" => disk.status = "active"
        /\ pc' \in {"off", "begin"}
        /\ pc' = "begin" => /\ mem' = disk' /\ file' = "whole"
                            /\ disk'.calls = 0 /\ disk'.tools = 0
    <3>1. CASE disk.pending /\ disk.status = "active"
      <4>1. /\ pc' = "off"
            /\ \/ Written(Closed(disk, TRUE))
               \/ mem' = disk /\ UNCHANGED <<disk, file>>
               \/ Failed(disk, Closed(disk, TRUE))
            /\ file = "whole"
        BY <1>2, <3>1 DEF Reopen
      <4>2. /\ Closed(disk, TRUE) \in Ledgers
            /\ Closed(disk, TRUE).status = "stopped"
            /\ Closed(disk, TRUE).pending = disk.pending
            /\ Closed(disk, TRUE).calls = disk.calls
            /\ Closed(disk, TRUE).tools = disk.tools
            /\ Closed(disk, TRUE).known = disk.known
        BY ClosedLedger
      <4>3. /\ mem' \in Ledgers /\ file' \in {"whole", "torn"}
            /\ disk' \in {disk, Closed(disk, TRUE)}
        BY <4>1, <4>2, FailedAppend DEF Written
      <4> QED
        BY <4>1, <4>2, <4>3
    <3>2. CASE ~ (disk.pending /\ disk.status = "active")
      BY <1>2, <3>2 DEF Reopen
    <3> QED
      BY <3>1, <3>2
  <2>2. /\ UNCHANGED <<runVars, traceFailed, history>> /\ starts' \in 0..MaxStarts
        /\ pc = "off"
    BY <1>2 DEF Reopen
  <2>3. TypeOK'
    BY <2>1, <2>2 DEF Steps
  <2>4. LedgerInv' /\ TraceInv'
    BY <2>1, <2>2 DEF LedgerInv, TraceInv, Settling, Ledgers
  <2>5. VerdictInv'
    BY <2>1, <2>2 DEF VerdictInv, AcceptedIsEarned, Accounted
  <2> QED
    BY <2>3, <2>4, <2>5
<1>3. CASE Begin
  <2>1. TypeOK'
    <3>1. /\ claims' \in BOOLEAN /\ traceFailed' \in BOOLEAN /\ raised' \in BOOLEAN
          /\ pc' \in Steps
      BY <1>3 DEF Begin, Steps
    <3>2. todo' \in 0..MaxBatch
      BY <1>3 DEF Begin
    <3> QED
      BY <1>3, <3>1, <3>2 DEF Begin
  <2>2. LedgerInv'
    BY <1>3 DEF Begin, LedgerInv, TraceInv, Settling, Ledgers
  <2>3. TraceInv'
    BY <1>3 DEF Begin, LedgerInv, TraceInv, Ledgers
  <2>4. VerdictInv'
    BY <1>3 DEF Begin, VerdictInv, AcceptedIsEarned
  <2> QED
    BY <2>1, <2>2, <2>3, <2>4
<1>4. CASE CheckStops
  <2>1. pc \notin {"off", "begin", "end"} /\ Halt(mem.pending) /\ mem.pending \in BOOLEAN
    BY <1>4 DEF CheckStops, Ledgers
  <2>2. SameCounts /\ pc' = "end"
    BY <2>1, HaltKeepsCounts
  <2>3. UNCHANGED <<runVars, traceFailed, starts, history>>
    BY <1>4 DEF CheckStops
  <2>4. TypeOK'
    BY <2>2, <2>3 DEF SameCounts, Steps
  <2> QED
    BY <2>1, <2>2, <2>3, <2>4, Ending DEF VerdictInv
<1>5. CASE Reserve
  <2>1. /\ pc = "loop" /\ mem.status = "active" /\ mem = disk /\ file = "whole"
        /\ ~ disk.pending /\ disk.calls < MaxModelCalls
        /\ disk.known + Reservation <= MaxTotalTokens
        /\ UNCHANGED <<runVars, traceFailed, starts, history>>
    BY <1>5 DEF Reserve, CanReserve, LedgerInv
  <2>2. /\ Reserved(mem) \in Ledgers
        /\ Reserved(mem).pending /\ Reserved(mem).calls = disk.calls + 1
        /\ Reserved(mem).status = "active"
        /\ Reserved(mem).tools = disk.tools /\ Reserved(mem).known = disk.known
    BY <2>1, ReservedLedger
  <2>3. CASE Written(Reserved(mem)) /\ pc' = "reserved"
    <3>1. TypeOK'
      BY <2>1, <2>2, <2>3 DEF Written, Steps
    <3>2. LedgerInv'
      BY <2>1, <2>2, <2>3 DEF Written, LedgerInv, Settling, Ledgers
    <3>3. TraceInv' /\ VerdictInv'
      BY <2>1, <2>2, <2>3 DEF Written, TraceInv, VerdictInv, AcceptedIsEarned
    <3> QED
      BY <3>1, <3>2, <3>3
  <2>4. CASE (UNCHANGED ledgerVars \/ Failed(mem, Reserved(mem))) /\ pc' = "end"
    <3>1. /\ mem' \in Ledgers /\ file' \in {"whole", "torn"} /\ disk' \in {disk, Reserved(mem)}
          /\ mem'.status = "active" => mem' = disk' /\ file' = "whole" /\ disk' = disk
      BY <2>1, <2>2, <2>4, LostAppend
    <3>2. TypeOK'
      BY <2>1, <2>2, <2>4, <3>1 DEF Steps
    <3>3. LedgerInv'
      BY <2>1, <2>2, <2>4, <3>1 DEF LedgerInv, Settling, Ledgers
    <3>4. TraceInv' /\ VerdictInv'
      BY <2>1, <2>4 DEF TraceInv, VerdictInv, AcceptedIsEarned
    <3> QED
      BY <3>2, <3>3, <3>4
  <2> QED
    BY <1>5, <2>3, <2>4 DEF Reserve, Append
<1>6. CASE CapReached
  <2>1. pc \notin {"off", "begin", "end"} /\ Halt(mem.pending) /\ mem.pending \in BOOLEAN
    BY <1>6 DEF CapReached, Ledgers
  <2>2. SameCounts /\ pc' = "end"
    BY <2>1, HaltKeepsCounts
  <2>3. UNCHANGED <<runVars, traceFailed, starts, history>>
    BY <1>6 DEF CapReached
  <2>4. TypeOK'
    BY <2>2, <2>3 DEF SameCounts, Steps
  <2> QED
    BY <2>1, <2>2, <2>3, <2>4, Ending DEF VerdictInv
<1>7. CASE RequestTooLarge \/ Announce \/ Ask \/ Reject \/ NextCall
  <2>1. TypeOK'
    <3>1. traceFailed' \in BOOLEAN /\ pc' \in Steps
      BY <1>7 DEF RequestTooLarge, Announce, Record, Ask, Reject, NextCall, Steps
    <3>2. asked' \in Nat
      BY <1>7 DEF RequestTooLarge, Announce, Ask, Reject, NextCall
    <3> QED
      BY <1>7, <3>1, <3>2 DEF RequestTooLarge, Announce, Ask, Reject, NextCall
  <2>2. LedgerInv'
    BY <1>7 DEF RequestTooLarge, Announce, Record, Ask, Reject, NextCall, LedgerInv,
         Settling, Ledgers
  <2>3. TraceInv' /\ VerdictInv'
    BY <1>7 DEF RequestTooLarge, Announce, Record, Ask, Reject, NextCall, TraceInv,
         VerdictInv, AcceptedIsEarned
  <2> QED
    BY <2>1, <2>2, <2>3
<1>8. CASE AnswerLost
  <2>1. pc \notin {"off", "begin", "end"} /\ Halt(TRUE)
    BY <1>8 DEF AnswerLost
  <2>2. SameCounts /\ pc' = "end"
    BY <2>1, HaltKeepsCounts
  <2>3. UNCHANGED <<runVars, starts, history>> /\ traceFailed' \in BOOLEAN
    BY <1>8 DEF AnswerLost
  <2>4. TypeOK'
    BY <2>2, <2>3 DEF SameCounts, Steps
  <2> QED
    BY <2>1, <2>2, <2>3, <2>4, Ending DEF VerdictInv
<1>9. CASE Settle
  <2>1. /\ pc = "asking" /\ mem.status = "active" /\ mem = disk /\ file = "whole"
        /\ disk.pending /\ asked = disk.calls
        /\ UNCHANGED <<runVars, traceFailed, starts, history>>
    BY <1>9 DEF Settle, LedgerInv
  <2>2. PICK u \in Usages :
          Append(Settled(mem, u), IF u > Reservation THEN "excess" ELSE "settled", "end")
    BY <1>9 DEF Settle
  <2>3. /\ u \in Nat /\ Settled(mem, u) \in Ledgers
        /\ ~ Settled(mem, u).pending
        /\ Settled(mem, u).calls = disk.calls /\ Settled(mem, u).tools = disk.tools
        /\ Settled(mem, u).status = "active" => Settled(mem, u).known <= MaxTotalTokens
    BY <2>1, SettledLedger
  <2>4. CASE Written(Settled(mem, u)) /\ pc' \in {"excess", "settled"}
    <3>1. TypeOK'
      BY <2>1, <2>3, <2>4 DEF Written, Steps
    <3>2. LedgerInv'
      BY <2>1, <2>3, <2>4 DEF Written, LedgerInv, Settling, Ledgers
    <3>3. TraceInv' /\ VerdictInv'
      BY <2>1, <2>4 DEF Written, TraceInv, VerdictInv, AcceptedIsEarned
    <3> QED
      BY <3>1, <3>2, <3>3
  <2>5. CASE (UNCHANGED ledgerVars \/ Failed(mem, Settled(mem, u))) /\ pc' = "end"
    <3>1. /\ mem' \in Ledgers /\ file' \in {"whole", "torn"} /\ disk' \in {disk, Settled(mem, u)}
          /\ mem'.status = "active" => mem' = disk' /\ file' = "whole" /\ disk' = disk
      BY <2>1, <2>3, <2>5, LostAppend
    <3>2. TypeOK'
      BY <2>1, <2>3, <2>5, <3>1 DEF Steps
    <3>3. LedgerInv'
      BY <2>1, <2>3, <2>5, <3>1 DEF LedgerInv, Settling, Ledgers
    <3>4. TraceInv' /\ VerdictInv'
      BY <2>1, <2>5 DEF TraceInv, VerdictInv, AcceptedIsEarned
    <3> QED
      BY <3>2, <3>3, <3>4
  <2> QED
    BY <2>2, <2>4, <2>5 DEF Append
<1>10. CASE Respond
  <2>1. TypeOK'
    <3>1. claims' \in BOOLEAN /\ traceFailed' \in BOOLEAN /\ pc' \in Steps
      BY <1>10 DEF Respond, Steps
    <3>2. todo' \in 0..MaxBatch /\ traced' \in Nat
      BY <1>10 DEF Respond
    <3> QED
      BY <1>10, <3>1, <3>2 DEF Respond
  <2>2. LedgerInv'
    BY <1>10 DEF Respond, LedgerInv, Settling
  <2>3. TraceInv' /\ VerdictInv'
    BY <1>10 DEF Respond, TraceInv, VerdictInv, AcceptedIsEarned
  <2> QED
    BY <2>1, <2>2, <2>3
<1>11. CASE TakeTool
  <2>1. /\ pc = "answered" /\ todo > 0 /\ mem.status = "active" /\ mem = disk /\ file = "whole"
        /\ ~ disk.pending /\ disk.tools < MaxToolCalls
        /\ UNCHANGED <<runVars, traceFailed, starts, history>>
    BY <1>11 DEF TakeTool, CanTakeTool, LedgerInv
  <2>2. /\ ToolTaken(mem) \in Ledgers
        /\ ~ ToolTaken(mem).pending /\ ToolTaken(mem).calls = disk.calls
        /\ ToolTaken(mem).status = "active"
        /\ ToolTaken(mem).tools = disk.tools + 1 /\ ToolTaken(mem).known = disk.known
    BY <2>1 DEF ToolTaken, Ledgers
  <2>3. CASE Written(ToolTaken(mem)) /\ pc' = "taken"
    <3>1. TypeOK'
      BY <2>1, <2>2, <2>3 DEF Written, Steps
    <3>2. LedgerInv'
      BY <2>1, <2>2, <2>3 DEF Written, LedgerInv, Settling, Ledgers
    <3>3. TraceInv' /\ VerdictInv'
      BY <2>1, <2>3 DEF Written, TraceInv, VerdictInv, AcceptedIsEarned
    <3> QED
      BY <3>1, <3>2, <3>3
  <2>4. CASE (UNCHANGED ledgerVars \/ Failed(mem, ToolTaken(mem))) /\ pc' = "end"
    <3>1. /\ mem' \in Ledgers /\ file' \in {"whole", "torn"} /\ disk' \in {disk, ToolTaken(mem)}
          /\ mem'.status = "active" => mem' = disk' /\ file' = "whole" /\ disk' = disk
      BY <2>1, <2>2, <2>4, LostAppend
    <3>2. TypeOK'
      BY <2>1, <2>2, <2>4, <3>1 DEF Steps
    <3>3. LedgerInv'
      BY <2>1, <2>2, <2>4, <3>1 DEF LedgerInv, Settling, Ledgers
    <3>4. TraceInv' /\ VerdictInv'
      BY <2>1, <2>4 DEF TraceInv, VerdictInv, AcceptedIsEarned
    <3> QED
      BY <3>2, <3>3, <3>4
  <2> QED
    BY <1>11, <2>3, <2>4 DEF TakeTool, Append
<1>12. CASE TraceStart
  BY <1>12 DEF TraceStart, Record, Steps, LedgerInv, TraceInv, VerdictInv, AcceptedIsEarned,
       Settling
<1>13. CASE Dispatch
  <2>1. TypeOK'
    <3>1. todo - 1 \in 0..MaxBatch
      BY <1>13 DEF Dispatch, LedgerInv
    <3>2. grade' \in {"none", "wrong", "correct"}
      BY <1>13 DEF Dispatch
    <3> QED
      BY <1>13, <3>1, <3>2 DEF Dispatch, Steps
  <2>2. LedgerInv'
    BY <1>13 DEF Dispatch, LedgerInv, Settling, Ledgers
  <2>3. TraceInv' /\ VerdictInv'
    BY <1>13 DEF Dispatch, TraceInv, VerdictInv, AcceptedIsEarned
  <2> QED
    BY <2>1, <2>2, <2>3
<1>14. CASE TraceResult
  <2>1. TypeOK'
    <3>1. traceFailed' \in BOOLEAN /\ pc' \in Steps
      BY <1>14 DEF TraceResult, Steps
    <3>2. traced' \in Nat
      BY <1>14 DEF TraceResult
    <3> QED
      BY <1>14, <3>1, <3>2 DEF TraceResult
  <2>2. LedgerInv'
    BY <1>14 DEF TraceResult, LedgerInv, Settling
  <2>3. TraceInv' /\ VerdictInv'
    BY <1>14 DEF TraceResult, TraceInv, VerdictInv, AcceptedIsEarned
  <2> QED
    BY <2>1, <2>2, <2>3
<1>15. CASE Finish
  <2>1. pc \notin {"off", "begin", "end"} /\ Halt(mem.pending) /\ mem.pending \in BOOLEAN
    BY <1>15 DEF Finish, Ledgers
  <2>2. SameCounts /\ pc' = "end"
    BY <2>1, HaltKeepsCounts
  <2>3. UNCHANGED <<todo, claims, grade, raised, result, traceFailed, starts, history>>
        /\ status' = "completed"
    BY <1>15 DEF Finish
  <2>4. ~ disk.pending /\ disk.known <= MaxTotalTokens /\ traced = asked + acted
    BY <1>15 DEF Finish, LedgerInv, TraceInv, VerdictInv, Settling
  <2>5. TypeOK'
    BY <2>2, <2>3 DEF SameCounts, Steps
  <2> QED
    BY <2>1, <2>2, <2>3, <2>4, <2>5, Ending
<1>16. CASE HandleError
  <2>1. /\ pc = "error" /\ pc' = "end"
        /\ UNCHANGED <<todo, claims, grade, status, result, traceFailed, starts, history>>
        /\ raised' \in BOOLEAN
    BY <1>16 DEF HandleError
  <2>2. SameCounts
    <3>1. mem.pending \in BOOLEAN
      BY DEF Ledgers
    <3>2. \/ Written(Closed(mem, mem.pending)) /\ mem.status = "active"
          \/ UNCHANGED ledgerVars
          \/ Failed(mem, Closed(mem, mem.pending)) /\ mem.status = "active"
      BY <1>16 DEF HandleError
    <3> DEFINE new == Closed(mem, mem.pending)
    <3>3. /\ new \in Ledgers /\ new.status = "stopped" /\ new.pending = mem.pending
          /\ new.calls = mem.calls /\ new.tools = mem.tools /\ new.known = mem.known
      BY <3>1, ClosedLedger
    <3> HIDE DEF new
    <3>4. file \in {"whole", "torn"} /\ (mem.status = "active" => mem = disk /\ file = "whole")
      BY <2>1 DEF LedgerInv
    <3>5. CASE UNCHANGED ledgerVars
      BY <3>4, <3>5 DEF SameCounts
    <3>6. CASE Written(new) /\ mem.status = "active"
      BY <3>3, <3>4, <3>6 DEF SameCounts, Written
    <3>7. CASE Failed(mem, new) /\ mem.status = "active"
      <4>1. /\ mem' \in Ledgers /\ mem'.status = "stopped"
            /\ disk' \in {disk, new} /\ file' \in {"whole", "torn"}
        BY <3>3, <3>4, <3>7, FailedAppend
      <4> QED
        BY <3>3, <3>4, <3>7, <4>1 DEF SameCounts
    <3> QED
      BY <3>2, <3>5, <3>6, <3>7 DEF new
  <2>3. TypeOK'
    BY <2>1, <2>2 DEF SameCounts, Steps
  <2> QED
    BY <2>1, <2>2, <2>3, Ending DEF VerdictInv
<1>17. CASE End
  <2>1. /\ pc = "end" /\ pc' = "off" /\ UNCHANGED <<ledgerVars, history, starts, grade>>
        /\ result' = "accepted" => status = "completed" /\ grade = "correct"
    BY <1>17 DEF End, Accepts
  <2>2. TypeOK'
    BY <1>17 DEF End, Steps
  <2>3. LedgerInv' /\ TraceInv'
    BY <2>1 DEF LedgerInv, TraceInv, Settling
  <2>4. VerdictInv'
    BY <2>1 DEF LedgerInv, VerdictInv, AcceptedIsEarned, Accounted
  <2> QED
    BY <2>2, <2>3, <2>4
<1>18. CASE Crash
  <2>1. /\ pc # "off" /\ pc' = "off" /\ file' \in {file, "torn"}
        /\ UNCHANGED <<disk, mem, runVars, traceFailed, starts, history>>
    BY <1>18 DEF Crash
  <2> QED
    BY <2>1 DEF Steps, LedgerInv, TraceInv, VerdictInv, AcceptedIsEarned, Settling
<1>19. CASE UNCHANGED vars
  BY <1>19 DEF vars, LedgerInv, TraceInv, VerdictInv, AcceptedIsEarned, Settling
<1> QED
  BY <1>1, <1>2, <1>3, <1>4, <1>5, <1>6, <1>7, <1>8, <1>9, <1>10, <1>11, <1>12, <1>13,
     <1>14, <1>15, <1>16, <1>17, <1>18, <1>19 DEF Next, Step

-----------------------------------------------------------------------------
(* The inductive invariant holds in every reachable state.                  *)
LEMMA InvHolds == Spec => []Inv
<1>1. Init => Inv
  BY TrialInit
<1>2. Inv /\ [Next]_vars => Inv'
  BY TrialStep
<1> QED
  BY <1>1, <1>2, PTL DEF Spec

(* Every variable of the trial keeps its type: in particular the ledger in  *)
(* memory and the one on disk stay within their call and tool limits.       *)
THEOREM TypeCorrect == Spec => []TypeOK
  BY InvHolds, PTL DEF Inv

(* "Reserve before dispatch and sync the event to disk", for every budget,  *)
(* over failed appends, crashes and restarts.                               *)
THEOREM RecordedFirstHolds == Spec => []RecordedFirst
<1>1. Inv => RecordedFirst
  BY DEF Inv, TypeOK, LedgerInv, RecordedFirst, Ledgers
<1> QED
  BY <1>1, InvHolds, PTL

(* An accepted trial was graded correct, is wholly in the trace, owes       *)
(* nothing and is within its budget.                                        *)
THEOREM AcceptedIsEarnedHolds == Spec => []AcceptedIsEarned
<1>1. Inv => AcceptedIsEarned
  BY DEF Inv, VerdictInv
<1> QED
  BY <1>1, InvHolds, PTL

-----------------------------------------------------------------------------
(* The trial keeps the promises of MeteredCalls.                            *)
Owed == asked > Accounted(disk)

(* A fresh trial starts with an empty account.                              *)
LEMMA BudgetInit == Init => Budget!Init
<1> SUFFICES ASSUME Init PROVE Budget!Init
  OBVIOUS
<1>1. ~ Owed
  BY CreatedLedger DEF Init, Owed, Accounted
<1>2. asked = 0 /\ acted = 0 /\ disk.known = 0
  BY CreatedLedger DEF Init
<1> QED
  BY <1>1, <1>2 DEF Budget!Init, Owed

(* What a step that is quiet to the budget leaves alone.                    *)
CountsKept ==
  disk'.pending = disk.pending /\ disk'.calls = disk.calls /\ disk'.known = disk.known

(* Closing the ledger changes no count.                                     *)
LEMMA ClosingKeepsCounts ==
  ASSUME disk \in Ledgers, NEW b \in BOOLEAN,
         \/ Written(Closed(disk, b)) \/ UNCHANGED disk
         \/ Failed(disk, Closed(disk, b)) /\ file = "whole"
  PROVE  CountsKept
<1> DEFINE new == Closed(disk, b)
<1>1. new.pending = disk.pending /\ new.calls = disk.calls /\ new.known = disk.known
  BY ClosedLedger
<1>2. disk' \in {disk, new}
  BY DEF Written, Failed
<1> HIDE DEF new
<1> QED
  BY <1>1, <1>2 DEF CountsKept

(* All but five actions.                                                    *)
LEMMA QuietSteps ==
  ASSUME Inv, [Next]_vars, ~ Reserve, ~ Ask, ~ Settle, ~ TakeTool, ~ Dispatch
  PROVE  CountsKept /\ asked' = asked /\ acted' = acted
<1> USE DEF Inv, TypeOK, history, runVars, ledgerVars
<1>1. CASE Create
  <2>1. disk = Created /\ disk' = Created
    BY <1>1 DEF Create, Written, Failed, LedgerInv
  <2> QED
    BY <1>1, <2>1 DEF Create, CountsKept
<1>2. CASE Reopen
  <2>1. \/ Written(Closed(disk, TRUE)) \/ UNCHANGED disk
        \/ Failed(disk, Closed(disk, TRUE)) /\ file = "whole"
    BY <1>2 DEF Reopen
  <2>2. CountsKept
    BY <2>1, ClosingKeepsCounts
  <2> QED
    BY <1>2, <2>2 DEF Reopen
<1>3. CASE CheckStops \/ CapReached \/ AnswerLost \/ Finish
  <2>1. /\ pc # "off" /\ (Halt(mem.pending) \/ Halt(TRUE)) /\ mem.pending \in BOOLEAN
        /\ UNCHANGED history
    BY <1>3 DEF CheckStops, CapReached, AnswerLost, Finish, Ledgers
  <2>2. SameCounts
    BY <2>1, HaltKeepsCounts
  <2> QED
    BY <2>1, <2>2 DEF SameCounts, CountsKept
<1>4. CASE HandleError
  <2>1. mem.pending \in BOOLEAN /\ (mem.status = "active" => mem = disk /\ file = "whole")
    BY <1>4 DEF HandleError, LedgerInv, Ledgers
  <2>2. \/ Written(Closed(mem, mem.pending)) /\ mem.status = "active"
        \/ UNCHANGED disk
        \/ Failed(mem, Closed(mem, mem.pending)) /\ mem.status = "active"
    BY <1>4 DEF HandleError
  <2>3. CountsKept
    BY <2>1, <2>2, ClosingKeepsCounts
  <2> QED
    BY <1>4, <2>3 DEF HandleError
<1>5. CASE Begin \/ RequestTooLarge \/ Announce \/ Reject \/ Respond \/ TraceStart
             \/ TraceResult \/ NextCall \/ End \/ Crash \/ UNCHANGED vars
  BY <1>5 DEF Begin, RequestTooLarge, Announce, Reject, Respond, TraceStart, TraceResult,
       NextCall, End, Crash, vars, CountsKept
<1> QED
  BY <1>1, <1>2, <1>3, <1>4, <1>5 DEF Next, Step

(* Every step is a request, its account, a tool call, or nothing to the     *)
(* budget.                                                                  *)
LEMMA BudgetStep == Inv /\ [Next]_vars => [Budget!Next]_(Budget!vars)
<1> SUFFICES ASSUME Inv, [Next]_vars PROVE [Budget!Next]_(Budget!vars)
  OBVIOUS
<1> USE BudgetAssumption
<1>1. asked \in Nat /\ acted \in Nat /\ disk \in Ledgers /\ mem \in Ledgers
  BY DEF Inv, TypeOK
<1>2. CASE ~ Reserve /\ ~ Ask /\ ~ Settle /\ ~ TakeTool /\ ~ Dispatch
  <2>1. CountsKept /\ asked' = asked /\ acted' = acted
    BY <1>2, QuietSteps
  <2> QED
    BY <2>1 DEF CountsKept, Budget!vars, Accounted
<1>3. CASE Ask
  <2>1. /\ disk.pending /\ asked = disk.calls - 1 /\ disk' = disk
        /\ asked' = asked + 1 /\ acted' = acted
        /\ disk.known + Reservation <= MaxTotalTokens
    BY <1>3 DEF Ask, Inv, LedgerInv, ledgerVars
  <2>2. asked < MaxModelCalls
    BY <1>1, <2>1 DEF Ledgers
  <2>3. ~ Owed /\ Owed'
    BY <1>1, <2>1 DEF Owed, Accounted, Ledgers
  <2> QED
    BY <2>1, <2>2, <2>3 DEF Budget!Next, Budget!Ask, Owed
<1>4. CASE Dispatch
  <2>1. /\ mem.status = "active" /\ mem = disk /\ disk' = disk
        /\ ~ disk.pending /\ asked = disk.calls /\ acted < disk.tools
        /\ asked' = asked /\ acted' = acted + 1
    BY <1>4 DEF Dispatch, Inv, LedgerInv, Settling, ledgerVars
  <2>2. acted < MaxToolCalls
    BY <1>1, <2>1 DEF Ledgers
  <2>3. disk.known <= MaxTotalTokens
    BY <2>1 DEF Inv, LedgerInv
  <2>4. ~ Owed /\ ~ Owed'
    BY <1>1, <2>1 DEF Owed, Accounted, Ledgers
  <2> QED
    BY <2>1, <2>2, <2>3, <2>4 DEF Budget!Next, Budget!Act, Owed
<1>5. CASE Reserve
  <2>1. /\ pc = "loop" /\ mem = disk /\ disk.calls < MaxModelCalls /\ file = "whole"
        /\ mem.status = "active" /\ ~ disk.pending /\ asked = disk.calls
        /\ asked' = asked /\ acted' = acted
    BY <1>5 DEF Reserve, CanReserve, Inv, LedgerInv, history
  <2> DEFINE new == Reserved(disk)
  <2>2. /\ new \in Ledgers /\ new.pending = TRUE /\ new.calls = disk.calls + 1
        /\ new.known = disk.known
    BY <1>1, <2>1, ReservedLedger
  <2>3. disk' \in {disk, new}
    BY <1>5, <2>1 DEF Reserve, Append, Written, Failed, ledgerVars
  <2> HIDE DEF new
  <2>4. ~ Owed /\ ~ Owed' /\ disk'.known = disk.known
    BY <1>1, <2>1, <2>2, <2>3 DEF Owed, Accounted, Ledgers
  <2> QED
    BY <2>1, <2>4 DEF Budget!vars, Owed
<1>6. CASE Settle
  <2>1. /\ pc = "asking" /\ mem = disk /\ disk.pending /\ asked = disk.calls
        /\ asked' = asked /\ acted' = acted
    BY <1>6 DEF Settle, Inv, LedgerInv, history
  <2>2. PICK u \in Usages :
          Append(Settled(mem, u), IF u > Reservation THEN "excess" ELSE "settled", "end")
    BY <1>6 DEF Settle
  <2> DEFINE new == Settled(disk, u)
  <2>3. /\ new \in Ledgers /\ new.pending = FALSE /\ new.calls = disk.calls
        /\ new.known = disk.known + u
    BY <1>1, SettledLedger
  <2>4. disk' \in {disk, new}
    BY <2>1, <2>2 DEF Append, Written, Failed, ledgerVars
  <2> HIDE DEF new
  <2>5. Owed
    BY <1>1, <2>1 DEF Owed, Accounted, Ledgers
  <2>6. CASE disk' = disk
    BY <2>1, <2>6 DEF Budget!vars, Accounted
  <2>7. CASE disk' = new
    <3>1. ~ Owed' /\ disk'.known = disk.known + u
      BY <1>1, <2>1, <2>3, <2>7 DEF Owed, Accounted, Ledgers
    <3> QED
      BY <2>1, <2>5, <3>1 DEF Budget!Next, Budget!Account, Owed
  <2> QED
    BY <2>4, <2>6, <2>7
<1>7. CASE TakeTool
  <2>1. /\ pc = "answered" /\ mem = disk
        /\ asked' = asked /\ acted' = acted
    BY <1>7 DEF TakeTool, CanTakeTool, Inv, LedgerInv, history
  <2>2. disk' \in {disk, ToolTaken(disk)}
    BY <1>7, <2>1 DEF TakeTool, Append, Written, Failed, ledgerVars
  <2>3. CountsKept
    BY <1>1, <2>2 DEF CountsKept, ToolTaken, Ledgers
  <2> QED
    BY <2>1, <2>3 DEF CountsKept, Budget!vars, Accounted
<1> QED
  BY <1>2, <1>3, <1>4, <1>5, <1>6, <1>7

(* Whatever fails, a trial asks only when nothing is owed, acts only        *)
(* between answers, and stays within its limits.                            *)
THEOREM TrialFollowsBudget == Spec => FollowsBudget
  BY BudgetInit, BudgetStep, InvHolds, PTL DEF Spec, FollowsBudget, Budget!Spec
=============================================================================
