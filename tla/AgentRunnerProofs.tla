-------------------------- MODULE AgentRunnerProofs --------------------------
(***************************************************************************)
(* Proofs about AgentRunner for every budget, usage, batch size and number *)
(* of resumed processes.  The invariant says the same of the state in      *)
(* memory and of the one in the file, because either may be what the next  *)
(* process goes on from: what was asked and launched is counted in it, and *)
(* every launched command lies behind it in the order of the tool calls.   *)
(***************************************************************************)
EXTENDS AgentRunner, TLAPS

(* A launched call lies behind the state, or is its started first call.     *)
Past(l, s) == l[1] < s.turn \/ (l[1] = s.turn /\ l[2] > Len(s.pending))
Current(l, s) == s.started /\ s.pending # <<>> /\ l = <<s.turn, Len(s.pending)>>

Kept(s) == \A i \in 1..Len(launches) : Past(launches[i], s) \/ Current(launches[i], s)
Fresh(s) == Len(launches) < s.tools /\ \A i \in 1..Len(launches) : Past(launches[i], s)

(* The counters of a state cover what was done.                             *)
Counted(s) ==
  /\ s.calls <= MaxModelCalls /\ s.tools <= MaxToolCalls
  /\ s.started => s.tools >= 1
  /\ Len(launches) <= s.tools
  /\ asked <= s.calls
  /\ s.asking => asked >= s.calls - 1 /\ s.pending = <<>>
  /\ ~ s.asking => asked = s.calls
  /\ s.pending # <<>> /\ s.status # "blocked" => s.used <= MaxTotalTokens

(* Some command's process ended with 0 and its record says so.              *)
Earned == \E r \in RunIds : run[r] = "success" /\ child[r] = "ok"
Sound(s) == s.good \/ s.status = "success" => Earned

StateInv(s) == Kept(s) /\ Counted(s) /\ Sound(s)

RunInv == \A r \in RunIds : run[r] = "success" => child[r] = "ok"

(* Where the file is as good as the memory.                                 *)
Synced == {"top", "call", "created", "launched", "watching", "asking", "answering", "settled"}
InCall == {"call", "created", "launched", "watching", "did"}

Owed(s) == asked > s.calls - (IF s.asking THEN 1 ELSE 0)

(* The last save writes nothing new, or accounts for the answer.            *)
SameAccount == mem.used = disk.used /\ (Owed(mem) <=> Owed(disk))
LateAccount == Owed(disk) /\ ~ Owed(mem) /\ \E u \in Usages : mem.used = disk.used + u

ControlInv ==
  /\ disk.status = "absent" => disk = NoState /\ asked = 0 /\ launches = <<>>
  /\ pc # "off" => mem.status # "absent" /\ disk.status # "absent" /\ StateInv(mem)
  /\ pc \in Synced => mem = disk /\ mem.status = "running"
  /\ pc \in Synced \cup {"did"} => SameAccount
  /\ pc = "finally" => SameAccount \/ LateAccount
  /\ pc = "did" => mem.pending = disk.pending /\ mem.turn = disk.turn /\ mem.started = disk.started
  /\ pc \in InCall => mem.started /\ mem.pending # <<>>
  /\ pc = "call" /\ Head1 = "run_command" => Fresh(mem)
  /\ pc = "created" => Fresh(mem) /\ run[Id] = "created"
  /\ pc = "launched" => run[Id] = "created"
  /\ pc = "watching" => run[Id] = "running"
  /\ pc \in {"asking", "answering", "settled"} => mem.pending = <<>>
  /\ pc = "asking" =>
       mem.asking /\ asked = mem.calls - 1 /\ mem.used + Reservation <= MaxTotalTokens
  /\ pc = "answering" => mem.asking /\ asked = mem.calls
  /\ pc \in {"top", "settled"} => ~ mem.asking

Inv == TypeOK /\ StateInv(disk) /\ RunInv /\ ControlInv /\ NeverReplayed
-----------------------------------------------------------------------------
(* The states that the actions write, field by field.                       *)
SameRest(t, s) == /\ t.pending = s.pending /\ t.started = s.started /\ t.asking = s.asking
                  /\ t.calls = s.calls /\ t.tools = s.tools /\ t.used = s.used /\ t.turn = s.turn

Marks == {"absent", "running", "paused", "success", "blocked"}

(* A state with a new mark keeps its other fields.                          *)
LEMMA StatusFields ==
  ASSUME NEW s \in States, NEW mark \in Marks
  PROVE  LET t == [s EXCEPT !.status = mark] IN
         t \in States /\ t.status = mark /\ t.good = s.good /\ SameRest(t, s)
  BY DEF States, Marks, SameRest

(* A state with a new result of the command keeps its other fields.         *)
LEMMA GoodFields ==
  ASSUME NEW s \in States, NEW good \in BOOLEAN
  PROVE  LET t == [s EXCEPT !.good = good] IN
         t \in States /\ t.status = s.status /\ t.good = good /\ SameRest(t, s)
  BY DEF States, SameRest

(* The state once the next pending call is counted and marked started.      *)
LEMMA TakenFields ==
  ASSUME NEW s \in States
  PROVE  LET t == [s EXCEPT !.tools = @ + 1, !.started = TRUE] IN
         /\ t \in States /\ t.status = s.status /\ t.good = s.good
         /\ t.pending = s.pending /\ t.started /\ t.asking = s.asking
         /\ t.calls = s.calls /\ t.tools = s.tools + 1 /\ t.used = s.used /\ t.turn = s.turn
<1> DEFINE flag == TRUE
           n == s.tools + 1
           t == [s EXCEPT !.tools = n, !.started = flag]
<1>1. flag \in BOOLEAN /\ n \in Nat
  BY DEF States
<1> HIDE DEF flag, n
<1>2. /\ t \in States /\ t.status = s.status /\ t.good = s.good
      /\ t.pending = s.pending /\ t.started = flag /\ t.asking = s.asking
      /\ t.calls = s.calls /\ t.tools = n /\ t.used = s.used /\ t.turn = s.turn
  BY <1>1 DEF States
<1> QED
  BY <1>2 DEF flag, n

(* The state once the finished call is taken from the batch.                *)
LEMMA PoppedFields ==
  ASSUME NEW s \in States, s.pending # <<>>
  PROVE  LET t == [s EXCEPT !.pending = Tail(@), !.started = FALSE] IN
         /\ t \in States /\ t.status = s.status /\ t.good = s.good
         /\ t.pending = Tail(s.pending) /\ ~ t.started /\ t.asking = s.asking
         /\ t.calls = s.calls /\ t.tools = s.tools /\ t.used = s.used /\ t.turn = s.turn
<1> DEFINE flag == FALSE
           rest == Tail(s.pending)
           t == [s EXCEPT !.pending = rest, !.started = flag]
<1>1. flag \in BOOLEAN /\ rest \in Seq(Kinds)
  BY DEF States
<1> HIDE DEF flag, rest
<1>2. /\ t \in States /\ t.status = s.status /\ t.good = s.good
      /\ t.pending = rest /\ t.started = flag /\ t.asking = s.asking
      /\ t.calls = s.calls /\ t.tools = s.tools /\ t.used = s.used /\ t.turn = s.turn
  BY <1>1 DEF States
<1> QED
  BY <1>2 DEF flag, rest

(* The state once a model request is counted and marked as asked.           *)
LEMMA RequestedFields ==
  ASSUME NEW s \in States
  PROVE  LET t == [s EXCEPT !.calls = @ + 1, !.asking = TRUE] IN
         /\ t \in States /\ t.status = s.status /\ t.good = s.good
         /\ t.pending = s.pending /\ t.started = s.started /\ t.asking
         /\ t.calls = s.calls + 1 /\ t.tools = s.tools /\ t.used = s.used /\ t.turn = s.turn
<1> DEFINE flag == TRUE
           n == s.calls + 1
           t == [s EXCEPT !.calls = n, !.asking = flag]
<1>1. flag \in BOOLEAN /\ n \in Nat
  BY DEF States
<1> HIDE DEF flag, n
<1>2. /\ t \in States /\ t.status = s.status /\ t.good = s.good
      /\ t.pending = s.pending /\ t.started = s.started /\ t.asking = flag
      /\ t.calls = n /\ t.tools = s.tools /\ t.used = s.used /\ t.turn = s.turn
  BY <1>1 DEF States
<1> QED
  BY <1>2 DEF flag, n

(* The state once the usage of an answer is accounted for.                  *)
LEMMA SettledFields ==
  ASSUME NEW s \in States, NEW u \in Usages
  PROVE  LET t == [s EXCEPT !.used = @ + u, !.asking = FALSE] IN
         /\ t \in States /\ t.status = s.status /\ t.good = s.good
         /\ t.pending = s.pending /\ t.started = s.started /\ ~ t.asking
         /\ t.calls = s.calls /\ t.tools = s.tools /\ t.used = s.used + u /\ t.turn = s.turn
<1> DEFINE flag == FALSE
           n == s.used + u
           t == [s EXCEPT !.used = n, !.asking = flag]
<1>1. flag \in BOOLEAN /\ n \in Nat
  BY AgentRunnerAssumption DEF States
<1> HIDE DEF flag, n
<1>2. /\ t \in States /\ t.status = s.status /\ t.good = s.good
      /\ t.pending = s.pending /\ t.started = s.started /\ t.asking = flag
      /\ t.calls = s.calls /\ t.tools = s.tools /\ t.used = n /\ t.turn = s.turn
  BY <1>1 DEF States
<1> QED
  BY <1>2 DEF flag, n

Responded(s, batch, mark) ==
  [s EXCEPT !.pending = batch, !.started = FALSE, !.turn = @ + 1, !.status = mark]

(* The state once a response and its batch of calls are taken over.         *)
LEMMA RespondedFields ==
  ASSUME NEW s \in States, NEW batch \in Seq(Kinds), NEW mark \in {"running", "blocked"}
  PROVE  LET t == Responded(s, batch, mark) IN
         /\ t \in States /\ t.status = mark /\ t.good = s.good
         /\ t.pending = batch /\ ~ t.started /\ t.asking = s.asking
         /\ t.calls = s.calls /\ t.tools = s.tools /\ t.used = s.used /\ t.turn = s.turn + 1
<1> DEFINE flag == FALSE
           n == s.turn + 1
           t == [s EXCEPT !.pending = batch, !.started = flag, !.turn = n, !.status = mark]
<1>1. flag \in BOOLEAN /\ n \in Nat /\ Responded(s, batch, mark) = t
  BY DEF States, Responded
<1> HIDE DEF flag, n
<1>2. /\ t \in States /\ t.status = mark /\ t.good = s.good
      /\ t.pending = batch /\ t.started = flag /\ t.asking = s.asking
      /\ t.calls = s.calls /\ t.tools = s.tools /\ t.used = s.used /\ t.turn = n
  BY <1>1 DEF States, Marks
<1>3. Responded(s, batch, mark) = t
  BY <1>1
<1> QED
  BY <1>2, <1>3 DEF flag, n

(* The state before the first start.                                        *)
LEMMA NoStateFields ==
  /\ NoState \in States /\ NoState.status = "absent" /\ ~ NoState.good
  /\ NoState.pending = <<>> /\ ~ NoState.started /\ ~ NoState.asking
  /\ NoState.calls = 0 /\ NoState.tools = 0 /\ NoState.used = 0 /\ NoState.turn = 0
<1> DEFINE flag == FALSE
<1>1. flag \in BOOLEAN /\ <<>> \in Seq(Kinds)
  OBVIOUS
<1>2. NoState = [status |-> "absent", pending |-> <<>>, started |-> flag, asking |-> flag,
                 calls |-> 0, tools |-> 0, used |-> 0, turn |-> 0, good |-> flag]
  BY DEF NoState
<1> HIDE DEF flag
<1>3. /\ NoState \in States /\ NoState.status = "absent" /\ NoState.good = flag
      /\ NoState.pending = <<>> /\ NoState.started = flag /\ NoState.asking = flag
      /\ NoState.calls = 0 /\ NoState.tools = 0 /\ NoState.used = 0 /\ NoState.turn = 0
  BY <1>1, <1>2 DEF States
<1> QED
  BY <1>3 DEF flag

-----------------------------------------------------------------------------
(* What is said of a state stays true of what the actions make of it.       *)
LEMMA RemarkedState ==
  ASSUME NEW s \in States, NEW t \in States, StateInv(s), SameRest(t, s),
         t.status = "blocked" \/ s.status # "blocked", Sound(t)
  PROVE  StateInv(t)
  BY DEF StateInv, SameRest, Kept, Counted, Past, Current

(* Blocking a run keeps what its state is worth.                            *)
LEMMA BlockedState ==
  ASSUME NEW s \in States, StateInv(s)
  PROVE  /\ [s EXCEPT !.status = "blocked"] \in States
         /\ [s EXCEPT !.status = "blocked"].status = "blocked"
         /\ SameRest([s EXCEPT !.status = "blocked"], s)
         /\ StateInv([s EXCEPT !.status = "blocked"])
  BY StatusFields, RemarkedState DEF Marks, StateInv, Sound

(* Before anything is asked or launched the empty state is sound.           *)
LEMMA NoStateInv ==
  ASSUME asked = 0, launches = <<>>
  PROVE  StateInv(NoState) /\ StateInv([NoState EXCEPT !.status = "running"])
<1>1. StateInv(NoState)
  BY NoStateFields, AgentRunnerAssumption DEF StateInv, Kept, Counted, Sound
<1> DEFINE t == [NoState EXCEPT !.status = "running"]
<1>2. t \in States /\ t.status = "running" /\ t.good = NoState.good /\ SameRest(t, NoState)
  BY NoStateFields, StatusFields DEF Marks
<1> HIDE DEF t
<1>3. Sound(t)
  BY <1>2, NoStateFields DEF Sound
<1> QED
  BY <1>1, <1>2, <1>3, NoStateFields, RemarkedState DEF t

(* Counting a call leaves nothing launched at the new position.             *)
LEMMA TakenState ==
  ASSUME NEW s \in States, StateInv(s), launches \in Seq(Nat \X Nat),
         s.pending # <<>>, ~ s.started, s.tools < MaxToolCalls
  PROVE  LET t == [s EXCEPT !.tools = @ + 1, !.started = TRUE] IN StateInv(t) /\ Fresh(t)
<1> DEFINE t == [s EXCEPT !.tools = @ + 1, !.started = TRUE]
<1>1. /\ t \in States /\ t.status = s.status /\ t.good = s.good
      /\ t.pending = s.pending /\ t.started /\ t.asking = s.asking
      /\ t.calls = s.calls /\ t.tools = s.tools + 1 /\ t.used = s.used /\ t.turn = s.turn
  BY TakenFields
<1> HIDE DEF t
<1>2. \A i \in 1..Len(launches) : Past(launches[i], t)
  BY <1>1 DEF StateInv, Kept, Past, Current
<1>3. s.tools \in Nat /\ Len(launches) \in Nat
  BY DEF States
<1>4. Counted(t)
  BY <1>1, <1>3, AgentRunnerAssumption DEF StateInv, Counted
<1>5. Len(launches) < t.tools
  BY <1>1, <1>3 DEF StateInv, Counted
<1>6. Sound(t)
  BY <1>1 DEF StateInv, Sound
<1>7. StateInv(t) /\ Fresh(t)
  BY <1>2, <1>4, <1>5, <1>6 DEF StateInv, Kept, Fresh
<1> QED
  BY <1>7 DEF t

(* Taking the finished call from the batch puts its launch behind the state. *)
LEMMA PoppedState ==
  ASSUME NEW s \in States, StateInv(s), launches \in Seq(Nat \X Nat), s.pending # <<>>
  PROVE  StateInv([s EXCEPT !.pending = Tail(@), !.started = FALSE])
<1> DEFINE t == [s EXCEPT !.pending = Tail(@), !.started = FALSE]
<1>1. /\ t \in States /\ t.status = s.status /\ t.good = s.good
      /\ t.pending = Tail(s.pending) /\ ~ t.started /\ t.asking = s.asking
      /\ t.calls = s.calls /\ t.tools = s.tools /\ t.used = s.used /\ t.turn = s.turn
  BY PoppedFields
<1> HIDE DEF t
<1>2. Len(t.pending) = Len(s.pending) - 1 /\ Len(s.pending) \in Nat
  BY <1>1 DEF States
<1>3. Kept(t)
  <2> SUFFICES ASSUME NEW i \in 1..Len(launches) PROVE Past(launches[i], t)
    BY DEF Kept
  <2>1. launches[i] \in Nat \X Nat
    OBVIOUS
  <2>2. CASE Past(launches[i], s)
    BY <1>1, <1>2, <2>1, <2>2 DEF Past
  <2>3. CASE Current(launches[i], s)
    BY <1>1, <1>2, <2>3 DEF Past, Current
  <2> QED
    BY <2>2, <2>3 DEF StateInv, Kept
<1>4. ~ s.asking
  BY DEF StateInv, Counted
<1>5. Counted(t)
  BY <1>1, <1>4 DEF StateInv, Counted
<1>6. Sound(t)
  BY <1>1 DEF StateInv, Sound
<1> QED
  BY <1>3, <1>5, <1>6 DEF StateInv, t

(* Counting a request leaves exactly that one still to be sent.             *)
LEMMA RequestedState ==
  ASSUME NEW s \in States, StateInv(s), asked \in Nat,
         s.pending = <<>>, ~ s.asking, s.calls < MaxModelCalls
  PROVE  LET t == [s EXCEPT !.calls = @ + 1, !.asking = TRUE] IN StateInv(t) /\ asked = t.calls - 1
<1> DEFINE t == [s EXCEPT !.calls = @ + 1, !.asking = TRUE]
<1>1. /\ t \in States /\ t.status = s.status /\ t.good = s.good
      /\ t.pending = s.pending /\ t.started = s.started /\ t.asking
      /\ t.calls = s.calls + 1 /\ t.tools = s.tools /\ t.used = s.used /\ t.turn = s.turn
  BY RequestedFields
<1> HIDE DEF t
<1>2. s.calls \in Nat /\ asked = s.calls
  BY DEF States, StateInv, Counted
<1>3. Kept(t)
  BY <1>1 DEF StateInv, Kept, Past, Current
<1>4. Counted(t)
  BY <1>1, <1>2, AgentRunnerAssumption DEF StateInv, Counted
<1>5. Sound(t)
  BY <1>1 DEF StateInv, Sound
<1> QED
  BY <1>1, <1>2, <1>3, <1>4, <1>5 DEF StateInv, t

(* Accounting for the answer of the request that was sent closes it.        *)
LEMMA SettledState ==
  ASSUME NEW s \in States, StateInv(s), s.asking, asked = s.calls, NEW u \in Usages
  PROVE  StateInv([s EXCEPT !.used = @ + u, !.asking = FALSE])
<1> DEFINE t == [s EXCEPT !.used = @ + u, !.asking = FALSE]
<1>1. /\ t \in States /\ t.status = s.status /\ t.good = s.good
      /\ t.pending = s.pending /\ t.started = s.started /\ ~ t.asking
      /\ t.calls = s.calls /\ t.tools = s.tools /\ t.used = s.used + u /\ t.turn = s.turn
  BY SettledFields
<1> HIDE DEF t
<1>2. Kept(t)
  BY <1>1 DEF StateInv, Kept, Past, Current
<1>3. Counted(t)
  BY <1>1 DEF StateInv, Counted
<1>4. Sound(t)
  BY <1>1 DEF StateInv, Sound
<1> QED
  BY <1>2, <1>3, <1>4 DEF StateInv, t

(* A new turn puts every earlier launch behind the state.                   *)
LEMMA RespondedState ==
  ASSUME NEW s \in States, StateInv(s), launches \in Seq(Nat \X Nat), ~ s.asking,
         NEW batch \in Seq(Kinds), NEW mark \in {"running", "blocked"},
         s.used <= MaxTotalTokens \/ mark = "blocked", s.pending = <<>>
  PROVE  StateInv(Responded(s, batch, mark))
<1> DEFINE t == Responded(s, batch, mark)
<1>1. /\ t \in States /\ t.status = mark /\ t.good = s.good
      /\ t.pending = batch /\ ~ t.started /\ t.asking = s.asking
      /\ t.calls = s.calls /\ t.tools = s.tools /\ t.used = s.used /\ t.turn = s.turn + 1
  BY RespondedFields
<1> HIDE DEF t
<1>2. Kept(t)
  <2> SUFFICES ASSUME NEW i \in 1..Len(launches) PROVE Past(launches[i], t)
    BY DEF Kept
  <2>1. launches[i] \in Nat \X Nat /\ s.turn \in Nat
    BY DEF States
  <2>2. launches[i][1] <= s.turn
    <3>1. CASE Past(launches[i], s)
      BY <2>1, <3>1 DEF Past
    <3>2. CASE Current(launches[i], s)
      BY <3>2 DEF Current
    <3> QED
      BY <3>1, <3>2 DEF StateInv, Kept
  <2> QED
    BY <1>1, <2>1, <2>2 DEF Past
<1>3. Counted(t)
  BY <1>1 DEF StateInv, Counted
<1>4. Sound(t)
  BY <1>1 DEF StateInv, Sound
<1> QED
  BY <1>2, <1>3, <1>4 DEF StateInv, t

(* A state is as good after a step that asks and launches nothing.          *)
LEMMA Transfer ==
  ASSUME NEW t, StateInv(t), UNCHANGED history, Earned => Earned'
  PROVE  (mem' = t => StateInv(mem)') /\ (disk' = t => StateInv(disk)')
  BY DEF history, StateInv, Kept, Counted, Sound, Past, Current

(* No process has run.                                                      *)
LEMMA AgentInit == Init => Inv
<1> SUFFICES ASSUME Init PROVE Inv
  OBVIOUS
<1> USE DEF Init
<1>1. TypeOK
  BY NoStateFields, AgentRunnerAssumption DEF TypeOK, Steps
<1>2. StateInv(disk)
  BY NoStateInv
<1>3. RunInv /\ ControlInv
  BY DEF RunInv, ControlInv, Synced, InCall
<1>4. NeverReplayed
  BY DEF NeverReplayed, IsInjective
<1> QED
  BY <1>1, <1>2, <1>3, <1>4 DEF Inv
-----------------------------------------------------------------------------
(* What the parts of the invariant do not depend on.                        *)
LEMMA Calm ==
  ASSUME Inv, UNCHANGED <<runs, history>>
  PROVE  /\ RunInv' /\ NeverReplayed' /\ (Earned => Earned')
         /\ disk' = disk => StateInv(disk)'
         /\ pc # "off" /\ mem' = mem => StateInv(mem)'
<1>1. RunInv' /\ NeverReplayed' /\ (Earned => Earned')
  BY DEF Inv, RunInv, NeverReplayed, Earned, runs, history
<1> QED
  BY <1>1, Transfer DEF Inv, ControlInv

(* A save, whether it works or not.                                         *)
LEMMA SavesKeeps ==
  ASSUME Inv, pc # "off", NEW new \in States, StateInv(new), new.status # "absent",
         NEW next \in Steps, Saves(new, next), UNCHANGED <<starts, runs, history>>
  PROVE  /\ TypeOK' /\ StateInv(disk)' /\ StateInv(mem)' /\ RunInv' /\ NeverReplayed'
         /\ mem'.status # "absent" /\ disk'.status # "absent"
         /\ \/ mem' = new /\ disk' = new /\ pc' = next
            \/ pc' = "finally" /\ disk' = disk /\ SameRest(mem', new)
<1>1. CASE mem' = new /\ disk' = new /\ pc' = next
  <2>1. TypeOK'
    BY <1>1 DEF Inv, TypeOK, runs, history
  <2> QED
    BY <1>1, <2>1, Calm, Transfer
<1>2. CASE mem' = [new EXCEPT !.status = "blocked"] /\ UNCHANGED disk /\ pc' = "finally"
  <2> DEFINE t == [new EXCEPT !.status = "blocked"]
  <2>1. t \in States /\ t.status = "blocked" /\ SameRest(t, new) /\ StateInv(t)
    BY BlockedState
  <2> HIDE DEF t
  <2>2. mem' = t
    BY <1>2 DEF t
  <2>3. TypeOK'
    BY <1>2, <2>1, <2>2 DEF Inv, TypeOK, Steps, runs, history
  <2>4. disk.status # "absent"
    BY DEF Inv, ControlInv
  <2> QED
    BY <1>2, <2>1, <2>2, <2>3, <2>4, Calm, Transfer
<1> QED
  BY <1>1, <1>2 DEF Saves

(* A process begins with the state of the file.                             *)
LEMMA Begins ==
  ASSUME Inv, NEW t \in States, StateInv(t), t.status = "running", ~ t.asking, mem' = t, disk' = t,
         pc' = "top", starts' \in 0..MaxStarts, UNCHANGED <<runs, history>>
  PROVE  Inv'
<1>1. TypeOK'
  BY DEF Inv, TypeOK, Steps, runs, history
<1>2. StateInv(disk)' /\ StateInv(mem)' /\ RunInv' /\ NeverReplayed'
  BY Calm, Transfer
<1>3. ControlInv'
  BY <1>2 DEF ControlInv, Synced, InCall, SameAccount, Owed
<1> QED
  BY <1>1, <1>2, <1>3 DEF Inv

(* A process starts, resumes or verifies again.                             *)
LEMMA OutsideKeeps ==
  ASSUME Inv, Start \/ Resume \/ Reverify
  PROVE  Inv'
<1>0. disk \in States /\ starts \in 0..MaxStarts /\ StateInv(disk)
  BY DEF Inv, TypeOK
<1>1. CASE Start
  <2> DEFINE t == [NoState EXCEPT !.status = "running"]
  <2>1. t \in States /\ t.status = "running" /\ ~ t.asking
    BY NoStateFields, StatusFields DEF Marks, SameRest
  <2>2. StateInv(t)
    BY <1>1, NoStateInv DEF Start, Inv, ControlInv
  <2>3. mem' = t /\ disk' = t
    BY <1>1 DEF Start
  <2> HIDE DEF t
  <2>4. starts' \in 0..MaxStarts /\ pc' = "top" /\ UNCHANGED <<runs, history>>
    BY <1>0, <1>1, AgentRunnerAssumption DEF Start
  <2> QED
    BY <2>1, <2>2, <2>3, <2>4, Begins
<1>2. CASE Resume
  <2> DEFINE t == [disk EXCEPT !.status = "running"]
  <2>1. t \in States /\ t.status = "running" /\ t.good = disk.good /\ SameRest(t, disk)
    BY <1>0, StatusFields DEF Marks
  <2>3. mem' = t /\ disk' = t
    BY <1>2 DEF Resume
  <2> HIDE DEF t
  <2>2. StateInv(t)
    <3>1. Sound(t)
      BY <1>0, <2>1 DEF StateInv, Sound
    <3> QED
      BY <1>0, <1>2, <2>1, <3>1, RemarkedState DEF Resume
  <2>4. starts' \in 0..MaxStarts /\ pc' = "top" /\ UNCHANGED <<runs, history>>
    BY <1>0, <1>2, AgentRunnerAssumption DEF Resume
  <2>5. ~ t.asking
    BY <1>2, <2>1 DEF Resume, SameRest
  <2> QED
    BY <2>1, <2>2, <2>3, <2>4, <2>5, Begins
<1>3. CASE Reverify
  <2>1. PICK verdict \in {"success", "blocked"} : disk' = [disk EXCEPT !.status = verdict]
    BY <1>3 DEF Reverify
  <2> DEFINE t == [disk EXCEPT !.status = verdict]
  <2>2. verdict \in Marks
    BY DEF Marks
  <2>3. t \in States /\ t.status = verdict /\ t.good = disk.good /\ SameRest(t, disk)
    BY <1>0, <2>2, StatusFields
  <2>4. disk' = t
    BY <2>1
  <2> HIDE DEF t
  <2>5. disk.status = "success" /\ pc = "off" /\ pc' = "off" /\ mem' = mem
        /\ starts' \in 0..MaxStarts /\ UNCHANGED <<runs, history>>
    BY <1>0, <1>3, AgentRunnerAssumption DEF Reverify
  <2>6. StateInv(t)
    <3>1. Sound(t)
      BY <1>0, <2>5 DEF StateInv, Sound
    <3> QED
      BY <1>0, <2>3, <2>5, <3>1, RemarkedState
  <2>7. StateInv(disk)' /\ RunInv' /\ NeverReplayed'
    BY <2>4, <2>5, <2>6, Calm, Transfer
  <2>8. TypeOK'
    BY <2>3, <2>4, <2>5 DEF Inv, TypeOK, Steps, runs, history
  <2>9. ControlInv'
    BY <2>3, <2>4, <2>5 DEF ControlInv, Synced, InCall
  <2> QED
    BY <2>7, <2>8, <2>9 DEF Inv
<1> QED
  BY <1>1, <1>2, <1>3

(* A step that leaves state, runs and history and only moves on.            *)
LEMMA BlockKeeps ==
  ASSUME Inv, Block
  PROVE  Inv'
<1>0. mem \in States /\ pc # "off" /\ StateInv(mem)
  BY DEF Inv, TypeOK, Block, ControlInv
<1> DEFINE t == [mem EXCEPT !.status = "blocked"]
<1>1. t \in States /\ t.status = "blocked" /\ SameRest(t, mem) /\ StateInv(t)
  BY <1>0, BlockedState
<1>2. mem' = t /\ pc' = "finally" /\ UNCHANGED <<disk, starts, runs, history>>
  BY DEF Block
<1> HIDE DEF t
<1>3. StateInv(disk)' /\ StateInv(mem)' /\ RunInv' /\ NeverReplayed'
  BY <1>1, <1>2, Calm, Transfer
<1>4. TypeOK'
  BY <1>1, <1>2 DEF Inv, TypeOK, Steps, runs, history
<1>5. SameAccount'
  <2>1. SameAccount
    BY DEF Inv, ControlInv, Block, Synced
  <2> QED
    BY <1>1, <1>2, <2>1 DEF SameAccount, Owed, SameRest, history
<1>6. disk.status # "absent"
  BY <1>0 DEF Inv, ControlInv
<1>7. ControlInv'
  BY <1>1, <1>2, <1>3, <1>5, <1>6 DEF ControlInv, Synced, InCall
<1> QED
  BY <1>3, <1>4, <1>7 DEF Inv

(* The result of a tool call is at hand.                                    *)
LEMMA ToDid ==
  ASSUME Inv, pc \in Synced, mem.started, mem.pending # <<>>, pc' = "did",
         UNCHANGED <<disk, starts, history>>,
         NEW t \in States, mem' = t, SameRest(t, mem),
         t.status \in {"running", "success", "blocked"}, t.good \/ t.status = "success" => Earned',
         run' \in [RunIds -> {"absent", "created", "running", "success", "failed", "interrupted"}],
         child' \in [RunIds -> {"none", "alive", "ok", "bad"}],
         RunInv', Earned => Earned'
  PROVE  Inv'
<1>0. mem = disk /\ mem.status = "running" /\ StateInv(mem) /\ SameAccount /\ NeverReplayed
  BY DEF Inv, ControlInv, Synced
<1>1. TypeOK'
  BY DEF Inv, TypeOK, Steps, history
<1>2. StateInv(disk)' /\ NeverReplayed'
  BY <1>0, Transfer DEF NeverReplayed, history
<1>3. StateInv(mem)'
  <2>1. Kept(mem)' /\ Counted(mem)'
    BY <1>0 DEF StateInv, Kept, Counted, Past, Current, SameRest, history
  <2> QED
    BY <2>1 DEF StateInv, Sound
<1>4. SameAccount'
  BY <1>0 DEF SameAccount, Owed, SameRest, history
<1>5. ControlInv'
  BY <1>0, <1>3, <1>4 DEF ControlInv, Synced, InCall, SameRest
<1> QED
  BY <1>1, <1>2, <1>3, <1>5 DEF Inv

(* A started call's runtime id.                                             *)
LEMMA IdInRange ==
  ASSUME Inv, pc # "off", mem.started
  PROVE  Id \in RunIds
<1>1. mem.tools \in Nat /\ mem.tools >= 1 /\ mem.tools <= MaxToolCalls
  BY DEF Inv, TypeOK, States, ControlInv, StateInv, Counted
<1> QED
  BY <1>1, AgentRunnerAssumption DEF Id, RunIds

(* A state agrees with itself.                                              *)
LEMMA SameRestRefl == \A s : SameRest(s, s)
  BY DEF SameRest
-----------------------------------------------------------------------------
(* The tool calls.                                                          *)
LEMMA TakeCallKeeps ==
  ASSUME Inv, TakeCall
  PROVE  Inv'
<1>0. /\ mem \in States /\ StateInv(mem) /\ mem = disk /\ pc = "top" /\ mem.status = "running"
      /\ mem.pending # <<>> /\ ~ mem.started /\ mem.tools < MaxToolCalls
      /\ launches \in Seq(Nat \X Nat)
  BY DEF Inv, TypeOK, TakeCall, Running, ControlInv, Synced
<1> DEFINE t == [mem EXCEPT !.tools = @ + 1, !.started = TRUE]
<1>1. /\ t \in States /\ t.status = mem.status /\ t.good = mem.good
      /\ t.pending = mem.pending /\ t.started /\ t.asking = mem.asking
      /\ t.calls = mem.calls /\ t.tools = mem.tools + 1 /\ t.used = mem.used /\ t.turn = mem.turn
  BY <1>0, TakenFields
<1>2. StateInv(t) /\ Fresh(t)
  BY <1>0, TakenState
<1>3. Saves(t, "call") /\ UNCHANGED <<starts, runs, history>>
  BY DEF TakeCall
<1> HIDE DEF t
<1>4. /\ TypeOK' /\ StateInv(disk)' /\ StateInv(mem)' /\ RunInv' /\ NeverReplayed'
      /\ mem'.status # "absent" /\ disk'.status # "absent"
      /\ \/ mem' = t /\ disk' = t /\ pc' = "call"
         \/ pc' = "finally" /\ disk' = disk /\ SameRest(mem', t)
  BY <1>0, <1>1, <1>2, <1>3, SavesKeeps DEF Steps
<1>5. CASE mem' = t /\ disk' = t /\ pc' = "call"
  <2>1. Fresh(mem)'
    BY <1>2, <1>3, <1>5 DEF Fresh, Past, history
  <2>2. ControlInv'
    BY <1>0, <1>1, <1>4, <1>5, <2>1 DEF ControlInv, Synced, InCall, SameAccount, Owed
  <2> QED
    BY <1>4, <2>2 DEF Inv
<1>6. CASE pc' = "finally" /\ disk' = disk /\ SameRest(mem', t)
  <2>1. SameAccount'
    BY <1>0, <1>1, <1>3, <1>6 DEF SameAccount, Owed, SameRest, history
  <2>2. ControlInv'
    BY <1>4, <1>6, <2>1 DEF ControlInv, Synced, InCall
  <2> QED
    BY <1>4, <2>2 DEF Inv
<1> QED
  BY <1>4, <1>5, <1>6

(* A started command whose outcome is unknown is recovered, never repeated. *)
LEMMA RecoverKeeps ==
  ASSUME Inv, Recover
  PROVE  Inv'
<1>0. /\ mem \in States /\ StateInv(mem) /\ pc = "top" /\ mem.status = "running"
      /\ mem.pending # <<>> /\ mem.started /\ RunInv
      /\ run \in [RunIds -> {"absent", "created", "running", "success", "failed", "interrupted"}]
      /\ child \in [RunIds -> {"none", "alive", "ok", "bad"}]
  BY DEF Inv, TypeOK, Recover, Running, ControlInv, Synced
<1>1. Id \in RunIds
  BY <1>0, IdInRange
<1>2. CASE run[Id] = "absent" \/ Reconciled = "running"
  BY <1>2, BlockKeeps DEF Recover
<1>3. CASE ~ (run[Id] = "absent" \/ Reconciled = "running")
  <2>1. /\ pc' = "did" /\ UNCHANGED <<disk, starts, child, history>>
        /\ \/ /\ run' = [run EXCEPT ![Id] = Reconciled]
              /\ \E passed \in {FALSE, Reconciled = "success"} : mem' = [mem EXCEPT !.good = passed]
           \/ UNCHANGED <<run, mem>>
    BY <1>3 DEF Recover
  <2>2. CASE UNCHANGED <<run, mem>>
    <3>1. RunInv' /\ Earned' = Earned
      BY <1>0, <2>1, <2>2 DEF RunInv, Earned
    <3>2. mem.good \/ mem.status = "success" => Earned'
      BY <1>0, <3>1 DEF StateInv, Sound
    <3>3. SameRest(mem, mem)
      BY SameRestRefl
    <3> QED
      BY <1>0, <2>1, <2>2, <3>1, <3>2, <3>3, ToDid DEF Synced
  <2>3. CASE /\ run' = [run EXCEPT ![Id] = Reconciled]
             /\ \E passed \in {FALSE, Reconciled = "success"} : mem' = [mem EXCEPT !.good = passed]
    <3>1. PICK passed \in {FALSE, Reconciled = "success"} : mem' = [mem EXCEPT !.good = passed]
      BY <2>3
    <3> DEFINE t == [mem EXCEPT !.good = passed]
    <3>2. passed \in BOOLEAN
      OBVIOUS
    <3>3. t \in States /\ t.status = mem.status /\ t.good = passed /\ SameRest(t, mem)
      BY <1>0, <3>2, GoodFields
    <3>4. mem' = t
      BY <3>1
    <3> HIDE DEF t
    <3>5. Reconciled \in {"interrupted", run[Id]} /\ (run[Id] = "success" => Reconciled = "success")
      BY DEF Reconciled
    <3>6. run' \in [RunIds -> {"absent", "created", "running", "success", "failed", "interrupted"}]
      BY <1>0, <1>1, <2>3, <3>5
    <3>7. \A r \in RunIds : run'[r] = "success" <=> run[r] = "success"
      BY <1>0, <1>1, <2>3, <3>5
    <3>8. RunInv' /\ (Earned => Earned')
      BY <1>0, <2>1, <3>7 DEF RunInv, Earned
    <3>9. passed => Earned'
      <4> SUFFICES ASSUME passed PROVE Earned'
        OBVIOUS
      <4>1. Reconciled = "success"
        OBVIOUS
      <4>2. run[Id] = "success" /\ child[Id] = "ok"
        BY <1>0, <1>1, <3>5, <4>1 DEF RunInv
      <4> QED
        BY <1>1, <3>8, <4>2 DEF Earned
    <3> QED
      BY <1>0, <2>1, <3>3, <3>4, <3>6, <3>8, <3>9, ToDid DEF Synced
  <2> QED
    BY <2>1, <2>2, <2>3
<1> QED
  BY <1>2, <1>3

(* A started call that is no command is carried out again.                  *)
LEMMA RedoKeeps ==
  ASSUME Inv, Redo
  PROVE  Inv'
<1>0. /\ pc = "top" /\ pc' = "call" /\ mem.pending # <<>> /\ mem.started /\ Head1 # "run_command"
      /\ UNCHANGED <<disk, mem, starts, runs, history>>
  BY DEF Redo, Running
<1>1. StateInv(disk)' /\ StateInv(mem)' /\ RunInv' /\ NeverReplayed'
  BY <1>0, Calm
<1>2. TypeOK'
  BY <1>0 DEF Inv, TypeOK, Steps, runs, history
<1>3. mem = disk /\ mem.status = "running"
  BY <1>0 DEF Inv, ControlInv, Synced
<1>4. ControlInv'
  BY <1>0, <1>1, <1>3 DEF ControlInv, Synced, InCall, SameAccount, Head1
<1> QED
  BY <1>1, <1>2, <1>4 DEF Inv

(* The steps whose result needs no process.                                 *)
LEMMA LookAndFinishKeep ==
  ASSUME Inv, Look \/ Finish
  PROVE  Inv'
<1>0. /\ mem \in States /\ StateInv(mem) /\ mem.pending # <<>> /\ mem.started /\ RunInv
      /\ pc = "call" /\ pc' = "did" /\ mem.status = "running"
      /\ run \in [RunIds -> {"absent", "created", "running", "success", "failed", "interrupted"}]
      /\ child \in [RunIds -> {"none", "alive", "ok", "bad"}]
      /\ UNCHANGED <<disk, starts, runs, history>>
  BY DEF Inv, TypeOK, Look, Finish, Calling, ControlInv, Synced, InCall
<1>1. RunInv' /\ Earned' = Earned
  BY <1>0 DEF RunInv, Earned, runs
<1>2. PICK verdict \in {"running", "blocked", "success"} :
        /\ mem' = [mem EXCEPT !.status = verdict]
        /\ verdict = "success" => mem.good
  <2>1. CASE Look
    <3>1. mem' = mem /\ mem.status = "running"
      BY <1>0, <2>1 DEF Look
    <3>2. mem = [mem EXCEPT !.status = "running"]
      BY <1>0, <3>1 DEF States
    <3> QED
      BY <3>1, <3>2
  <2>2. CASE Finish
    BY <2>2 DEF Finish
  <2> QED
    BY <2>1, <2>2
<1> DEFINE t == [mem EXCEPT !.status = verdict]
<1>3. verdict \in Marks
  BY DEF Marks
<1>4. t \in States /\ t.status = verdict /\ t.good = mem.good /\ SameRest(t, mem)
  BY <1>0, <1>3, StatusFields
<1>5. mem' = t
  BY <1>2
<1> HIDE DEF t
<1>6. t.good \/ t.status = "success" => Earned'
  BY <1>0, <1>1, <1>2, <1>4 DEF StateInv, Sound
<1> QED
  BY <1>0, <1>1, <1>4, <1>5, <1>6, ToDid DEF Synced, runs

(* An exception inside run_persistent_command is the result of the call.    *)
LEMMA ErrorKeeps ==
  ASSUME Inv, pc \in {"call", "created", "launched", "watching"}, ErrorResult,
         UNCHANGED <<disk, starts, asked>>
  PROVE  Inv'
<1>0. /\ mem \in States /\ StateInv(mem) /\ mem.pending # <<>> /\ mem.started /\ RunInv
      /\ mem.status = "running"
      /\ run \in [RunIds -> {"absent", "created", "running", "success", "failed", "interrupted"}]
      /\ child \in [RunIds -> {"none", "alive", "ok", "bad"}]
  BY DEF Inv, TypeOK, ControlInv, Synced, InCall
<1>1. pc' = "did" /\ UNCHANGED <<mem, run, child, history>>
  BY DEF ErrorResult, runs, history
<1>2. RunInv' /\ Earned' = Earned
  BY <1>0, <1>1 DEF RunInv, Earned
<1>3. mem.good \/ mem.status = "success" => Earned'
  BY <1>0, <1>2 DEF StateInv, Sound
<1>4. SameRest(mem, mem)
  BY SameRestRefl
<1> QED
  BY <1>0, <1>1, <1>2, <1>3, <1>4, ToDid DEF Synced
(* The record of the run moves on before and after the launch.              *)
LEMMA CreateAndRecordKeep ==
  ASSUME Inv, CreateRun \/ RecordPid
  PROVE  Inv'
<1>0. /\ mem = disk /\ mem.status = "running" /\ StateInv(mem) /\ mem.pending # <<>> /\ mem.started /\ RunInv
      /\ run \in [RunIds -> {"absent", "created", "running", "success", "failed", "interrupted"}]
      /\ child \in [RunIds -> {"none", "alive", "ok", "bad"}]
      /\ pc \in {"call", "launched"} /\ Id \in RunIds
      /\ UNCHANGED <<disk, starts, asked>>
  <2>1. pc \in {"call", "launched"} /\ UNCHANGED <<disk, starts, asked>>
    BY DEF CreateRun, RecordPid, Calling
  <2>2. mem.started
    BY <2>1 DEF Inv, ControlInv, InCall
  <2>3. Id \in RunIds
    BY <2>1, <2>2, IdInRange
  <2> QED
    BY <2>1, <2>3 DEF Inv, TypeOK, ControlInv, Synced, InCall
<1>1. CASE ErrorResult
  BY <1>0, <1>1, ErrorKeeps
<1>2. ASSUME NEW record \in {"created", "running"}, run' = [run EXCEPT ![Id] = record],
             run[Id] \in {"absent", "created"},
             \/ pc' = "created" /\ record = "created" /\ Fresh(mem)
             \/ pc' = "watching" /\ record = "running",
             UNCHANGED <<mem, child, launches>>
      PROVE  Inv'
  <2>1. run' \in [RunIds -> {"absent", "created", "running", "success", "failed", "interrupted"}]
        /\ run'[Id] = record
    BY <1>0, <1>2
  <2>2. RunInv' /\ Earned' = Earned
    BY <1>0, <1>2 DEF RunInv, Earned
  <2>3. TypeOK'
    BY <1>0, <1>2, <2>1 DEF Inv, TypeOK, Steps
  <2>4. StateInv(disk)' /\ StateInv(mem)' /\ NeverReplayed'
    BY <1>0, <1>2, <2>2, Transfer DEF Inv, NeverReplayed, history
  <2>5. Id' = Id /\ (Fresh(mem) => Fresh(mem)')
    BY <1>2 DEF Id, Fresh, Past
  <2>6. ControlInv'
    BY <1>0, <1>2, <2>1, <2>4, <2>5 DEF ControlInv, Synced, InCall, SameAccount
  <2> QED
    BY <2>2, <2>3, <2>4, <2>6 DEF Inv
<1>3. CASE CreateRun
  <2>1. Fresh(mem)
    BY <1>3 DEF CreateRun, Calling, Inv, ControlInv
  <2> QED
    BY <1>1, <1>2, <1>3, <2>1 DEF CreateRun
<1>4. CASE RecordPid
  <2>1. run[Id] = "created"
    BY <1>4 DEF RecordPid, Inv, ControlInv
  <2> QED
    BY <1>1, <1>2, <1>4, <2>1 DEF RecordPid
<1> QED
  BY <1>3, <1>4

(* Something new at the end of a sequence without repetitions.              *)
LEMMA ExtendInjective ==
  ASSUME NEW n \in Nat, NEW s, NEW t, DOMAIN s = 1..n, DOMAIN t = 1..(n + 1),
         \A i \in 1..n : t[i] = s[i] /\ s[i] # t[n + 1], IsInjective(s)
  PROVE  IsInjective(t)
<1> SUFFICES ASSUME NEW a \in 1..(n + 1), NEW b \in 1..(n + 1), t[a] = t[b] PROVE a = b
  BY DEF IsInjective
<1>1. CASE a \in 1..n /\ b \in 1..n
  BY <1>1 DEF IsInjective
<1>2. CASE a = n + 1 /\ b \in 1..n
  BY <1>2
<1>3. CASE b = n + 1 /\ a \in 1..n
  BY <1>3
<1> QED
  BY <1>1, <1>2, <1>3

(* The launch itself.                                                       *)
LEMMA LaunchKeeps ==
  ASSUME Inv, LaunchCommand
  PROVE  Inv'
<1>0. /\ mem = disk /\ mem.status = "running" /\ StateInv(mem) /\ mem.pending # <<>> /\ mem.started /\ RunInv
      /\ mem \in States /\ launches \in Seq(Nat \X Nat) /\ asked \in Nat
      /\ run \in [RunIds -> {"absent", "created", "running", "success", "failed", "interrupted"}]
      /\ child \in [RunIds -> {"none", "alive", "ok", "bad"}]
      /\ pc = "created" /\ Id \in RunIds /\ Fresh(mem) /\ run[Id] = "created"
      /\ UNCHANGED <<disk, starts, asked>>
  <2>1. pc = "created" /\ UNCHANGED <<disk, starts, asked>>
    BY DEF LaunchCommand
  <2>2. mem.started
    BY <2>1 DEF Inv, ControlInv, InCall
  <2>3. Id \in RunIds
    BY <2>1, <2>2, IdInRange
  <2> QED
    BY <2>1, <2>3 DEF Inv, TypeOK, ControlInv, Synced, InCall
<1>1. CASE ErrorResult
  BY <1>0, <1>1, ErrorKeeps
<1>2. CASE /\ run' = [run EXCEPT ![Id] = "failed"]
           /\ mem' = [mem EXCEPT !.good = FALSE]
           /\ pc' = "did"
           /\ UNCHANGED <<child, launches>>
  <2> DEFINE flag == FALSE
             t == [mem EXCEPT !.good = flag]
  <2>1. mem' = t /\ ~ flag /\ flag \in BOOLEAN
    BY <1>2
  <2> HIDE DEF flag
  <2>2. t \in States /\ t.status = mem.status /\ t.good = flag /\ SameRest(t, mem)
    BY <1>0, <2>1, GoodFields
  <2> HIDE DEF t
  <2>3. run' \in [RunIds -> {"absent", "created", "running", "success", "failed", "interrupted"}]
    BY <1>0, <1>2
  <2>4. RunInv' /\ (Earned => Earned')
    BY <1>0, <1>2 DEF RunInv, Earned
  <2> QED
    BY <1>0, <1>2, <2>1, <2>2, <2>3, <2>4, ToDid DEF Synced, history
<1>3. CASE /\ child' = [child EXCEPT ![Id] = "alive"]
           /\ launches' = Append(launches, <<mem.turn, Len(mem.pending)>>)
           /\ pc' = "launched"
           /\ UNCHANGED <<mem, run>>
  <2> DEFINE call == <<mem.turn, Len(mem.pending)>>
  <2>1. call \in Nat \X Nat /\ mem.tools \in Nat
    BY <1>0 DEF States
  <2>2. \A i \in 1..Len(launches) : launches[i] # call
    <3> SUFFICES ASSUME NEW i \in 1..Len(launches), launches[i] = call PROVE FALSE
      OBVIOUS
    <3>1. Past(call, mem)
      BY <1>0 DEF Fresh
    <3>2. call[1] = mem.turn /\ call[2] = Len(mem.pending) /\ mem.turn \in Nat /\ Len(mem.pending) \in Nat
      BY <1>0 DEF States
    <3> QED
      BY <3>1, <3>2 DEF Past
  <2>3. Current(call, mem)
    BY <1>0 DEF Current
  <2> HIDE DEF call
  <2>4. launches' = Append(launches, call)
    BY <1>3 DEF call
  <2>5. /\ launches' \in Seq(Nat \X Nat) /\ Len(launches') = Len(launches) + 1
        /\ launches'[Len(launches) + 1] = call
        /\ \A i \in 1..Len(launches) : launches'[i] = launches[i]
    BY <1>0, <2>1, <2>4
  <2>6. NeverReplayed'
    <3>1. IsInjective(launches)
      BY DEF Inv, NeverReplayed
    <3>2. DOMAIN launches = 1..Len(launches) /\ Len(launches) \in Nat
      BY <1>0
    <3>3. DOMAIN launches' = 1..(Len(launches) + 1)
      BY <2>5
    <3>4. \A i \in 1..Len(launches) : launches'[i] = launches[i] /\ launches[i] # launches'[Len(launches) + 1]
      BY <2>2, <2>5
    <3>5. IsInjective(launches')
      BY <3>1, <3>2, <3>3, <3>4, ExtendInjective
    <3> QED
      BY <3>5 DEF NeverReplayed, IsInjective
  <2>7. RunInv' /\ (Earned => Earned')
    BY <1>0, <1>3 DEF RunInv, Earned
  <2>8. TypeOK'
    <3>1. child' \in [RunIds -> {"none", "alive", "ok", "bad"}]
      BY <1>0, <1>3
    <3> QED
      BY <1>0, <1>3, <2>5, <3>1 DEF Inv, TypeOK, Steps
  <2>9. StateInv(mem)'
    <3>1. Kept(mem)'
      <4> SUFFICES ASSUME NEW i \in 1..Len(launches')
                   PROVE  Past(launches'[i], mem) \/ Current(launches'[i], mem)
        BY <1>3 DEF Kept, Past, Current
      <4>1. CASE i \in 1..Len(launches)
        BY <1>0, <2>5, <4>1 DEF Fresh
      <4>2. CASE i = Len(launches) + 1
        BY <2>3, <2>5, <4>2
      <4> QED
        BY <1>0, <2>5, <4>1, <4>2
    <3>2. Counted(mem)'
      BY <1>0, <1>3, <2>1, <2>5 DEF StateInv, Counted, Fresh
    <3>3. Sound(mem)'
      BY <1>0, <1>3, <2>7 DEF StateInv, Sound
    <3> QED
      BY <3>1, <3>2, <3>3 DEF StateInv
  <2>10. mem' = disk'
    BY <1>0, <1>3
  <2>11. StateInv(disk)'
    BY <2>9, <2>10 DEF StateInv, Kept, Counted, Sound, Past, Current
  <2>12. ControlInv'
    BY <1>0, <1>3, <2>9, <2>10 DEF ControlInv, Synced, InCall, SameAccount, Owed, Id
  <2> QED
    BY <2>6, <2>7, <2>8, <2>11, <2>12 DEF Inv
<1> QED
  BY <1>1, <1>2, <1>3 DEF LaunchCommand

(* The end of a run, and its record.                                        *)
LEMMA EndRunKeeps ==
  ASSUME Inv, EndRun
  PROVE  Inv'
<1>0. /\ mem.status = "running" /\ StateInv(mem) /\ mem.pending # <<>> /\ mem.started /\ RunInv
      /\ mem \in States
      /\ run \in [RunIds -> {"absent", "created", "running", "success", "failed", "interrupted"}]
      /\ child \in [RunIds -> {"none", "alive", "ok", "bad"}]
      /\ pc = "watching" /\ Id \in RunIds /\ run[Id] = "running"
      /\ UNCHANGED <<disk, starts, asked>>
  <2>1. pc = "watching" /\ UNCHANGED <<disk, starts, asked>>
    BY DEF EndRun
  <2>2. mem.started
    BY <2>1 DEF Inv, ControlInv, InCall
  <2>3. Id \in RunIds
    BY <2>1, <2>2, IdInRange
  <2> QED
    BY <2>1, <2>3 DEF Inv, TypeOK, ControlInv, Synced, InCall
<1>1. CASE ErrorResult
  BY <1>0, <1>1, ErrorKeeps
<1>2. CASE ~ ErrorResult
  <2>1. PICK stopped \in BOOLEAN, code \in {"ok", "bad"} :
          /\ ~ stopped => child[Id] = code
          /\ child' = [child EXCEPT ![Id] = IF @ = "alive" THEN code ELSE @]
          /\ LET outcome == IF ~ stopped /\ code = "ok" THEN "success" ELSE "failed" IN
               /\ run' = [run EXCEPT ![Id] = outcome]
               /\ \E passed \in {FALSE, outcome = "success"} :
                    mem' = [mem EXCEPT !.good = passed]
    BY <1>2 DEF EndRun
  <2>2. pc' = "did" /\ UNCHANGED launches
    BY <1>2 DEF EndRun
  <2> DEFINE outcome == IF ~ stopped /\ code = "ok" THEN "success" ELSE "failed"
  <2>3. PICK passed \in {FALSE, outcome = "success"} : mem' = [mem EXCEPT !.good = passed]
    BY <2>1
  <2>4. run' = [run EXCEPT ![Id] = outcome]
    BY <2>1
  <2>5. outcome = "success" => child[Id] = "ok"
    BY <2>1
  <2>6. outcome \in {"success", "failed"} /\ passed \in BOOLEAN /\ (passed => outcome = "success")
    OBVIOUS
  <2> HIDE DEF outcome
  <2> DEFINE t == [mem EXCEPT !.good = passed]
  <2>7. t \in States /\ t.status = mem.status /\ t.good = passed /\ SameRest(t, mem)
    BY <1>0, <2>6, GoodFields
  <2>8. mem' = t
    BY <2>3
  <2> HIDE DEF t
  <2>9. run' \in [RunIds -> {"absent", "created", "running", "success", "failed", "interrupted"}]
    BY <1>0, <2>4, <2>6
  <2>10. /\ child' \in [RunIds -> {"none", "alive", "ok", "bad"}]
         /\ \A r \in RunIds : child[r] = "ok" => child'[r] = "ok"
    BY <1>0, <2>1
  <2>11. /\ \A r \in RunIds : run[r] = "success" => run'[r] = "success"
         /\ \A r \in RunIds : run'[r] = "success" => child[r] = "ok"
    BY <1>0, <2>4, <2>5 DEF RunInv
  <2>12. RunInv' /\ (Earned => Earned')
    BY <2>10, <2>11 DEF RunInv, Earned
  <2>13. passed => Earned'
    BY <1>0, <2>4, <2>5, <2>6, <2>10 DEF Earned
  <2> QED
    BY <1>0, <2>2, <2>7, <2>8, <2>9, <2>10, <2>12, <2>13, ToDid DEF Synced, history
<1> QED
  BY <1>1, <1>2
(* Dropping the call that was done.                                         *)
LEMMA PopKeeps ==
  ASSUME Inv, Pop
  PROVE  Inv'
<1>0. /\ mem \in States /\ disk \in States /\ StateInv(mem) /\ StateInv(disk) /\ SameAccount
      /\ mem.pending # <<>> /\ mem.started /\ pc = "did" /\ mem.status # "absent"
      /\ mem.pending = disk.pending /\ mem.turn = disk.turn
      /\ launches \in Seq(Nat \X Nat)
  BY DEF Inv, TypeOK, Pop, ControlInv, Synced, InCall
<1>7. ~ mem.asking
  BY <1>0 DEF StateInv, Counted
<1> DEFINE t == [mem EXCEPT !.pending = Tail(@), !.started = FALSE]
           next == IF mem.status = "running" THEN "top" ELSE "finally"
<1>1. /\ t \in States /\ t.status = mem.status /\ t.good = mem.good
      /\ t.pending = Tail(mem.pending) /\ ~ t.started /\ t.asking = mem.asking
      /\ t.calls = mem.calls /\ t.tools = mem.tools /\ t.used = mem.used /\ t.turn = mem.turn
  BY <1>0, PoppedFields
<1>2. StateInv(t)
  BY <1>0, PoppedState
<1>3. UNCHANGED <<starts, runs, history>>
  BY DEF Pop
<1>4. \/ Saves(t, next)
      \/ /\ mem.status = "running" /\ disk' = t /\ mem' = [t EXCEPT !.status = "paused"]
         /\ pc' = "finally"
  BY DEF Pop
<1> HIDE DEF t
<1>5. CASE Saves(t, next)
  <2>1. next \in {"top", "finally"} /\ next \in Steps /\ (next = "top" => mem.status = "running")
    BY DEF Steps
  <2> HIDE DEF next
  <2>2. /\ TypeOK' /\ StateInv(disk)' /\ StateInv(mem)' /\ RunInv' /\ NeverReplayed'
        /\ mem'.status # "absent" /\ disk'.status # "absent"
        /\ \/ mem' = t /\ disk' = t /\ pc' = next
           \/ pc' = "finally" /\ disk' = disk /\ SameRest(mem', t)
    BY <1>0, <1>1, <1>2, <1>3, <1>5, <2>1, SavesKeeps
  <2>3. SameAccount'
    <3>1. CASE mem' = t /\ disk' = t
      BY <3>1 DEF SameAccount, Owed
    <3>2. CASE disk' = disk /\ SameRest(mem', t)
      BY <1>0, <1>1, <1>3, <3>2 DEF SameAccount, Owed, SameRest, history
    <3> QED
      BY <2>2, <3>1, <3>2
  <2>4. ControlInv'
    BY <1>7, <1>1, <2>1, <2>2, <2>3 DEF ControlInv, Synced, InCall
  <2> QED
    BY <2>2, <2>4 DEF Inv
<1>6. CASE /\ mem.status = "running" /\ disk' = t /\ mem' = [t EXCEPT !.status = "paused"]
           /\ pc' = "finally"
  <2> DEFINE p == [t EXCEPT !.status = "paused"]
  <2>1. p \in States /\ p.status = "paused" /\ p.good = t.good /\ SameRest(p, t)
    BY <1>1, StatusFields DEF Marks
  <2>2. mem' = p
    BY <1>6
  <2> HIDE DEF p
  <2>3. StateInv(p)
    <3>1. Sound(p)
      BY <1>2, <2>1 DEF StateInv, Sound
    <3> QED
      BY <1>1, <1>2, <1>6, <2>1, <3>1, RemarkedState
  <2>4. StateInv(disk)' /\ StateInv(mem)' /\ RunInv' /\ NeverReplayed'
    BY <1>2, <1>3, <1>6, <2>2, <2>3, Calm, Transfer
  <2>5. TypeOK'
    BY <1>1, <1>3, <1>6, <2>1, <2>2 DEF Inv, TypeOK, Steps, runs, history
  <2>6. SameAccount'
    BY <1>1, <1>3, <1>6, <2>1, <2>2 DEF SameAccount, Owed, SameRest, history
  <2>7. ControlInv'
    BY <1>1, <1>6, <2>1, <2>2, <2>4, <2>6 DEF ControlInv, Synced, InCall
  <2> QED
    BY <2>4, <2>5, <2>7 DEF Inv
<1> QED
  BY <1>4, <1>5, <1>6

-----------------------------------------------------------------------------
(* The model's turn.                                                        *)
LEMMA RequestKeeps ==
  ASSUME Inv, Request
  PROVE  Inv'
<1>0. /\ mem \in States /\ StateInv(mem) /\ mem = disk /\ pc = "top" /\ mem.status = "running"
      /\ mem.pending = <<>> /\ mem.calls < MaxModelCalls /\ asked \in Nat
      /\ mem.used + Reservation <= MaxTotalTokens
  BY DEF Inv, TypeOK, Request, Running, ControlInv, Synced
<1> DEFINE t == [mem EXCEPT !.calls = @ + 1, !.asking = TRUE]
<1>1. /\ t \in States /\ t.status = mem.status /\ t.good = mem.good
      /\ t.pending = mem.pending /\ t.started = mem.started /\ t.asking
      /\ t.calls = mem.calls + 1 /\ t.tools = mem.tools /\ t.used = mem.used /\ t.turn = mem.turn
  BY <1>0, RequestedFields
<1>2. ~ mem.asking
  BY <1>0 DEF Inv, ControlInv
<1>3. StateInv(t) /\ asked = t.calls - 1
  BY <1>0, <1>2, RequestedState
<1>4. Saves(t, "asking") /\ UNCHANGED <<starts, runs, history>>
  BY DEF Request
<1> HIDE DEF t
<1>5. /\ TypeOK' /\ StateInv(disk)' /\ StateInv(mem)' /\ RunInv' /\ NeverReplayed'
      /\ mem'.status # "absent" /\ disk'.status # "absent"
      /\ \/ mem' = t /\ disk' = t /\ pc' = "asking"
         \/ pc' = "finally" /\ disk' = disk /\ SameRest(mem', t)
  BY <1>0, <1>1, <1>3, <1>4, SavesKeeps DEF Steps
<1>6. CASE mem' = t /\ disk' = t /\ pc' = "asking"
  <2>1. ControlInv'
    BY <1>0, <1>1, <1>3, <1>4, <1>5, <1>6
       DEF ControlInv, Synced, InCall, SameAccount, Owed, history
  <2> QED
    BY <1>5, <2>1 DEF Inv
<1>7. CASE pc' = "finally" /\ disk' = disk /\ SameRest(mem', t)
  <2>1. ~ Owed(mem)' /\ ~ Owed(disk)'
    BY <1>0, <1>1, <1>2, <1>3, <1>4, <1>7 DEF Owed, SameRest, StateInv, Counted, history, States
  <2>2. SameAccount'
    BY <1>0, <1>1, <1>7, <2>1 DEF SameAccount, SameRest
  <2>3. ControlInv'
    BY <1>5, <1>7, <2>2 DEF ControlInv, Synced, InCall
  <2> QED
    BY <1>5, <2>3 DEF Inv
<1> QED
  BY <1>5, <1>6, <1>7

(* The model is asked.                                                      *)
LEMMA AskKeeps ==
  ASSUME Inv, Ask
  PROVE  Inv'
<1>0. /\ mem \in States /\ StateInv(mem) /\ mem = disk /\ pc = "asking" /\ mem.status = "running"
      /\ mem.pending = <<>> /\ asked \in Nat /\ mem.asking /\ asked = mem.calls - 1
      /\ pc' = "answering" /\ asked' = asked + 1
      /\ UNCHANGED <<disk, mem, starts, runs, launches>>
  BY DEF Inv, TypeOK, Ask, ControlInv, Synced
<1>1. TypeOK'
  BY <1>0 DEF Inv, TypeOK, Steps, runs
<1>2. RunInv' /\ NeverReplayed' /\ Earned' = Earned
  BY <1>0 DEF Inv, RunInv, NeverReplayed, Earned, runs
<1>3. mem.calls \in Nat /\ asked' = mem.calls
  BY <1>0 DEF States
<1>4. StateInv(mem)'
  <2>1. Kept(mem)' /\ Sound(mem)'
    BY <1>0, <1>2 DEF StateInv, Kept, Past, Current, Sound
  <2>2. Counted(mem)'
    BY <1>0, <1>3 DEF StateInv, Counted
  <2> QED
    BY <2>1, <2>2 DEF StateInv
<1>5. mem' = disk'
  BY <1>0
<1>6. StateInv(disk)'
  BY <1>4, <1>5 DEF StateInv, Kept, Counted, Sound, Past, Current
<1>7. ControlInv'
  BY <1>0, <1>3, <1>4, <1>5 DEF ControlInv, Synced, InCall, SameAccount, Owed
<1> QED
  BY <1>1, <1>2, <1>6, <1>7 DEF Inv

(* The usage of an answer is saved.                                         *)
LEMMA SettleKeeps ==
  ASSUME Inv, Settle
  PROVE  Inv'
<1>0. /\ mem \in States /\ StateInv(mem) /\ mem = disk /\ pc = "answering" /\ mem.status = "running"
      /\ mem.pending = <<>> /\ asked \in Nat /\ mem.asking /\ asked = mem.calls
  BY DEF Inv, TypeOK, Settle, ControlInv, Synced
<1>1. PICK u \in Usages : Saves([mem EXCEPT !.used = @ + u, !.asking = FALSE], "settled")
  BY DEF Settle
<1> DEFINE t == [mem EXCEPT !.used = @ + u, !.asking = FALSE]
<1>2. /\ t \in States /\ t.status = mem.status /\ t.good = mem.good
      /\ t.pending = mem.pending /\ t.started = mem.started /\ ~ t.asking
      /\ t.calls = mem.calls /\ t.tools = mem.tools /\ t.used = mem.used + u /\ t.turn = mem.turn
  BY <1>0, SettledFields
<1>3. StateInv(t)
  BY <1>0, SettledState
<1>4. Saves(t, "settled") /\ UNCHANGED <<starts, runs, history>>
  BY <1>1 DEF Settle
<1> HIDE DEF t
<1>5. /\ TypeOK' /\ StateInv(disk)' /\ StateInv(mem)' /\ RunInv' /\ NeverReplayed'
      /\ mem'.status # "absent" /\ disk'.status # "absent"
      /\ \/ mem' = t /\ disk' = t /\ pc' = "settled"
         \/ pc' = "finally" /\ disk' = disk /\ SameRest(mem', t)
  BY <1>0, <1>2, <1>3, <1>4, SavesKeeps DEF Steps
<1>6. CASE mem' = t /\ disk' = t /\ pc' = "settled"
  <2>1. ControlInv'
    BY <1>0, <1>2, <1>4, <1>5, <1>6 DEF ControlInv, Synced, InCall, SameAccount, Owed
  <2> QED
    BY <1>5, <2>1 DEF Inv
<1>7. CASE pc' = "finally" /\ disk' = disk /\ SameRest(mem', t)
  <2>1. ~ Owed(mem)' /\ Owed(disk)'
    BY <1>0, <1>2, <1>4, <1>7 DEF Owed, SameRest, history, States
  <2>2. LateAccount'
    BY <1>0, <1>2, <1>7, <2>1 DEF LateAccount, SameRest
  <2>3. ControlInv'
    BY <1>5, <1>7, <2>2 DEF ControlInv, Synced, InCall
  <2> QED
    BY <1>5, <2>3 DEF Inv
<1> QED
  BY <1>5, <1>6, <1>7

(* A batch is a sequence of tool calls.                                     *)
LEMMA BatchIsSeq == BoundedSeq(Kinds, MaxBatch) \subseteq Seq(Kinds)
  BY AgentRunnerAssumption DEF BoundedSeq, SeqOf

(* The response of an answer is saved.                                      *)
LEMMA RespondKeeps ==
  ASSUME Inv, Respond
  PROVE  Inv'
<1>0. /\ mem \in States /\ StateInv(mem) /\ mem = disk /\ pc = "settled" /\ mem.status = "running"
      /\ mem.pending = <<>> /\ ~ mem.asking /\ launches \in Seq(Nat \X Nat)
  BY DEF Inv, TypeOK, Respond, ControlInv, Synced
<1>1. PICK batch \in BoundedSeq(Kinds, MaxBatch) :
        LET ends == mem.used > MaxTotalTokens \/ batch = <<>> IN
        Saves([mem EXCEPT !.pending = batch, !.started = FALSE, !.turn = @ + 1,
                          !.status = IF ends THEN "blocked" ELSE @],
              IF ends THEN "finally" ELSE "top")
  BY DEF Respond
<1> DEFINE ends == mem.used > MaxTotalTokens \/ batch = <<>>
           mark == IF ends THEN "blocked" ELSE mem.status
           next == IF ends THEN "finally" ELSE "top"
           t == Responded(mem, batch, mark)
<1>2. batch \in Seq(Kinds) /\ mark \in {"running", "blocked"}
  BY <1>0, BatchIsSeq
<1>3. /\ mem.used <= MaxTotalTokens \/ mark = "blocked"
      /\ next \in {"top", "finally"} /\ next \in Steps
      /\ next = "top" => mark = "running"
  BY <1>0, AgentRunnerAssumption DEF Steps, States
<1>4. Saves(t, next)
  BY <1>1 DEF Responded
<1>5. UNCHANGED <<starts, runs, history>>
  BY DEF Respond
<1> HIDE DEF ends, mark, next
<1>6. /\ t \in States /\ t.status = mark /\ t.good = mem.good
      /\ t.pending = batch /\ ~ t.started /\ t.asking = mem.asking
      /\ t.calls = mem.calls /\ t.tools = mem.tools /\ t.used = mem.used /\ t.turn = mem.turn + 1
  BY <1>0, <1>2, RespondedFields
<1>7. StateInv(t)
  BY <1>0, <1>2, <1>3, RespondedState
<1> HIDE DEF t
<1>8. /\ TypeOK' /\ StateInv(disk)' /\ StateInv(mem)' /\ RunInv' /\ NeverReplayed'
      /\ mem'.status # "absent" /\ disk'.status # "absent"
      /\ \/ mem' = t /\ disk' = t /\ pc' = next
         \/ pc' = "finally" /\ disk' = disk /\ SameRest(mem', t)
  <2>1. t.status # "absent"
    BY <1>2, <1>6
  <2> QED
    BY <1>0, <1>3, <1>4, <1>5, <1>6, <1>7, <2>1, SavesKeeps
<1>9. SameAccount'
  <2>1. CASE mem' = t /\ disk' = t
    BY <2>1 DEF SameAccount, Owed
  <2>2. CASE disk' = disk /\ SameRest(mem', t)
    BY <1>0, <1>5, <1>6, <2>2 DEF SameAccount, Owed, SameRest, history
  <2> QED
    BY <1>8, <2>1, <2>2
<1>10. ControlInv'
  BY <1>0, <1>3, <1>6, <1>8, <1>9 DEF ControlInv, Synced, InCall
<1> QED
  BY <1>8, <1>10 DEF Inv

-----------------------------------------------------------------------------
(* The ends of a process.                                                   *)
LEMMA EndsKeep ==
  ASSUME Inv, Finally \/ Interrupt \/ Crash
  PROVE  Inv'
<1>0. pc # "off" /\ UNCHANGED <<mem, starts, runs, history>> /\ mem.status # "absent"
      /\ disk.status # "absent" /\ StateInv(mem) /\ mem \in States /\ disk \in States
  BY DEF Inv, TypeOK, ControlInv, Finally, Interrupt, Crash
<1>1. disk' \in {mem, disk}
  BY DEF Finally, Interrupt, Crash
<1>2. StateInv(disk)' /\ StateInv(mem)' /\ RunInv' /\ NeverReplayed'
  <2>1. RunInv' /\ NeverReplayed' /\ StateInv(mem)' /\ (Earned => Earned')
    BY <1>0, Calm
  <2>2. CASE disk' = mem
    BY <1>0, <2>1, <2>2, Transfer
  <2>3. CASE disk' = disk
    BY <1>0, <2>3, Calm
  <2> QED
    BY <1>1, <2>1, <2>2, <2>3
<1>3. pc' \in {"off", "finally"}
  BY DEF Finally, Interrupt, Crash
<1>4. TypeOK'
  BY <1>0, <1>1, <1>3 DEF Inv, TypeOK, Steps, runs, history
<1>5. pc' = "finally" => SameAccount'
  <2>1. ASSUME pc' = "finally" PROVE pc \in Synced \cup {"did"} /\ disk' = disk
    BY <1>0, <2>1 DEF Finally, Interrupt, Crash, Inv, TypeOK, Steps, Synced
  <2>2. pc \in Synced \cup {"did"} => SameAccount
    BY DEF Inv, ControlInv
  <2> QED
    BY <1>0, <2>1, <2>2 DEF SameAccount, Owed, history
<1>6. ControlInv'
  BY <1>0, <1>1, <1>2, <1>3, <1>5 DEF ControlInv, Synced, InCall
<1> QED
  BY <1>2, <1>4, <1>6 DEF Inv

(* A command ends.                                                          *)
LEMMA ChildExitsKeeps ==
  ASSUME Inv, NEW r \in RunIds, ChildExits(r)
  PROVE  Inv'
<1>0. /\ child \in [RunIds -> {"none", "alive", "ok", "bad"}] /\ child[r] = "alive"
      /\ UNCHANGED <<disk, mem, pc, starts, run, history>>
  BY DEF Inv, TypeOK, ChildExits
<1>1. PICK code \in {"ok", "bad"} : child' = [child EXCEPT ![r] = code]
  BY DEF ChildExits
<1>2. /\ child' \in [RunIds -> {"none", "alive", "ok", "bad"}]
      /\ \A i \in RunIds : child[i] = "ok" => child'[i] = "ok"
  BY <1>0, <1>1
<1>3. RunInv' /\ (Earned => Earned') /\ NeverReplayed'
  BY <1>0, <1>2 DEF Inv, RunInv, Earned, NeverReplayed, history
<1>4. TypeOK'
  BY <1>0, <1>2 DEF Inv, TypeOK, history
<1>5. StateInv(disk)' /\ (StateInv(mem) => StateInv(mem)')
  BY <1>0, <1>3, Transfer DEF Inv
<1>6. ControlInv'
  BY <1>0, <1>5 DEF Inv, ControlInv, SameAccount, LateAccount, Owed, Fresh, Past, Head1, Id, history
<1> QED
  BY <1>3, <1>4, <1>5, <1>6 DEF Inv

(* The inductive invariant holds in every reachable state.                  *)
LEMMA InvHolds == Spec => []Inv
<1>1. Inv /\ [Next]_vars => Inv'
  <2> SUFFICES ASSUME Inv, [Next]_vars PROVE Inv'
    OBVIOUS
  <2>1. CASE UNCHANGED vars
    <3>1. RunInv' /\ NeverReplayed' /\ StateInv(disk)' /\ (StateInv(mem) => StateInv(mem)')
      BY <2>1, Calm, Transfer DEF vars, runs, history
    <3>2. TypeOK'
      BY <2>1 DEF Inv, TypeOK, vars, runs, history
    <3>3. ControlInv'
      BY <2>1, <3>1 DEF Inv, ControlInv, SameAccount, LateAccount, Owed, Fresh, Past, Head1, Id,
                        vars, runs, history
    <3> QED
      BY <3>1, <3>2, <3>3 DEF Inv
  <2>2. CASE Next
    BY <2>2, OutsideKeeps, BlockKeeps, TakeCallKeeps, RecoverKeeps, RedoKeeps, LookAndFinishKeep,
       CreateAndRecordKeep, LaunchKeeps, EndRunKeeps, PopKeeps, RequestKeeps, AskKeeps, SettleKeeps,
       RespondKeeps, EndsKeep, ChildExitsKeeps DEF Next, Step
  <2> QED
    BY <2>1, <2>2
<1> QED
  BY <1>1, AgentInit, PTL DEF Spec
(* TypeOK for every budget, batch size and number of processes.             *)
THEOREM TypeCorrect == Spec => []TypeOK
  BY InvHolds, PTL DEF Inv

(* NeverReplayed: a call lies behind the state once its command is launched. *)
THEOREM NeverReplayedHolds == Spec => []NeverReplayed
  BY InvHolds, PTL DEF Inv

(* SuccessEarned: success in the file has its command's honest record.      *)
THEOREM SuccessEarnedHolds == Spec => []SuccessEarned
<1>1. Inv => SuccessEarned
  BY DEF Inv, StateInv, Sound, Earned, SuccessEarned
<1> QED
  BY <1>1, InvHolds, PTL

-----------------------------------------------------------------------------
(* FollowsBudget, step by step: what leaves the account alone is no step of *)
(* MeteredCalls.                                                            *)
LEMMA AccountStays ==
  ASSUME UNCHANGED history, disk'.used = disk.used, Owed(disk)' = Owed(disk)
  PROVE  UNCHANGED Metered!vars
  BY DEF history, Owed, Metered!vars

(* What closes the request and adds its usage accounts for it.              *)
LEMMA AccountSettles ==
  ASSUME UNCHANGED history, Owed(disk), ~ Owed(disk)', NEW u \in Usages, disk'.used = disk.used + u
  PROVE  Metered!Account
  BY DEF history, Owed, Metered!Account

(* A write of the state file is a step of the account or none.              *)
LEMMA SaveRefines ==
  ASSUME Inv, TakeCall \/ Pop \/ Request \/ Settle \/ Respond
  PROVE  [Metered!Next]_Metered!vars
<1>0. /\ mem \in States /\ StateInv(mem) /\ UNCHANGED history /\ asked \in Nat
      /\ pc \in Synced \cup {"did"} /\ SameAccount
  BY DEF Inv, TypeOK, TakeCall, Pop, Request, Settle, Respond, Running, ControlInv, Synced
<1>1. CASE disk' = disk
  BY <1>0, <1>1, AccountStays DEF Owed, history
<1>2. ASSUME disk'.used = mem.used, disk'.calls = mem.calls, disk'.asking = mem.asking
      PROVE  UNCHANGED Metered!vars
  <2>1. Owed(disk)' = Owed(mem)
    BY <1>0, <1>2 DEF Owed, history
  <2>2. Owed(disk)' = Owed(disk) /\ disk'.used = disk.used
    BY <1>0, <1>2, <2>1 DEF SameAccount, Owed
  <2> QED
    BY <1>0, <2>2, AccountStays
<1>3. CASE TakeCall /\ disk' # disk
  <2> DEFINE t == [mem EXCEPT !.tools = @ + 1, !.started = TRUE]
  <2>1. t.used = mem.used /\ t.calls = mem.calls /\ t.asking = mem.asking
    BY <1>0, TakenFields
  <2>2. disk' = t
    BY <1>3 DEF TakeCall, Saves
  <2> QED
    BY <1>2, <2>1, <2>2
<1>4. CASE Pop /\ disk' # disk
  <2> DEFINE t == [mem EXCEPT !.pending = Tail(@), !.started = FALSE]
  <2>1. mem.pending # <<>>
    BY <1>4 DEF Pop, Inv, ControlInv, InCall
  <2>2. t.used = mem.used /\ t.calls = mem.calls /\ t.asking = mem.asking
    BY <1>0, <2>1, PoppedFields
  <2>3. disk' = t
    BY <1>4 DEF Pop, Saves
  <2> QED
    BY <1>2, <2>2, <2>3
<1>5. CASE Request /\ disk' # disk
  <2> DEFINE t == [mem EXCEPT !.calls = @ + 1, !.asking = TRUE]
  <2>1. t.used = mem.used /\ t.calls = mem.calls + 1 /\ t.asking
    BY <1>0, RequestedFields
  <2>2. disk' = t
    BY <1>5 DEF Request, Saves
  <2> HIDE DEF t
  <2>3. mem = disk /\ ~ mem.asking /\ asked = mem.calls /\ mem.calls \in Nat
    BY <1>0, <1>5 DEF Request, Running, Inv, ControlInv, Synced, StateInv, Counted, States
  <2>4. ~ Owed(disk) /\ ~ Owed(disk)'
    BY <1>0, <2>1, <2>2, <2>3 DEF Owed, history
  <2>5. Owed(disk)' = Owed(disk) /\ disk'.used = disk.used
    BY <2>1, <2>2, <2>3, <2>4 DEF Owed
  <2> QED
    BY <1>0, <2>5, AccountStays
<1>6. CASE Settle /\ disk' # disk
  <2>1. PICK u \in Usages : Saves([mem EXCEPT !.used = @ + u, !.asking = FALSE], "settled")
    BY <1>6 DEF Settle
  <2> DEFINE t == [mem EXCEPT !.used = @ + u, !.asking = FALSE]
  <2>2. t.used = mem.used + u /\ t.calls = mem.calls /\ ~ t.asking
    BY <1>0, SettledFields
  <2>3. disk' = t
    BY <1>6, <2>1 DEF Saves
  <2> HIDE DEF t
  <2>4. mem = disk /\ mem.asking /\ asked = mem.calls /\ mem.calls \in Nat
    BY <1>0, <1>6 DEF Settle, Inv, ControlInv, Synced, States
  <2>5. Owed(disk) /\ ~ Owed(disk)' /\ disk'.used = disk.used + u
    BY <1>0, <2>2, <2>3, <2>4 DEF Owed, history
  <2> QED
    BY <1>0, <2>5, AccountSettles DEF Metered!Next
<1>7. CASE Respond /\ disk' # disk
  <2>1. PICK batch \in BoundedSeq(Kinds, MaxBatch), mark \in {"running", "blocked"} :
          disk' = Responded(mem, batch, mark)
    <3>1. mem.status = "running"
      BY <1>7 DEF Respond, Inv, ControlInv, Synced
    <3> QED
      BY <1>7, <3>1 DEF Respond, Saves, Responded
  <2>2. batch \in Seq(Kinds)
    BY BatchIsSeq
  <2>3. disk'.used = mem.used /\ disk'.calls = mem.calls /\ disk'.asking = mem.asking
    BY <1>0, <2>1, <2>2, RespondedFields
  <2> QED
    BY <1>2, <2>3
<1> QED
  BY <1>1, <1>3, <1>4, <1>5, <1>6, <1>7

(* A launch acts on what was accounted for.                                 *)
LEMMA LaunchRefines ==
  ASSUME Inv, LaunchCommand
  PROVE  [Metered!Next]_Metered!vars
<1>1. CASE UNCHANGED launches
  BY <1>1 DEF LaunchCommand, Metered!vars
<1>2. CASE launches' # launches
  <2>1. /\ launches' = Append(launches, <<mem.turn, Len(mem.pending)>>)
        /\ UNCHANGED <<disk, asked>> /\ pc = "created"
    BY <1>2 DEF LaunchCommand, ErrorResult
  <2>2. /\ mem = disk /\ mem.status = "running" /\ mem.pending # <<>> /\ StateInv(mem) /\ Fresh(mem)
        /\ mem \in States /\ launches \in Seq(Nat \X Nat) /\ asked \in Nat
    BY <2>1 DEF Inv, TypeOK, ControlInv, Synced, InCall
  <2>3. ~ disk.asking /\ asked = disk.calls /\ disk.used <= MaxTotalTokens
    BY <2>2 DEF StateInv, Counted
  <2>4. Len(launches) < MaxToolCalls /\ Len(launches') = Len(launches) + 1
    <3>1. Len(launches) < mem.tools /\ mem.tools <= MaxToolCalls /\ mem.tools \in Nat
      BY <2>2 DEF Fresh, StateInv, Counted, States
    <3>2. Len(launches) \in Nat /\ <<mem.turn, Len(mem.pending)>> \in Nat \X Nat
      BY <2>2 DEF States
    <3> QED
      BY <2>1, <2>2, <3>1, <3>2, AgentRunnerAssumption
  <2>5. ~ (asked > disk.calls - (IF disk.asking THEN 1 ELSE 0))
    BY <2>2, <2>3
  <2> QED
    BY <2>1, <2>3, <2>4, <2>5 DEF Metered!Next, Metered!Act
<1> QED
  BY <1>1, <1>2

(* A request is sent while nothing is owed and the budget allows it.        *)
LEMMA AskRefines ==
  ASSUME Inv, Ask
  PROVE  [Metered!Next]_Metered!vars
<1>1. /\ mem = disk /\ disk.asking /\ asked = disk.calls - 1 /\ disk.calls <= MaxModelCalls
      /\ disk.used + Reservation <= MaxTotalTokens /\ disk.calls \in Nat
      /\ asked' = asked + 1 /\ UNCHANGED <<disk, launches>>
  BY DEF Ask, Inv, TypeOK, ControlInv, Synced, StateInv, Counted, States
<1>2. ~ (asked > disk.calls - (IF disk.asking THEN 1 ELSE 0))
  BY <1>1
<1>3. (asked' > disk'.calls - (IF disk'.asking THEN 1 ELSE 0)) = TRUE
  BY <1>1
<1>4. asked < MaxModelCalls
  BY <1>1, AgentRunnerAssumption
<1> QED
  BY <1>1, <1>2, <1>3, <1>4 DEF Metered!Next, Metered!Ask

(* The other steps change nothing the account sees.                         *)
LEMMA OthersRefine ==
  ASSUME Inv, \/ Start \/ Resume \/ Reverify \/ Finally \/ Interrupt \/ Crash \/ UNCHANGED vars
              \/ Block \/ Redo \/ Recover \/ Look \/ Finish \/ CreateRun \/ RecordPid \/ EndRun
              \/ \E r \in RunIds : ChildExits(r)
  PROVE  [Metered!Next]_Metered!vars
<1>0. disk \in States /\ mem \in States
  BY DEF Inv, TypeOK
<1>1. CASE Start
  <2>1. disk = NoState /\ disk' = [NoState EXCEPT !.status = "running"] /\ UNCHANGED history
    BY <1>1 DEF Start, Inv, ControlInv
  <2> DEFINE t == [NoState EXCEPT !.status = "running"]
  <2>2. SameRest(t, NoState)
    BY NoStateFields, StatusFields DEF Marks
  <2> HIDE DEF t
  <2>3. disk' = t
    BY <2>1 DEF t
  <2> QED
    BY <2>1, <2>2, <2>3, AccountStays DEF SameRest, Owed, history
<1>2. CASE Resume \/ Reverify
  <2>1. PICK mark \in Marks : disk' = [disk EXCEPT !.status = mark]
    BY <1>2 DEF Resume, Reverify, Marks
  <2> DEFINE t == [disk EXCEPT !.status = mark]
  <2>2. SameRest(t, disk)
    BY <1>0, StatusFields
  <2> HIDE DEF t
  <2>3. disk' = t /\ UNCHANGED history
    BY <1>2, <2>1 DEF t, Resume, Reverify
  <2> QED
    BY <2>2, <2>3, AccountStays DEF SameRest, Owed, history
<1>3. CASE Finally
  <2>1. (SameAccount \/ LateAccount) /\ disk' \in {mem, disk} /\ UNCHANGED history
    BY <1>3 DEF Finally, Inv, ControlInv
  <2>2. CASE disk' = disk
    BY <2>1, <2>2, AccountStays DEF Owed, history
  <2>3. CASE disk' = mem /\ SameAccount
    BY <2>1, <2>3, AccountStays DEF Owed, SameAccount, history
  <2>4. CASE disk' = mem /\ LateAccount
    <3>1. PICK u \in Usages : disk'.used = disk.used + u
      BY <2>4 DEF LateAccount
    <3>2. Owed(disk) /\ ~ Owed(disk)'
      BY <2>1, <2>4 DEF LateAccount, Owed, history
    <3> QED
      BY <2>1, <3>1, <3>2, AccountSettles DEF Metered!Next
  <2> QED
    BY <2>1, <2>2, <2>3, <2>4
<1>4. CASE UNCHANGED <<disk, history>>
  BY <1>4, AccountStays DEF Owed, history
<1>5. CASE Recover
  BY <1>4, <1>5 DEF Recover, Block
<1>6. CASE CreateRun \/ RecordPid \/ EndRun
  BY <1>4, <1>6 DEF CreateRun, RecordPid, EndRun, ErrorResult, history
<1>7. CASE Interrupt \/ Crash \/ UNCHANGED vars \/ Block \/ Redo \/ Look \/ Finish
           \/ \E r \in RunIds : ChildExits(r)
  BY <1>4, <1>7 DEF Interrupt, Crash, vars, Block, Redo, Look, Finish, ChildExits
<1> QED
  BY <1>1, <1>2, <1>3, <1>5, <1>6, <1>7

(* FollowsBudget: seen from requests, usage and launched commands, every step of *)
(* the agent, its crashes and resumptions included, keeps the metered account. *)
THEOREM AgentFollowsBudget == Spec => FollowsBudget
<1>1. Init => Metered!Init
  <2> SUFFICES ASSUME Init PROVE Metered!Init
    OBVIOUS
  <2>1. asked = 0 /\ launches = <<>> /\ disk.used = 0 /\ disk.calls = 0 /\ ~ disk.asking
    BY NoStateFields DEF Init
  <2>2. (asked > disk.calls - (IF disk.asking THEN 1 ELSE 0)) = FALSE
    BY <2>1
  <2> QED
    BY <2>1, <2>2 DEF Metered!Init
<1>2. Inv /\ [Next]_vars => [Metered!Next]_Metered!vars
  BY SaveRefines, LaunchRefines, AskRefines, OthersRefine DEF Next, Step
<1> QED
  BY <1>1, <1>2, InvHolds, PTL DEF Spec, FollowsBudget, Metered!Spec
=============================================================================
