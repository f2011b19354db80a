----------------------------- MODULE AgentRunner -----------------------------
(***************************************************************************)
(* run_agent.run: the bounded agent loop.  It saves agent_state.json       *)
(* before and after everything that must not be done twice, and a later    *)
(* process resumes from that file after a pause, an interrupt or a death.  *)
(* One controller at a time holds the lease (QueueLease); the command of a *)
(* tool call runs under run_persistent_command and outlives a controller   *)
(* that dies, and reconcile_run looks after it (RuntimeRun, here with the  *)
(* steps this loop can tell apart).  Every save, event and file access may *)
(* fail.                                                                   *)
(***************************************************************************)
EXTENDS Integers, Sequences, Functions, SequencesExt

CONSTANTS
  MaxModelCalls, MaxToolCalls, MaxTotalTokens,   \* of the budget
  Reservation,   \* tokens reserved for a request
  Usages,        \* tokens an answer may report
  MaxBatch,      \* bound: tool calls in one answer
  MaxStarts      \* bound: processes that start or resume

ASSUME AgentRunnerAssumption ==
  /\ MaxModelCalls \in Nat \ {0}  /\ MaxToolCalls \in Nat \ {0}
  /\ MaxTotalTokens \in Nat \ {0} /\ Reservation \in Nat \ {0}
  /\ Usages \subseteq Nat /\ MaxBatch \in Nat /\ MaxStarts \in Nat

VARIABLES
  disk,       \* agent_state.json
  mem,        \* the state of the running process
  pc,         \* where it is; "off" when no process runs
  starts,     \* processes so far
  run,        \* state.json under _runtime, by runtime id
  child,      \* the command's process: "none", "alive", "ok" or "bad"
  asked,      \* history: calls of provider.complete
  launches    \* history: the tool calls whose command was launched

runs == <<run, child>>
history == <<asked, launches>>
vars == <<disk, mem, pc, starts, runs, history>>

RunIds == 1 .. MaxToolCalls     \* runtime_id is the number of the tool call
Kinds == {"look", "run_command", "finish"}

States ==
  [status : {"absent", "running", "paused", "success", "blocked"},
   pending : Seq(Kinds),    \* tool calls of the last answer not handled yet
   started : BOOLEAN,       \* on the first of them
   asking : BOOLEAN,        \* model_pending
   calls : Nat, tools : Nat, used : Nat,
   turn : Nat,              \* answers in the messages
   good : BOOLEAN]          \* the required command has a verified result

NoState == [status |-> "absent", pending |-> <<>>, started |-> FALSE, asking |-> FALSE,
            calls |-> 0, tools |-> 0, used |-> 0, turn |-> 0, good |-> FALSE]

Steps == {"off", "top", "call", "created", "launched", "watching", "did",
          "asking", "answering", "settled", "finally"}

TypeOK ==
  /\ disk \in States /\ mem \in States
  /\ pc \in Steps /\ starts \in 0..MaxStarts
  /\ run \in [RunIds -> {"absent", "created", "running", "success", "failed", "interrupted"}]
  /\ child \in [RunIds -> {"none", "alive", "ok", "bad"}]
  /\ asked \in Nat
  /\ launches \in Seq(Nat \X Nat)

Init ==
  /\ disk = NoState /\ mem = NoState /\ pc = "off" /\ starts = 0
  /\ run = [r \in RunIds |-> "absent"] /\ child = [r \in RunIds |-> "none"]
  /\ asked = 0 /\ launches = <<>>

-----------------------------------------------------------------------------
(* save inside the loop; when it fails, the handler blocks the run.         *)
Saves(new, next) ==
  \/ mem' = new /\ disk' = new /\ pc' = next
  \/ mem' = [new EXCEPT !.status = "blocked"] /\ UNCHANGED disk /\ pc' = "finally"

Running == pc = "top" /\ mem.status = "running"
Head1 == Head(mem.pending)
Calling(kind) == pc = "call" /\ Head1 = kind
Id == mem.tools

-----------------------------------------------------------------------------
(* A fresh run wants an output directory without a state.                   *)
Start ==
  /\ pc = "off" /\ disk.status = "absent" /\ starts < MaxStarts
  /\ starts' = starts + 1
  /\ mem' = [NoState EXCEPT !.status = "running"]
  /\ disk' = mem' /\ pc' = "top"
  /\ UNCHANGED <<runs, history>>

\* Mutant: a request of unknown outcome is forgotten on resume.
ResumePending ==
  /\ pc = "off" /\ disk.status \in {"paused", "running"}
  /\ starts < MaxStarts
  /\ starts' = starts + 1
  /\ mem' = [disk EXCEPT !.status = "running", !.asking = FALSE]
  /\ disk' = mem' /\ pc' = "top"
  /\ UNCHANGED <<runs, history>>

(* A pending request is refused, and so is a blocked run.                   *)
Resume ==
  /\ pc = "off" /\ disk.status \in {"paused", "running"} /\ ~ disk.asking
  /\ starts < MaxStarts
  /\ starts' = starts + 1
  /\ mem' = [disk EXCEPT !.status = "running"]
  /\ disk' = mem' /\ pc' = "top"
  /\ UNCHANGED <<runs, history>>

\* Mutant: the second verification writes a status of its own.
ReverifyAs ==
  /\ pc = "off" /\ disk.status = "success" /\ starts < MaxStarts
  /\ starts' = starts + 1
  /\ disk' = [disk EXCEPT !.status = "reverified"]
  /\ UNCHANGED <<mem, pc, runs, history>>

(* A successful run is only verified again.                                 *)
Reverify ==
  /\ pc = "off" /\ disk.status = "success" /\ starts < MaxStarts
  /\ starts' = starts + 1
  /\ \E verdict \in {"success", "blocked"} : disk' = [disk EXCEPT !.status = verdict]
  /\ UNCHANGED <<mem, pc, runs, history>>

-----------------------------------------------------------------------------
(* Time, output size, CANCEL, a budget that is used up, an answer that is   *)
(* lost or unusable, an exception.                                          *)
Block ==
  /\ pc \in {"top", "call", "did", "asking", "answering", "settled"}
  /\ mem' = [mem EXCEPT !.status = "blocked"]
  /\ pc' = "finally"
  /\ UNCHANGED <<disk, starts, runs, history>>

\* Mutant: started is not looked at.
TakeCallAgain ==
  /\ Running /\ mem.pending # <<>>
  /\ mem.tools < MaxToolCalls
  /\ Saves([mem EXCEPT !.tools = @ + 1, !.started = TRUE], "call")
  /\ UNCHANGED <<starts, runs, history>>

TakeCall ==
  /\ Running /\ mem.pending # <<>> /\ ~ mem.started
  /\ mem.tools < MaxToolCalls
  /\ Saves([mem EXCEPT !.tools = @ + 1, !.started = TRUE], "call")
  /\ UNCHANGED <<starts, runs, history>>

(* A call that an earlier process started: what only looks is done again.   *)
Redo ==
  /\ Running /\ mem.pending # <<>> /\ mem.started
  /\ Head1 # "run_command"
  /\ pc' = "call"
  /\ UNCHANGED <<disk, mem, starts, runs, history>>

(* command_result: the record, after reconcile_run has turned it into       *)
(* interrupted if its pid is missing or dead.                               *)
Reconciled ==
  IF run[Id] = "created" \/ (run[Id] = "running" /\ child[Id] # "alive")
  THEN "interrupted" ELSE run[Id]

(* A command is taken up from its record, never launched again: no record,  *)
(* or a process that lives, blocks the run.                                 *)
Recover ==
  /\ Running /\ mem.pending # <<>> /\ mem.started
  /\ Head1 = "run_command"
  /\ IF run[Id] = "absent" \/ Reconciled = "running"
     THEN Block
     ELSE /\ pc' = "did"
          /\ \/ /\ run' = [run EXCEPT ![Id] = Reconciled]
                /\ \E passed \in {FALSE, Reconciled = "success"} :
                     mem' = [mem EXCEPT !.good = passed]
             \/ UNCHANGED <<run, mem>>       \* an error is the result
          /\ UNCHANGED <<disk, starts, child, history>>

(* list_files, read_file, update_plan, or an unknown tool.                  *)
Look ==
  /\ Calling("look")
  /\ pc' = "did"
  /\ UNCHANGED <<disk, mem, starts, runs, history>>

\* Mutant: the model's word is enough.
FinishBelieves ==
  /\ Calling("finish")
  /\ pc' = "did"
  /\ mem' = [mem EXCEPT !.status = "success"]
  /\ UNCHANGED <<disk, starts, runs, history>>

(* The independent verification, or an error before its verdict.            *)
Finish ==
  /\ Calling("finish")
  /\ pc' = "did"
  /\ \E verdict \in {"running", "blocked"} \cup (IF mem.good THEN {"success"} ELSE {}) :
       mem' = [mem EXCEPT !.status = verdict]
  /\ UNCHANGED <<disk, starts, runs, history>>

-----------------------------------------------------------------------------
(* run_persistent_command.  What raises in it becomes the call's result;    *)
(* the process it may have launched is then on its own.                     *)
ErrorResult == pc' = "did" /\ UNCHANGED <<mem, runs, launches>>

(* The directory of the run must not exist yet.                             *)
CreateRun ==
  /\ Calling("run_command")
  /\ \/ /\ run[Id] = "absent"
        /\ run' = [run EXCEPT ![Id] = "created"]
        /\ pc' = "created"
        /\ UNCHANGED <<mem, child, launches>>
     \/ ErrorResult
  /\ UNCHANGED <<disk, starts, asked>>

LaunchCommand ==
  /\ pc = "created"
  /\ \/ /\ child' = [child EXCEPT ![Id] = "alive"]
        /\ launches' = Append(launches, <<mem.turn, Len(mem.pending)>>)
        /\ pc' = "launched"
        /\ UNCHANGED <<mem, run>>
     \/ /\ run' = [run EXCEPT ![Id] = "failed"]
        /\ mem' = [mem EXCEPT !.good = FALSE]
        /\ pc' = "did"
        /\ UNCHANGED <<child, launches>>
     \/ ErrorResult
  /\ UNCHANGED <<disk, starts, asked>>

RecordPid ==
  /\ pc = "launched"
  /\ \/ /\ run' = [run EXCEPT ![Id] = "running"]
        /\ pc' = "watching"
        /\ UNCHANGED <<mem, child, launches>>
     \/ ErrorResult
  /\ UNCHANGED <<disk, starts, asked>>

(* The command exits or is stopped: at its timeout, on CANCEL, on Ctrl-C.   *)
EndRun ==
  /\ pc = "watching"
  /\ \/ /\ \E stopped \in BOOLEAN, code \in {"ok", "bad"} :
             /\ ~ stopped => child[Id] = code
             /\ child' = [child EXCEPT ![Id] = IF @ = "alive" THEN code ELSE @]
             /\ LET outcome == IF ~ stopped /\ code = "ok" THEN "success" ELSE "failed" IN
                  /\ run' = [run EXCEPT ![Id] = outcome]
                  /\ \E passed \in {FALSE, outcome = "success"} :
                       mem' = [mem EXCEPT !.good = passed]
        /\ pc' = "did"
        /\ UNCHANGED launches
     \/ ErrorResult
  /\ UNCHANGED <<disk, starts, asked>>

-----------------------------------------------------------------------------
\* Mutant: the call stays in the list.
PopNothing ==
  /\ pc = "did"
  /\ Saves(mem, IF mem.status = "running" THEN "top" ELSE "finally")
  /\ UNCHANGED <<starts, runs, history>>

(* The result is recorded, the call is dropped; perhaps the run pauses.     *)
Pop ==
  /\ pc = "did"
  /\ LET new == [mem EXCEPT !.pending = Tail(@), !.started = FALSE] IN
       \/ Saves(new, IF mem.status = "running" THEN "top" ELSE "finally")
       \/ /\ mem.status = "running"
          /\ disk' = new
          /\ mem' = [new EXCEPT !.status = "paused"]
          /\ pc' = "finally"
  /\ UNCHANGED <<starts, runs, history>>

-----------------------------------------------------------------------------
(* The model's turn.                                                        *)
Request ==
  /\ Running /\ mem.pending = <<>>
  /\ mem.calls < MaxModelCalls
  /\ mem.used + Reservation <= MaxTotalTokens
  /\ Saves([mem EXCEPT !.calls = @ + 1, !.asking = TRUE], "asking")
  /\ UNCHANGED <<starts, runs, history>>

Ask ==
  /\ pc = "asking" /\ pc' = "answering"
  /\ asked' = asked + 1
  /\ UNCHANGED <<disk, mem, starts, runs, launches>>

Settle ==
  /\ pc = "answering"
  /\ \E u \in Usages : Saves([mem EXCEPT !.used = @ + u, !.asking = FALSE], "settled")
  /\ UNCHANGED <<starts, runs, history>>

(* An answer beyond the budget, or without a tool call, ends the run.       *)
Respond ==
  /\ pc = "settled"
  /\ \E batch \in BoundedSeq(Kinds, MaxBatch) :
       LET ends == mem.used > MaxTotalTokens \/ batch = <<>> IN
       Saves([mem EXCEPT !.pending = batch, !.started = FALSE, !.turn = @ + 1,
                         !.status = IF ends THEN "blocked" ELSE @],
             IF ends THEN "finally" ELSE "top")
  /\ UNCHANGED <<starts, runs, history>>

(* finally: save and deliver.                                               *)
Finally ==
  /\ pc = "finally" /\ pc' = "off"
  /\ disk' \in {mem, disk}
  /\ UNCHANGED <<mem, starts, runs, history>>

(* Ctrl-C, or an exception that the handler does not name.                  *)
Interrupt ==
  /\ pc \notin {"off", "finally"}
  /\ pc' = "finally"
  /\ UNCHANGED <<disk, mem, starts, runs, history>>

Crash ==
  /\ pc # "off" /\ pc' = "off"
  /\ UNCHANGED <<disk, mem, starts, runs, history>>

ChildExits(r) ==
  /\ child[r] = "alive"
  /\ \E code \in {"ok", "bad"} : child' = [child EXCEPT ![r] = code]
  /\ UNCHANGED <<disk, mem, pc, starts, run, history>>

-----------------------------------------------------------------------------
Step ==
  \/ Block \/ TakeCall \/ Redo \/ Recover \/ Look \/ Finish
  \/ CreateRun \/ LaunchCommand \/ RecordPid \/ EndRun \/ Pop
  \/ Request \/ Ask \/ Settle \/ Respond \/ Finally

Next ==
  \/ Start \/ Resume \/ Reverify
  \/ Step \/ Interrupt \/ Crash
  \/ \E r \in RunIds : ChildExits(r)

Spec == Init /\ [][Next]_vars

(* The loop is one thread; the provider and the commands have timeouts.     *)
FairSpec == Spec /\ WF_vars(Step)

-----------------------------------------------------------------------------
(* "Ambiguous interrupted dispatch is not repeated": the command of a tool  *)
(* call is launched at most once, however often the run is interrupted,     *)
(* killed and resumed.                                                      *)
NeverReplayed == IsInjective(launches)

(* Success in the file rests on a command whose process ended with 0 and    *)
(* whose record says so, also when another process took the result up.      *)
SuccessEarned ==
  disk.status = "success" => \E r \in RunIds : run[r] = "success" /\ child[r] = "ok"

(* "A provider request with unknown outcome remains blocked rather than     *)
(* being silently retried", and the cumulative budgets hold over resumes.   *)
Metered == INSTANCE MeteredCalls WITH
  owed <- asked > disk.calls - (IF disk.asking THEN 1 ELSE 0),
  calls <- asked, tools <- Len(launches), spent <- disk.used
FollowsBudget == Metered!Spec

(* Every process of the loop ends: by success, pause, budget or failure.    *)
AgentEnds == (pc = "top") ~> (pc = "off")
=============================================================================
