------------------------------ MODULE QueueLease ------------------------------
(***************************************************************************)
(* task_queue.QueueLease: the lock file scheduler.lock.json that is to     *)
(* give one process at a time the right to change a queue (and, in         *)
(* run_agent, an agent's output directory).  A writer is one process that  *)
(* tries to acquire the lease once; every file-system call of acquire,     *)
(* heartbeat and release is a step of its own, and a process may die       *)
(* between any two of them.  Process identifiers are not reused here.      *)
(***************************************************************************)
EXTENDS Integers, FiniteSets

CONSTANTS
  Writers,   \* the processes that ever try to take the lease
  NoWriter   \* the owner of a file that is not there

ASSUME QueueLeaseAssumption == NoWriter \notin Writers

Attempts == 2   \* for _ in range(2)

VARIABLES
  lock,       \* the file: whose payload it has, and whether it is written yet
  pc,         \* where each writer is
  tries,      \* how often it has tried to create the file
  alive,      \* whether its process lives
  takeovers   \* history: the writers that unlinked a file they took for stale

vars == <<lock, pc, tries, alive, takeovers>>

Absent == [owner |-> NoWriter, written |-> FALSE]
Empty(w) == [owner |-> w, written |-> FALSE]
Payload(w) == [owner |-> w, written |-> TRUE]

Steps == {"idle", "open", "probe", "read", "unlink", "write",
          "hold", "check", "drop", "done", "failed"}

TypeOK ==
  /\ lock \in {Absent} \cup {Empty(w) : w \in Writers} \cup {Payload(w) : w \in Writers}
  /\ pc \in [Writers -> Steps]
  /\ tries \in [Writers -> 0 .. Attempts]
  /\ alive \in [Writers -> BOOLEAN]
  /\ takeovers \subseteq Writers

Init ==
  /\ lock = Absent
  /\ pc = [w \in Writers |-> "idle"]
  /\ tries = [w \in Writers |-> 0]
  /\ alive = [w \in Writers |-> TRUE]
  /\ takeovers = {}

At(w, step) == alive[w] /\ pc[w] = step
Goto(w, step) == pc' = [pc EXCEPT ![w] = step]

-----------------------------------------------------------------------------
(* A command of the queue starts: QueueLease(...).__enter__().              *)
Begin(w) == At(w, "idle") /\ Goto(w, "open") /\ UNCHANGED <<lock, tries, alive, takeovers>>

\* Mutant: O_EXCL forgotten, an existing file is opened and truncated.
CreateOver(w) ==
  /\ At(w, "open")
  /\ lock' = Empty(w)
  /\ Goto(w, "write")
  /\ tries' = [tries EXCEPT ![w] = @ + 1]
  /\ UNCHANGED <<alive, takeovers>>

(* os.open(..., O_CREAT | O_EXCL): creates the file, or finds it there.     *)
Create(w) ==
  /\ At(w, "open")
  /\ lock = Absent
  /\ lock' = Empty(w)
  /\ Goto(w, "write")
  /\ tries' = [tries EXCEPT ![w] = @ + 1]
  /\ UNCHANGED <<alive, takeovers>>

Exists(w) ==
  /\ At(w, "open")
  /\ lock # Absent
  /\ Goto(w, "probe")
  /\ tries' = [tries EXCEPT ![w] = @ + 1]
  /\ UNCHANGED <<lock, alive, takeovers>>

(* _read_optional_json: is_file(); a file gone meanwhile counts as {},      *)
(* whose missing pid is taken for a dead writer.                            *)
Probe(w) ==
  /\ At(w, "probe")
  /\ Goto(w, IF lock = Absent THEN "unlink" ELSE "read")
  /\ UNCHANGED <<lock, tries, alive, takeovers>>

(* read_json and the liveness of the recorded process: a file that vanished *)
(* or has no payload yet raises, a live owner raises "already has an active *)
(* writer", a dead one is replaced.                                         *)
Read(w) ==
  /\ At(w, "read")
  /\ Goto(w, IF lock = Absent \/ ~ lock.written \/ alive[lock.owner]
             THEN "failed" ELSE "unlink")
  /\ UNCHANGED <<lock, tries, alive, takeovers>>

\* Mutant: the stale file is left in place before the retry.
TakeOverKeepsFile(w) ==
  /\ At(w, "unlink")
  /\ UNCHANGED lock
  /\ takeovers' = takeovers \cup {w}
  /\ Goto(w, IF tries[w] < Attempts THEN "open" ELSE "failed")
  /\ UNCHANGED <<tries, alive>>

(* self.path.unlink(): removes whatever file is at the path by now.         *)
TakeOver(w) ==
  /\ At(w, "unlink")
  /\ lock' = Absent
  /\ takeovers' = takeovers \cup {w}
  /\ Goto(w, IF tries[w] < Attempts THEN "open" ELSE "failed")
  /\ UNCHANGED <<tries, alive>>

(* The payload goes to the file that was created; if another process has    *)
(* unlinked it since, the path does not see it.                             *)
WritePayload(w) ==
  /\ At(w, "write")
  /\ lock' = IF lock = Empty(w) THEN Payload(w) ELSE lock
  /\ Goto(w, "hold")
  /\ UNCHANGED <<tries, alive, takeovers>>

(* heartbeat: atomic_write_json puts the writer's own payload at the path.  *)
Heartbeat(w) ==
  /\ At(w, "hold")
  /\ lock' = Payload(w)
  /\ UNCHANGED <<pc, tries, alive, takeovers>>

(* The guarded work ends: __exit__().                                       *)
Finish(w) == At(w, "hold") /\ Goto(w, "check") /\ UNCHANGED <<lock, tries, alive, takeovers>>

(* release reads the file: it may be gone, unreadable or another's.         *)
Check(w) ==
  /\ At(w, "check")
  /\ Goto(w, CASE lock = Payload(w) -> "drop"
               [] lock # Absent /\ ~ lock.written -> "failed"
               [] OTHER -> "done")
  /\ UNCHANGED <<lock, tries, alive, takeovers>>

(* ... and unlinks the path, whatever is there by now.                      *)
Drop(w) ==
  /\ At(w, "drop")
  /\ lock' = Absent
  /\ Goto(w, "done")
  /\ UNCHANGED <<tries, alive, takeovers>>

(* The process dies; the file stays.                                        *)
Crash(w) ==
  /\ alive[w]
  /\ pc[w] \notin {"idle", "done", "failed"}
  /\ alive' = [alive EXCEPT ![w] = FALSE]
  /\ UNCHANGED <<lock, pc, tries, takeovers>>

Acquiring(w) == Create(w) \/ Exists(w) \/ Probe(w) \/ Read(w) \/ TakeOver(w) \/ WritePayload(w)
Releasing(w) == Check(w) \/ Drop(w)

Next ==
  \E w \in Writers :
    Begin(w) \/ Acquiring(w) \/ Heartbeat(w) \/ Finish(w) \/ Releasing(w) \/ Crash(w)

Spec == Init /\ [][Next]_vars

(* A live process goes on executing acquire and release; nothing makes a    *)
(* command start, finish its work or die.                                   *)
FairSpec == Spec /\ \A w \in Writers : WF_vars(Acquiring(w)) /\ WF_vars(Releasing(w))

-----------------------------------------------------------------------------
(* A live process that acquire() has returned to, until release() has       *)
(* unlinked the file.                                                       *)
Holds(w) == alive[w] /\ pc[w] \in {"hold", "check", "drop"}

(* "A live lease prevents two schedulers from launching duplicate work."    *)
(* Finding the file, reading its owner and unlinking it are steps of their  *)
(* own, so this does not hold of the code: an owner may release the file    *)
(* after another process has met it and before that one reads it.  A file   *)
(* that is gone has no owner that lives, so it reads as stale, and what the *)
(* process then unlinks may be the file that a third one has just created.  *)
(* Nobody need be dead for it.                                              *)
Exclusive == \A v, w \in Writers : Holds(v) /\ Holds(w) => v = w

(* As long as no process has gone through the stale-file branch, the lease  *)
(* is exclusive, for every interleaving of acquire, heartbeat, release and  *)
(* crash: the O_EXCL file alone does its job, and release() never removes   *)
(* the file of the next holder.                                             *)
ExclusiveUntilTakeover == takeovers = {} => Exclusive

(* A holder keeps its file until it releases it: as long as nobody has gone *)
(* through the stale-file branch, a step that changes a live holder's file  *)
(* is that holder's own Drop.                                               *)
HolderKeepsFile ==
  [][\A w \in Writers :
       takeovers' = {} /\ Holds(w) /\ lock = Payload(w) /\ lock' # lock
         => pc[w] = "drop" /\ pc'[w] = "done"]_vars

(* A lock file left behind by a process that died with the lease does not   *)
(* lock the queue for ever: once a process meets it, the file goes or that  *)
(* process dies.                                                            *)
Stale(w) == lock = Payload(w) /\ ~ alive[w]

StaleLeaseReplaced ==
  \A v, w \in Writers :
    (Stale(v) /\ At(w, "probe")) ~> (~ Stale(v) \/ ~ alive[w])
=============================================================================
