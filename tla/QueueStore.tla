------------------------------ MODULE QueueStore ------------------------------
(***************************************************************************)
(* task_queue.QueueStore: queue.json, replaced as a whole by every event,  *)
(* and events.jsonl, to which the event is appended after that.  A command *)
(* that holds the lease opens the store, writes events and closes it; list *)
(* and cancel open it without the lease.  A write may fail and the process *)
(* may die at any step.  That one command at a time holds the lease is     *)
(* taken from QueueLease.                                                  *)
(***************************************************************************)
EXTENDS Integers, Sequences, FiniteSets

CONSTANTS
  Holders,      \* commands that take the lease: add, run, recover, retry
  Inspectors,   \* commands that do not: list, cancel
  Jobs,         \* the jobs that may be added
  MaxEvents,    \* bounds the sequence numbers
  MaxMissed     \* bounds the failed writes

Commands == Holders \cup Inspectors

ASSUME QueueStoreAssumption ==
  Holders \cap Inspectors = {} /\ MaxEvents \in Nat /\ MaxMissed \in Nat

VARIABLES
  file,         \* queue.json: whether it is there, its event_sequence and jobs
  journal,      \* the sequence numbers in events.jsonl, in order
  lease,        \* the commands that hold the lease
  pc,           \* the step of each command
  mem,          \* self.state of each command
  promised,     \* history: the jobs of every event written in full
  missed,       \* history: events whose line was never appended
  overrun       \* history: whether a command without the lease overwrote events

vars == <<file, journal, lease, pc, mem, promised, missed, overrun>>

Empty == [seq |-> 0, jobs |-> {}]
NoFile == [there |-> FALSE, seq |-> 0, jobs |-> {}]
Saved(state) == [there |-> TRUE, seq |-> state.seq, jobs |-> state.jobs]
Loaded == [seq |-> file.seq, jobs |-> file.jobs]

TypeOK ==
  /\ file \in [there : BOOLEAN, seq : Nat, jobs : SUBSET Jobs]
  /\ journal \in Seq(Nat)
  /\ lease \subseteq Holders
  /\ pc \in [Commands -> {"idle", "create", "ready", "persist", "append"}]
  /\ mem \in [Commands -> [seq : Nat, jobs : SUBSET Jobs]]
  /\ promised \subseteq Jobs
  /\ missed \in Nat
  /\ overrun \in BOOLEAN

Init ==
  /\ file = NoFile
  /\ journal = <<>>
  /\ lease = {}
  /\ pc = [c \in Commands |-> "idle"]
  /\ mem = [c \in Commands |-> Empty]
  /\ promised = {}
  /\ missed = 0
  /\ overrun = FALSE

Goes(c, from, to) == pc[c] = from /\ pc' = [pc EXCEPT ![c] = to]

(* A command that ends lets go of the lease and of its state.               *)
Leaves(c) ==
  /\ pc' = [pc EXCEPT ![c] = "idle"]
  /\ lease' = lease \ {c}
  /\ mem' = [mem EXCEPT ![c] = Empty]

-----------------------------------------------------------------------------
\* Mutant: the store always starts with an empty state.
LoadStartsAfresh(c) ==
  /\ Goes(c, "idle", "create")
  /\ UNCHANGED mem

(* __init__: queue.json is read if it is there, and created if it was not   *)
(* there when it was looked for.                                            *)
Load(c) ==
  \/ /\ file.there
     /\ Goes(c, "idle", "ready")
     /\ mem' = [mem EXCEPT ![c] = Loaded]
  \/ /\ ~ file.there
     /\ Goes(c, "idle", "create")
     /\ UNCHANGED mem

\* Mutant: a command does not wait for the lease.
OpenWithoutLease(c) ==
  /\ Load(c)
  /\ lease' = lease \cup ({c} \cap Holders)
  /\ UNCHANGED <<file, journal, promised, missed, overrun>>

Open(c) ==
  /\ c \in Holders => lease = {}
  /\ Load(c)
  /\ lease' = lease \cup ({c} \cap Holders)
  /\ UNCHANGED <<file, journal, promised, missed, overrun>>

(* Whatever the path holds by now is replaced by an empty queue.            *)
Create(c) ==
  /\ Goes(c, "create", "ready")
  /\ mem' = [mem EXCEPT ![c] = Empty]
  /\ file' = Saved(Empty)
  /\ overrun' = (overrun \/ (c \notin lease /\ file.seq > 0))
  /\ UNCHANGED <<journal, lease, promised, missed>>

\* Mutant: the number is taken twice, for the state and for the line.
EventTakesTwo(c) ==
  /\ c \in lease
  /\ mem[c].seq < MaxEvents
  /\ Goes(c, "ready", "persist")
  /\ \E new \in SUBSET (Jobs \ mem[c].jobs) :
       mem' = [mem EXCEPT ![c] = [seq |-> @.seq + 2, jobs |-> @.jobs \cup new]]
  /\ UNCHANGED <<file, journal, lease, promised, missed, overrun>>

(* The state is changed in memory, by add_jobs with new jobs, and event     *)
(* takes the next number.                                                   *)
Event(c) ==
  /\ c \in lease
  /\ mem[c].seq < MaxEvents
  /\ Goes(c, "ready", "persist")
  /\ \E new \in SUBSET (Jobs \ mem[c].jobs) :
       mem' = [mem EXCEPT ![c] = [seq |-> @.seq + 1, jobs |-> @.jobs \cup new]]
  /\ UNCHANGED <<file, journal, lease, promised, missed, overrun>>

Persist(c) ==
  /\ Goes(c, "persist", "append")
  /\ file' = Saved(mem[c])
  /\ UNCHANGED <<journal, lease, mem, promised, missed, overrun>>

AppendLine(c) ==
  /\ Goes(c, "append", "ready")
  /\ journal' = Append(journal, mem[c].seq)
  /\ promised' = promised \cup mem[c].jobs
  /\ UNCHANGED <<file, lease, mem, missed, overrun>>

(* The replacement or the append raises: what is in memory stays, and       *)
(* run_queue writes its last events from it.                                *)
WriteFails(c) ==
  /\ \E step \in {"persist", "append"} : Goes(c, step, "ready")
  /\ missed < MaxMissed
  /\ missed' = missed + 1
  /\ UNCHANGED <<file, journal, lease, mem, promised, overrun>>

Close(c) ==
  /\ pc[c] = "ready"
  /\ Leaves(c)
  /\ UNCHANGED <<file, journal, promised, missed, overrun>>

Crash(c) ==
  /\ pc[c] # "idle"
  /\ missed < MaxMissed
  /\ Leaves(c)
  /\ missed' = missed + (IF pc[c] = "append" THEN 1 ELSE 0)
  /\ UNCHANGED <<file, journal, promised, overrun>>

Next ==
  \E c \in Commands :
    \/ Open(c) \/ Create(c) \/ Event(c) \/ Persist(c) \/ AppendLine(c)
    \/ WriteFails(c) \/ Close(c) \/ Crash(c)

Spec == Init /\ [][Next]_vars

-----------------------------------------------------------------------------
Rising == \A m, n \in DOMAIN journal : m < n => journal[m] < journal[n]

(* "an append-only transition journal": across commands, failed writes and   *)
(* crashes the numbers in the journal only rise, and no line is there for a *)
(* state that queue.json does not hold - until a command without the lease, *)
(* which looked before the queue was there, creates it over its events.     *)
JournalOrderedUntilOverrun ==
  ~ overrun => Rising /\ \A n \in DOMAIN journal : journal[n] <= file.seq

(* A line is missing from the journal only for a write that failed or a      *)
(* crash between queue.json and the journal, one for each.                  *)
GapsExplained ==
  file.seq <= Len(journal) + missed + Cardinality({c \in Commands : pc[c] = "append"})

(* "Durable", and what the code keeps of it: a job whose event was written   *)
(* stays in queue.json, whatever the commands after it read, fail to write  *)
(* or die of, and whoever lists or cancels jobs meanwhile.                  *)
DurableUntilOverrun == ~ overrun => promised \subseteq file.jobs

(* "Durable, single-host task queue": what was written stays.  Violated by  *)
(* list and cancel, which create the queue that they do not find.           *)
DurableJobs == promised \subseteq file.jobs
=============================================================================
