--------------------------- MODULE QueueStoreProofs ---------------------------
(***************************************************************************)
(* For any number of commands, with and without the lease, any number of   *)
(* events, failed writes and crashes: the journal is ordered and no job is *)
(* lost until a command without the lease puts an empty queue over one     *)
(* with events; those with the lease never do.  What makes it              *)
(* inductive is what the one holder knows at each of its steps: that the   *)
(* file is there, that its state is at least as new as the file's, and     *)
(* newer when it is about to write.  A queue without events may be created *)
(* again under a holder's feet, which changes nothing that it knows.       *)
(* Even an overrun only sets the file back to the start, so that a line is *)
(* still missing from the journal only for a failed write or a crash.      *)
(***************************************************************************)
EXTENDS QueueStore, FiniteSetTheorems, TLAPS

(* A command that takes the lease has it while the store is open, one does  *)
(* at a time, and the others never write events.                            *)
Exclusive ==
  /\ \A c \in Holders : pc[c] # "idle" => c \in lease
  /\ \A c, d \in lease : c = d
  /\ \A c \in Inspectors : pc[c] \notin {"persist", "append"}

(* A queue without a number is one to which nothing happened.               *)
Blank ==
  /\ file.seq = 0 => file.jobs = {} /\ journal = <<>> /\ promised = {}
  /\ ~ file.there => file.seq = 0

(* What a holder with the store open knows of the file.                     *)
Knows(c) ==
  /\ pc[c] = "create" => file.seq = 0
  /\ pc[c] \in {"ready", "persist", "append"} =>
       file.there /\ file.jobs \subseteq mem[c].jobs /\ file.seq <= mem[c].seq
  /\ pc[c] = "persist" => file.seq < mem[c].seq
  /\ pc[c] = "append" =>
       /\ 0 < file.seq /\ file.seq = mem[c].seq /\ file.jobs = mem[c].jobs
       /\ \A n \in DOMAIN journal : journal[n] < file.seq

(* What holds until an overrun.                                             *)
Kept ==
  /\ Blank
  /\ \A c \in Holders : Knows(c)
  /\ Rising /\ \A n \in DOMAIN journal : journal[n] <= file.seq
  /\ promised \subseteq file.jobs

(* The inductive invariant.                                                 *)
IInv == TypeOK /\ Exclusive /\ (~ overrun => Kept)

(* It holds before the queue exists.                                        *)
LEMMA StoreInit == Init => IInv
<1> SUFFICES ASSUME Init PROVE IInv
  OBVIOUS
<1>1. overrun \in BOOLEAN
  BY DEF Init
<1>2. TypeOK
  BY <1>1 DEF Init, TypeOK, NoFile, Empty, Commands
<1>3. Exclusive
  BY QueueStoreAssumption DEF Init, Exclusive, Commands
<1>4. Kept
  BY DEF Init, Kept, Blank, Knows, Rising, NoFile, Commands
<1> QED
  BY <1>2, <1>3, <1>4 DEF IInv

(* Each step of a command, with the lease or without, keeps it.             *)
LEMMA StoreStep == IInv /\ [Next]_vars => IInv'
<1> SUFFICES ASSUME IInv, [Next]_vars PROVE IInv'
  OBVIOUS
<1> USE QueueStoreAssumption DEF Commands, IInv, TypeOK, Exclusive, Knows, Goes, Leaves
<1>1. ASSUME NEW c \in Commands, Open(c) PROVE IInv'
  <2>1. /\ UNCHANGED <<file, journal, promised, missed, overrun>>
        /\ pc[c] = "idle" /\ lease' = lease \cup ({c} \cap Holders)
        /\ c \in Holders => lease = {} /\ lease' = {c}
        /\ c \notin Holders => lease' = lease
        /\ \/ /\ file.there /\ pc' = [pc EXCEPT ![c] = "ready"]
              /\ mem' = [mem EXCEPT ![c] = [seq |-> file.seq, jobs |-> file.jobs]]
           \/ ~ file.there /\ pc' = [pc EXCEPT ![c] = "create"] /\ mem' = mem
    BY <1>1 DEF Open, Load, Loaded
  <2>2. TypeOK' /\ Exclusive'
    <3>1. overrun' \in BOOLEAN
      BY <2>1
    <3>2. Exclusive'
      BY <2>1
    <3>3. TypeOK'
      BY <2>1, <3>1
    <3> QED
      BY <3>2, <3>3
  <2>3. ASSUME Kept, NEW d \in Holders PROVE Knows(d)'
    <3>1. CASE d = c
      BY <2>1, <2>3, <3>1 DEF Kept, Blank
    <3>2. CASE d # c
      BY <2>1, <2>3, <3>2 DEF Kept
    <3> QED
      BY <3>1, <3>2
  <2> QED
    BY <2>1, <2>2, <2>3 DEF Kept, Blank, Rising
<1>2. ASSUME NEW c \in Commands, Create(c) PROVE IInv'
  <2>1. /\ file' = [there |-> TRUE, seq |-> 0, jobs |-> {}]
        /\ pc[c] = "create" /\ pc' = [pc EXCEPT ![c] = "ready"]
        /\ mem' = [mem EXCEPT ![c] = [seq |-> 0, jobs |-> {}]]
        /\ UNCHANGED <<journal, lease, promised, missed>>
        /\ overrun' = (overrun \/ (c \notin lease /\ file.seq > 0))
    BY <1>2 DEF Create, Saved, Empty
  <2>2. TypeOK' /\ Exclusive'
    BY <2>1
  <2>3. ASSUME ~ overrun' PROVE Kept'
    <3>1. Kept /\ file.seq = 0 /\ file.jobs = {} /\ journal = <<>> /\ promised = {}
      <4>1. Kept
        BY <2>1, <2>3
      <4>2. c \in lease => file.seq = 0
        BY <2>1, <4>1 DEF Kept
      <4>3. c \notin lease => ~ (file.seq > 0)
        BY <2>1, <2>3
      <4>4. file.seq = 0
        <5>1. file.seq \in Nat
          OBVIOUS
        <5> QED
          BY <4>2, <4>3, <5>1
      <4> QED
        BY <4>1, <4>4 DEF Kept, Blank
    <3>2. ASSUME NEW d \in Holders PROVE Knows(d)'
      <4>1. CASE d = c
        BY <2>1, <4>1
      <4>2. CASE d # c
        BY <2>1, <3>1, <4>2 DEF Kept
      <4> QED
        BY <4>1, <4>2
    <3> QED
      BY <2>1, <3>1, <3>2 DEF Kept, Blank, Rising
  <2> QED
    BY <2>2, <2>3
<1>3. ASSUME NEW c \in Commands, Event(c) PROVE IInv'
  <2>1. PICK new \in SUBSET Jobs :
          mem' = [mem EXCEPT ![c] = [seq |-> @.seq + 1, jobs |-> @.jobs \cup new]]
    BY <1>3 DEF Event
  <2>2. mem'[c] = [seq |-> mem[c].seq + 1, jobs |-> mem[c].jobs \cup new]
    BY <2>1
  <2>3. /\ c \in lease /\ \A d \in Holders : d # c => pc[d] = "idle"
    BY <1>3 DEF Event
  <2>4. /\ pc[c] = "ready" /\ pc' = [pc EXCEPT ![c] = "persist"]
        /\ UNCHANGED <<file, journal, lease, promised, missed, overrun>>
    BY <1>3 DEF Event
  <2>5. TypeOK' /\ Exclusive'
    BY <2>1, <2>2, <2>3, <2>4
  <2>6. Kept => \A d \in Holders : Knows(d)'
    BY <2>2, <2>3, <2>4 DEF Kept
  <2> QED
    BY <2>4, <2>5, <2>6 DEF Kept, Blank, Rising
<1>4. ASSUME NEW c \in Commands, Persist(c) PROVE IInv'
  <2>1. file' = [there |-> TRUE, seq |-> mem[c].seq, jobs |-> mem[c].jobs]
    BY <1>4 DEF Persist, Saved
  <2>2. /\ pc[c] = "persist" /\ pc' = [pc EXCEPT ![c] = "append"]
        /\ UNCHANGED <<journal, lease, mem, promised, missed, overrun>>
    BY <1>4 DEF Persist
  <2>3. c \in Holders /\ \A d \in Holders : d # c => pc[d] = "idle"
    BY <2>2
  <2>4. TypeOK' /\ Exclusive'
    BY <2>1, <2>2, <2>3
  <2>5. ASSUME Kept PROVE Kept'
    <3>1. file.seq < mem[c].seq /\ file.jobs \subseteq mem[c].jobs
      BY <2>2, <2>3, <2>5 DEF Kept
    <3>2. \A n \in DOMAIN journal' : journal'[n] < file'.seq
      BY <2>1, <2>2, <2>5, <3>1 DEF Kept
    <3>3. \A d \in Holders : Knows(d)'
      BY <2>1, <2>2, <2>3, <3>1, <3>2
    <3> QED
      BY <2>1, <2>2, <2>5, <3>1, <3>2, <3>3 DEF Kept, Blank, Rising
  <2> QED
    BY <2>2, <2>4, <2>5
<1>5. ASSUME NEW c \in Commands, AppendLine(c) PROVE IInv'
  <2>1. /\ pc[c] = "append" /\ pc' = [pc EXCEPT ![c] = "ready"]
        /\ journal' = Append(journal, mem[c].seq) /\ promised' = promised \cup mem[c].jobs
        /\ UNCHANGED <<file, lease, mem, missed, overrun>>
    BY <1>5 DEF AppendLine
  <2>2. c \in Holders /\ \A d \in Holders : d # c => pc[d] = "idle"
    BY <2>1
  <2>3. TypeOK' /\ Exclusive'
    BY <2>1
  <2>4. ASSUME Kept PROVE Kept'
    <3>1. /\ 0 < file.seq /\ file.seq = mem[c].seq /\ file.jobs = mem[c].jobs
          /\ \A n \in DOMAIN journal : journal[n] < file.seq
      BY <2>1, <2>2, <2>4 DEF Kept
    <3>2. Rising' /\ \A n \in DOMAIN journal' : journal'[n] <= file'.seq
      BY <2>1, <2>4, <3>1 DEF Kept, Rising
    <3>3. \A d \in Holders : Knows(d)'
      BY <2>1, <2>2, <2>4, <3>1 DEF Kept
    <3> QED
      BY <2>1, <2>4, <3>1, <3>2, <3>3 DEF Kept, Blank
  <2> QED
    BY <2>1, <2>3, <2>4
<1>6. ASSUME NEW c \in Commands, WriteFails(c) PROVE IInv'
  BY <1>6 DEF WriteFails, Kept, Blank, Rising
<1>7. ASSUME NEW c \in Commands, Close(c) PROVE IInv'
  BY <1>7 DEF Close, Empty, Kept, Blank, Rising
<1>8. ASSUME NEW c \in Commands, Crash(c) PROVE IInv'
  BY <1>8 DEF Crash, Empty, Kept, Blank, Rising
<1>9. CASE UNCHANGED vars
  BY <1>9 DEF vars, Kept, Blank, Rising
<1> QED
  BY <1>1, <1>2, <1>3, <1>4, <1>5, <1>6, <1>7, <1>8, <1>9 DEF Next

(* The journal is ordered until a command without the lease puts an empty   *)
(* queue over one with events, whatever commands there are.                 *)
THEOREM StoreJournalOrdered == Spec => []JournalOrderedUntilOverrun
<1>1. IInv => JournalOrderedUntilOverrun
  BY DEF IInv, Kept, JournalOrderedUntilOverrun
<1> QED
  BY <1>1, StoreInit, StoreStep, PTL DEF Spec

(* No job is lost until then.                                               *)
THEOREM StoreDurable == Spec => []DurableUntilOverrun
<1>1. IInv => DurableUntilOverrun
  BY DEF IInv, Kept, DurableUntilOverrun
<1> QED
  BY <1>1, StoreInit, StoreStep, PTL DEF Spec

-----------------------------------------------------------------------------
(* Through overruns as well.                                                *)

(* The events on their way: in queue.json, and not yet in the journal.      *)
Appending == {c \in Commands : pc[c] = "append"}
Accounted == Len(journal) + missed

(* Only a command with the lease writes an event, and one has it.           *)
WritersHold ==
  /\ \A c \in Commands : pc[c] \in {"persist", "append"} => c \in lease
  /\ \A c, d \in lease : c = d

(* What a holder has in memory is accounted for, but for the event it is    *)
(* about to write; and so is the file, but for the line about to be added.  *)
(* A leaseless command can only set the file back to the start.             *)
Explained ==
  /\ \A c \in lease :
       /\ pc[c] = "ready" => mem[c].seq <= Accounted
       /\ pc[c] \in {"persist", "append"} => mem[c].seq <= Accounted + 1
  /\ file.seq <= Accounted + 1
  /\ (\A c \in Commands : pc[c] # "append") => file.seq <= Accounted

(* The inductive invariant for any commands.                                *)
GInv == TypeOK /\ WritersHold /\ Explained

(* It holds before the queue exists.                                        *)
LEMMA GInvInit == Init => GInv
<1>1. Init => TypeOK
  BY StoreInit DEF IInv
<1>2. Init => WritersHold /\ Explained
  BY DEF Init, WritersHold, Explained, Accounted, NoFile, Commands
<1> QED
  BY <1>1, <1>2 DEF GInv

(* Each step of a command keeps it, whether it holds the lease or not.      *)
LEMMA GInvStep == GInv /\ [Next]_vars => GInv'
<1> SUFFICES ASSUME GInv, [Next]_vars PROVE GInv'
  OBVIOUS
<1> USE DEF GInv, TypeOK, WritersHold, Explained, Accounted, Goes, Leaves
<1>1. ASSUME NEW c \in Commands, Open(c) PROVE GInv'
  <2>1. /\ UNCHANGED <<file, journal, promised, missed>>
        /\ pc[c] = "idle" /\ lease' = lease \cup ({c} \cap Holders)
        /\ \/ file.there /\ pc' = [pc EXCEPT ![c] = "ready"] /\ mem' = [mem EXCEPT ![c] = Loaded]
           \/ pc' = [pc EXCEPT ![c] = "create"] /\ mem' = mem
    BY <1>1 DEF Open, Load
  <2>2. c \in Holders => lease = {} /\ lease' = {c}
    BY <1>1, <2>1 DEF Open
  <2>3. c \notin Holders => lease' = lease /\ c \notin lease
    BY <2>1
  <2>4. /\ Accounted' = Accounted /\ file' = file
        /\ Loaded \in [seq : Nat, jobs : SUBSET Jobs] /\ Loaded.seq = file.seq
    BY <2>1 DEF Loaded
  <2>5. TypeOK'
    <3>1. overrun' \in BOOLEAN
      BY <1>1 DEF Open
    <3> QED
      BY <2>1, <2>2, <2>3, <2>4, <3>1
  <2>6. \A d \in Commands : d # c => pc'[d] = pc[d] /\ mem'[d] = mem[d]
    BY <2>1
  <2>7. pc'[c] = "create" \/ (pc'[c] = "ready" /\ mem'[c] = Loaded)
    BY <2>1
  <2>8. WritersHold'
    BY <2>2, <2>3, <2>6, <2>7
  <2>9. c \in Holders => file.seq <= Accounted
    BY <2>2
  <2>10. (\A d \in Commands : pc'[d] # "append") => file.seq <= Accounted
    BY <2>1, <2>6
  <2>11. \A d \in lease' : /\ pc'[d] = "ready" => mem'[d].seq <= Accounted
                           /\ pc'[d] \in {"persist", "append"} => mem'[d].seq <= Accounted + 1
    <3>1. \A d \in lease' : d \in Commands
      BY <2>2, <2>3 DEF Commands
    <3>2. \A d \in lease' : d = c \/ (d \in lease /\ d # c)
      BY <2>2, <2>3
    <3>3. c \in lease' => c \in Holders
      BY <2>1
    <3> QED
      BY <2>4, <2>6, <2>7, <2>9, <3>1, <3>2, <3>3
  <2> QED
    BY <2>4, <2>5, <2>8, <2>10, <2>11
<1>2. ASSUME NEW c \in Commands, Create(c) PROVE GInv'
  BY <1>2 DEF Create, Saved, Empty
<1>3. ASSUME NEW c \in Commands, Event(c) PROVE GInv'
  BY <1>3 DEF Event
<1>4. ASSUME NEW c \in Commands, Persist(c) PROVE GInv'
  BY <1>4 DEF Persist, Saved
<1>5. ASSUME NEW c \in Commands, AppendLine(c) PROVE GInv'
  BY <1>5 DEF AppendLine
<1>6. ASSUME NEW c \in Commands, WriteFails(c) PROVE GInv'
  BY <1>6 DEF WriteFails
<1>7. ASSUME NEW c \in Commands, Close(c) PROVE GInv'
  BY <1>7 DEF Close, Empty
<1>8. ASSUME NEW c \in Commands, Crash(c) PROVE GInv'
  BY <1>8 DEF Crash, Empty
<1>9. CASE UNCHANGED vars
  BY <1>9 DEF vars
<1> QED
  BY <1>1, <1>2, <1>3, <1>4, <1>5, <1>6, <1>7, <1>8, <1>9 DEF Next

(* The store is well typed, whatever commands there are.                    *)
THEOREM StoreTyped == Spec => []TypeOK
<1>1. GInv => TypeOK
  BY DEF GInv
<1> QED
  BY <1>1, GInvInit, GInvStep, PTL DEF Spec

(* However many commands open the store with or without the lease, a line is*)
(* missing from the journal only for a failed write or a crash.             *)
THEOREM StoreGapsExplained == Spec => []GapsExplained
<1>1. GInv => GapsExplained
  <2> SUFFICES ASSUME GInv PROVE file.seq <= Accounted + Cardinality(Appending)
    BY DEF GapsExplained, Accounted, Appending, GInv, TypeOK
  <2>1. CASE \A c \in Commands : pc[c] # "append"
    <3>1. Appending = {}
      BY <2>1 DEF Appending
    <3> QED
      BY <2>1, <3>1, FS_EmptySet DEF GInv, Explained, Accounted, TypeOK
  <2>2. ASSUME NEW c \in Commands, pc[c] = "append" PROVE file.seq <= Accounted + Cardinality(Appending)
    <3>1. Appending = {c}
      BY <2>2 DEF Appending, GInv, WritersHold
    <3>2. Cardinality(Appending) = 1
      BY <3>1, FS_Singleton
    <3> QED
      BY <3>2 DEF GInv, Explained, Accounted, TypeOK
  <2> QED
    BY <2>1, <2>2
<1> QED
  BY <1>1, GInvInit, GInvStep, PTL DEF Spec
=============================================================================
