------------------------------ MODULE DurableRun ------------------------------
(***************************************************************************)
(* What the runtime promises of a command run under a durable record,      *)
(* whoever runs it, dies over it or looks at it: the process is launched   *)
(* once; only who watches the run records how it ended, after the process  *)
(* has; anybody else may call it interrupted when the process is gone, or  *)
(* orphaned.  A record that does not name the process yet tells nothing,   *)
(* nor does a runner that gives up on an error: the run is then doubted,   *)
(* and only a doubted run may live beside the run that repeats it.         *)
(***************************************************************************)
CONSTANTS
  Runs,
  NoRun     \* what a run that repeats none has for an origin

VARIABLES
  record,   \* the status in state.json, "absent" without one
  process,  \* "none", "alive" or "gone"
  watched,  \* the runs that a runner is in charge of
  origin,   \* the run that a run repeats
  doubted   \* the runs lost by their runner, or judged from a record that did
            \* not name the process

vars == <<record, process, watched, origin, doubted>>

Init ==
  /\ record = [r \in Runs |-> "absent"]
  /\ process = [r \in Runs |-> "none"]
  /\ watched \in SUBSET Runs
  /\ origin = [r \in Runs |-> NoRun]
  /\ doubted = {}

EndStates == {"success", "failed", "timed_out", "cancelled"}

Records(r, s) == record' = [record EXCEPT ![r] = s]
Process(r, s) == process' = [process EXCEPT ![r] = s]

(* No process of the run lives, or will.                                    *)
Over(r) == process[r] = "gone" \/ (process[r] = "none" /\ r \notin watched)

Fresh(r) == record[r] = "absent" /\ process[r] = "none" /\ r \notin watched

(* A run is set up, perhaps to repeat one that is over.                     *)
Repeat(r, p) ==
  /\ Fresh(r) /\ origin[r] = NoRun
  /\ p # r /\ (Over(p) \/ p \in doubted)
  /\ origin' = [origin EXCEPT ![r] = p]
  /\ watched' \in {watched, watched \cup {r}}
  /\ UNCHANGED <<record, process, doubted>>

Begin(r) ==
  /\ Fresh(r)
  /\ watched' = watched \cup {r}
  /\ UNCHANGED <<record, process, origin, doubted>>

Create(r) ==
  /\ r \in watched /\ record[r] = "absent"
  /\ Records(r, "created")
  /\ UNCHANGED <<process, watched, origin, doubted>>

(* Not beside a run that it repeats, or that repeats it.                    *)
Launch(r) ==
  /\ r \in watched /\ record[r] # "absent" /\ process[r] = "none"
  /\ \A q \in Runs : process[q] = "alive" =>
       /\ origin[r] = q => q \in doubted
       /\ origin[q] = r => r \in doubted
  /\ Process(r, "alive")
  /\ UNCHANGED <<record, watched, origin, doubted>>

Exit(r) ==
  /\ process[r] = "alive"
  /\ Process(r, "gone")
  /\ UNCHANGED <<record, watched, origin, doubted>>

(* The process is named, now or again.                                      *)
Note(r) ==
  /\ r \in watched /\ process[r] # "none"
  /\ Records(r, "running")
  /\ UNCHANGED <<process, watched, origin, doubted>>

(* Who watches the run records how it ended.                                *)
End(r) ==
  /\ r \in watched /\ record[r] # "absent"
  /\ \/ process[r] = "none" /\ Records(r, "blocked") /\ UNCHANGED process
     \/ /\ process[r] # "none" /\ Process(r, "gone")
        /\ \E s \in EndStates : Records(r, s)
  /\ watched' = watched \ {r}
  /\ UNCHANGED <<origin, doubted>>

(* A runner gives up on an error, whatever the record says.                 *)
Lose(r) ==
  /\ r \in watched
  /\ watched' = watched \ {r}
  /\ doubted' = doubted \cup {r}
  /\ UNCHANGED <<record, process, origin>>

(* Runners die.                                                             *)
Abandon ==
  /\ watched' \in SUBSET watched
  /\ UNCHANGED <<record, process, origin, doubted>>

(* Anybody's verdict; for what it says "interrupted" the process is gone,   *)
(* or its record did not name it.                                           *)
Judge(r) ==
  /\ record[r] # "absent"
  /\ doubted' \in {doubted} \cup (IF record[r] = "created" THEN {doubted \cup {r}} ELSE {})
  /\ \/ UNCHANGED record
     \/ Records(r, "interrupted") /\ (process[r] = "gone" \/ r \in doubted')
     \/ Records(r, "orphaned") /\ process[r] # "none"
  /\ UNCHANGED <<process, watched, origin>>

Next ==
  \/ \E r \in Runs :
       \/ (\E p \in Runs : Repeat(r, p)) \/ Begin(r) \/ Create(r) \/ Launch(r)
       \/ Exit(r) \/ Note(r) \/ End(r) \/ Lose(r) \/ Judge(r)
  \/ Abandon

Spec == Init /\ [][Next]_vars

-----------------------------------------------------------------------------
(* What it comes to: a run that is repeated does not live beside the run    *)
(* that repeats it, unless it is doubted ...                                *)
NoTwins ==
  \A r, s \in Runs :
    origin[s] = r /\ process[r] = "alive" /\ process[s] = "alive" => r \in doubted

(* ... and what a record says of the end of a process is so.                *)
EndsHonest ==
  \A r \in Runs :
    /\ record[r] \in EndStates => process[r] = "gone"
    /\ record[r] \in EndStates \cup {"blocked", "interrupted"} =>
         process[r] # "alive" \/ r \in doubted
=============================================================================
