------------------------------ MODULE OneShotJob ------------------------------
(***************************************************************************)
(* What a reproduction job promises of its directory, whoever starts,      *)
(* repeats, cancels or loses it: one request owns it, the reviewed command *)
(* is dispatched at most once and only while the job is open, and a        *)
(* recorded end is final.                                                  *)
(***************************************************************************)
CONSTANTS Requests, NoRequest

VARIABLES
  owner,        \* the request that the directory belongs to
  life,         \* "absent", "open" or "over"
  dispatched    \* how often the command was launched

vars == <<owner, life, dispatched>>

Init == owner = NoRequest /\ life = "absent" /\ dispatched = 0

Own ==
  /\ owner = NoRequest
  /\ owner' \in Requests
  /\ UNCHANGED <<life, dispatched>>

Open ==
  /\ owner # NoRequest /\ life = "absent"
  /\ life' = "open"
  /\ UNCHANGED <<owner, dispatched>>

Dispatch ==
  /\ life = "open" /\ dispatched = 0
  /\ dispatched' = 1
  /\ UNCHANGED <<owner, life>>

Close ==
  /\ life = "open"
  /\ life' = "over"
  /\ UNCHANGED <<owner, dispatched>>

Next == Own \/ Open \/ Dispatch \/ Close

Spec == Init /\ [][Next]_vars
=============================================================================
