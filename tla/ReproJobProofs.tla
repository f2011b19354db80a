---------------------------- MODULE ReproJobProofs ----------------------------
(***************************************************************************)
(* Proofs about ReproJob for every number of start commands, workers,      *)
(* status and cancel commands.  What makes the invariant inductive: the    *)
(* directory has one owner, the claim has one worker, what each of them    *)
(* knows of the record at its steps, and that snapshots only get stale     *)
(* towards the end of the job.                                             *)
(***************************************************************************)
EXTENDS ReproJob, TLAPS

Owning == {"freeze", "queue", "launch", "recant"}
Active == {"claimed", "ready", "launch", "watch", "conclude", "failing"}

Unstarted == \A w \in Workers : worker[w].step = "none"

(* The start command that made the directory, and what it knows.            *)
OwnerInv ==
  /\ \A s, t \in Starters : starter[s].step \in Owning /\ starter[t].step \in Owning => s = t
  /\ \A s \in Starters :
       /\ starter[s].step \in Owning => control /\ Unstarted
       /\ starter[s].step = "freeze" => request = NoRequest
       /\ starter[s].step \in {"freeze", "queue"} => record = NoRecord
       /\ starter[s].step = "queue" => request # NoRequest
       /\ starter[s].step \in {"launch", "recant"} => record.life = "queued"
       /\ starter[s].step # "idle" => starter[s].want \in Requests
  /\ ~ control => request = NoRequest
  /\ request = NoRequest => record = NoRecord
  /\ record.life = "absent" => record = NoRecord /\ Unstarted

(* The worker that has the claim, and what it knows.                        *)
ClaimInv ==
  /\ \A w \in Workers :
       /\ worker[w].step \in Active => claim = w /\ record.life \in {"queued", "working"}
       /\ worker[w].step \in {"none", "start", "claimed"} => worker[w].phase = "planning"
       /\ worker[w].step = "claimed" => launches = 0
       /\ worker[w].step \in {"ready", "launch", "watch"} /\ worker[w].phase = "planning" => launches = 0
       /\ worker[w].step \in {"ready", "launch"} /\ worker[w].phase = "execution" => launches = 0
       /\ worker[w].step = "launch" /\ worker[w].phase = "execution" => ~ early
       /\ worker[w].step \in {"ready", "launch", "watch", "conclude"} => record.life = "working"
  /\ record.worker # NoWorker => record.worker = claim
  /\ claim = NoWorker => launches = 0 /\ record.life # "working"
  /\ claim = NoWorker /\ record.life \in TERMINAL => Unstarted
  /\ claim # NoWorker => record.life # "absent" /\ worker[claim].step \notin {"none", "start"}
  /\ launches <= 1

(* The job is over, on disk or because the worker that claimed it is gone.  *)
Finished ==
  \/ record.life \in TERMINAL
  \/ claim # NoWorker /\ worker[claim].step \in {"done", "dead"}

ObserverInv ==
  /\ \A o \in Observers : observer[o].step = "judge" =>
       /\ observer[o].seen.life \in TERMINAL => record.life \in TERMINAL
       /\ observer[o].seen.worker # NoWorker => observer[o].seen.worker = claim
  /\ over => Finished

CancelInv == early => cancel /\ launches = 0

Inv == TypeOK /\ OwnerInv /\ ClaimInv /\ ObserverInv /\ CancelInv

-----------------------------------------------------------------------------
StarterStates == [step : {"idle", "look", "inspect", "empty", "mkdir", "freeze",
                          "queue", "launch", "recant", "done"},
                  want : Requests \cup {NoRequest}]
WorkerStates == [step : {"none", "start", "claimed", "ready", "launch", "watch", "conclude",
                         "failing", "done", "dead"},
                 phase : Phases, code : {"none", "ok", "bad"},
                 result : {"none", "accepted", "refused"}]
ObserverStates == [step : {"idle", "judge", "mark", "done"},
                   purpose : {"status", "cancel"}, seen : Records]

FilesOK ==
  /\ control \in BOOLEAN /\ cancel \in BOOLEAN /\ claim \in Workers \cup {NoWorker}
  /\ request \in Requests \cup {NoRequest} /\ record \in Records
HistoryOK == launches \in Nat /\ early \in BOOLEAN /\ over \in BOOLEAN

(* The type invariant by the part of the state.                             *)
LEMMA TypeParts ==
  TypeOK <=> /\ FilesOK /\ HistoryOK
             /\ starter \in [Starters -> StarterStates]
             /\ worker \in [Workers -> WorkerStates]
             /\ child \in [Workers -> {"none", "alive", "ok", "bad"}]
             /\ observer \in [Observers -> ObserverStates]
  BY DEF TypeOK, FilesOK, HistoryOK, StarterStates, WorkerStates, ObserverStates

(* The same parts make the type invariant of the next state.                *)
LEMMA TypePartsNext ==
  FilesOK' /\ HistoryOK'
    /\ starter' \in [Starters -> StarterStates]
    /\ worker' \in [Workers -> WorkerStates]
    /\ child' \in [Workers -> {"none", "alive", "ok", "bad"}]
    /\ observer' \in [Observers -> ObserverStates]
    => TypeOK'
  BY DEF TypeOK, FilesOK, HistoryOK, StarterStates, WorkerStates, ObserverStates

(* A start command that goes to a step keeps its request; the others stay.  *)
LEMMA StarterMoves ==
  ASSUME starter \in [Starters -> StarterStates], NEW s \in Starters,
         NEW step \in {"look", "inspect", "empty", "mkdir", "freeze",
                       "queue", "launch", "recant", "done"},
         StarterGoes(s, step)
  PROVE  /\ starter' \in [Starters -> StarterStates]
         /\ starter'[s].step = step
         /\ \A t \in Starters : starter'[t].want = starter[t].want
         /\ \A t \in Starters \ {s} : starter'[t] = starter[t]
  BY DEF StarterGoes, StarterStates

(* A worker that goes to a step keeps the rest; the other workers stay.     *)
LEMMA WorkerMoves ==
  ASSUME worker \in [Workers -> WorkerStates], NEW w \in Workers,
         NEW step \in {"start", "claimed", "ready", "launch", "watch", "conclude", "failing", "done", "dead"},
         WorkerGoes(w, step)
  PROVE  /\ worker' \in [Workers -> WorkerStates]
         /\ worker'[w].step = step
         /\ worker'[w].phase = worker[w].phase
         /\ \A v \in Workers \ {w} : worker'[v] = worker[v]
  BY DEF WorkerGoes, WorkerStates

(* An observer that goes to a step keeps its snapshot.                      *)
LEMMA ObserverMoves ==
  ASSUME observer \in [Observers -> ObserverStates], NEW o \in Observers,
         NEW step \in {"mark", "done"}, ObserverGoes(o, step)
  PROVE  /\ observer' \in [Observers -> ObserverStates]
         /\ observer'[o].step = step
         /\ \A p \in Observers \ {o} : observer'[p] = observer[p]
  BY DEF ObserverGoes, ObserverStates

(* The records that are written.                                            *)
LEMMA RecordFields ==
  ASSUME NEW life, NEW pid, NEW result
  PROVE  /\ Record(life, pid, result).life = life
         /\ Record(life, pid, result).worker = pid
         /\ Record(life, pid, result).result = result
         /\ life \in {"absent", "queued", "working"} \cup TERMINAL
              /\ pid \in Workers \cup {NoWorker} /\ result \in {"none", "accepted", "refused"}
              => Record(life, pid, result) \in Records
  BY DEF Record, Records

(* The record before a job is queued.                                       *)
LEMMA NoRecordFields ==
  NoRecord.life = "absent" /\ NoRecord.worker = NoWorker /\ NoRecord \in Records
  BY RecordFields DEF NoRecord

(* Nothing has happened in the directory.                                   *)
LEMMA JobInit == Init => Inv
<1> SUFFICES ASSUME Init PROVE Inv
  OBVIOUS
<1> USE DEF Init
<1>1. TypeOK
  <2>1. FilesOK /\ HistoryOK
    <3>1. control \in BOOLEAN /\ cancel \in BOOLEAN /\ early \in BOOLEAN /\ over \in BOOLEAN
      OBVIOUS
    <3> QED
      BY <3>1, NoRecordFields DEF FilesOK, HistoryOK
  <2>2. starter \in [Starters -> StarterStates] /\ worker \in [Workers -> WorkerStates]
    BY DEF StarterStates, WorkerStates, Phases
  <2>3. observer \in [Observers -> ObserverStates]
    BY NoRecordFields DEF ObserverStates
  <2> QED
    BY <2>1, <2>2, <2>3, TypeParts
<1>2. OwnerInv
  BY NoRecordFields DEF OwnerInv, Owning, Unstarted
<1>3. ClaimInv
  BY NoRecordFields DEF ClaimInv, Active, TERMINAL, Unstarted
<1>4. ObserverInv /\ CancelInv
  BY DEF ObserverInv, CancelInv
<1> QED
  BY <1>1, <1>2, <1>3, <1>4 DEF Inv
-----------------------------------------------------------------------------
(* What the conjuncts do not depend on.                                     *)
LEMMA Frames ==
  ASSUME Inv
  PROVE  /\ UNCHANGED <<starter, control, request, record, worker>> => OwnerInv'
         /\ UNCHANGED <<worker, claim, record, launches, early>> => ClaimInv'
         /\ UNCHANGED <<observer, record, claim, worker, over>> => ObserverInv'
         /\ UNCHANGED <<early, cancel, launches>> => CancelInv'
         /\ UNCHANGED <<control, request, record, claim, cancel>> => FilesOK'
         /\ UNCHANGED <<launches, early, over>> => HistoryOK'
<1> USE DEF Inv
<1>1. UNCHANGED <<starter, control, request, record, worker>> => OwnerInv'
  BY DEF OwnerInv, Unstarted
<1>2. UNCHANGED <<worker, claim, record, launches, early>> => ClaimInv'
  BY DEF ClaimInv, Unstarted
<1>3. UNCHANGED <<observer, record, claim, worker, over>> => ObserverInv'
  BY DEF ObserverInv, Finished
<1>4. UNCHANGED <<early, cancel, launches>> => CancelInv'
  BY DEF CancelInv
<1>5. FilesOK /\ HistoryOK
  BY TypeParts
<1>6. UNCHANGED <<control, request, record, claim, cancel>> => FilesOK'
  BY <1>5 DEF FilesOK
<1>7. UNCHANGED <<launches, early, over>> => HistoryOK'
  BY <1>5 DEF HistoryOK
<1> QED
  BY <1>1, <1>2, <1>3, <1>4, <1>6, <1>7

(* A start command that does not get the directory, or has left it.         *)
LEMMA QuietStarter ==
  ASSUME Inv, NEW s \in Starters,
         starter' \in [Starters -> StarterStates],
         \A t \in Starters \ {s} : starter'[t] = starter[t],
         starter'[s].step \notin Owning, starter'[s].want \in Requests,
         UNCHANGED <<files, worker, child, observer, history>>
  PROVE  Inv'
<1> USE DEF files, history
<1>1. ClaimInv' /\ ObserverInv' /\ CancelInv' /\ FilesOK' /\ HistoryOK'
  BY Frames
<1>2. TypeOK'
  BY <1>1, TypeParts, TypePartsNext DEF Inv
<1>3. OwnerInv'
  BY DEF Inv, OwnerInv, Owning, Unstarted
<1> QED
  BY <1>1, <1>2, <1>3 DEF Inv

(* The steps of a start command keep the invariant.                         *)
LEMMA StarterKeeps ==
  ASSUME Inv, NEW s \in Starters, StarterStep(s) \/ StarterDies(s)
  PROVE  Inv'
<1> USE DEF files, history
<1>0. /\ starter \in [Starters -> StarterStates] /\ worker \in [Workers -> WorkerStates]
      /\ child \in [Workers -> {"none", "alive", "ok", "bad"}]
      /\ observer \in [Observers -> ObserverStates] /\ FilesOK /\ HistoryOK
  BY TypeParts DEF Inv
<1>1. starter[s].step # "idle" => starter[s].want \in Requests
  BY DEF Inv, OwnerInv
<1>2. CASE Begin(s)
  <2>1. PICK q \in Requests : starter' = [starter EXCEPT ![s] = [step |-> "look", want |-> q]]
    BY <1>2 DEF Begin
  <2>2. /\ starter' \in [Starters -> StarterStates]
        /\ starter'[s].step = "look" /\ starter'[s].want = q
        /\ \A t \in Starters \ {s} : starter'[t] = starter[t]
    BY <1>0, <2>1 DEF StarterStates
  <2> QED
    BY <1>2, <2>2, QuietStarter DEF Begin, Owning
<1>3. CASE Look(s) \/ Inspect(s) \/ Empty(s) \/ StarterDies(s) \/ (Mkdir(s) /\ control)
  <2>1. PICK step \in {"inspect", "empty", "mkdir", "done"} : StarterGoes(s, step)
    BY <1>3 DEF Look, Inspect, Empty, StarterDies, Mkdir
  <2>2. starter[s].step # "idle"
    BY <1>3 DEF Look, Inspect, Empty, StarterDies, Mkdir, StarterAt
  <2>3. UNCHANGED <<files, worker, child, observer, history>>
    <3>1. CASE Mkdir(s) /\ control
      BY <1>0, <3>1 DEF Mkdir, FilesOK
    <3> QED
      BY <1>3, <3>1 DEF Look, Inspect, Empty, StarterDies
  <2> QED
    BY <1>0, <1>1, <2>1, <2>2, <2>3, StarterMoves, QuietStarter DEF Owning
<1>4. CASE Mkdir(s) /\ ~ control
  <2>1. StarterGoes(s, "freeze") /\ control' = TRUE
        /\ UNCHANGED <<request, record, claim, cancel, worker, child, observer, history>>
    BY <1>4 DEF Mkdir
  <2>2. control' \in BOOLEAN
    BY <2>1
  <2>3. TypeOK'
    BY <1>0, <2>1, <2>2, StarterMoves, TypePartsNext DEF FilesOK, HistoryOK
  <2>4. OwnerInv'
    <3>1. request = NoRequest /\ record = NoRecord /\ Unstarted
          /\ \A t \in Starters : starter[t].step \notin Owning
      BY <1>4, NoRecordFields DEF Inv, OwnerInv
    <3> QED
      BY <1>0, <1>1, <1>4, <2>1, <3>1, StarterMoves DEF Inv, OwnerInv, Owning, Unstarted, Mkdir, StarterAt
  <2> QED
    BY <2>1, <2>3, <2>4, Frames DEF Inv
<1>5. CASE Freeze(s)
  <2>1. StarterGoes(s, "queue") /\ request' = starter[s].want /\ StarterAt(s, "freeze")
        /\ UNCHANGED <<control, record, claim, cancel, worker, child, observer, history>>
    BY <1>5 DEF Freeze
  <2>2. request' \in Requests /\ control /\ record = NoRecord /\ Unstarted
    BY <1>1, <2>1 DEF StarterAt, Inv, OwnerInv, Owning
  <2>3. TypeOK'
    BY <1>0, <2>1, <2>2, StarterMoves, TypePartsNext DEF FilesOK, HistoryOK
  <2>4. OwnerInv'
    BY <1>0, <1>1, <2>1, <2>2, StarterMoves, ReproJobAssumption
       DEF Inv, OwnerInv, Owning, Unstarted, StarterAt
  <2> QED
    BY <2>1, <2>3, <2>4, Frames DEF Inv
<1>6. CASE Queue(s) \/ Recant(s)
  <2>1. PICK step \in {"launch", "done"}, life \in {"queued", "failed"} :
           /\ StarterGoes(s, step) /\ record' = Record(life, NoWorker, "none")
           /\ step = "launch" => life = "queued"
           /\ life = "failed" => starter[s].step = "recant"
           /\ UNCHANGED <<control, request, claim, cancel, worker, child, observer, history>>
    BY <1>6 DEF Queue, Recant, StarterAt
  <2>2. starter[s].step \in {"queue", "recant"}
    BY <1>6 DEF Queue, Recant, StarterAt
  <2>3. /\ record'.life = life /\ record'.worker = NoWorker /\ record' \in Records
        /\ record'.life # "absent" /\ record' # NoRecord
    BY <2>1, RecordFields, NoRecordFields DEF TERMINAL
  <2>4. /\ control /\ Unstarted /\ request # NoRequest
        /\ record.life \notin TERMINAL /\ record.life # "working"
    BY <2>2, NoRecordFields DEF Inv, OwnerInv, Owning, TERMINAL
  <2>5. claim = NoWorker
    BY <1>0, <2>4 DEF Inv, ClaimInv, Unstarted, FilesOK
  <2>6. TypeOK'
    BY <1>0, <2>1, <2>3, StarterMoves, TypePartsNext DEF FilesOK, HistoryOK
  <2>7. OwnerInv'
    BY <1>0, <1>1, <2>1, <2>2, <2>3, <2>4, StarterMoves DEF Inv, OwnerInv, Owning, Unstarted
  <2>8. ClaimInv'
    BY <2>1, <2>3, <2>4, <2>5 DEF Inv, ClaimInv, Unstarted, Active, TERMINAL
  <2>9. ObserverInv'
    BY <2>1, <2>3, <2>4, <2>5 DEF Inv, ObserverInv, Finished
  <2> QED
    BY <2>1, <2>6, <2>7, <2>8, <2>9, Frames DEF Inv
<1>7. CASE LaunchWorker(s)
  <2>0. StarterAt(s, "launch") /\ UNCHANGED <<files, child, observer, history>>
    BY <1>7 DEF LaunchWorker
  <2>1. CASE StarterGoes(s, "recant") /\ UNCHANGED worker
    <3>1. TypeOK'
      BY <1>0, <2>0, <2>1, StarterMoves, TypePartsNext DEF FilesOK, HistoryOK
    <3>2. OwnerInv'
      BY <1>0, <1>1, <2>0, <2>1, StarterMoves DEF Inv, OwnerInv, Owning, Unstarted, StarterAt
    <3> QED
      BY <2>0, <2>1, <3>1, <3>2, Frames DEF Inv
  <2>2. CASE StarterGoes(s, "done") /\ \E w \in Workers : WorkerGoes(w, "start")
    <3>1. PICK w \in Workers : WorkerGoes(w, "start")
      BY <2>2
    <3>2. /\ control /\ Unstarted /\ record.life = "queued"
          /\ \A t \in Starters : starter[t].step \in Owning => t = s
      BY <2>0 DEF Inv, OwnerInv, Owning, StarterAt
    <3>3. claim = NoWorker /\ record.life \notin TERMINAL /\ record # NoRecord /\ record.life # "working"
      BY <1>0, <3>2, NoRecordFields DEF Inv, ClaimInv, Unstarted, FilesOK, TERMINAL
    <3>4. /\ starter' \in [Starters -> StarterStates] /\ starter'[s].step = "done"
          /\ starter'[s].want = starter[s].want
          /\ \A t \in Starters \ {s} : starter'[t] = starter[t]
      BY <1>0, <2>2, StarterMoves
    <3>5. /\ worker' \in [Workers -> WorkerStates] /\ worker'[w].step = "start"
          /\ worker'[w].phase = worker[w].phase
          /\ \A v \in Workers \ {w} : worker'[v] = worker[v]
      BY <1>0, <3>1, WorkerMoves
    <3>6. TypeOK'
      BY <1>0, <2>0, <3>4, <3>5, TypePartsNext DEF FilesOK, HistoryOK
    <3>7. OwnerInv'
      BY <1>1, <2>0, <3>2, <3>3, <3>4, <3>5 DEF Inv, OwnerInv, Owning, StarterAt
    <3>8. \A v \in Workers : worker'[v].step \in {"none", "start"} /\ worker'[v].phase = "planning"
      BY <3>2, <3>5 DEF Unstarted, Inv, ClaimInv
    <3>9. ClaimInv'
      BY <2>0, <3>3, <3>8 DEF Inv, ClaimInv, Active
    <3>10. ObserverInv'
      BY <2>0, <3>3 DEF Inv, ObserverInv, Finished
    <3> QED
      BY <2>0, <3>6, <3>7, <3>9, <3>10, Frames DEF Inv
  <2> QED
    BY <1>7, <2>1, <2>2 DEF LaunchWorker, WorkerGoes
<1> QED
  BY <1>2, <1>3, <1>4, <1>5, <1>6, <1>7 DEF StarterStep
-----------------------------------------------------------------------------
(* While the worker with the claim goes on, nobody else acts on the job and *)
(* nobody has seen its end.                                                 *)
LEMMA WhileActive ==
  ASSUME Inv, NEW w \in Workers, worker[w].step \in Active
  PROVE  /\ claim = w /\ record.life \in {"queued", "working"}
         /\ control /\ request # NoRequest /\ ~ over
         /\ \A s \in Starters : starter[s].step \notin Owning
         /\ \A v \in Workers \ {w} : worker[v].step \notin Active
         /\ \A o \in Observers : observer[o].step = "judge" => observer[o].seen.life \notin TERMINAL
<1>1. claim = w /\ record.life \in {"queued", "working"} /\ record.life \notin TERMINAL
  BY DEF Inv, ClaimInv, TERMINAL
<1>2. ~ Unstarted /\ worker[w].step \notin {"done", "dead"}
  BY DEF Unstarted, Active
<1>3. ~ over
  BY <1>1, <1>2 DEF Inv, ObserverInv, Finished
<1>4. request # NoRequest /\ control
  BY <1>1, NoRecordFields DEF Inv, OwnerInv
<1>5. \A s \in Starters : starter[s].step \notin Owning
  BY <1>2 DEF Inv, OwnerInv
<1>6. \A v \in Workers \ {w} : worker[v].step \notin Active
  BY <1>1 DEF Inv, ClaimInv
<1>7. \A o \in Observers : observer[o].step = "judge" => observer[o].seen.life \notin TERMINAL
  BY <1>1 DEF Inv, ObserverInv
<1> QED
  BY <1>1, <1>3, <1>4, <1>5, <1>6, <1>7

(* What a step of the worker with the claim has to respect.                 *)
Respects(w) ==
  /\ worker'[w].step \in (Active \ {"claimed"}) \cup {"done", "dead"}
  /\ record' = record \/ (record'.life \in {"working"} \cup TERMINAL /\ record'.worker = w)
  /\ worker'[w].step \in Active => record'.life \in {"queued", "working"}
  /\ worker'[w].step \in {"ready", "launch", "watch", "conclude"} => record'.life = "working"
  /\ worker'[w].step \in {"ready", "launch", "watch"} /\ worker'[w].phase = "planning" => launches' = 0
  /\ worker'[w].step \in {"ready", "launch"} /\ worker'[w].phase = "execution" => launches' = 0
  /\ worker'[w].step = "launch" /\ worker'[w].phase = "execution" => ~ early'
  /\ launches' <= 1
  /\ early' => cancel /\ launches' = 0

(* The step of the one active worker that respects its claim keeps the invariant. *)
LEMMA ActiveStep ==
  ASSUME Inv, NEW w \in Workers, worker[w].step \in Active, Respects(w),
         worker' \in [Workers -> WorkerStates],
         \A v \in Workers \ {w} : worker'[v] = worker[v],
         child' \in [Workers -> {"none", "alive", "ok", "bad"}],
         record' \in Records, launches' \in Nat, early' \in BOOLEAN,
         UNCHANGED <<control, request, claim, cancel, starter, observer, over>>
  PROVE  Inv'
<1>0. /\ starter \in [Starters -> StarterStates]
      /\ observer \in [Observers -> ObserverStates] /\ FilesOK /\ HistoryOK
  BY TypeParts DEF Inv
<1>1. TypeOK'
  BY <1>0, TypePartsNext DEF FilesOK, HistoryOK
<1>2. record'.life # "absent" /\ record' # NoRecord
  BY WhileActive, NoRecordFields DEF Respects, TERMINAL
<1>3. OwnerInv'
  <2>1. \A s \in Starters : starter[s].step # "idle" => starter[s].want \in Requests
    BY DEF Inv, OwnerInv
  <2> QED
    BY <1>2, <2>1, WhileActive DEF OwnerInv, Owning
<1>4. ClaimInv'
  <2>1. claim = w /\ claim # NoWorker /\ (record.worker # NoWorker => record.worker = claim)
    BY WhileActive, ReproJobAssumption DEF Inv, ClaimInv
  <2>2. /\ worker'[w].step \notin {"none", "start", "claimed"}
        /\ record'.worker # NoWorker => record'.worker = claim
    BY <2>1 DEF Respects, Active
  <2>3. \A v \in Workers :
          /\ worker'[v].step \in Active => claim' = v /\ record'.life \in {"queued", "working"}
          /\ worker'[v].step \in {"none", "start", "claimed"} => worker'[v].phase = "planning"
          /\ worker'[v].step = "claimed" => launches' = 0
          /\ worker'[v].step \in {"ready", "launch", "watch"} /\ worker'[v].phase = "planning" => launches' = 0
          /\ worker'[v].step \in {"ready", "launch"} /\ worker'[v].phase = "execution" => launches' = 0
          /\ worker'[v].step = "launch" /\ worker'[v].phase = "execution" => ~ early'
          /\ worker'[v].step \in {"ready", "launch", "watch", "conclude"} => record'.life = "working"
    <3> TAKE v \in Workers
    <3>1. CASE v = w
      BY <2>1, <2>2, <3>1 DEF Respects
    <3>2. CASE v # w
      <4>1. worker'[v] = worker[v] /\ worker[v].step \notin Active
        BY <3>2, WhileActive
      <4>2. worker[v].step \in {"none", "start"} => worker[v].phase = "planning"
        BY DEF Inv, ClaimInv
      <4> QED
        BY <4>1, <4>2 DEF Active
    <3> QED
      BY <3>1, <3>2
  <2>4. claim' # NoWorker /\ record'.life # "absent" /\ worker'[claim'].step \notin {"none", "start"} /\ launches' <= 1
    BY <1>2, <2>1, <2>2 DEF Respects
  <2>5. record'.worker # NoWorker => record'.worker = claim'
    BY <2>2
  <2> QED
    BY <2>3, <2>4, <2>5 DEF ClaimInv
<1>5. ObserverInv'
  <2>1. \A o \in Observers : observer[o].step = "judge" /\ observer[o].seen.worker # NoWorker
                               => observer[o].seen.worker = claim
    BY DEF Inv, ObserverInv
  <2> QED
    BY <2>1, WhileActive DEF ObserverInv
<1>6. CancelInv'
  BY DEF CancelInv, Respects
<1> QED
  BY <1>1, <1>3, <1>4, <1>5, <1>6 DEF Inv

(* A worker without the claim comes and goes.                               *)
LEMMA IdleWorker ==
  ASSUME Inv, NEW w \in Workers, NEW step \in {"start", "done", "dead"}, WorkerGoes(w, step),
         step = "start" => worker[w].step = "none" /\ ~ Unstarted,
         step # "start" => worker[w].step = "start",
         UNCHANGED <<files, starter, child, observer, history>>
  PROVE  Inv'
<1> USE DEF files, history
<1>0. worker \in [Workers -> WorkerStates]
  BY TypeParts DEF Inv
<1>1. /\ worker' \in [Workers -> WorkerStates] /\ worker'[w].step = step
      /\ worker'[w].phase = worker[w].phase
      /\ \A v \in Workers \ {w} : worker'[v] = worker[v]
  BY <1>0, WorkerMoves
<1>2. TypeOK'
  BY <1>1, TypeParts, TypePartsNext DEF Inv, FilesOK, HistoryOK
<1>3. ~ Unstarted
  BY DEF Unstarted
<1>4. OwnerInv'
  BY <1>3 DEF Inv, OwnerInv
<1>5. claim # w
  <2>1. worker[w].step \in {"none", "start"}
    OBVIOUS
  <2> QED
    BY <2>1, ReproJobAssumption DEF Inv, ClaimInv
<1>6. claim = NoWorker => record.life \notin TERMINAL
  BY <1>3 DEF Inv, ClaimInv
<1>7. ClaimInv'
  <2>1. worker'[w].step \notin Active
    BY <1>1 DEF Active
  <2>2. claim # NoWorker => claim \in Workers
    BY TypeParts DEF Inv, FilesOK
  <2> QED
    BY <1>1, <1>5, <1>6, <2>1, <2>2 DEF Inv, ClaimInv, Active
<1>8. ObserverInv'
  <2>1. Finished => Finished'
    BY <1>1, <1>5, TypeParts DEF Inv, FilesOK, Finished
  <2> QED
    BY <2>1 DEF Inv, ObserverInv
<1> QED
  BY <1>2, <1>4, <1>7, <1>8, Frames DEF Inv

(* Taking the claim.                                                        *)
LEMMA ClaimKeeps ==
  ASSUME Inv, NEW w \in Workers, Claim(w)
  PROVE  Inv'
<1>0. /\ starter \in [Starters -> StarterStates] /\ worker \in [Workers -> WorkerStates]
      /\ child \in [Workers -> {"none", "alive", "ok", "bad"}]
      /\ observer \in [Observers -> ObserverStates] /\ FilesOK /\ HistoryOK
  BY TypeParts DEF Inv
<1>1. /\ worker[w].step = "start" /\ claim = NoWorker /\ claim' = w /\ early' = cancel
      /\ WorkerGoes(w, "claimed")
      /\ UNCHANGED <<control, request, record, cancel, starter, child, observer, launches, over>>
  BY DEF Claim, WorkerAt
<1>2. /\ worker' \in [Workers -> WorkerStates]
      /\ worker'[w].step = "claimed" /\ worker'[w].phase = worker[w].phase
      /\ \A v \in Workers \ {w} : worker'[v] = worker[v]
  BY <1>0, <1>1, WorkerMoves
<1>3. early' \in BOOLEAN
  BY <1>0, <1>1 DEF FilesOK
<1>4. TypeOK'
  BY <1>0, <1>1, <1>2, <1>3, TypePartsNext DEF FilesOK, HistoryOK
<1>5. ~ Unstarted
  BY <1>1 DEF Unstarted
<1>6. OwnerInv'
  BY <1>1, <1>5 DEF Inv, OwnerInv
<1>7. launches = 0 /\ record.life = "queued" /\ record.worker = NoWorker
  <2>1. record.life \in {"absent", "queued", "working"} \cup TERMINAL /\ record.life # "absent"
    BY <1>0, <1>5 DEF FilesOK, Records, Inv, OwnerInv
  <2> QED
    BY <1>1, <1>5, <2>1 DEF Inv, ClaimInv
<1>8. worker[w].phase = "planning"
  BY <1>1 DEF Inv, ClaimInv
<1>9. ClaimInv'
  BY <1>1, <1>2, <1>7, <1>8, ReproJobAssumption DEF Inv, ClaimInv, Active, TERMINAL
<1>10. ObserverInv'
  BY <1>1, <1>7 DEF Inv, ObserverInv, Finished, TERMINAL
<1>11. CancelInv'
  BY <1>1, <1>7 DEF CancelInv
<1> QED
  BY <1>4, <1>6, <1>9, <1>10, <1>11 DEF Inv
(* A step that only moves the worker with the claim, and may end the job.   *)
LEMMA PlainStep ==
  ASSUME Inv, NEW w \in Workers, worker[w].step \in Active,
         NEW step \in {"ready", "launch", "failing", "done", "dead"}, WorkerGoes(w, step),
         \/ record' = record
         \/ \E life \in {"working"} \cup TERMINAL, result \in {"none", "accepted", "refused"} :
              record' = Record(life, w, result),
         step = "ready" => record'.life = "working" /\ worker[w].step = "claimed",
         step = "failing" => record' = record,
         step = "launch" => /\ record' = record /\ worker[w].step = "ready"
                            /\ worker[w].phase = "execution" => ~ early,
         child' \in [Workers -> {"none", "alive", "ok", "bad"}],
         UNCHANGED <<control, request, claim, cancel, starter, observer, launches, early, over>>
  PROVE  Inv'
<1>0. /\ worker \in [Workers -> WorkerStates] /\ record \in Records
      /\ launches \in Nat /\ early \in BOOLEAN
  BY TypeParts DEF Inv, FilesOK, HistoryOK
<1>1. /\ worker' \in [Workers -> WorkerStates]
      /\ worker'[w].step = step /\ worker'[w].phase = worker[w].phase
      /\ \A v \in Workers \ {w} : worker'[v] = worker[v]
  BY <1>0, WorkerMoves
<1>2. /\ record' \in Records
      /\ record' = record \/ (record'.life \in {"working"} \cup TERMINAL /\ record'.worker = w)
  BY <1>0, RecordFields
<1>3. record.life \in {"queued", "working"} /\ launches <= 1
  BY WhileActive DEF Inv, ClaimInv
<1>4. /\ step = "ready" => launches = 0 /\ worker[w].phase = "planning"
      /\ step = "launch" => /\ record.life = "working"
                            /\ worker[w].phase \in {"planning", "execution"} => launches = 0
  BY DEF Inv, ClaimInv
<1>5. early => cancel /\ launches = 0
  BY DEF Inv, CancelInv
<1>6. Respects(w)
  BY <1>1, <1>2, <1>3, <1>4, <1>5 DEF Respects, Active
<1> QED
  BY <1>0, <1>1, <1>2, <1>6, ActiveStep

(* Launching a child.                                                       *)
LEMMA LaunchKeeps ==
  ASSUME Inv, NEW w \in Workers, Launch(w)
  PROVE  Inv'
<1> USE DEF files
<1>0. /\ worker \in [Workers -> WorkerStates] /\ record \in Records
      /\ launches \in Nat /\ early \in BOOLEAN
      /\ child \in [Workers -> {"none", "alive", "ok", "bad"}]
  BY TypeParts DEF Inv, FilesOK, HistoryOK
<1>1. /\ worker[w].step = "launch" /\ worker[w].step \in Active /\ record.life = "working"
      /\ worker[w].phase = "execution" => ~ early
      /\ UNCHANGED <<control, request, record, claim, cancel, starter, observer, early, over>>
  BY DEF Launch, WorkerAt, Active, Inv, ClaimInv
<1>2. CASE WorkerGoes(w, "failing") /\ UNCHANGED <<child, launches>>
  BY <1>0, <1>1, <1>2, PlainStep
<1>3. CASE /\ WorkerGoes(w, "watch") /\ child' = [child EXCEPT ![w] = "alive"]
           /\ launches' = IF worker[w].phase = "execution" THEN launches + 1 ELSE launches
  <2>1. /\ worker' \in [Workers -> WorkerStates]
        /\ worker'[w].step = "watch" /\ worker'[w].phase = worker[w].phase
        /\ \A v \in Workers \ {w} : worker'[v] = worker[v]
    BY <1>0, <1>3, WorkerMoves
  <2>2. child' \in [Workers -> {"none", "alive", "ok", "bad"}]
    BY <1>0, <1>3
  <2>3. launches' \in Nat /\ launches' <= 1
        /\ (worker[w].phase = "planning" => launches' = 0)
    BY <1>0, <1>1, <1>3 DEF Inv, ClaimInv
  <2>4. early => cancel /\ launches = 0
    BY DEF Inv, CancelInv
  <2>5. early' => cancel /\ launches' = 0
    BY <1>1, <1>3, <2>4
  <2>6. Respects(w)
    BY <1>1, <2>1, <2>3, <2>5 DEF Respects, Active
  <2> QED
    BY <1>0, <1>1, <2>1, <2>2, <2>3, <2>6, ActiveStep
<1> QED
  BY <1>2, <1>3 DEF Launch

(* The end of a phase.                                                      *)
LEMMA SeeExitKeeps ==
  ASSUME Inv, NEW w \in Workers, SeeExit(w)
  PROVE  Inv'
<1> USE DEF files
<1>0. /\ worker \in [Workers -> WorkerStates] /\ record \in Records
      /\ launches \in Nat /\ early \in BOOLEAN /\ cancel \in BOOLEAN
      /\ child \in [Workers -> {"none", "alive", "ok", "bad"}]
  BY TypeParts DEF Inv, FilesOK, HistoryOK
<1>1. /\ worker[w].step = "watch" /\ worker[w].step \in Active /\ record.life = "working"
      /\ launches <= 1 /\ (worker[w].phase = "planning" => launches = 0)
  BY DEF SeeExit, WorkerAt, Active, Inv, ClaimInv
<1>2. /\ UNCHANGED <<control, request, claim, cancel, starter, child, observer, launches, over>>
      /\ early' = (early \/ (worker[w].phase = "planning" /\ cancel))
  BY DEF SeeExit
<1>3. early' \in BOOLEAN
  BY <1>2
<1>4. early => cancel /\ launches = 0
  BY DEF Inv, CancelInv
<1>5. early' => cancel /\ launches' = 0
  BY <1>1, <1>2, <1>4
<1>6. PICK step \in {"ready", "conclude", "done", "failing"} :
        /\ worker' \in [Workers -> WorkerStates]
        /\ worker'[w].step = step
        /\ \A v \in Workers \ {w} : worker'[v] = worker[v]
        /\ step = "ready" => worker'[w].phase \in {"execution", "verification"}
        /\ worker'[w].phase = "execution" => worker[w].phase \in {"planning", "execution"}
        /\ step = "ready" /\ worker'[w].phase = "execution" => worker[w].phase = "planning"
        /\ record' = record \/ (step = "done" /\ record' = Record("failed", w, "none"))
  <2>0. worker[w].phase \in Phases /\ child[w] \in {"none", "ok", "bad"}
    BY <1>0 DEF WorkerStates, SeeExit
  <2>1. CASE worker[w].phase = "planning"
    <3>1. CASE worker' = [worker EXCEPT ![w].step = "ready", ![w].phase = "execution"] /\ UNCHANGED record
      BY <1>0, <2>1, <3>1 DEF WorkerStates, Phases
    <3>2. CASE record' = Record("failed", w, "none") /\ WorkerGoes(w, "done")
      BY <1>0, <2>1, <3>2, WorkerMoves
    <3>3. CASE WorkerGoes(w, "failing") /\ UNCHANGED record
      BY <1>0, <2>1, <3>3, WorkerMoves
    <3> QED
      BY <2>1, <3>1, <3>2, <3>3 DEF SeeExit
  <2>2. CASE worker[w].phase = "execution"
    <3>1. /\ worker' = [worker EXCEPT ![w].step = "ready", ![w].phase = "verification", ![w].code = child[w]]
          /\ UNCHANGED record
      BY <2>2 DEF SeeExit
    <3> QED
      BY <1>0, <2>0, <2>2, <3>1 DEF WorkerStates, Phases
  <2>3. CASE worker[w].phase = "verification"
    <3>1. PICK verdict \in {"accepted", "refused"} :
            worker' = [worker EXCEPT ![w].step = "conclude", ![w].result = verdict]
      BY <2>3 DEF SeeExit
    <3>2. UNCHANGED record
      BY <2>3 DEF SeeExit
    <3> QED
      BY <1>0, <2>3, <3>1, <3>2 DEF WorkerStates, Phases
  <2> QED
    BY <2>0, <2>1, <2>2, <2>3 DEF Phases
<1>7. /\ record' \in Records
      /\ record' = record
           \/ (step = "done" /\ record'.life \in {"working"} \cup TERMINAL /\ record'.worker = w)
  BY <1>0, <1>6, RecordFields DEF TERMINAL
<1>8. Respects(w)
  BY <1>1, <1>2, <1>5, <1>6, <1>7 DEF Respects, Active
<1> QED
  BY <1>0, <1>1, <1>2, <1>3, <1>6, <1>7, <1>8, ActiveStep

(* The steps of a worker keep the invariant.                                *)
LEMMA WorkerKeeps ==
  ASSUME Inv, NEW w \in Workers,
         WorkerStep(w) \/ Relaunch(w) \/ ChildExits(w) \/ WorkerDies(w)
  PROVE  Inv'
<1> USE DEF files, history
<1>0. /\ starter \in [Starters -> StarterStates] /\ worker \in [Workers -> WorkerStates]
      /\ child \in [Workers -> {"none", "alive", "ok", "bad"}]
      /\ observer \in [Observers -> ObserverStates] /\ FilesOK /\ HistoryOK
  BY TypeParts DEF Inv
<1>1. worker[w].result \in {"none", "accepted", "refused"}
  BY <1>0 DEF WorkerStates
<1>2. CASE Relaunch(w) \/ Refuse(w)
  BY <1>2, IdleWorker DEF Relaunch, Refuse, WorkerAt, Unstarted
<1>3. CASE Announce(w) \/ SeeCancel(w) \/ Conclude(w) \/ Fail(w)
  <2>1. worker[w].step \in Active
    BY <1>3 DEF Announce, SeeCancel, Conclude, Fail, WorkerAt, Active
  <2>2. PICK step \in {"ready", "failing", "done", "dead"} :
          /\ WorkerGoes(w, step)
          /\ \/ record' = record
             \/ \E life \in {"working"} \cup TERMINAL, result \in {"none", "accepted", "refused"} :
                  record' = Record(life, w, result)
          /\ step = "ready" => record' = Record("working", w, "none") /\ worker[w].step = "claimed"
          /\ step = "failing" => record' = record
    BY <1>1, <1>3 DEF Announce, SeeCancel, Conclude, Fail, WorkerAt, TERMINAL
  <2>3. step = "ready" => record'.life = "working"
    BY <2>2, RecordFields
  <2>4. UNCHANGED <<control, request, claim, cancel, starter, child, observer, launches, early, over>>
    BY <1>3 DEF Announce, SeeCancel, Conclude, Fail
  <2> QED
    BY <1>0, <2>1, <2>2, <2>3, <2>4, PlainStep
<1>4. CASE PassCancel(w)
  <2>1. /\ worker[w].step = "ready" /\ worker[w].step \in Active /\ WorkerGoes(w, "launch")
        /\ UNCHANGED <<files, starter, child, observer, history>>
    BY <1>4 DEF PassCancel, WorkerAt, Active
  <2>2. worker[w].phase = "execution" => ~ early
    BY <1>4 DEF PassCancel, Checked, Inv, CancelInv
  <2> QED
    BY <1>0, <2>1, <2>2, PlainStep
<1>5. CASE Deadline(w)
  <2>1. /\ worker[w].step \in Active /\ WorkerGoes(w, "failing")
        /\ child' = [child EXCEPT ![w] = "bad"]
        /\ UNCHANGED <<files, starter, observer, history>>
    BY <1>5 DEF Deadline, WorkerAt, Active
  <2> QED
    BY <1>0, <2>1, PlainStep
<1>6. CASE WorkerDies(w)
  <2>1. CASE worker[w].step = "start"
    BY <1>6, <2>1, IdleWorker DEF WorkerDies
  <2>2. CASE worker[w].step # "start"
    <3>1. worker[w].step \in Active
      BY <1>0, <1>6, <2>2 DEF WorkerDies, WorkerStates, Active
    <3> QED
      BY <1>0, <1>6, <3>1, PlainStep DEF WorkerDies
  <2> QED
    BY <2>1, <2>2
<1>7. CASE ChildExits(w)
  <2>1. UNCHANGED <<files, starter, worker, observer, history>>
    BY <1>7 DEF ChildExits
  <2>2. child' \in [Workers -> {"none", "alive", "ok", "bad"}]
    BY <1>0, <1>7 DEF ChildExits
  <2>3. OwnerInv' /\ ClaimInv' /\ ObserverInv' /\ CancelInv' /\ FilesOK' /\ HistoryOK'
    BY <2>1, Frames
  <2> QED
    BY <1>0, <2>1, <2>2, <2>3, TypePartsNext DEF Inv
<1> QED
  BY <1>2, <1>3, <1>4, <1>5, <1>6, <1>7, ClaimKeeps, LaunchKeeps, SeeExitKeeps DEF WorkerStep

(* The steps of status and cancel keep the invariant.                       *)
LEMMA ObserverKeeps ==
  ASSUME Inv, NEW o \in Observers, Read(o) \/ Judge(o) \/ Mark(o)
  PROVE  Inv'
<1> USE DEF files, history
<1>0. /\ starter \in [Starters -> StarterStates] /\ worker \in [Workers -> WorkerStates]
      /\ child \in [Workers -> {"none", "alive", "ok", "bad"}]
      /\ observer \in [Observers -> ObserverStates] /\ FilesOK /\ HistoryOK
  BY TypeParts DEF Inv
<1>1. CASE Read(o)
  <2>1. PICK purpose \in {"status", "cancel"} :
          observer' = [observer EXCEPT ![o] = [step |-> "judge", purpose |-> purpose, seen |-> record]]
    BY <1>1 DEF Read
  <2>2. /\ observer' \in [Observers -> ObserverStates]
        /\ observer'[o].seen = record
        /\ \A p \in Observers \ {o} : observer'[p] = observer[p]
    BY <1>0, <2>1 DEF ObserverStates, FilesOK
  <2>3. UNCHANGED <<files, starter, worker, child, history>>
    BY <1>1 DEF Read
  <2>4. ObserverInv'
    BY <2>2, <2>3 DEF Inv, ObserverInv, ClaimInv, Finished
  <2>5. OwnerInv' /\ ClaimInv' /\ CancelInv' /\ FilesOK' /\ HistoryOK'
    BY <2>3, Frames
  <2> QED
    BY <1>0, <2>2, <2>3, <2>4, <2>5, TypePartsNext DEF Inv
<1>2. CASE Judge(o)
  <2>1. PICK step \in {"mark", "done"} : ObserverGoes(o, step)
    BY <1>2 DEF Judge
  <2>2. /\ observer' \in [Observers -> ObserverStates] /\ observer'[o].step = step
        /\ \A p \in Observers \ {o} : observer'[p] = observer[p]
    BY <1>0, <2>1, ObserverMoves
  <2>3. UNCHANGED <<files, starter, worker, child, launches, early>>
    BY <1>2 DEF Judge
  <2>4. Ended(o) \/ Lost(o) => Finished
    <3>1. observer[o].step = "judge"
      BY <1>2 DEF Judge, ObserverAt
    <3> QED
      BY <3>1 DEF Inv, ObserverInv, Ended, Lost, Finished
  <2>5. over' => Finished
    BY <1>2, <2>4 DEF Judge, Inv, ObserverInv
  <2>6. over' \in BOOLEAN
    <3>1. CASE Ended(o) \/ Lost(o)
      BY <1>2, <3>1 DEF Judge
    <3>2. CASE ~ (Ended(o) \/ Lost(o))
      BY <1>0, <1>2, <3>2 DEF Judge, HistoryOK
    <3> QED
      BY <3>1, <3>2
  <2>7. ObserverInv'
    BY <2>2, <2>3, <2>5 DEF Inv, ObserverInv, Finished
  <2>8. OwnerInv' /\ ClaimInv' /\ CancelInv' /\ FilesOK'
    BY <2>3, Frames
  <2>9. HistoryOK'
    BY <1>0, <2>3, <2>6 DEF HistoryOK
  <2> QED
    BY <1>0, <2>2, <2>3, <2>7, <2>8, <2>9, TypePartsNext DEF Inv
<1>3. CASE Mark(o)
  <2>1. ObserverGoes(o, "done") /\ cancel' = TRUE
        /\ UNCHANGED <<control, request, record, claim, starter, worker, child, history>>
    BY <1>3 DEF Mark
  <2>2. /\ observer' \in [Observers -> ObserverStates] /\ observer'[o].step = "done"
        /\ \A p \in Observers \ {o} : observer'[p] = observer[p]
    BY <1>0, <2>1, ObserverMoves
  <2>3. cancel' \in BOOLEAN
    BY <2>1
  <2>4. FilesOK'
    BY <1>0, <2>1, <2>3 DEF FilesOK
  <2>5. ObserverInv'
    BY <2>1, <2>2 DEF Inv, ObserverInv, Finished
  <2>6. CancelInv'
    BY <2>1 DEF Inv, CancelInv
  <2>7. OwnerInv' /\ ClaimInv' /\ HistoryOK'
    BY <2>1, Frames
  <2> QED
    BY <1>0, <2>1, <2>2, <2>4, <2>5, <2>6, <2>7, TypePartsNext DEF Inv
<1> QED
  BY <1>1, <1>2, <1>3

(* The inductive invariant holds in every reachable state.                  *)
LEMMA InvHolds == Spec => []Inv
<1>1. Inv /\ [Next]_vars => Inv'
  <2> SUFFICES ASSUME Inv, [Next]_vars PROVE Inv'
    OBVIOUS
  <2>1. CASE UNCHANGED vars
    <3>1. /\ starter \in [Starters -> StarterStates] /\ worker \in [Workers -> WorkerStates]
          /\ child \in [Workers -> {"none", "alive", "ok", "bad"}]
          /\ observer \in [Observers -> ObserverStates]
      BY TypeParts DEF Inv
    <3>2. OwnerInv' /\ ClaimInv' /\ ObserverInv' /\ CancelInv' /\ FilesOK' /\ HistoryOK'
      BY <2>1, Frames DEF vars, files, history
    <3> QED
      BY <2>1, <3>1, <3>2, TypePartsNext DEF Inv, vars
  <2>2. CASE Next
    BY <2>2, StarterKeeps, WorkerKeeps, ObserverKeeps DEF Next
  <2> QED
    BY <2>1, <2>2
<1> QED
  BY <1>1, JobInit, PTL DEF Spec
(* TypeOK for every number of processes and requests.                       *)
THEOREM TypeCorrect == Spec => []TypeOK
  BY InvHolds, PTL DEF Inv

(* CancelledNotExecuted: a marker that was there at the claim or during     *)
(* planning is seen before the command is launched.                         *)
THEOREM CancelledNotExecutedHolds == Spec => []CancelledNotExecuted
<1>1. Inv => CancelledNotExecuted
  BY DEF Inv, CancelInv, CancelledNotExecuted
<1> QED
  BY <1>1, InvHolds, PTL

(* ReportedOver: whoever has reported the end has seen one that stays.      *)
THEOREM ReportedOverHolds == Spec => ReportedOver
<1>1. Inv /\ [Next]_vars => [over => launches' = launches]_vars
  <2> SUFFICES ASSUME Inv, Next, over PROVE launches' = launches
    BY DEF vars, history
  <2>1. ASSUME NEW s \in Starters, StarterStep(s) \/ StarterDies(s) PROVE launches' = launches
    BY <2>1 DEF StarterStep, StarterDies, Begin, Look, Inspect, Empty, Mkdir, Freeze, Queue,
                LaunchWorker, Recant, history
  <2>2. ASSUME NEW w \in Workers, Launch(w) PROVE FALSE
    <3>1. worker[w].step \in Active
      BY <2>2 DEF Launch, WorkerAt, Active
    <3> QED
      BY <3>1, WhileActive
  <2>3. ASSUME NEW w \in Workers, WorkerStep(w) \/ Relaunch(w) \/ ChildExits(w) \/ WorkerDies(w)
        PROVE  launches' = launches
    BY <2>2, <2>3 DEF WorkerStep, Relaunch, ChildExits, WorkerDies, Claim, Refuse, Announce,
                      SeeCancel, PassCancel, SeeExit, Deadline, Conclude, Fail, history
  <2>4. ASSUME NEW o \in Observers, Read(o) \/ Judge(o) \/ Mark(o) PROVE launches' = launches
    BY <2>4 DEF Read, Judge, Mark, history
  <2> QED
    BY <2>1, <2>3, <2>4 DEF Next
<1> QED
  BY <1>1, InvHolds, PTL DEF Spec, ReportedOver

(* FollowsOneShot: every step is one of the directory's steps or none.      *)
LEMMA StarterRefines ==
  ASSUME Inv, NEW s \in Starters, StarterStep(s) \/ StarterDies(s)
  PROVE  [Job!Next]_Job!vars
<1> USE DEF files, history
<1>1. CASE Freeze(s)
  <2>1. request = NoRequest /\ request' = starter[s].want /\ starter[s].want \in Requests
        /\ UNCHANGED <<record, launches>>
    BY <1>1 DEF Freeze, StarterAt, Inv, OwnerInv
  <2> QED
    BY <2>1 DEF Job!Next, Job!Own
<1>2. CASE Queue(s)
  <2>1. request # NoRequest /\ record = NoRecord /\ record' = Record("queued", NoWorker, "none")
        /\ UNCHANGED <<request, launches>>
    BY <1>2 DEF Queue, StarterAt, Inv, OwnerInv
  <2>2. record.life = "absent" /\ record'.life = "queued"
    BY <2>1, NoRecordFields, RecordFields
  <2> QED
    BY <2>1, <2>2 DEF Job!Next, Job!Open, TERMINAL
<1>3. CASE Recant(s)
  <2>1. record.life = "queued" /\ record' = Record("failed", NoWorker, "none")
        /\ UNCHANGED <<request, launches>>
    BY <1>3 DEF Recant, StarterAt, Inv, OwnerInv
  <2>2. record'.life = "failed"
    BY <2>1, RecordFields
  <2> QED
    BY <2>1, <2>2 DEF Job!Next, Job!Close, TERMINAL
<1>4. CASE UNCHANGED <<request, record, launches>>
  BY <1>4 DEF Job!vars
<1> QED
  BY <1>1, <1>2, <1>3, <1>4 DEF StarterStep, StarterDies, Begin, Look, Inspect, Empty, Mkdir, LaunchWorker

(* A worker's step is a step of the one-shot job or none.                   *)
LEMMA WorkerRefines ==
  ASSUME Inv, NEW w \in Workers,
         WorkerStep(w) \/ Relaunch(w) \/ ChildExits(w) \/ WorkerDies(w)
  PROVE  [Job!Next]_Job!vars
<1> USE DEF files, history
<1>1. CASE UNCHANGED <<request, record, launches>>
  BY <1>1 DEF Job!vars
<1>2. ASSUME NEW life \in {"working"} \cup TERMINAL, NEW result, worker[w].step \in Active,
             record' = Record(life, w, result), UNCHANGED <<request, launches>>
      PROVE  [Job!Next]_Job!vars
  <2>1. record.life \in {"queued", "working"} /\ record'.life = life
    BY <1>2, WhileActive, RecordFields
  <2>2. CASE life \in TERMINAL
    BY <1>2, <2>1, <2>2 DEF Job!Next, Job!Close, TERMINAL
  <2>3. CASE life = "working"
    BY <1>2, <2>1, <2>3 DEF Job!vars, TERMINAL
  <2> QED
    BY <2>2, <2>3
<1>3. CASE Announce(w) \/ SeeCancel(w) \/ SeeExit(w) \/ Conclude(w) \/ Fail(w)
  <2>1. worker[w].step \in Active /\ UNCHANGED <<request, launches>>
    BY <1>3 DEF Announce, SeeCancel, SeeExit, Conclude, Fail, WorkerAt, Active
  <2>2. record' = record \/ \E life \in {"working"} \cup TERMINAL, result \in {"none", "accepted", "refused"} :
                              record' = Record(life, w, result)
    <3>1. worker[w].result \in {"none", "accepted", "refused"} /\ worker[w].phase \in Phases
      BY TypeParts DEF Inv, WorkerStates
    <3> QED
      BY <1>3, <3>1 DEF Announce, SeeCancel, SeeExit, Conclude, Fail, TERMINAL, Phases
  <2> QED
    BY <1>1, <1>2, <2>1, <2>2
<1>4. CASE Launch(w) /\ launches' # launches
  <2>1. worker[w].step \in Active /\ worker[w].step = "launch" /\ worker[w].phase = "execution"
        /\ launches' = launches + 1 /\ UNCHANGED <<request, record>>
    BY <1>4 DEF Launch, WorkerAt, Active
  <2>2. launches = 0 /\ record.life \in {"queued", "working"}
    BY <2>1, WhileActive DEF Inv, ClaimInv
  <2> QED
    BY <2>1, <2>2 DEF Job!Next, Job!Dispatch, TERMINAL
<1> QED
  BY <1>1, <1>3, <1>4 DEF WorkerStep, Relaunch, ChildExits, WorkerDies, Claim, Refuse, PassCancel, Deadline, Launch

(* FollowsOneShot: whatever starts, workers and deaths do, one request is frozen, *)
(* one worker owns it and its command is launched at most once.             *)
THEOREM JobFollowsOneShot == Spec => FollowsOneShot
<1>1. Init => Job!Init
  BY NoRecordFields DEF Init, Job!Init
<1>2. Inv /\ [Next]_vars => [Job!Next]_Job!vars
  <2> SUFFICES ASSUME Inv, [Next]_vars PROVE [Job!Next]_Job!vars
    OBVIOUS
  <2>1. CASE UNCHANGED vars
    BY <2>1 DEF vars, files, history, Job!vars
  <2>2. ASSUME NEW o \in Observers, Read(o) \/ Judge(o) \/ Mark(o) PROVE [Job!Next]_Job!vars
    BY <2>2 DEF Read, Judge, Mark, files, history, Job!vars
  <2> QED
    BY <2>1, <2>2, StarterRefines, WorkerRefines DEF Next
<1> QED
  BY <1>1, <1>2, InvHolds, PTL DEF Spec, FollowsOneShot, Job!Spec
=============================================================================
