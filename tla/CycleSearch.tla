----------------------------- MODULE CycleSearch -----------------------------
(***************************************************************************)
(* The search of DependencyCycles as a state machine, one step per call,   *)
(* return or dependency of visit(), for its own runs and proofs.           *)
(***************************************************************************)
EXTENDS DependencyCycles

CONSTANTS
  Graphs,           \* the dependency graphs the search starts from
  RecursionLimit    \* how many calls the interpreter lets it nest

ASSUME CycleSearchAssumption ==
  Graphs \subseteq [Nodes -> Seq(Nodes)] /\ RecursionLimit \in Nat

VARIABLES graph, dfs
vars == <<graph, dfs>>

Init == graph \in Graphs /\ dfs = Start

(* One call more than the limit is a RecursionError, which ends run_queue.  *)
MayCall == Len(dfs.path) < RecursionLimit

NextRoot == AtRoot(dfs) /\ MayCall /\ dfs' = VisitRoot(dfs) /\ UNCHANGED graph
NextDependency ==
  /\ HasDependency(graph, dfs) /\ MayCall
  /\ dfs' = VisitDependency(graph, dfs)
  /\ UNCHANGED graph
Return == Exhausted(graph, dfs) /\ dfs' = Close(dfs) /\ UNCHANGED graph

Next == NextRoot \/ NextDependency \/ Return

(* One thread runs the search to its end, so it never just stops.           *)
Spec == Init /\ [][Next]_vars /\ WF_vars(Next)

-----------------------------------------------------------------------------
TypeOK ==
  /\ graph \in [Nodes -> Seq(Nodes)]
  /\ dfs \in [root : 1 .. N + 1, path : Seq(Nodes), at : [Nodes -> Nat],
              visited : SUBSET Nodes, cycle : SUBSET Nodes]

(* Only members of a dependency cycle are ever reported: run_queue blocks   *)
(* no job as "dependency-cycle" that merely leads into one.                 *)
CycleSound == \A n \in dfs.cycle : OnCycle(Edges(graph), n)

(* When the search ends, every cycle has lost at least one member to the    *)
(* report: what is left of the graph is acyclic, so blocking the reported   *)
(* jobs leaves no set of jobs waiting on each other.  Not every member of a *)
(* cycle need be reported.  The report is what CycleMembers computes for    *)
(* the scheduler.                                                           *)
EveryCycleHit ==
  Finished(dfs) =>
    /\ dfs.cycle = CycleMembers(graph)
    /\ \A n \in Nodes \ dfs.cycle : ~ OnCycle(Without(Edges(graph), dfs.cycle), n)

(* Every visit() call returns, and the search of any graph ends without     *)
(* nesting more than N + 1 calls, the last of which finds a job again: the  *)
(* jobs on the path and the visited ones are not entered a second time.     *)
Terminates == <>Finished(dfs)
=============================================================================
