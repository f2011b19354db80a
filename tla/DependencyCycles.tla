--------------------------- MODULE DependencyCycles ---------------------------
(***************************************************************************)
(* task_queue._cycle_members: the depth-first search with which run_queue  *)
(* finds the jobs it blocks as "dependency-cycle".  A job is its position  *)
(* in the queue's list; a graph g gives every job the list of its          *)
(* dependencies, in the order of depends_on.  The recursion of visit() is  *)
(* the explicit path of a record, one step per call, return or dependency. *)
(***************************************************************************)
EXTENDS Integers, Sequences, FiniteSets, Functions

CONSTANT N        \* the number of jobs in the queue

ASSUME DependencyCyclesAssumption == N \in Nat

Nodes == 1 .. N

(***************************************************************************)
(* A configuration of the search: the next root of the outer loop, the     *)
(* path of open visit() calls, how many dependencies each open call has    *)
(* been through, the finished nodes and the members reported so far.  The  *)
(* code's set "visiting" always holds exactly the nodes of the path.       *)
(***************************************************************************)
Start ==
  [root |-> 1, path |-> <<>>, at |-> [n \in Nodes |-> 0], visited |-> {}, cycle |-> {}]

Visiting(c) == {c.path[k] : k \in 1 .. Len(c.path)}
Top(c) == c.path[Len(c.path)]

AtRoot(c) == c.path = <<>> /\ c.root <= N
HasDependency(g, c) == c.path # <<>> /\ c.at[Top(c)] < Len(g[Top(c)])
Exhausted(g, c) == c.path # <<>> /\ c.at[Top(c)] >= Len(g[Top(c)])
Finished(c) == c.path = <<>> /\ c.root > N

(* A call visit(n, path) that meets neither of its two early returns, with  *)
(* a loop of its own over the dependencies of n.                            *)
Open(c, n) == [c EXCEPT !.path = Append(@, n), !.at[n] = 0]

(* The outer loop: visit(node, []) for the next node of the graph.          *)
VisitRoot(c) ==
  LET d == [c EXCEPT !.root = @ + 1]
  IN  IF c.root \in c.visited THEN d ELSE Open(d, c.root)

\* Mutant: path.index(node) taken as 0, everything on the path is reported.
ClosedByWholePath(c, n) == {c.path[k] : k \in 1 .. Len(c.path)}

\* Mutant: path[path.index(node) + 1 :] when that slice is used one too late
\* at both ends, so that a cycle of two reports nobody.
ClosedByInner(c, n) ==
  {c.path[k] : k \in {l \in 1 .. Len(c.path) - 1 : \E f \in 1 .. l - 1 : c.path[f] = n}}

(* path[path.index(node) :], the part of the path a back edge closes.       *)
ClosedBy(c, n) ==
  {c.path[k] : k \in {l \in 1 .. Len(c.path) : \E f \in 1 .. l : c.path[f] = n}}

\* Mutant: a job on the path is visited again, the cycle is never closed.
VisitDependencyAgain(g, c) ==
  LET n == g[Top(c)][c.at[Top(c)] + 1]
      d == [c EXCEPT !.at[Top(c)] = @ + 1]
  IN  IF n \in c.visited THEN d ELSE Open(d, n)

(* The inner loop: visit(dependency, path) for the next dependency.         *)
VisitDependency(g, c) ==
  LET n == g[Top(c)][c.at[Top(c)] + 1]
      d == [c EXCEPT !.at[Top(c)] = @ + 1]
  IN  IF n \in Visiting(c) THEN [d EXCEPT !.cycle = @ \cup ClosedBy(c, n)]
      ELSE IF n \in c.visited THEN d
      ELSE Open(d, n)

(* The end of a call: the node leaves the path and is visited.              *)
Close(c) ==
  [c EXCEPT !.path = SubSeq(@, 1, Len(@) - 1), !.visited = @ \cup {Top(c)}]

Step(g, c) ==
  CASE AtRoot(c)           -> VisitRoot(c)
    [] HasDependency(g, c) -> VisitDependency(g, c)
    [] Exhausted(g, c)     -> Close(c)
    [] OTHER               -> c

(* Each node is a root once, is closed at most once and goes once through   *)
(* its list, so the search has ended after this many steps.                 *)
StepBound(g) == SumFunction([n \in Nodes |-> Len(g[n]) + 2])

(* after[k]: the one configuration after k steps, as a set.                 *)
Search(g) ==
  LET after[k \in 0 .. StepBound(g)] ==
        IF k = 0 THEN {Start} ELSE {Step(g, c) : c \in after[k - 1]}
  IN  CHOOSE c \in after[StepBound(g)] : TRUE

CycleMembers(g) == Search(g).cycle

-----------------------------------------------------------------------------
(* What the search is about: E gives each node the set of nodes it needs.   *)
Edges(g) == [n \in Nodes |-> Range(g[n])]

(* b can be reached from a by one or more edges: it lies in every set that  *)
(* holds what a needs and is closed under needs.                            *)
Reaches(E, a, b) ==
  \A S \in SUBSET Nodes : (E[a] \subseteq S /\ \A n \in S : E[n] \subseteq S) => b \in S

OnCycle(E, n) == Reaches(E, n, n)

(* The edges that are left without the nodes of C.                          *)
Without(E, C) == [n \in Nodes |-> IF n \in C THEN {} ELSE E[n] \ C]
=============================================================================
