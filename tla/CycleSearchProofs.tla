-------------------------- MODULE CycleSearchProofs --------------------------
(***************************************************************************)
(* The search reports only members of dependency cycles and leaves no      *)
(* cycle without a reported member, for every number of jobs and every     *)
(* graph, and CycleMembers, with which the scheduler's model calls it, is  *)
(* what the search ends with.                                              *)
(* Sound: the path of open calls is a walk of the graph, so each of its    *)
(* nodes reaches the later ones, and a back edge closes everything from    *)
(* its target to the top.  Complete: a node that is closed unreported has  *)
(* seen all its dependencies closed before it, so no cycle that spares the *)
(* reported nodes comes back to it.  The end: the calls, dependencies and  *)
(* returns done so far add up to the number of steps taken.                *)
(* The library states induction for an operator, so the inductions here    *)
(* take a least counterexample instead.                                    *)
(***************************************************************************)
EXTENDS CycleSearch, FiniteSetTheorems, WellFoundedInduction, TLAPS

-----------------------------------------------------------------------------
(* Least counterexamples.                                                   *)

(* Every nonempty set of finite sets has a member with no proper subset in  *)
(* the set.                                                                 *)
LEMMA MinimalSubset ==
  ASSUME NEW U, IsFiniteSet(U), NEW T \in SUBSET SUBSET U, T # {}
  PROVE  \E m \in T : \A s \in T : s \subseteq m => s = m
<1>1. T \subseteq FiniteSubsetsOf(U)
  BY FS_Subset DEF FiniteSubsetsOf
<1>2. PICK m \in T : \A s \in T : <<s, m>> \notin StrictSubsetOrdering(U)
  BY <1>1, WFMin, FS_StrictSubsetOrderingWellFounded
<1> QED
  BY <1>2 DEF StrictSubsetOrdering

(* Every nonempty set of numbers has a least member.                        *)
LEMMA LeastNumber ==
  ASSUME NEW T \in SUBSET Nat, NEW b \in T
  PROVE  \E m \in T : \A k \in T : m <= k
<1> DEFINE All == 1 .. b
           Segments == {s \in SUBSET All : \E k \in T : s = 1 .. k}
<1>1. b \in Nat /\ IsFiniteSet(All) /\ All \in Segments
  BY FS_Interval
<1>2. PICK s \in Segments : \A r \in Segments : r \subseteq s => r = s
  <2>1. Segments \in SUBSET SUBSET All /\ Segments # {}
    BY <1>1
  <2> HIDE DEF All, Segments
  <2> QED
    BY <1>1, <2>1, MinimalSubset
<1>3. PICK m \in T : s = 1 .. m
  OBVIOUS
<1>4. ASSUME NEW k \in T, k < m PROVE FALSE
  <2>1. 1 .. k \subseteq 1 .. m /\ m \in 1 .. m /\ m \notin 1 .. k
    BY <1>4
  <2>2. 1 .. k \in Segments
    BY <1>3, <2>1
  <2> HIDE DEF Segments
  <2> QED
    BY <1>2, <1>3, <2>1, <2>2
<1> QED
  BY <1>4

-----------------------------------------------------------------------------
(* Sums over finite sets.                                                   *)

(* The member that the library's sum takes off first.                       *)
Pick(s) == CHOOSE x \in s : TRUE

(* It is one.                                                               *)
LEMMA PickIn == \A s : s # {} => Pick(s) \in s
  BY DEF Pick

(* sum is the function by which the library adds f up over the subsets of S.*)
IsSum(f, S, sum) ==
  sum = [s \in SUBSET S |-> IF s = {} THEN 0 ELSE f[Pick(s)] + sum[s \ {Pick(s)}]]

(* A sum is the value of some such function.                                *)
LEMMA SumDef ==
  ASSUME NEW f, NEW S
  PROVE SumFunctionOnSet(f, S) = (CHOOSE sum : IsSum(f, S, sum))[S]
  BY DEF IsSum, SumFunctionOnSet, FoldFunctionOnSet, MapThenFoldSet, Pick

(* Two such functions agree where both are defined.                         *)
LEMMA SumsAgree ==
  ASSUME NEW f, NEW A, NEW B, NEW a, NEW b, IsFiniteSet(A), IsSum(f, A, a), IsSum(f, B, b)
  PROVE  \A s \in SUBSET A : s \subseteq B => a[s] = b[s]
<1> DEFINE T == {s \in SUBSET A : s \subseteq B /\ a[s] # b[s]}
<1> SUFFICES ASSUME T # {} PROVE FALSE
  OBVIOUS
<1>1. \A s \in T : IsFiniteSet(s)
  BY FS_Subset
<1>2. PICK m \in T : \A s \in T : s \subseteq m => s = m
  <2>1. T \in SUBSET SUBSET A
    OBVIOUS
  <2> HIDE DEF T
  <2> QED
    BY <2>1, MinimalSubset
<1>3. a[m] = IF m = {} THEN 0 ELSE f[Pick(m)] + a[m \ {Pick(m)}]
  BY DEF IsSum
<1>4. b[m] = IF m = {} THEN 0 ELSE f[Pick(m)] + b[m \ {Pick(m)}]
  BY DEF IsSum
<1>5. m # {}
  BY <1>3, <1>4
<1>6. a[m \ {Pick(m)}] = b[m \ {Pick(m)}]
  BY <1>2, <1>5, PickIn
<1> QED
  BY <1>3, <1>4, <1>6

(* There is such a function for every finite set.                           *)
LEMMA SumExists ==
  ASSUME NEW f, NEW S, IsFiniteSet(S)
  PROVE  IsSum(f, S, CHOOSE sum : IsSum(f, S, sum))
<1> DEFINE T == {s \in SUBSET S : ~ \E sum : IsSum(f, s, sum)}
<1> SUFFICES ASSUME T # {} PROVE FALSE
  <2>1. S \in SUBSET S
    OBVIOUS
  <2> QED
    BY <2>1
<1>1. \A s \in SUBSET S : IsFiniteSet(s)
  BY FS_Subset
<1>2. PICK m \in T : \A s \in T : s \subseteq m => s = m
  <2>1. T \in SUBSET SUBSET S
    OBVIOUS
  <2> HIDE DEF T
  <2> QED
    BY <2>1, MinimalSubset
<1> DEFINE Sub(s) == CHOOSE sum : IsSum(f, s, sum)
           new == [s \in SUBSET m |->
                     IF s = {} THEN 0 ELSE f[Pick(s)] + Sub(s \ {Pick(s)})[s \ {Pick(s)}]]
<1>3. \A s \in SUBSET m : s # m => IsSum(f, s, Sub(s))
  BY <1>2
<1>4. ASSUME NEW s \in SUBSET m, s # m PROVE new[s] = Sub(s)[s]
  <2>1. IsSum(f, s, Sub(s)) /\ s \in SUBSET s
    BY <1>3, <1>4
  <2>2. Sub(s)[s] = IF s = {} THEN 0 ELSE f[Pick(s)] + Sub(s)[s \ {Pick(s)}]
    BY <2>1 DEF IsSum
  <2>3. CASE s # {}
    <3> DEFINE t == s \ {Pick(s)}
    <3>1. t \in SUBSET m /\ t # m /\ t \in SUBSET s /\ IsFiniteSet(t)
      BY <1>1, <1>2, <2>3, PickIn
    <3>2. IsSum(f, t, Sub(t))
      BY <1>3, <3>1
    <3>3. Sub(t)[t] = Sub(s)[t]
      <4> HIDE DEF Sub, t
      <4> QED
        BY <3>1, <3>2, <2>1, SumsAgree
    <3> QED
      BY <2>2, <2>3, <3>3
  <2> QED
    BY <2>2, <2>3
<1>5. ASSUME NEW s \in SUBSET m, s # {}
      PROVE  new[s \ {Pick(s)}] = Sub(s \ {Pick(s)})[s \ {Pick(s)}]
  <2>1. s \ {Pick(s)} \in SUBSET m /\ s \ {Pick(s)} # m
    BY <1>5, PickIn
  <2> QED
    BY <2>1, <1>4
<1>6. IsSum(f, m, new)
  <2>1. ASSUME NEW s \in SUBSET m
        PROVE  new[s] = IF s = {} THEN 0 ELSE f[Pick(s)] + new[s \ {Pick(s)}]
    <3>1. new[s] = IF s = {} THEN 0 ELSE f[Pick(s)] + Sub(s \ {Pick(s)})[s \ {Pick(s)}]
      OBVIOUS
    <3> HIDE DEF new, Sub
    <3> QED
      BY <1>5, <3>1
  <2>2. new = [s \in SUBSET m |-> new[s]]
    OBVIOUS
  <2> HIDE DEF new
  <2> QED
    BY <2>1, <2>2 DEF IsSum
<1> QED
  BY <1>2, <1>6

(* So a sum is that of one member and of the rest.                          *)
LEMMA SumRecursion ==
  ASSUME NEW f, NEW S, IsFiniteSet(S)
  PROVE  SumFunctionOnSet(f, S) =
           IF S = {} THEN 0 ELSE f[Pick(S)] + SumFunctionOnSet(f, S \ {Pick(S)})
<1> DEFINE Sub(s) == CHOOSE sum : IsSum(f, s, sum)
           t == S \ {Pick(S)}
<1>1. IsFiniteSet(t) /\ t \in SUBSET t /\ t \in SUBSET S
  BY FS_Subset
<1>2. IsSum(f, S, Sub(S)) /\ IsSum(f, t, Sub(t))
  BY <1>1, SumExists
<1>3. Sub(t)[t] = Sub(S)[t]
  <2> HIDE DEF Sub, t
  <2> QED
    BY <1>1, <1>2, SumsAgree
<1>4. Sub(S)[S] = IF S = {} THEN 0 ELSE f[Pick(S)] + Sub(S)[t]
  BY <1>2 DEF IsSum
<1> QED
  BY <1>3, <1>4, SumDef

(* Nothing adds up to zero.                                                 *)
LEMMA SumEmpty == \A f : SumFunctionOnSet(f, {}) = 0
  BY SumRecursion, FS_EmptySet

(* A sum of numbers is a number.                                            *)
LEMMA SumNat ==
  ASSUME NEW f, NEW S, IsFiniteSet(S), \A x \in S : f[x] \in Nat
  PROVE  SumFunctionOnSet(f, S) \in Nat
<1> DEFINE T == {s \in SUBSET S : SumFunctionOnSet(f, s) \notin Nat}
<1> SUFFICES ASSUME T # {} PROVE FALSE
  OBVIOUS
<1>1. T \subseteq SUBSET S /\ \A s \in T : IsFiniteSet(s)
  BY FS_Subset
<1>2. PICK m \in T : \A s \in T : s \subseteq m => s = m
  <2>1. T \in SUBSET SUBSET S
    OBVIOUS
  <2> HIDE DEF T
  <2> QED
    BY <2>1, MinimalSubset
<1>3. m # {}
  BY SumEmpty
<1>4. Pick(m) \in m /\ SumFunctionOnSet(f, m \ {Pick(m)}) \in Nat
  BY <1>2, <1>3, PickIn
<1> QED
  BY <1>1, <1>3, <1>4, SumRecursion

(* Any member can be taken off, not only the one that is picked.            *)
LEMMA SumRemove ==
  ASSUME NEW f, NEW S, IsFiniteSet(S), \A x \in S : f[x] \in Nat, NEW x \in S
  PROVE  SumFunctionOnSet(f, S) = f[x] + SumFunctionOnSet(f, S \ {x})
<1> DEFINE Bad(s, y) == SumFunctionOnSet(f, s) # f[y] + SumFunctionOnSet(f, s \ {y})
           T == {s \in SUBSET S : \E y \in s : Bad(s, y)}
<1> SUFFICES ASSUME T # {} PROVE FALSE
  OBVIOUS
<1>1. T \subseteq SUBSET S /\ \A s \in SUBSET S : IsFiniteSet(s)
  BY FS_Subset
<1>2. PICK m \in T : \A s \in T : s \subseteq m => s = m
  <2>1. T \in SUBSET SUBSET S
    OBVIOUS
  <2> HIDE DEF T
  <2> QED
    BY <2>1, MinimalSubset
<1>3. PICK y \in m : Bad(m, y)
  OBVIOUS
<1> DEFINE c == Pick(m)
<1>4. c \in m /\ SumFunctionOnSet(f, m) = f[c] + SumFunctionOnSet(f, m \ {c})
  BY <1>1, <1>3, SumRecursion, PickIn
<1> HIDE DEF c
<1>5. c # y
  BY <1>3, <1>4
<1>6. ~ Bad(m \ {c}, y) /\ ~ Bad(m \ {y}, c)
  <2>1. m \ {c} \notin T /\ m \ {y} \notin T /\ m \ {c} \in SUBSET S /\ m \ {y} \in SUBSET S
    BY <1>2, <1>4
  <2> QED
    BY <2>1, <1>4, <1>5
<1>7. (m \ {c}) \ {y} = (m \ {y}) \ {c}
  OBVIOUS
<1>8. /\ f[c] \in Nat /\ f[y] \in Nat
      /\ SumFunctionOnSet(f, (m \ {y}) \ {c}) \in Nat
  <2>1. (m \ {y}) \ {c} \in SUBSET S
    OBVIOUS
  <2> QED
    BY <1>1, <1>4, <2>1, SumNat
<1> QED
  BY <1>3, <1>4, <1>6, <1>7, <1>8

(* A sum depends only on the values at the members of its set.              *)
LEMMA SumSame ==
  ASSUME NEW f, NEW g, NEW S, IsFiniteSet(S), \A x \in S : f[x] = g[x]
  PROVE  SumFunctionOnSet(f, S) = SumFunctionOnSet(g, S)
<1> DEFINE T == {s \in SUBSET S : SumFunctionOnSet(f, s) # SumFunctionOnSet(g, s)}
<1> SUFFICES ASSUME T # {} PROVE FALSE
  OBVIOUS
<1>1. T \subseteq SUBSET S /\ \A s \in T : IsFiniteSet(s)
  BY FS_Subset
<1>2. PICK m \in T : \A s \in T : s \subseteq m => s = m
  <2>1. T \in SUBSET SUBSET S
    OBVIOUS
  <2> HIDE DEF T
  <2> QED
    BY <2>1, MinimalSubset
<1>3. m # {}
  BY SumEmpty
<1>4. /\ Pick(m) \in m
      /\ SumFunctionOnSet(f, m \ {Pick(m)}) = SumFunctionOnSet(g, m \ {Pick(m)})
  BY <1>2, <1>3, PickIn
<1> QED
  BY <1>1, <1>3, <1>4, SumRecursion

(* Smaller values have a smaller sum.                                       *)
LEMMA SumBelow ==
  ASSUME NEW f, NEW g, NEW S, IsFiniteSet(S),
         \A x \in S : f[x] \in Nat /\ g[x] \in Nat /\ f[x] <= g[x]
  PROVE  SumFunctionOnSet(f, S) <= SumFunctionOnSet(g, S)
<1> DEFINE T == {s \in SUBSET S : ~ SumFunctionOnSet(f, s) <= SumFunctionOnSet(g, s)}
<1> SUFFICES ASSUME T # {} PROVE FALSE
  OBVIOUS
<1>1. T \subseteq SUBSET S /\ \A s \in SUBSET S : IsFiniteSet(s)
  BY FS_Subset
<1>2. PICK m \in T : \A s \in T : s \subseteq m => s = m
  <2>1. T \in SUBSET SUBSET S
    OBVIOUS
  <2> HIDE DEF T
  <2> QED
    BY <2>1, MinimalSubset
<1>3. m # {}
  BY SumEmpty
<1> DEFINE c == Pick(m)
<1>4. c \in m /\ m \ {c} \in SUBSET S
  BY <1>3, PickIn
<1>5. /\ SumFunctionOnSet(f, m) = f[c] + SumFunctionOnSet(f, m \ {c})
      /\ SumFunctionOnSet(g, m) = g[c] + SumFunctionOnSet(g, m \ {c})
  BY <1>1, <1>3, SumRecursion
<1>6. SumFunctionOnSet(f, m \ {c}) <= SumFunctionOnSet(g, m \ {c})
  BY <1>2, <1>4
<1>7. SumFunctionOnSet(f, m \ {c}) \in Nat /\ SumFunctionOnSet(g, m \ {c}) \in Nat
  BY <1>1, <1>4, SumNat
<1> HIDE DEF c
<1> QED
  BY <1>4, <1>5, <1>6, <1>7

(* A sum of nothings is nothing.                                            *)
LEMMA SumZero ==
  ASSUME NEW f, NEW S, IsFiniteSet(S), \A x \in S : f[x] = 0
  PROVE  SumFunctionOnSet(f, S) = 0
<1> DEFINE T == {s \in SUBSET S : SumFunctionOnSet(f, s) # 0}
<1> SUFFICES ASSUME T # {} PROVE FALSE
  OBVIOUS
<1>1. PICK m \in T : \A s \in T : s \subseteq m => s = m
  <2>1. T \in SUBSET SUBSET S
    OBVIOUS
  <2> HIDE DEF T
  <2> QED
    BY <2>1, MinimalSubset
<1>2. m # {} /\ IsFiniteSet(m)
  BY SumEmpty, FS_Subset
<1>3. Pick(m) \in m /\ SumFunctionOnSet(f, m \ {Pick(m)}) = 0
  BY <1>1, <1>2, PickIn
<1> QED
  BY <1>2, <1>3, SumRecursion

-----------------------------------------------------------------------------
(* Reaching.                                                                *)

DependencyGraphs == [Nodes -> Seq(Nodes)]

(* Edges of a graph lead to nodes, and each dependency is one of them.      *)
LEMMA EdgesTyped ==
  ASSUME NEW g \in DependencyGraphs
  PROVE  /\ Edges(g) \in [Nodes -> SUBSET Nodes]
         /\ \A n \in Nodes : Len(g[n]) \in Nat
         /\ \A n \in Nodes, i \in Nat :
              i \in 1 .. Len(g[n]) => g[n][i] \in Nodes /\ g[n][i] \in Edges(g)[n]
         /\ \A n \in Nodes : \A m \in Edges(g)[n] : \E i \in 1 .. Len(g[n]) : m = g[n][i]
  BY DEF DependencyGraphs, Edges, Range

(* An edge is a way to reach.                                               *)
LEMMA EdgeReaches ==
  ASSUME NEW E, NEW a, NEW b \in E[a]
  PROVE  Reaches(E, a, b)
  BY DEF Reaches

(* Reaching is transitive.                                                  *)
LEMMA ReachesTransitive ==
  ASSUME NEW E, NEW a, NEW b, NEW c, Reaches(E, a, b), Reaches(E, b, c)
  PROVE  Reaches(E, a, c)
  BY DEF Reaches

(* Fewer edges reach less.                                                  *)
LEMMA FewerReachLess ==
  ASSUME NEW D, NEW E, NEW a \in Nodes, NEW b, \A n \in Nodes : D[n] \subseteq E[n],
         Reaches(D, a, b)
  PROVE  Reaches(E, a, b)
  BY DEF Reaches

(* What leads only into a closed set without it is on no cycle.             *)
LEMMA OffCycle ==
  ASSUME NEW E, NEW n, NEW S \in SUBSET Nodes, n \notin S,
         E[n] \subseteq S, \A m \in S : E[m] \subseteq S
  PROVE  ~ OnCycle(E, n)
  BY DEF OnCycle, Reaches

(* Nodes that each need another of them have a cycle among them.            *)
LEMMA NeedsMakeCycle ==
  ASSUME NEW E, NEW S \in SUBSET Nodes, S # {}, \A n \in S : E[n] \cap S # {}
  PROVE  \E n \in S : OnCycle(E, n)
<1> DEFINE T == {s \in SUBSET S : s # {} /\ \A n \in s : E[n] \cap s # {}}
<1>1. PICK m \in T : \A s \in T : s \subseteq m => s = m
  <2>1. IsFiniteSet(S)
    <3>1. IsFiniteSet(Nodes)
      BY DependencyCyclesAssumption, FS_Interval DEF Nodes
    <3> QED
      BY <3>1, FS_Subset
  <2>2. T \in SUBSET SUBSET S /\ S \in T
    OBVIOUS
  <2> HIDE DEF T
  <2> QED
    BY <2>1, <2>2, MinimalSubset
<1>2. PICK n \in m : TRUE
  OBVIOUS
<1> DEFINE r == {k \in m : Reaches(E, n, k)}
<1>3. \A k \in m : (k = n \/ Reaches(E, n, k)) => E[k] \cap r # {}
  <2> SUFFICES ASSUME NEW k \in m, k = n \/ Reaches(E, n, k) PROVE E[k] \cap r # {}
    OBVIOUS
  <2>1. PICK l \in m : l \in E[k]
    BY <1>1
  <2>2. Reaches(E, n, l)
    BY <2>1, EdgeReaches, ReachesTransitive
  <2> QED
    BY <2>1, <2>2
<1>4. r \in T
  BY <1>1, <1>2, <1>3
<1>5. r = m
  <2> HIDE DEF T
  <2> QED
    BY <1>1, <1>4
<1> QED
  BY <1>2, <1>5 DEF OnCycle

-----------------------------------------------------------------------------
(* The invariant of a configuration c of the search of g.                   *)

(* What a configuration is made of.                                         *)
Configurations == [root : 1 .. N + 1, path : Seq(Nodes), at : [Nodes -> Nat],
                   visited : SUBSET Nodes, cycle : SUBSET Nodes]

(* Every node of the path reaches the nodes opened after it.                *)
PathReaches(g, c) ==
  \A k, l \in 1 .. Len(c.path) : k < l => Reaches(Edges(g), c.path[k], c.path[l])

(* A node is opened once: the path repeats none and holds no visited one.   *)
OpenedOnce(c) ==
  /\ \A k, l \in 1 .. Len(c.path) : c.path[k] = c.path[l] => k = l
  /\ \A k \in 1 .. Len(c.path) : c.path[k] \notin c.visited

(* How far each call has gone through its list.                             *)
Counted(g, c) ==
  \A n \in Nodes :
    /\ c.at[n] <= Len(g[n])
    /\ n \in c.visited => c.at[n] = Len(g[n])
    /\ n \notin c.visited /\ n \notin Visiting(c) => c.at[n] = 0

(* The outer loop has opened or met every root before the next one.         *)
RootsMet(c) == \A n \in Nodes : n < c.root => n \in c.visited \/ n \in Visiting(c)

(* An open call has left behind only visited dependencies, unless it is     *)
(* reported; the one it waits for is the next on the path.                  *)
Behind(g, c) ==
  \A k \in 1 .. Len(c.path) : \A i \in Nat :
    i \in 1 .. c.at[c.path[k]] =>
      \/ g[c.path[k]][i] \in c.visited
      \/ c.path[k] \in c.cycle
      \/ k < Len(c.path) /\ g[c.path[k]][i] = c.path[k + 1]

Reported(g, c) == \A n \in c.cycle : OnCycle(Edges(g), n)

(* A visited node that is not reported needs only visited nodes, and lies   *)
(* on no cycle that spares the reported ones.                               *)
Cleared(g, c) ==
  \A n \in c.visited \ c.cycle :
    /\ Edges(g)[n] \subseteq c.visited
    /\ ~ OnCycle(Without(Edges(g), c.cycle), n)

(* All of it.                                                               *)
SearchInv(g, c) ==
  /\ c \in Configurations
  /\ PathReaches(g, c) /\ OpenedOnce(c) /\ Counted(g, c) /\ RootsMet(c)
  /\ Behind(g, c) /\ Reported(g, c) /\ Cleared(g, c)

(* The top of a path.                                                       *)
LEMMA TopIsLast ==
  ASSUME NEW c \in Configurations, c.path # <<>>
  PROVE  /\ Len(c.path) \in Nat /\ Len(c.path) >= 1
         /\ Len(c.path) \in 1 .. Len(c.path)
         /\ Top(c) = c.path[Len(c.path)] /\ Top(c) \in Nodes /\ Top(c) \in Visiting(c)
         /\ \A k \in 1 .. Len(c.path) : c.path[k] \in Nodes
  BY DEF Configurations, Top, Visiting

(* The dependency that the top looks at next is one of its edges.           *)
LEMMA NextIsEdge ==
  ASSUME NEW g \in DependencyGraphs, NEW c \in Configurations, HasDependency(g, c),
         NEW n, n = g[Top(c)][c.at[Top(c)] + 1]
  PROVE  /\ n \in Nodes /\ n \in Edges(g)[Top(c)]
         /\ c.at[Top(c)] \in Nat /\ c.at[Top(c)] + 1 <= Len(g[Top(c)])
<1>1. c.path # <<>> /\ Top(c) \in Nodes
  BY TopIsLast DEF HasDependency
<1>2. c.at[Top(c)] \in Nat /\ c.at[Top(c)] < Len(g[Top(c)]) /\ Len(g[Top(c)]) \in Nat
  BY <1>1, EdgesTyped DEF HasDependency, Configurations
<1> QED
  BY <1>1, <1>2, EdgesTyped

(* The search starts with nothing done.                                     *)
LEMMA StartInv ==
  ASSUME NEW g \in DependencyGraphs
  PROVE  SearchInv(g, Start)
<1>1. Start \in Configurations
  BY DependencyCyclesAssumption DEF Start, Configurations, Nodes
<1>2. Counted(g, Start)
  BY EdgesTyped DEF Counted, Start
<1> QED
  BY <1>1, <1>2 DEF Start, SearchInv, PathReaches, OpenedOnce, RootsMet, Behind, Reported,
       Cleared, Nodes

(* The call for n comes from the outer loop, or from the top's list.        *)
Calls(g, c, d, n) ==
  \/ c.path = <<>> /\ n = c.root /\ d.root = c.root + 1 /\ d.at = c.at
  \/ /\ HasDependency(g, c) /\ n = g[Top(c)][c.at[Top(c)] + 1]
     /\ d.root = c.root /\ d.at = [c.at EXCEPT ![Top(c)] = @ + 1]

(* Opening a call, for a root or for a dependency.                          *)
LEMMA OpenInv ==
  ASSUME NEW g \in DependencyGraphs, NEW c, SearchInv(g, c), NEW d \in Configurations,
         NEW n \in Nodes, n \notin c.visited, n \notin Visiting(c),
         d.path = Append(c.path, n), d.visited = c.visited, d.cycle = c.cycle,
         Calls(g, c, d, n)
  PROVE  SearchInv(g, d)
<1> DEFINE m == Len(c.path)
<1>1. c \in Configurations /\ c.path \in Seq(Nodes) /\ m \in Nat
  BY DEF SearchInv, Configurations
<1>2. /\ Len(d.path) = m + 1 /\ d.path[m + 1] = n
      /\ \A k \in 1 .. m : d.path[k] = c.path[k] /\ c.path[k] \in Nodes
  BY <1>1
<1>3. Visiting(d) = Visiting(c) \cup {n}
  BY <1>1, <1>2 DEF Visiting
<1>4. c.path # <<>> =>
        /\ m \in 1 .. m /\ Top(c) = c.path[m] /\ Top(c) \in Nodes /\ Top(c) \in Visiting(c)
        /\ n \in Edges(g)[Top(c)] /\ n = g[Top(c)][c.at[Top(c)] + 1]
        /\ c.at[Top(c)] \in Nat /\ c.at[Top(c)] + 1 <= Len(g[Top(c)])
        /\ d.root = c.root /\ d.at = [c.at EXCEPT ![Top(c)] = @ + 1]
  BY <1>1, TopIsLast, NextIsEdge DEF Calls
<1>0. c.path = <<>> => n = c.root /\ d.root = c.root + 1 /\ d.at = c.at
  BY DEF Calls, HasDependency
<1> HIDE DEF m
<1>5. PathReaches(g, d)
  <2> SUFFICES ASSUME NEW k \in 1 .. m, NEW l \in 1 .. m + 1, k < l
               PROVE  Reaches(Edges(g), d.path[k], d.path[l])
    BY <1>1, <1>2 DEF PathReaches
  <2>1. CASE l \in 1 .. m
    BY <2>1, <1>2 DEF SearchInv, PathReaches, m
  <2>2. CASE l = m + 1
    <3>1. c.path # <<>> /\ Reaches(Edges(g), Top(c), n)
      BY <1>1, <1>4, EdgeReaches DEF m
    <3>2. k = m \/ Reaches(Edges(g), c.path[k], Top(c))
      BY <1>1, <1>4, <3>1 DEF SearchInv, PathReaches, m
    <3> QED
      BY <1>2, <1>4, <2>2, <3>1, <3>2, ReachesTransitive
  <2>3. l \in 1 .. m \/ l = m + 1
    BY <1>1
  <2> QED
    BY <2>1, <2>2, <2>3
<1>6. OpenedOnce(d)
  BY <1>1, <1>2 DEF SearchInv, OpenedOnce, Visiting, m
<1>7. Counted(g, d)
  <2> SUFFICES ASSUME NEW j \in Nodes
               PROVE  /\ d.at[j] <= Len(g[j])
                      /\ j \in c.visited => d.at[j] = Len(g[j])
                      /\ j \notin c.visited /\ j \notin Visiting(d) => d.at[j] = 0
    BY DEF Counted
  <2>1. /\ c.at[j] <= Len(g[j])
        /\ j \in c.visited => c.at[j] = Len(g[j])
        /\ j \notin c.visited /\ j \notin Visiting(c) => c.at[j] = 0
    BY DEF SearchInv, Counted
  <2>2. c.path # <<>> => Top(c) \notin c.visited
    BY <1>4 DEF SearchInv, OpenedOnce, m
  <2>3. \/ d.at = c.at
        \/ c.path # <<>> /\ d.at = [c.at EXCEPT ![Top(c)] = c.at[Top(c)] + 1]
    BY <1>0, <1>4
  <2>4. c.at \in [Nodes -> Nat]
    BY <1>1 DEF Configurations
  <2> QED
    BY <1>3, <1>4, <2>1, <2>2, <2>3, <2>4
<1>8. RootsMet(d)
  <2> SUFFICES ASSUME NEW j \in Nodes, j < d.root PROVE j \in c.visited \/ j \in Visiting(d)
    BY DEF RootsMet
  <2>1. j < c.root \/ j = n
    BY <1>0, <1>1, <1>4 DEF Configurations, Nodes
  <2> QED
    BY <1>3, <2>1 DEF SearchInv, RootsMet
<1>9. Behind(g, d)
  <2> SUFFICES ASSUME NEW k \in 1 .. m + 1, NEW i \in Nat, i \in 1 .. d.at[d.path[k]]
               PROVE  \/ g[d.path[k]][i] \in c.visited
                      \/ d.path[k] \in c.cycle
                      \/ k < m + 1 /\ g[d.path[k]][i] = d.path[k + 1]
    BY <1>2 DEF Behind
  <2>0. c.at \in [Nodes -> Nat]
    BY <1>1 DEF Configurations
  <2>1. CASE k = m + 1
    <3>1. d.at[n] = 0
      <4>1. c.at[n] = 0
        BY DEF SearchInv, Counted
      <4>2. c.path # <<>> => n # Top(c)
        BY <1>4
      <4> QED
        BY <1>0, <1>4, <2>0, <4>1, <4>2
    <3> QED
      BY <1>2, <2>1, <3>1
  <2>2. CASE k \in 1 .. m /\ i \in 1 .. c.at[c.path[k]]
    <3>1. \/ g[c.path[k]][i] \in c.visited
          \/ c.path[k] \in c.cycle
          \/ k < m /\ g[c.path[k]][i] = c.path[k + 1]
      BY <2>2 DEF SearchInv, Behind, m
    <3> QED
      BY <1>1, <1>2, <2>2, <3>1
  <2>3. CASE k \in 1 .. m /\ i \notin 1 .. c.at[c.path[k]]
    <3>1. c.path # <<>>
      BY <1>1, <2>3 DEF m
    <3>2. d.path[k] = Top(c) /\ i = c.at[Top(c)] + 1
      <4>1. d.path[k] = c.path[k] /\ c.path[k] \in Nodes
        BY <1>2, <2>3
      <4>2. c.at[c.path[k]] \in Nat /\ d.at[c.path[k]] # c.at[c.path[k]]
        BY <2>0, <2>3, <4>1
      <4>3. c.path[k] = Top(c)
        BY <1>4, <2>0, <3>1, <4>1, <4>2
      <4>4. d.at[Top(c)] = c.at[Top(c)] + 1
        BY <1>4, <2>0, <3>1
      <4> QED
        BY <2>3, <4>1, <4>2, <4>3, <4>4
    <3>3. k = m
      BY <1>2, <1>4, <2>3, <3>1, <3>2 DEF SearchInv, OpenedOnce, m
    <3> QED
      BY <1>1, <1>2, <1>4, <3>1, <3>2, <3>3
  <2>4. k \in 1 .. m \/ k = m + 1
    BY <1>1
  <2> QED
    BY <2>1, <2>2, <2>3, <2>4
<1>10. Reported(g, d) /\ Cleared(g, d)
  BY DEF SearchInv, Reported, Cleared
<1> QED
  BY <1>5, <1>6, <1>7, <1>8, <1>9, <1>10 DEF SearchInv

(* The outer loop meets a root it has visited.                              *)
LEMMA SkipInv ==
  ASSUME NEW g \in DependencyGraphs, NEW c, SearchInv(g, c), NEW d \in Configurations,
         c.root \in c.visited, d.root = c.root + 1,
         d.path = c.path, d.at = c.at, d.visited = c.visited, d.cycle = c.cycle
  PROVE  SearchInv(g, d)
<1>1. c \in Configurations
  BY DEF SearchInv
<1>2. RootsMet(d)
  <2> SUFFICES ASSUME NEW j \in Nodes, j < d.root PROVE j \in d.visited \/ j \in Visiting(d)
    BY DEF RootsMet
  <2>1. j < c.root \/ j = c.root
    BY <1>1 DEF Configurations, Nodes
  <2> QED
    BY <2>1 DEF SearchInv, RootsMet, Visiting
<1>3. PathReaches(g, d) /\ OpenedOnce(d)
  BY DEF SearchInv, PathReaches, OpenedOnce
<1>4. Counted(g, d)
  BY DEF SearchInv, Counted, Visiting
<1>5. Behind(g, d)
  <2>1. Behind(g, c)
    BY DEF SearchInv
  <2> SUFFICES ASSUME NEW k \in 1 .. Len(c.path), NEW i \in Nat, i \in 1 .. c.at[c.path[k]]
               PROVE  \/ g[c.path[k]][i] \in c.visited
                      \/ c.path[k] \in c.cycle
                      \/ k < Len(c.path) /\ g[c.path[k]][i] = c.path[k + 1]
    BY DEF Behind
  <2> QED
    BY <2>1 DEF Behind
<1>6. Reported(g, d) /\ Cleared(g, d)
  BY DEF SearchInv, Reported, Cleared
<1> QED
  BY <1>2, <1>3, <1>4, <1>5, <1>6 DEF SearchInv

(* What a back edge from the top closes lies on a cycle.                    *)
LEMMA ClosedByOnCycle ==
  ASSUME NEW g \in DependencyGraphs, NEW c \in Configurations, PathReaches(g, c),
         c.path # <<>>, NEW n \in Edges(g)[Top(c)], NEW j \in ClosedBy(c, n)
  PROVE  j \in Nodes /\ OnCycle(Edges(g), j)
<1> DEFINE m == Len(c.path)
<1>1. PICK l \in 1 .. m : c.path[l] = j /\ \E f \in 1 .. l : c.path[f] = n
  BY DEF ClosedBy
<1>2. PICK f \in 1 .. l : c.path[f] = n
  BY <1>1
<1>3. /\ m \in 1 .. m /\ Top(c) = c.path[m] /\ m \in Nat
      /\ f \in 1 .. m /\ f <= l /\ l <= m /\ j \in Nodes
  BY <1>1, <1>2, TopIsLast
<1>4. Reaches(Edges(g), Top(c), n)
  BY EdgeReaches
<1>5. j = n \/ Reaches(Edges(g), n, j)
  BY <1>1, <1>2, <1>3 DEF PathReaches
<1>6. Reaches(Edges(g), Top(c), j)
  BY <1>4, <1>5, ReachesTransitive
<1>7. j = Top(c) \/ Reaches(Edges(g), j, Top(c))
  BY <1>1, <1>3 DEF PathReaches
<1> QED
  BY <1>3, <1>6, <1>7, ReachesTransitive DEF OnCycle

(* A call looks at a dependency that is visited, or closes a cycle.         *)
LEMMA LookInv ==
  ASSUME NEW g \in DependencyGraphs, NEW c, SearchInv(g, c), NEW d \in Configurations,
         HasDependency(g, c), NEW n, n = g[Top(c)][c.at[Top(c)] + 1],
         d.root = c.root, d.path = c.path, d.visited = c.visited,
         d.at = [c.at EXCEPT ![Top(c)] = @ + 1],
         \/ n \in c.visited /\ d.cycle = c.cycle
         \/ n \in Visiting(c) /\ d.cycle = c.cycle \cup ClosedBy(c, n)
  PROVE  SearchInv(g, d)
<1> DEFINE m == Len(c.path)
<1>1. /\ c \in Configurations /\ c.path # <<>> /\ c.at \in [Nodes -> Nat]
      /\ m \in 1 .. m /\ m \in Nat /\ Top(c) = c.path[m] /\ Top(c) \in Nodes
      /\ Top(c) \in Visiting(c)
      /\ \A k \in 1 .. m : c.path[k] \in Nodes
  <2>1. c \in Configurations /\ c.path # <<>>
    BY DEF SearchInv, HasDependency
  <2> QED
    BY <2>1, TopIsLast DEF Configurations
<1>2. /\ n \in Edges(g)[Top(c)] /\ c.at[Top(c)] \in Nat
      /\ c.at[Top(c)] + 1 <= Len(g[Top(c)])
  BY <1>1, NextIsEdge
<1>3. Top(c) \notin c.visited /\ Visiting(d) = Visiting(c)
  <2>1. \A k \in 1 .. m : c.path[k] \notin c.visited
    BY DEF SearchInv, OpenedOnce
  <2>2. Visiting(d) = Visiting(c)
    BY DEF Visiting
  <2> HIDE DEF m
  <2> QED
    BY <1>1, <2>1, <2>2
<1>4. PathReaches(g, d) /\ OpenedOnce(d) /\ RootsMet(d)
  BY <1>3 DEF SearchInv, PathReaches, OpenedOnce, RootsMet
<1>5. Counted(g, d)
  BY <1>1, <1>2, <1>3 DEF SearchInv, Counted
<1>6. c.cycle \subseteq d.cycle /\ (n \in c.visited \/ Top(c) \in d.cycle)
  <2>1. CASE n \in Visiting(c) /\ d.cycle = c.cycle \cup ClosedBy(c, n)
    <3>1. PICK f \in 1 .. m : c.path[f] = n
      BY <2>1 DEF Visiting
    <3>2. m \in {l \in 1 .. m : \E e \in 1 .. l : c.path[e] = n}
      BY <1>1, <3>1
    <3>3. Top(c) \in ClosedBy(c, n)
      BY <1>1, <3>2 DEF ClosedBy
    <3> QED
      BY <2>1, <3>3
  <2> QED
    BY <2>1
<1>7. Reported(g, d)
  BY <1>1, <1>2, ClosedByOnCycle DEF SearchInv, Reported
<1>8. Behind(g, d)
  <2> SUFFICES ASSUME NEW k \in 1 .. m, NEW i \in Nat, i \in 1 .. d.at[c.path[k]]
               PROVE  \/ g[c.path[k]][i] \in c.visited
                      \/ c.path[k] \in d.cycle
                      \/ k < m /\ g[c.path[k]][i] = c.path[k + 1]
    BY DEF Behind
  <2>1. CASE i \in 1 .. c.at[c.path[k]]
    BY <1>6, <2>1 DEF SearchInv, Behind
  <2>2. CASE i \notin 1 .. c.at[c.path[k]]
    <3>1. c.path[k] = Top(c) /\ i = c.at[Top(c)] + 1
      BY <1>1, <1>2, <2>2
    <3> QED
      BY <1>6, <3>1
  <2> QED
    BY <2>1, <2>2
<1>9. Cleared(g, d)
  <2> SUFFICES ASSUME NEW j \in c.visited \ d.cycle
               PROVE  /\ Edges(g)[j] \subseteq c.visited
                      /\ ~ OnCycle(Without(Edges(g), d.cycle), j)
    BY DEF Cleared
  <2>1. /\ j \in Nodes /\ Edges(g)[j] \subseteq c.visited
        /\ ~ OnCycle(Without(Edges(g), c.cycle), j)
    BY <1>1, <1>6 DEF SearchInv, Cleared, Configurations
  <2>2. \A a \in Nodes :
          Without(Edges(g), d.cycle)[a] \subseteq Without(Edges(g), c.cycle)[a]
    BY <1>6 DEF Without
  <2> QED
    BY <2>1, <2>2, FewerReachLess DEF OnCycle
<1> QED
  BY <1>4, <1>5, <1>7, <1>8, <1>9 DEF SearchInv

(* A call returns.                                                          *)
LEMMA CloseInv ==
  ASSUME NEW g \in DependencyGraphs, NEW c, SearchInv(g, c), Exhausted(g, c),
         NEW d \in Configurations, d.root = c.root, d.at = c.at, d.cycle = c.cycle,
         d.path = SubSeq(c.path, 1, Len(c.path) - 1), d.visited = c.visited \cup {Top(c)}
  PROVE  SearchInv(g, d)
<1> DEFINE m == Len(c.path)
           t == Top(c)
<1>1. /\ c \in Configurations /\ c.path # <<>> /\ c.at \in [Nodes -> Nat]
      /\ c.visited \subseteq Nodes /\ c.path \in Seq(Nodes)
      /\ m \in 1 .. m /\ m \in Nat /\ t = c.path[m] /\ t \in Nodes /\ t \in Visiting(c)
      /\ \A k \in 1 .. m : c.path[k] \in Nodes
  <2>1. c \in Configurations /\ c.path # <<>>
    BY DEF SearchInv, Exhausted
  <2> QED
    BY <2>1, TopIsLast DEF Configurations
<1>2. Len(d.path) = m - 1 /\ \A k \in 1 .. m - 1 : k \in 1 .. m /\ d.path[k] = c.path[k]
  BY <1>1
<1>3. t \notin c.visited /\ Len(g[t]) \in Nat /\ c.at[t] = Len(g[t])
  <2>1. t \notin c.visited
    BY <1>1 DEF SearchInv, OpenedOnce
  <2>2. c.at[t] <= Len(g[t]) /\ c.at[t] >= Len(g[t])
    BY <1>1 DEF SearchInv, Counted, Exhausted
  <2>3. Len(g[t]) \in Nat /\ c.at[t] \in Nat
    BY <1>1, EdgesTyped
  <2> QED
    BY <2>1, <2>2, <2>3
<1>4. Visiting(c) = Visiting(d) \cup {t}
  <2>1. \A k \in 1 .. m : k = m \/ k \in 1 .. m - 1
    BY <1>1
  <2> HIDE DEF m, t
  <2>2. Visiting(c) \subseteq Visiting(d) \cup {t}
    BY <1>1, <1>2, <2>1 DEF Visiting, m
  <2>3. Visiting(d) \subseteq Visiting(c)
    BY <1>2 DEF Visiting, m
  <2> QED
    BY <1>1, <2>2, <2>3
<1>5. PathReaches(g, d)
  BY <1>1, <1>2 DEF SearchInv, PathReaches
<1>6. OpenedOnce(d)
  <2>0. \A k, l \in 1 .. m : c.path[k] = c.path[l] => k = l
    BY DEF SearchInv, OpenedOnce
  <2>1. \A k \in 1 .. m : c.path[k] \notin c.visited
    BY DEF SearchInv, OpenedOnce
  <2>2. \A k \in 1 .. m - 1 : k \in 1 .. m /\ k # m
    BY <1>1
  <2>3. \A k \in 1 .. m - 1 : c.path[k] \notin c.visited \cup {t}
    BY <1>1, <2>0, <2>1, <2>2
  <2>4. d.visited = c.visited \cup {t}
    OBVIOUS
  <2> HIDE DEF m, t
  <2> QED
    BY <1>2, <2>0, <2>3, <2>4 DEF OpenedOnce
<1>7. Counted(g, d) /\ RootsMet(d)
  BY <1>3, <1>4 DEF SearchInv, Counted, RootsMet
<1>8. Behind(g, d)
  <2> HIDE DEF m, t
  <2>0. SUFFICES ASSUME NEW k \in 1 .. m - 1, NEW i \in Nat, i \in 1 .. c.at[c.path[k]]
                 PROVE  \/ g[c.path[k]][i] \in d.visited
                        \/ c.path[k] \in c.cycle
                        \/ k < m - 1 /\ g[c.path[k]][i] = d.path[k + 1]
    BY <1>2 DEF Behind
  <2>1. \/ g[c.path[k]][i] \in c.visited
        \/ c.path[k] \in c.cycle
        \/ g[c.path[k]][i] = c.path[k + 1]
    BY <1>2, <2>0 DEF SearchInv, Behind, m
  <2>2. k + 1 = m \/ (k < m - 1 /\ k + 1 \in 1 .. m - 1)
    BY <1>1
  <2>3. d.visited = c.visited \cup {t}
    BY DEF t
  <2>4. k + 1 = m => c.path[k + 1] = t
    BY <1>1
  <2>5. k + 1 \in 1 .. m - 1 => d.path[k + 1] = c.path[k + 1]
    BY <1>2
  <2> QED
    BY <2>1, <2>2, <2>3, <2>4, <2>5
<1>9. Reported(g, d)
  BY DEF SearchInv, Reported
<1>10. t \notin c.cycle => Edges(g)[t] \subseteq c.visited
  <2> SUFFICES ASSUME t \notin c.cycle, NEW j \in Edges(g)[t] PROVE j \in c.visited
    OBVIOUS
  <2>1. PICK i \in 1 .. Len(g[t]) : j = g[t][i]
    BY <1>1, EdgesTyped
  <2>2. i \in Nat /\ i \in 1 .. c.at[c.path[m]]
    BY <1>1, <1>3, <2>1
  <2>3. \/ g[c.path[m]][i] \in c.visited
        \/ c.path[m] \in c.cycle
        \/ m < m
    BY <1>1, <2>2 DEF SearchInv, Behind
  <2> QED
    BY <1>1, <2>1, <2>3
<1>11. Cleared(g, d)
  <2> DEFINE E == Without(Edges(g), c.cycle)
  <2>1. \A j \in Nodes : E[j] = IF j \in c.cycle THEN {} ELSE Edges(g)[j] \ c.cycle
    BY DEF Without
  <2>2. ASSUME t \notin c.cycle PROVE ~ OnCycle(E, t)
    <3> DEFINE S == c.visited \ c.cycle
    <3>1. S \in SUBSET Nodes /\ t \notin S /\ E[t] \subseteq S
      BY <1>1, <1>3, <1>10, <2>1, <2>2
    <3>2. \A j \in S : E[j] \subseteq S
      <4>1. \A j \in S : Edges(g)[j] \subseteq c.visited
        BY DEF SearchInv, Cleared
      <4>2. S \subseteq Nodes
        BY <1>1
      <4> HIDE DEF E
      <4> QED
        BY <2>1, <4>1, <4>2
    <3> HIDE DEF E, S
    <3> QED
      BY <3>1, <3>2, OffCycle
  <2> QED
    BY <1>10, <2>2 DEF SearchInv, Cleared
<1> QED
  BY <1>5, <1>6, <1>7, <1>8, <1>9, <1>11 DEF SearchInv

-----------------------------------------------------------------------------
(* Counting the steps.                                                      *)

(* What has happened to a node: dependencies looked at, met as a root,      *)
(* visited.  All of it together is the number of steps taken.               *)
Progress(c) ==
  [n \in Nodes |-> c.at[n] + (IF n < c.root THEN 1 ELSE 0)
                           + (IF n \in c.visited THEN 1 ELSE 0)]

(* The steps taken.                                                         *)
Taken(c) == SumFunctionOnSet(Progress(c), Nodes)

(* One more for one member is one more in the sum.                          *)
LEMMA SumOneMore ==
  ASSUME NEW f, NEW h, NEW S, IsFiniteSet(S), \A x \in S : f[x] \in Nat, NEW y \in S,
         h[y] = f[y] + 1, \A x \in S \ {y} : h[x] = f[x]
  PROVE  SumFunctionOnSet(h, S) = SumFunctionOnSet(f, S) + 1
<1>1. IsFiniteSet(S \ {y}) /\ \A x \in S : h[x] \in Nat
  BY FS_RemoveElement
<1>2. SumFunctionOnSet(h, S \ {y}) = SumFunctionOnSet(f, S \ {y})
  BY <1>1, SumSame
<1>3. SumFunctionOnSet(f, S \ {y}) \in Nat
  BY <1>1, SumNat
<1>4. /\ SumFunctionOnSet(h, S) = h[y] + SumFunctionOnSet(h, S \ {y})
      /\ SumFunctionOnSet(f, S) = f[y] + SumFunctionOnSet(f, S \ {y})
  BY <1>1, SumRemove
<1> QED
  BY <1>2, <1>3, <1>4

(* A configuration that differs from c by one unit of progress.             *)
LEMMA TakenOneMore ==
  ASSUME NEW c \in Configurations, NEW d, NEW y \in Nodes,
         Progress(d)[y] = Progress(c)[y] + 1,
         \A n \in Nodes \ {y} : Progress(d)[n] = Progress(c)[n]
  PROVE  Taken(d) = Taken(c) + 1
<1>1. \A n \in Nodes : Progress(c)[n] \in Nat
  BY DEF Progress, Configurations
<1>2. IsFiniteSet(Nodes)
  BY DependencyCyclesAssumption, FS_Interval DEF Nodes
<1> QED
  BY <1>1, <1>2, SumOneMore DEF Taken

(* The three steps and nothing else, one at a time.                         *)
LEMMA StepCases ==
  ASSUME NEW g \in DependencyGraphs, NEW c \in Configurations
  PROVE  /\ AtRoot(c) \/ HasDependency(g, c) \/ Exhausted(g, c) \/ Finished(c)
         /\ AtRoot(c) =>
              ~ HasDependency(g, c) /\ ~ Exhausted(g, c) /\ Step(g, c) = VisitRoot(c)
         /\ HasDependency(g, c) =>
              /\ ~ AtRoot(c) /\ ~ Exhausted(g, c)
              /\ Step(g, c) = VisitDependency(g, c)
         /\ Exhausted(g, c) =>
              ~ AtRoot(c) /\ ~ HasDependency(g, c) /\ Step(g, c) = Close(c)
         /\ Finished(c) => ~ AtRoot(c) /\ ~ HasDependency(g, c) /\ ~ Exhausted(g, c)
<1>1. N \in Nat /\ c.root \in Int
  BY DependencyCyclesAssumption DEF Configurations
<1>2. c.path # <<>> => c.at[Top(c)] \in Int /\ Len(g[Top(c)]) \in Int
  <2>1. c.at \in [Nodes -> Nat] /\ \A n \in Nodes : Len(g[n]) \in Nat
    BY EdgesTyped DEF Configurations
  <2> QED
    BY <2>1, TopIsLast
<1> QED
  BY <1>1, <1>2 DEF AtRoot, HasDependency, Exhausted, Finished, Step

(* Each step keeps the invariant and is counted once.                       *)
LEMMA VisitRootInv ==
  ASSUME NEW g \in DependencyGraphs, NEW c, SearchInv(g, c), AtRoot(c)
  PROVE  SearchInv(g, VisitRoot(c)) /\ Taken(VisitRoot(c)) = Taken(c) + 1
<1>1. /\ c \in Configurations /\ c.path = <<>> /\ c.root \in Nodes
      /\ c.root + 1 \in 1 .. N + 1 /\ c.at \in [Nodes -> Nat]
      /\ \A n \in Nodes : n \in Int
  BY DependencyCyclesAssumption DEF SearchInv, AtRoot, Configurations, Nodes
<1> DEFINE d == VisitRoot(c)
<1>2. CASE c.root \in c.visited
  <2>1. d = [c EXCEPT !.root = @ + 1]
    BY <1>2 DEF VisitRoot
  <2>2. /\ d \in Configurations /\ d.root = c.root + 1 /\ d.path = c.path /\ d.at = c.at
        /\ d.visited = c.visited /\ d.cycle = c.cycle
    BY <1>1, <2>1 DEF Configurations
  <2> HIDE DEF d
  <2>3. SearchInv(g, d)
    BY <1>2, <2>2, SkipInv
  <2>4. Taken(d) = Taken(c) + 1
    <3>1. Progress(d)[c.root] = Progress(c)[c.root] + 1
      BY <1>1, <1>2, <2>2 DEF Progress
    <3>2. \A n \in Nodes \ {c.root} : Progress(d)[n] = Progress(c)[n]
      BY <1>1, <2>2 DEF Progress
    <3> QED
      BY <1>1, <3>1, <3>2, TakenOneMore
  <2> QED
    BY <2>3, <2>4 DEF d
<1>3. CASE c.root \notin c.visited
  <2>0. c.at \in [Nodes -> Nat] /\ c.at[c.root] = 0
    BY <1>1, <1>3 DEF Configurations, SearchInv, Counted, Visiting
  <2>1. d = [c EXCEPT !.root = @ + 1, !.path = Append(@, c.root), !.at[c.root] = 0]
    BY <1>3 DEF VisitRoot, Open
  <2>2. Append(c.path, c.root) \in Seq(Nodes)
    BY <1>1 DEF Configurations
  <2>3. /\ d \in Configurations /\ d.root = c.root + 1 /\ d.path = Append(c.path, c.root)
        /\ d.at = c.at /\ d.visited = c.visited /\ d.cycle = c.cycle
    <3>1. [c.at EXCEPT ![c.root] = 0] = c.at
      BY <2>0
    <3>2. /\ d = [c EXCEPT !.root = c.root + 1, !.path = Append(c.path, c.root),
                         !.at = [c.at EXCEPT ![c.root] = 0]]
          /\ c.root + 1 \in 1 .. N + 1
      BY <1>1, <2>1 DEF Configurations
    <3> HIDE DEF d
    <3> QED
      BY <1>1, <2>0, <2>2, <3>1, <3>2 DEF Configurations
  <2> HIDE DEF d
  <2>4. SearchInv(g, d)
    <3>1. c.root \notin Visiting(c)
      BY <1>1 DEF Visiting
    <3> QED
      BY <1>1, <1>3, <2>3, <3>1, OpenInv DEF Calls
  <2>5. Taken(d) = Taken(c) + 1
    <3>1. Progress(d)[c.root] = Progress(c)[c.root] + 1
      BY <1>1, <1>3, <2>3 DEF Progress
    <3>2. \A n \in Nodes \ {c.root} : Progress(d)[n] = Progress(c)[n]
      BY <1>1, <2>3 DEF Progress
    <3> QED
      BY <1>1, <3>1, <3>2, TakenOneMore
  <2> QED
    BY <2>4, <2>5 DEF d
<1> QED
  BY <1>2, <1>3

(* A dependency looked at.                                                  *)
LEMMA VisitDependencyInv ==
  ASSUME NEW g \in DependencyGraphs, NEW c, SearchInv(g, c), HasDependency(g, c)
  PROVE  /\ SearchInv(g, VisitDependency(g, c))
         /\ Taken(VisitDependency(g, c)) = Taken(c) + 1
<1> DEFINE n == g[Top(c)][c.at[Top(c)] + 1]
           at == [c.at EXCEPT ![Top(c)] = @ + 1]
           d == VisitDependency(g, c)
<1>1. /\ c \in Configurations /\ c.path # <<>> /\ c.path \in Seq(Nodes)
      /\ PathReaches(g, c) /\ Top(c) \in Nodes
      /\ n \in Nodes /\ n \in Edges(g)[Top(c)] /\ at \in [Nodes -> Nat]
  <2>1. c \in Configurations /\ c.path # <<>> /\ PathReaches(g, c)
    BY DEF SearchInv, HasDependency
  <2>2. Top(c) \in Nodes /\ n \in Nodes /\ n \in Edges(g)[Top(c)]
    BY <2>1, TopIsLast, NextIsEdge
  <2>3. c.path \in Seq(Nodes) /\ c.at \in [Nodes -> Nat]
    BY <2>1 DEF Configurations
  <2> QED
    BY <2>1, <2>2, <2>3
<1>2. d = IF n \in Visiting(c)
            THEN [c EXCEPT !.at = at, !.cycle = @ \cup ClosedBy(c, n)]
          ELSE IF n \in c.visited THEN [c EXCEPT !.at = at]
          ELSE [c EXCEPT !.at = at, !.path = Append(@, n)]
  <2>1. CASE n \in Visiting(c) \/ n \in c.visited
    BY <2>1 DEF VisitDependency
  <2>2. CASE n \notin Visiting(c) /\ n \notin c.visited
    <3>1. c.at \in [Nodes -> Nat] /\ at[n] = 0
      <4>1. Top(c) \in Visiting(c) /\ c.at \in [Nodes -> Nat]
        BY <1>1, TopIsLast DEF Configurations
      <4>2. c.at[n] = 0
        BY <1>1, <2>2 DEF SearchInv, Counted
      <4> HIDE DEF n
      <4> QED
        BY <1>1, <2>2, <4>1, <4>2
    <3>2. d = [[c EXCEPT !.at = at] EXCEPT !.path = Append(@, n), !.at[n] = 0]
      BY <2>2 DEF VisitDependency, Open
    <3>3. [at EXCEPT ![n] = 0] = at
      BY <1>1, <3>1
    <3> HIDE DEF n, at, d
    <3>4. d = [c EXCEPT !.at = [at EXCEPT ![n] = 0], !.path = Append(@, n)]
      BY <1>1, <3>2 DEF Configurations
    <3> QED
      BY <2>2, <3>3, <3>4
  <2> QED
    BY <2>1, <2>2
<1>3. d.at = at /\ d.root = c.root /\ d.visited = c.visited /\ d \in Configurations
  <2>1. n \in Visiting(c) => ClosedBy(c, n) \in SUBSET Nodes
    BY <1>1, ClosedByOnCycle
  <2>2. Append(c.path, n) \in Seq(Nodes)
    BY <1>1
  <2> HIDE DEF n, at, d
  <2> QED
    BY <1>1, <1>2, <2>1, <2>2 DEF Configurations
<1>4. Taken(d) = Taken(c) + 1
  <2>1. /\ c.at \in [Nodes -> Nat] /\ d.at[Top(c)] = c.at[Top(c)] + 1
        /\ \A j \in Nodes \ {Top(c)} : d.at[j] = c.at[j]
    BY <1>1, <1>3 DEF Configurations
  <2>2. Progress(d)[Top(c)] = Progress(c)[Top(c)] + 1
    BY <1>1, <1>3, <2>1 DEF Progress
  <2>3. \A j \in Nodes \ {Top(c)} : Progress(d)[j] = Progress(c)[j]
    BY <1>1, <1>3, <2>1 DEF Progress
  <2> HIDE DEF d
  <2> QED
    BY <1>1, <2>2, <2>3, TakenOneMore
<1>5. CASE n \in Visiting(c) \/ n \in c.visited
  <2>1. d.path = c.path
    BY <1>1, <1>2, <1>5 DEF Configurations
  <2>2. \/ n \in c.visited /\ d.cycle = c.cycle
        \/ n \in Visiting(c) /\ d.cycle = c.cycle \cup ClosedBy(c, n)
    BY <1>1, <1>2, <1>5 DEF Configurations
  <2> HIDE DEF n, at, d
  <2>3. SearchInv(g, d)
    BY <1>3, <2>1, <2>2, LookInv DEF n, at
  <2> QED
    BY <1>4, <2>3 DEF d
<1>6. CASE n \notin Visiting(c) /\ n \notin c.visited
  <2>1. d.path = Append(c.path, n) /\ d.cycle = c.cycle
    BY <1>1, <1>2, <1>6 DEF Configurations
  <2>2. Calls(g, c, d, n)
    BY <1>3 DEF Calls
  <2> HIDE DEF n, at, d
  <2>3. SearchInv(g, d)
    BY <1>1, <1>3, <1>6, <2>1, <2>2, OpenInv
  <2> QED
    BY <1>4, <2>3 DEF d
<1> QED
  BY <1>5, <1>6

(* A call that returns.                                                     *)
LEMMA ReturnInv ==
  ASSUME NEW g \in DependencyGraphs, NEW c, SearchInv(g, c), Exhausted(g, c)
  PROVE  SearchInv(g, Close(c)) /\ Taken(Close(c)) = Taken(c) + 1
<1> DEFINE t == Top(c)
           d == Close(c)
<1>1. /\ c \in Configurations /\ c.path # <<>> /\ c.path \in Seq(Nodes)
      /\ t \in Nodes /\ t \notin c.visited
  <2>1. c \in Configurations /\ c.path # <<>>
    BY DEF SearchInv, Exhausted
  <2> QED
    BY <2>1, TopIsLast DEF Configurations, SearchInv, OpenedOnce
<1>2. SubSeq(c.path, 1, Len(c.path) - 1) \in Seq(Nodes)
  BY <1>1
<1>3. /\ d \in Configurations /\ d.root = c.root /\ d.at = c.at /\ d.cycle = c.cycle
      /\ d.path = SubSeq(c.path, 1, Len(c.path) - 1) /\ d.visited = c.visited \cup {t}
  BY <1>1, <1>2 DEF Close, Configurations
<1>4. Taken(d) = Taken(c) + 1
  <2>1. c.at \in [Nodes -> Nat]
    BY <1>1 DEF Configurations
  <2>2. Progress(d)[t] = Progress(c)[t] + 1
    BY <1>1, <1>3, <2>1 DEF Progress
  <2>3. \A j \in Nodes \ {t} : Progress(d)[j] = Progress(c)[j]
    BY <1>1, <1>3, <2>1 DEF Progress
  <2> HIDE DEF d, t
  <2> QED
    BY <1>1, <2>2, <2>3, TakenOneMore
<1>5. SearchInv(g, d)
  BY <1>3, CloseInv
<1> QED
  BY <1>4, <1>5

(* Whichever step it is.                                                    *)
LEMMA StepInv ==
  ASSUME NEW g \in DependencyGraphs, NEW c, SearchInv(g, c), ~ Finished(c)
  PROVE  SearchInv(g, Step(g, c)) /\ Taken(Step(g, c)) = Taken(c) + 1
<1>1. c \in Configurations
  BY DEF SearchInv
<1> QED
  BY <1>1, StepCases, VisitRootInv, VisitDependencyInv, ReturnInv

(* The search never takes more steps than StepBound, and takes all of them  *)
(* to finish, with every node visited.                                      *)
LEMMA StepsBounded ==
  ASSUME NEW g \in DependencyGraphs, NEW c, SearchInv(g, c)
  PROVE  /\ Taken(c) \in Nat /\ StepBound(g) \in Nat /\ Taken(c) <= StepBound(g)
         /\ Finished(c) => Taken(c) = StepBound(g) /\ c.visited = Nodes
<1> DEFINE all == [n \in Nodes |-> Len(g[n]) + 2]
<1>1. IsFiniteSet(Nodes) /\ StepBound(g) = SumFunctionOnSet(all, Nodes)
  BY DependencyCyclesAssumption, FS_Interval DEF Nodes, StepBound, SumFunction
<1>2. \A n \in Nodes : Len(g[n]) \in Nat /\ c.at[n] \in Nat /\ c.at[n] <= Len(g[n])
  BY EdgesTyped DEF SearchInv, Counted, Configurations
<1>3. \A n \in Nodes : /\ Progress(c)[n] \in Nat /\ all[n] \in Nat
                       /\ Progress(c)[n] <= all[n]
  BY <1>2 DEF Progress
<1>4. ASSUME Finished(c) PROVE Taken(c) = StepBound(g) /\ c.visited = Nodes
  <2>1. c.path = <<>> /\ c.root = N + 1 /\ c.visited \subseteq Nodes
    BY <1>4, DependencyCyclesAssumption DEF Finished, SearchInv, Configurations
  <2>2. Visiting(c) = {}
    BY <2>1 DEF Visiting
  <2>3. \A n \in Nodes : n \in c.visited /\ n < c.root
    BY <2>1, <2>2, DependencyCyclesAssumption DEF SearchInv, RootsMet, Nodes
  <2>4. \A n \in Nodes : c.at[n] = Len(g[n])
    BY <2>3 DEF SearchInv, Counted
  <2>5. \A n \in Nodes : Progress(c)[n] = all[n]
    BY <1>2, <2>3, <2>4 DEF Progress
  <2> QED
    BY <1>1, <2>1, <2>3, <2>5, SumSame DEF Taken
<1> HIDE DEF all
<1>5. Taken(c) \in Nat /\ StepBound(g) \in Nat /\ Taken(c) <= StepBound(g)
  BY <1>1, <1>3, SumNat, SumBelow DEF Taken
<1> QED
  BY <1>4, <1>5

(* No step is taken at the start.                                           *)
LEMMA TakenAtStart == Taken(Start) = 0
<1> DEFINE none == [n \in Nodes |-> 0]
<1>1. IsFiniteSet(Nodes)
  BY DependencyCyclesAssumption, FS_Interval DEF Nodes
<1>2. \A n \in Nodes : Progress(Start)[n] = 0
  BY DependencyCyclesAssumption DEF Progress, Start, Nodes
<1>3. SumFunctionOnSet(Progress(Start), Nodes) = 0
  BY <1>1, <1>2, SumZero
<1> QED
  BY <1>3 DEF Taken

-----------------------------------------------------------------------------
(* What the operator Search computes.                                       *)

(* after is the function Search recurs with, up to step b.                  *)
IsAfter(g, b, after) ==
  after = [k \in 0 .. b |-> IF k = 0 THEN {Start} ELSE {Step(g, c) : c \in after[k - 1]}]

(* The one that Search chooses.                                             *)
After(g) == CHOOSE after : IsAfter(g, StepBound(g), after)

(* There is such a function for every number of steps.                      *)
LEMMA AfterExists ==
  ASSUME NEW g, NEW b \in Nat
  PROVE  \E after : IsAfter(g, b, after)
<1> DEFINE T == {n \in Nat : ~ \E after : IsAfter(g, n, after)}
<1> SUFFICES ASSUME b \in T PROVE FALSE
  OBVIOUS
<1>1. PICK m \in T : \A k \in T : m <= k
  <2>1. T \in SUBSET Nat
    OBVIOUS
  <2> HIDE DEF T
  <2> QED
    BY <2>1, LeastNumber
<1>2. m # 0
  <2> DEFINE first == [k \in 0 .. 0 |-> {Start}]
  <2>1. first = [k \in 0 .. 0 |-> IF k = 0 THEN {Start}
                                  ELSE {Step(g, c) : c \in first[k - 1]}]
    OBVIOUS
  <2>2. IsAfter(g, 0, first)
    BY <2>1 DEF IsAfter
  <2> QED
    BY <2>2
<1>3. m - 1 \in Nat /\ m - 1 \notin T
  BY <1>1, <1>2
<1>4. PICK after : IsAfter(g, m - 1, after)
  BY <1>3
<1> DEFINE more == [k \in 0 .. m |-> IF k = m THEN {Step(g, c) : c \in after[m - 1]}
                                     ELSE after[k]]
<1>5. ASSUME NEW k \in 0 .. m
      PROVE  more[k] = IF k = 0 THEN {Start} ELSE {Step(g, c) : c \in more[k - 1]}
  <2>1. CASE k = m
    <3>1. more[m - 1] = after[m - 1]
      BY <1>2, <1>3
    <3>2. more[k] = {Step(g, c) : c \in after[m - 1]}
      BY <2>1
    <3> HIDE DEF more
    <3> QED
      BY <1>2, <2>1, <3>1, <3>2
  <2>2. CASE k # m
    <3>1. k \in 0 .. m - 1 /\ (k # 0 => k - 1 \in 0 .. m - 1 /\ k - 1 # m)
      BY <1>3, <2>2
    <3>2. after[k] = IF k = 0 THEN {Start} ELSE {Step(g, c) : c \in after[k - 1]}
      BY <1>4, <3>1 DEF IsAfter
    <3>3. more[k] = after[k] /\ (k # 0 => more[k - 1] = after[k - 1])
      BY <2>2, <3>1
    <3> HIDE DEF more
    <3> QED
      BY <3>2, <3>3
  <2> QED
    BY <2>1, <2>2
<1>6. IsAfter(g, m, more)
  <2>1. more = [k \in 0 .. m |-> more[k]]
    OBVIOUS
  <2> HIDE DEF more
  <2> QED
    BY <1>5, <2>1 DEF IsAfter
<1> QED
  BY <1>6

(* So the one chosen starts at Start and takes a step at a time.            *)
LEMMA AfterRecursion ==
  ASSUME NEW g \in DependencyGraphs, StepBound(g) \in Nat
  PROVE  /\ After(g)[0] = {Start}
         /\ \A k \in Nat : \A c : k < StepBound(g) /\ After(g)[k] = {c} =>
              After(g)[k + 1] = {Step(g, c)}
<1>1. IsAfter(g, StepBound(g), After(g))
  BY AfterExists DEF After
<1> DEFINE b == StepBound(g)
           after == After(g)
<1> HIDE DEF b, after
<1>2. b \in Nat /\ after = [k \in 0 .. b |-> IF k = 0 THEN {Start}
                                             ELSE {Step(g, c) : c \in after[k - 1]}]
  BY <1>1 DEF b, after, IsAfter
<1>3. after[0] = {Start}
  BY <1>2
<1>4. ASSUME NEW k \in Nat, NEW c, k < b, after[k] = {c}
      PROVE  after[k + 1] = {Step(g, c)}
  <2>1. k + 1 \in 0 .. b /\ k + 1 # 0 /\ (k + 1) - 1 = k
    BY <1>2, <1>4
  <2>2. after[k + 1] = {Step(g, e) : e \in after[k]}
    BY <1>2, <2>1
  <2> QED
    BY <1>4, <2>2
<1> QED
  BY <1>3, <1>4 DEF b, after

(* The search ends with what the last step leaves.                          *)
LEMMA SearchIsLast ==
  ASSUME NEW g, NEW c, After(g)[StepBound(g)] = {c}
  PROVE  Search(g) = c
<1>1. Search(g) = CHOOSE e \in After(g)[StepBound(g)] : TRUE
  BY DEF Search, After, IsAfter
<1>2. (CHOOSE e \in {c} : TRUE) = c
  OBVIOUS
<1> QED
  BY <1>1, <1>2

(* After any number of steps there is one configuration, and it keeps the   *)
(* invariant and knows how many steps it took.                              *)
LEMMA AfterInv ==
  ASSUME NEW g \in DependencyGraphs, NEW n \in Nat, n <= StepBound(g)
  PROVE  \E c : After(g)[n] = {c} /\ SearchInv(g, c) /\ Taken(c) = n
<1> DEFINE Good(k) == \E c : After(g)[k] = {c} /\ SearchInv(g, c) /\ Taken(c) = k
           T == {k \in Nat : k <= StepBound(g) /\ ~ Good(k)}
<1> SUFFICES ASSUME n \in T PROVE FALSE
  OBVIOUS
<1>1. StepBound(g) \in Nat
  BY StartInv, StepsBounded
<1>2. PICK m \in T : \A k \in T : m <= k
  <2>1. T \in SUBSET Nat
    OBVIOUS
  <2> HIDE DEF T
  <2> QED
    BY <2>1, LeastNumber
<1>3. m # 0
  BY <1>1, StartInv, AfterRecursion, TakenAtStart
<1>4. m - 1 \in Nat /\ m - 1 < StepBound(g) /\ Good(m - 1)
  <2>1. m - 1 \in Nat /\ m - 1 < StepBound(g) /\ m - 1 \notin T
    BY <1>1, <1>2, <1>3
  <2> QED
    BY <1>1, <2>1
<1>5. PICK c : After(g)[m - 1] = {c} /\ SearchInv(g, c) /\ Taken(c) = m - 1
  BY <1>4
<1>6. ~ Finished(c)
  BY <1>4, <1>5, StepsBounded
<1>7. SearchInv(g, Step(g, c)) /\ Taken(Step(g, c)) = m
  BY <1>4, <1>5, <1>6, StepInv
<1>8. After(g)[m] = {Step(g, c)}
  <2>1. (m - 1) + 1 = m
    BY <1>4
  <2>2. After(g)[(m - 1) + 1] = {Step(g, c)}
    BY <1>1, <1>4, <1>5, AfterRecursion
  <2> QED
    BY <2>1, <2>2
<1> QED
  BY <1>7, <1>8

(* For every graph, _cycle_members reports only members of cycles, and      *)
(* leaves no cycle none of whose members is reported.                       *)
THEOREM CycleMembersRight ==
  ASSUME NEW g \in [Nodes -> Seq(Nodes)]
  PROVE  /\ CycleMembers(g) \subseteq Nodes
         /\ \A n \in CycleMembers(g) : OnCycle(Edges(g), n)
         /\ \A n \in Nodes \ CycleMembers(g) :
              ~ OnCycle(Without(Edges(g), CycleMembers(g)), n)
<1>1. g \in DependencyGraphs
  BY DEF DependencyGraphs
<1>2. StepBound(g) \in Nat
  BY <1>1, StartInv, StepsBounded
<1>3. PICK c : After(g)[StepBound(g)] = {c} /\ SearchInv(g, c) /\ Taken(c) = StepBound(g)
  BY <1>1, <1>2, AfterInv
<1>4. Finished(c)
  <2> SUFFICES ASSUME ~ Finished(c) PROVE FALSE
    OBVIOUS
  <2>1. SearchInv(g, Step(g, c)) /\ Taken(Step(g, c)) = StepBound(g) + 1
    BY <1>1, <1>3, StepInv
  <2>2. Taken(Step(g, c)) <= StepBound(g)
    BY <1>1, <2>1, StepsBounded
  <2> QED
    BY <1>2, <2>1, <2>2
<1>5. c.visited = Nodes /\ c.cycle \subseteq Nodes
  BY <1>1, <1>3, <1>4, StepsBounded DEF SearchInv, Configurations
<1>6. CycleMembers(g) = c.cycle
  BY <1>3, SearchIsLast DEF CycleMembers
<1> QED
  BY <1>3, <1>5, <1>6 DEF SearchInv, Reported, Cleared

-----------------------------------------------------------------------------
(* The state machine.                                                       *)

(* The search is where Search is after as many steps.                       *)
IInv ==
  /\ graph \in DependencyGraphs
  /\ SearchInv(graph, dfs)
  /\ After(graph)[Taken(dfs)] = {dfs}

(* It holds at the start.                                                   *)
LEMMA IInvInit == Init => IInv
<1> SUFFICES ASSUME Init PROVE IInv
  OBVIOUS
<1>1. graph \in DependencyGraphs /\ dfs = Start
  BY CycleSearchAssumption DEF Init, DependencyGraphs
<1> QED
  BY <1>1, StartInv, StepsBounded, AfterRecursion, TakenAtStart DEF IInv

(* Next is a step of the search.                                            *)
LEMMA NextIsStep ==
  ASSUME graph \in DependencyGraphs, dfs \in Configurations, Next
  PROVE  ~ Finished(dfs) /\ dfs' = Step(graph, dfs) /\ graph' = graph
  BY StepCases DEF Next, NextRoot, NextDependency, Return

(* Each step keeps it.                                                      *)
LEMMA IInvStep == IInv /\ [Next]_vars => IInv'
<1> SUFFICES ASSUME IInv, [Next]_vars PROVE IInv'
  OBVIOUS
<1>1. CASE Next
  <2>1. /\ graph \in DependencyGraphs /\ SearchInv(graph, dfs)
        /\ ~ Finished(dfs) /\ dfs' = Step(graph, dfs) /\ graph' = graph
    BY <1>1, NextIsStep DEF IInv, SearchInv
  <2>2. SearchInv(graph, dfs') /\ Taken(dfs') = Taken(dfs) + 1
    BY <2>1, StepInv
  <2>3. /\ Taken(dfs) \in Nat /\ StepBound(graph) \in Nat
        /\ Taken(dfs') <= StepBound(graph)
    BY <2>1, <2>2, StepsBounded
  <2>4. After(graph)[Taken(dfs) + 1] = {dfs'}
    BY <2>1, <2>2, <2>3, AfterRecursion DEF IInv
  <2> QED
    BY <2>1, <2>2, <2>4 DEF IInv
<1>2. CASE UNCHANGED vars
  BY <1>2 DEF vars, IInv
<1> QED
  BY <1>1, <1>2

(* The search stays well typed on every graph, for every number of jobs.    *)
THEOREM SearchTyped == Spec => []TypeOK
<1>1. IInv => TypeOK
  BY DEF IInv, SearchInv, TypeOK, Configurations, DependencyGraphs
<1> QED
  BY IInvInit, IInvStep, <1>1, PTL DEF Spec

(* run_queue never blocks a job as "dependency-cycle" that is on no cycle:  *)
(* every job _cycle_members reports can be reached from itself.             *)
THEOREM SearchSound == Spec => []CycleSound
<1>1. IInv => CycleSound
  BY DEF IInv, SearchInv, Reported, CycleSound
<1> QED
  BY IInvInit, IInvStep, <1>1, PTL DEF Spec

(* No cycle survives the blocking of the reported jobs, and what the search *)
(* ends with is what the scheduler's model takes from CycleMembers.         *)
THEOREM SearchComplete == Spec => []EveryCycleHit
<1>1. IInv => EveryCycleHit
  <2> SUFFICES ASSUME IInv, Finished(dfs)
               PROVE  /\ dfs.cycle = CycleMembers(graph)
                      /\ \A n \in Nodes \ dfs.cycle :
                           ~ OnCycle(Without(Edges(graph), dfs.cycle), n)
    BY DEF EveryCycleHit
  <2>1. Taken(dfs) = StepBound(graph) /\ dfs.visited = Nodes
    BY StepsBounded DEF IInv
  <2>2. Search(graph) = dfs
    BY <2>1, SearchIsLast DEF IInv
  <2> QED
    BY <2>1, <2>2 DEF IInv, SearchInv, Cleared, CycleMembers
<1> QED
  BY IInvInit, IInvStep, <1>1, PTL DEF Spec

(* What makes the search end: every step is counted, and there are never    *)
(* more than StepBound of them.                                             *)
THEOREM SearchCounts ==
  Spec => [][Taken(dfs') = Taken(dfs) + 1 /\ Taken(dfs') <= StepBound(graph)]_vars
<1>1. IInv /\ [Next]_vars
        => [Taken(dfs') = Taken(dfs) + 1 /\ Taken(dfs') <= StepBound(graph)]_vars
  <2> SUFFICES ASSUME IInv, Next
               PROVE  Taken(dfs') = Taken(dfs) + 1 /\ Taken(dfs') <= StepBound(graph)
    OBVIOUS
  <2>1. /\ graph \in DependencyGraphs /\ SearchInv(graph, dfs)
        /\ ~ Finished(dfs) /\ dfs' = Step(graph, dfs)
    BY NextIsStep DEF IInv, SearchInv
  <2> QED
    BY <2>1, StepInv, StepsBounded
<1> QED
  BY IInvInit, IInvStep, <1>1, PTL DEF Spec
=============================================================================
