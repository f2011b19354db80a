---------------------------- MODULE MCCycleSearch ----------------------------
(* CycleSearch on every graph of N jobs in which a job lists at most         *)
(* MaxDeps different other jobs, in every order.                             *)
EXTENDS CycleSearch

CONSTANT MaxDeps

\* lists of at most MaxDeps different numbers below N ...
Lists == UNION {{s \in [1 .. k -> 1 .. N - 1] : IsInjective(s)} : k \in 0 .. MaxDeps}

\* ... where number k in the list of job n stands for the k-th other job
Other(n, k) == IF k < n THEN k ELSE k + 1

AllGraphs ==
  {[n \in Nodes |-> [k \in DOMAIN f[n] |-> Other(n, f[n][k])]] : f \in [Nodes -> Lists]}
=============================================================================
