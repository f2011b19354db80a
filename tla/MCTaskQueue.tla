----------------------------- MODULE MCTaskQueue -----------------------------
(* Job specs and budgets for the runs of TaskQueue.                          *)
EXTENDS TaskQueue

CONSTANTS Cpu, Gpu

Need(c, g) == [r \in Resources |-> IF r = Cpu THEN c ELSE g]
Job(deps, request, priority) == [deps |-> deps, request |-> request, priority |-> priority]

\* chains, forks, joins, missing dependencies and cycles of three jobs, some
\* of which need the GPU or both CPU slots, or go first
MixedSpecs ==
  {Job(<<>>, Need(1, 0), 0), Job(<<1>>, Need(1, 1), 0), Job(<<2>>, Need(2, 0), 1),
   Job(<<3>>, Need(1, 0), 0), Job(<<1, 2>>, Need(1, 0), 1)}

\* a job that depends on one added after it
LaterSpecs == {Job(d, Need(1, 0), 0) : d \in {<<>>, <<2>>, <<3>>}}

\* two jobs, alone or one after the other, or too large for the budget
PairSpecs ==
  {Job(<<>>, Need(1, 0), 0), Job(<<1>>, Need(1, 0), 0), Job(<<>>, Need(1, 2), 0)}

Anywhere == Steps
OneSlot == {Need(1, 0)}
TwoSlots == {Need(2, 1)}
=============================================================================
