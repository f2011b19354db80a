\* three jobs of different sizes and priorities that wait for each other, two workers
CONSTANTS
  N = 3
  Resources = {Cpu, Gpu}
  Cpu = Cpu
  Gpu = Gpu
  Specs <- MixedSpecs
  Budgets <- TwoSlots
  FailFasts = {FALSE}
  MaxWorkers = 2
  Outcomes = {"success", "failed"}
  Markable = {}
  Breakable = {1}
  Fragile <- Anywhere
SPECIFICATION Spec
INVARIANTS DependencyGate LaunchedOnce RunningIsWatched NoLiveTwin BudgetConserved
PROPERTIES FollowsDurableRun GivenUpForCause FollowsLifecycle PriorityRespected
CHECK_DEADLOCK FALSE
