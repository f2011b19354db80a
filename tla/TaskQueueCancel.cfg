\* cancellation and termination: two jobs, either cancelled at any time
CONSTANTS
  N = 2
  Resources = {Cpu, Gpu}
  Cpu = Cpu
  Gpu = Gpu
  Specs <- PairSpecs
  Budgets <- TwoSlots
  FailFasts = {TRUE}
  MaxWorkers = 2
  Outcomes = {"success", "failed"}
  Markable = {1, 2}
  Breakable = {2}
  Fragile <- Anywhere
SPECIFICATION FairSpec
INVARIANT EarlyCancelHolds
PROPERTY CommandEnds
CHECK_DEADLOCK FALSE
