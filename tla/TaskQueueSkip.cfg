\* three jobs, each of which may depend on one listed after it
CONSTANTS
  N = 3
  Resources = {Cpu, Gpu}
  Cpu = Cpu
  Gpu = Gpu
  Specs <- LaterSpecs
  Budgets <- OneSlot
  FailFasts = {FALSE}
  MaxWorkers = 1
  Outcomes = {"success", "failed"}
  Markable = {}
  Breakable = {}
  Fragile = {}
SPECIFICATION Spec
INVARIANT FailureSkips
CHECK_DEADLOCK FALSE
