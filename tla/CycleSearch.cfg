\* every dependency graph of four jobs with at most two dependencies each
CONSTANTS
  N = 4
  RecursionLimit = 5
  MaxDeps = 2
  Graphs <- AllGraphs
SPECIFICATION Spec
INVARIANTS CycleSound EveryCycleHit
PROPERTY Terminates
CHECK_DEADLOCK FALSE
