\* the smallest queue that a command without the lease can lose
SPECIFICATION Spec
CONSTANTS
  Holders = {h1}
  Inspectors = {i1}
  Jobs = {j1, j2}
  MaxEvents = 3
  MaxMissed = 1
INVARIANT DurableJobs
