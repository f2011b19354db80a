\* two commands with the lease and one without it, beside each other
SPECIFICATION Spec
CONSTANTS
  Holders = {h1, h2}
  Inspectors = {i1}
  Jobs = {j1, j2}
  MaxEvents = 5
  MaxMissed = 3
INVARIANTS
  JournalOrderedUntilOverrun
  GapsExplained
  DurableUntilOverrun
