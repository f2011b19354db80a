CONSTANTS
  Writers = {w1, w2, w3}
  NoWriter = NoWriter
SPECIFICATION FairSpec
INVARIANT ExclusiveUntilTakeover
PROPERTIES HolderKeepsFile StaleLeaseReplaced
CHECK_DEADLOCK FALSE
