CONSTANTS
  MaxTotalTokens = 5
  MaxModelCalls = 3
  MaxToolCalls = 3
  Reservation = 2
  Usages = {0, 2, 4}
  MaxBatch = 2
  MaxStarts = 2
SPECIFICATION FairSpec
INVARIANTS TypeOK RecordedFirst AcceptedIsEarned
PROPERTIES FollowsBudget TrialEnds
CHECK_DEADLOCK FALSE
