CONSTANTS
  MaxModelCalls = 2
  MaxToolCalls = 2
  MaxTotalTokens = 5
  Reservation = 2
  Usages = {1, 4}
  MaxBatch = 2
  MaxStarts = 3
SPECIFICATION FairSpec
INVARIANTS TypeOK NeverReplayed SuccessEarned
PROPERTIES FollowsBudget AgentEnds
CHECK_DEADLOCK FALSE
