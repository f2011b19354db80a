\* a run and its retry beside one recover and one retry command
CONSTANTS
  Runs = {r1, r2}
  Root = r1
  Recoverers = {p1}
  Retriers = {p2}
  NoRun = NoRun
SPECIFICATION FairSpec
INVARIANTS NoDuplicateUnlessBlind RecordHonest
PROPERTIES FollowsDurableRun RunEnds RecoverySettles
CHECK_DEADLOCK FALSE
