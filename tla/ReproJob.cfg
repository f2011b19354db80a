CONSTANTS
  Starters = {s1, s2}
  Workers = {w1, w2}
  Observers = {o1}
  Requests = {q1, q2}
  NoRequest = NoRequest
  NoWorker = NoWorker
SPECIFICATION FairSpec
INVARIANTS TypeOK CancelledNotExecuted
PROPERTIES FollowsOneShot ReportedOver JobSettles
CHECK_DEADLOCK FALSE
