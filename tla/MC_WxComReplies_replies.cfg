SPECIFICATION FairSpec
CONSTANTS
  q1 = q1
  d1 = d1
  d2 = d2
  w1 = w1
  w2 = w2
  Nobody = Nobody
  Reqs = {q1}
  Senders = {d1, d2}
  Workers = {w1, w2}
  Count = 1
  QueueCap = 2
  MaxWork = 3
  MaxLosses = 1
  Crowd = 1
INVARIANT OneByOne
INVARIANT AckMatches
PROPERTY RepliesReturn
CHECK_DEADLOCK FALSE
