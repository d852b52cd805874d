SPECIFICATION FairSpec
CONSTANTS
  a1 = a1
  s1 = s1
  Agents = {a1}
  Sessions = {s1}
  Modes = {TRUE, FALSE}
  Disturbed = {FALSE}
  Earlier <- MCEarlier
  MaxHistory = 2
  EventCap = 2
  MaxRequests = 2
  MaxOutputs = 2
  MaxChunks = 1
INVARIANT CallbacksEnd
INVARIANT EventsInOrder
PROPERTY SessionKeepsNew
PROPERTY Answered
CHECK_DEADLOCK FALSE
