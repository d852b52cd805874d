SPECIFICATION Spec
CONSTANTS
  a1 = a1
  s1 = s1
  Agents = {a1}
  Sessions = {s1}
  Modes = {TRUE}
  Disturbed = {}
  Earlier <- MCEarlier
  MaxHistory = 2
  EventCap = 9
  MaxRequests = 2
  MaxOutputs = 1
  MaxChunks = 1
INVARIANT ReplyToOwnRun
CHECK_DEADLOCK FALSE
