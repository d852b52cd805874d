SPECIFICATION HubFairSpec
CONSTANTS
  c1 = c1
  c2 = c2
  NoConn = NoConn
  Conns = {c1, c2}
  Dispatchers = {"log"}
  SendCap = 1
  LogCap = 1
  Inputs <- MCInputs
INVARIANT BroadcastSafe
INVARIANT ClosedForgotten
PROPERTY ShutsDown
CHECK_DEADLOCK FALSE
