SPECIFICATION CallsSpec
CONSTANTS
  r1 = r1
  r2 = r2
  NoCall = NoCall
  Requesters = {r1}
  Sweeps = FALSE
  SubBuf = 1
INVARIANT NoSendOnClosed
CHECK_DEADLOCK FALSE
