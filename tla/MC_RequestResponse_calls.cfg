SPECIFICATION CallsFairSpec
CONSTANTS
  r1 = r1
  r2 = r2
  NoCall = NoCall
  Requesters = {r1, r2}
  Sweeps = TRUE
  SubBuf = 1
INVARIANT MapOwnsChannel
INVARIANT OwnAnswer
PROPERTY RequestReturns
CHECK_DEADLOCK FALSE
