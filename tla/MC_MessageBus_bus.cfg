SPECIFICATION FairSpec
CONSTANTS
  p1 = p1
  cons = cons
  fan = fan
  close1 = close1
  close2 = close2
  set1 = set1
  s1 = s1
  t1 = t1
  web = web
  wx = wx
  Publishers = {p1}
  Consumer = cons
  Fan = fan
  Closers = {close1, close2}
  Setters = {set1}
  Subs = {s1, t1}
  Takers = {t1}
  Channels = {web, wx}
  FilterOf <- MCFilterOf
  Kinds <- MCKinds
  Cancellable <- MCCancellable
  Nobody = Nobody
  BufSize = 1
  SubBuf = 1
  MaxSent = 2
INVARIANT NoPanic
INVARIANT InboundFIFO
INVARIANT HandledNotBroadcast
PROPERTY BroadcastSpec
PROPERTY Drains
