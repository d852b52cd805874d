SPECIFICATION FairSpec
CONSTANTS
  e1 = e1
  e2 = e2
  closer = closer
  chatSub = chatSub
  web = web
  wx = wx
  Nobody = Nobody
  Emitters = {e1, e2}
  Closer = closer
  Subs = {chatSub}
  TopicOf <- MCTopicOf
  Channels = {web, wx}
  FilterOf <- MCFilterOf
  Handlers = {TRUE, FALSE}
  BufSize = 1
  SubBuf = 1
  MaxEvents = 2
INVARIANT NoPanic
INVARIANT EventOrder
PROPERTY PublishReturns
CHECK_DEADLOCK FALSE
