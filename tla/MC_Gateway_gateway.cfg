SPECIFICATION FairSpec
CONSTANTS
  w1 = w1
  w2 = w2
  a1 = a1
  a2 = a2
  a3 = a3
  p1 = p1
  p2 = p2
  px = px
  kb = kb
  k1 = k1
  k2 = k2
  kx = kx
  m1 = m1
  m2 = m2
  dir = dir
  tool1 = tool1
  tool2 = tool2
  lost = lost
  Blank = Blank
  DefaultEmbedding = DefaultEmbedding
  Web = Web
  Torn = Torn
  None = None
  Accounts = {w1, w2}
  FileTools = {"ls", "execute"}
  DefaultRAG <- MCDefaultRAG
  InboundCap = 1
  SubCap = 2
  Setups <- MCSetups
INVARIANT AgentsRight
INVARIANT AgentsGuarded
INVARIANT Addressed
INVARIANT ConfigWhole
INVARIANT Dispatched
PROPERTY StopEnds
CHECK_DEADLOCK FALSE
