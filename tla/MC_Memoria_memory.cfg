SPECIFICATION FairSpec
CONSTANTS
  s1 = s1
  s2 = s2
  f1 = f1
  web = web
  ann = ann
  room = room
  q1 = q1
  q2 = q2
  a1 = a1
  v1 = v1
  v2 = v2
  Blank = Blank
  DefaultUser = DefaultUser
  Thought = Thought
  MaxChunk = 4
  Ruled = {v2}
  DefaultLimit = 3
  Near <- MCNear
  Match <- MCMatch
  Chats = {s1, s2}
  Files = {f1}
  Log <- MCLog
  Key <- MCKey
  Lengths = {2, 4}
  Texts = {v1, v2}
  LinesOf <- MCLinesOf
  Calls <- MCCalls
  Setups <- MCSetups
  MaxTalk = 3
INVARIANT TextRight
INVARIANT KeepsChat
INVARIANT FileFresh
INVARIANT LatestPreference
INVARIANT SearchRight
PROPERTY CatchesUp
PROPERTY SearchEnds
CHECK_DEADLOCK FALSE
