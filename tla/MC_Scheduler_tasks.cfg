SPECIFICATION FairSpec
CONSTANTS
  a = a
  b = b
  o1 = o1
  r1 = r1
  r2 = r2
  Nobody = Nobody
  None = None
  Torn = Torn
  Ids = {a, b}
  Configured = {a}
  Objs = {a, o1}
  Runs = {r1, r2}
  Schedules <- MCSchedules
  First <- MCFirst
  Prompts = {TRUE, FALSE}
  MaxTime = 3
  MaxOps = 2
INVARIANT OncePerMinute
INVARIANT FileIsCurrent
PROPERTY DueRuns
CHECK_DEADLOCK FALSE
