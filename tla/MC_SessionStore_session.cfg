SPECIFICATION Spec
CONSTANTS
  main = main
  l1 = l1
  l2 = l2
  v1 = v1
  f1 = f1
  plain = plain
  colon = colon
  None = None
  Main = main
  Loggers = {l1, l2}
  Viewers = {v1}
  Files = {f1}
  Keys = {plain, colon}
  FileOf <- MCFileOf
  Stems = {plain}
  MaxDay = 2
  MaxTurns = 2
  MaxIncidents = 2
SYMMETRY MCSymmetry
INVARIANT LoadsLatest
INVARIANT Whole
INVARIANT HistoryKept
