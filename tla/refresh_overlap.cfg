SPECIFICATION FairSpec
CONSTANTS
  a = a
  b = b
  c = c
  r1 = r1
  Files <- OneFile
  Language <- MCLanguage
  Revs <- OneRev
  Absent = Absent
  Executor = Executor
  Notifiers = {n1}
  Builds = {w1, w2}
  Overlap = TRUE
  MaxEdits = 2
  MaxCalls = 1
  MaxFaults = 1
  MaxPanics = 1
INVARIANTS
  HotConverges
  WarmSingleFlight
PROPERTIES
  RebuildServed
