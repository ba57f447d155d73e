SPECIFICATION Spec
CONSTANTS
  a = a
  b = b
  c = c
  r1 = r1
  Files <- TwoFiles
  Language <- MCLanguage
  Revs <- OneRev
  Absent = Absent
  Executor = Executor
  Notifiers = {}
  Builds = {w1, w2}
  Overlap = TRUE
  MaxEdits = 1
  MaxCalls = 0
  MaxFaults = 0
  MaxPanics = 0
SYMMETRY RefreshSymmetry
INVARIANTS
  SettlesFresh
