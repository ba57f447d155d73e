SPECIFICATION Spec
CONSTANTS
  a = a
  b = b
  c = c
  r1 = r1
  Files <- OneFile
  Language <- MCLanguage
  Revs <- OneRev
  Absent = Absent
  Executor = Executor
  Notifiers = {}
  Builds = {w1, w2}
  Overlap = TRUE
  MaxEdits = 0
  MaxCalls = 1
  MaxFaults = 0
  MaxPanics = 0
SYMMETRY RefreshSymmetry
INVARIANTS
  SettlesFresh
