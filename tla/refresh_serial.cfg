SPECIFICATION Spec
CONSTANTS
  a = a
  b = b
  c = c
  r1 = r1
  Files <- ThreeFiles
  Language <- MCLanguage
  Revs <- OneRev
  Absent = Absent
  Executor = Executor
  Notifiers = {n1}
  Builds = {w1, w2}
  Overlap = FALSE
  MaxEdits = 2
  MaxCalls = 1
  MaxFaults = 1
  MaxPanics = 0
SYMMETRY RefreshSymmetry
INVARIANTS
  TypeOK
  AnswersExact
  SettlesFresh
