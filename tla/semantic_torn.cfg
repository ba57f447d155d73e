SPECIFICATION Spec
CONSTANTS
  a = a
  b = b
  r1 = r1
  r2 = r2
  r3 = r3
  Files <- OneFile
  Revs <- TwoRevs
  Absent = Absent
  Cold = Cold
  Executor = Executor
  Notifiers = {}
  MaxRetries = 2
  Reverts = FALSE
  Restamps = FALSE
  RowsTear = TRUE
  OpensCollide = FALSE
  MaxEdits = 0
  MaxCalls = 0
  MaxFaults = 2
INVARIANT AttemptsFinite
