SPECIFICATION Spec
CONSTANTS
  a = a
  b = b
  r1 = r1
  r2 = r2
  r3 = r3
  Files <- OneFile
  Revs <- TwoRevs
  Absent = Absent
  Cold = Cold
  Executor = Executor
  Notifiers = {}
  MaxRetries = 2
  Reverts = FALSE
  Restamps = TRUE
  RowsTear = FALSE
  OpensCollide = FALSE
  MaxEdits = 1
  MaxCalls = 1
  MaxFaults = 1
INVARIANT ResidentFresh
