SPECIFICATION Spec
CONSTANTS
  a = a
  b = b
  r1 = r1
  r2 = r2
  r3 = r3
  Files <- OneFile
  Revs <- TwoRevs
  Absent = Absent
  Cold = Cold
  Executor = Executor
  Notifiers = {}
  MaxRetries = 2
  Reverts = TRUE
  Restamps = FALSE
  RowsTear = FALSE
  OpensCollide = FALSE
  MaxEdits = 2
  MaxCalls = 2
  MaxFaults = 0
INVARIANT ResidentFresh
