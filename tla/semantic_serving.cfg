SPECIFICATION Spec
CONSTANTS
  a = a
  b = b
  r1 = r1
  r2 = r2
  r3 = r3
  Files <- OneFile
  Revs <- TwoRevs
  Absent = Absent
  Cold = Cold
  Executor = Executor
  Notifiers = {n1}
  MaxRetries = 2
  Reverts = FALSE
  Restamps = FALSE
  RowsTear = FALSE
  OpensCollide = FALSE
  MaxEdits = 1
  MaxCalls = 1
  MaxFaults = 1
SYMMETRY SemanticSymmetry
INVARIANTS
  ResidentFresh
  ActiveComplete
  PublicationAccepted
  CompletedIsPublished
  AttemptsFinite
