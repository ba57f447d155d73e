SPECIFICATION Spec
CONSTANTS
  Files <- MCFiles
  r1 = r1
  r2 = r2
  Revs <- MCRevs
  BatchFiles = 1
  MaxGeneration = 2
  MaxEdits = 2
  MaxFaults = 0
  EditsDuringIngest = TRUE
  LateFailures = FALSE
  Absent = Absent
  NoSnapshot = NoSnapshot
  NoRun = NoRun
SYMMETRY RevisionSymmetry
INVARIANTS
  GraphsMatchGenerations
