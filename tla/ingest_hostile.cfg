SPECIFICATION Spec
CONSTANTS
  Files <- MCThreeFiles
  r1 = r1
  r2 = r2
  Revs <- MCRevs
  BatchFiles = 2
  MaxGeneration = 3
  MaxEdits = 1
  MaxFaults = 1
  EditsDuringIngest = TRUE
  LateFailures = TRUE
  Absent = Absent
  NoSnapshot = NoSnapshot
  NoRun = NoRun
SYMMETRY RevisionSymmetry
INVARIANTS
  TypeOK
  HotIsActive
  NeverRefused
  EditsLoseNothing
