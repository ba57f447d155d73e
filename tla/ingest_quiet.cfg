SPECIFICATION FairSpec
CONSTANTS
  Files <- MCFiles
  r1 = r1
  r2 = r2
  Revs <- MCRevs
  BatchFiles = 1
  MaxGeneration = 3
  MaxEdits = 2
  MaxFaults = 1
  EditsDuringIngest = FALSE
  LateFailures = FALSE
  Absent = Absent
  NoSnapshot = NoSnapshot
  NoRun = NoRun
INVARIANTS
  SourceExact
  GraphsMatchGenerations
PROPERTIES
  ImplementsPublication
  RecoversFromKill
