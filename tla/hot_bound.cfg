SPECIFICATION Spec
CONSTANTS
  f = f
  g = g
  tree = tree
  complexity = complexity
  smells = smells
  Files <- TwoFiles
  FullRebuild = FullRebuild
  Project = Project
  Keys <- ThreeKeys
  Reads <- KeyReads
  Inputs <- KeyInputs
  Queries = {q1, q2}
  FileCap = 1
  EventCap = 1
  QueueCap = 1
  MaxEntries = 1
  SlowCallback = FALSE
  MaxEvents = 0
  MaxQueries = 4
INVARIANTS
  StaysBounded
