SPECIFICATION Spec
CONSTANTS
  f = f
  g = g
  tree = tree
  complexity = complexity
  smells = smells
  Files <- TwoFiles
  FullRebuild = FullRebuild
  Project = Project
  Keys <- TwoKeys
  Reads <- KeyReads
  Inputs <- KeyInputs
  Queries = {q1}
  FileCap = 1
  EventCap = 1
  QueueCap = 1
  MaxEntries = 1
  SlowCallback = FALSE
  MaxEvents = 3
  MaxQueries = 1
INVARIANTS
  AnySaveInvalidates
