SPECIFICATION Spec
CONSTANTS
  Corpora <- SomeCorpora
  Ends <- ThreeEnds
  Depths <- UpToThree
INVARIANTS
  RowsAreEdges
  NearestCallers
  CyclesExact
  ImpactIsEveryPath
