SPECIFICATION Spec
CONSTANTS
  Programs <- SomePrograms
  Forms <- AllForms
  None = None
INVARIANTS
  DominatorsExact
  FrontierExact
  LiveExact
  ReachingExact
  SsaFaithful
CHECK_DEADLOCK FALSE
