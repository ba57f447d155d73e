SPECIFICATION FairSpec
CONSTANTS
  Files = {1}
  r1 = r1
  r2 = r2
  Revs <- MCRevs
  Threads = {t1, t2}
  MaxGeneration = 3
  MaxEdits = 1
  NoKey = NoKey
  NoFlight = NoFlight
  NoValue = NoValue
INVARIANTS
  SingleFlight
  BuiltOnce
PROPERTIES
  EveryRequestReturns
