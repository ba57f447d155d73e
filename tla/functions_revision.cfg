SPECIFICATION Spec
CONSTANTS
  Files = {1}
  r1 = r1
  r2 = r2
  Revs <- MCRevs
  Threads = {t1}
  MaxGeneration = 3
  MaxEdits = 2
  NoKey = NoKey
  NoFlight = NoFlight
  NoValue = NoValue
INVARIANTS
  BuiltFromItsRevision
