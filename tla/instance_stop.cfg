SPECIFICATION Spec
CONSTANTS
  d1 = d1
  d2 = d2
  d3 = d3
  Daemons <- TwoDaemons
  Stops = {s1}
  Clients = {}
  None = None
  StopsOverlap = TRUE
  EndsOverlap = FALSE
SYMMETRY InstanceSymmetry
CHECK_DEADLOCK FALSE
INVARIANTS
  OneServing
