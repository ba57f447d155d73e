SPECIFICATION Spec
CONSTANTS
  d1 = d1
  d2 = d2
  d3 = d3
  Daemons <- ThreeDaemons
  Stops = {s1}
  Clients = {c1}
  None = None
  StopsOverlap = FALSE
  EndsOverlap = FALSE
SYMMETRY InstanceSymmetry
CHECK_DEADLOCK FALSE
INVARIANTS
  OneServing
  Reachable
PROPERTIES
  RefusedByTheLiving
