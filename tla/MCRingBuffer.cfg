SPECIFICATION Spec
CONSTANTS
  Element = {e1, e2, e3, e4}
  NULL = NULL
  Capacities = {0, 1, 2, 3}
  NewCapacities = {1, 2, 3, 4}
SYMMETRY Symmetry
INVARIANTS CountedInArray Ownership FaultCause
PROPERTY RefinesQueue
CHECK_DEADLOCK FALSE
