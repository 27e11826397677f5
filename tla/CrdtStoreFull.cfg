SPECIFICATION Spec
CONSTANTS
  Pages = {p1, p2}
  Conns = {c1, c2}
  Ops = {o1}
  Bodies = {b1}
  MaxDocs = 1
  MaxCrashes = 1
SYMMETRY Symmetry
INVARIANTS TypeOK CountBoundedByConnections
PROPERTY GrowsOnlyWhenAllActive
CHECK_DEADLOCK FALSE
