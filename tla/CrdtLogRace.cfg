SPECIFICATION CoreSpec
CONSTANTS
  Pages = {p1}
  Conns = {c1, c2}
  Ops = {o1, o2}
  Bodies = {}
  MaxDocs = 1
  MaxCrashes = 0
SYMMETRY Symmetry
INVARIANT LogCoversUnwritten
CHECK_DEADLOCK FALSE
