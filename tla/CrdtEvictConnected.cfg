SPECIFICATION Spec
CONSTANTS
  Pages = {p1}
  Conns = {c1, c2}
  Ops = {o1}
  Bodies = {}
  MaxDocs = 1
  MaxCrashes = 0
SYMMETRY Symmetry
INVARIANT ConnectedHaveDocument
CHECK_DEADLOCK FALSE
