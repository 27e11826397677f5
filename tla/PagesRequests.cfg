SPECIFICATION RequestSpec
CONSTANTS
  Pages = {p1}
  Spelled = {p1}
  Conns = {c1}
  Ops = {o1}
  Bodies = {b1}
  Silent = {}
  Saves = {s1, s2}
  MaxExternal = 1
  MaxFailures = 1
  MaxEvents = 1
  MaxDocs = 1
  MaxCrashes = 0
SYMMETRY PagesSymmetry
INVARIANT PagesTypeOK
PROPERTY OwedOpsStayLoaded
CHECK_DEADLOCK FALSE
