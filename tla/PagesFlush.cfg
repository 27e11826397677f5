SPECIFICATION FlushSpec
CONSTANTS
  Pages = {p1}
  Spelled = {p1}
  Conns = {c1}
  Ops = {o1, o2}
  Bodies = {}
  Silent = {}
  Saves = {}
  MaxExternal = 1
  MaxFailures = 1
  MaxEvents = 1
  MaxDocs = 1
  MaxCrashes = 0
SYMMETRY PagesSymmetry
PROPERTY OwedOpsStayLoaded
CHECK_DEADLOCK FALSE
