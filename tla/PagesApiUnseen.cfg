SPECIFICATION ApiSpec
CONSTANTS
  Pages = {p1}
  Spelled = {p1}
  Conns = {c1}
  Ops = {}
  Bodies = {b1}
  Silent = {}
  Saves = {s1}
  MaxExternal = 0
  MaxFailures = 1
  MaxEvents = 1
  MaxDocs = 1
  MaxCrashes = 0
SYMMETRY PagesSymmetry
INVARIANT QuietDocumentsAreCurrent
CHECK_DEADLOCK FALSE
