SPECIFICATION WatchLiveSpec
CONSTANTS
  Pages = {p1}
  Spelled = {p1}
  Conns = {c1}
  Ops = {o1}
  Bodies = {b1, b2}
  Silent = {b2}
  Saves = {}
  MaxExternal = 2
  MaxFailures = 1
  MaxEvents = 2
  MaxDocs = 1
  MaxCrashes = 0
 
PROPERTIES OwedOpsStayLoaded 
CHECK_DEADLOCK FALSE
