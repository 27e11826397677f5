SPECIFICATION CoreLiveSpec
CONSTANTS
  Pages = {p1}
  Conns = {c1, c2}
  Ops = {o1, o2}
  Bodies = {}
  MaxDocs = 1
  MaxCrashes = 1
INVARIANTS CleanMeansOnDisk LogHoldsOnlyUnwritten
PROPERTIES DiskKeepsEdits ImplementsDurablePages AppliedOpsReachDisk RecoveryEnds
CHECK_DEADLOCK FALSE
