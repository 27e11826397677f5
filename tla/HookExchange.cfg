\* One hook and its host; two requests, two lines nobody asked for, and a
\* channel and pipes of one place each.
SPECIFICATION HookLiveSpec
CONSTANTS
  MaxCalls = 2
  MaxExtras = 2
  ChanCap = 1
  PipeCap = 1
  OutCap = 1
INVARIANTS
  HookTypeOK
  NoOrphans
  AnswersMatch
PROPERTIES
  ImplementsHookHandle
  OperationsReturn
  PumpEnds
CHECK_DEADLOCK FALSE
