SPECIFICATION Spec
CONSTANTS
  para = para
  typedLink = typedLink
  bold = bold
  rule = rule
  broken = broken
  Files = {f1}
  Procs = {p1, p2}
  Levels = {1, 2}
  Prose = {para, typedLink, bold}
  Edged = {typedLink}
  Logics = {rule, broken}
  Said <- MCSaid
  Unparsable = {broken}
  Texts <- MCTexts
  Commands = {"check", "reason", "reason --no-cache"}
  MaxWrites = 2
  MaxCommands = 2
INVARIANTS
  VaultTypeOK
  IndexFollowsFiles
  ReasonIsCurrent
  DriftIsReal
  DriftIsReported
SYMMETRY Symmetry
CHECK_DEADLOCK FALSE
