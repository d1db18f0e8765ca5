CONSTANTS
  ROWS = 4
  COLUMNS = 4
  Flits <- MCFlits
SPECIFICATION Spec
INVARIANTS
  TypeOK
  ExitsAtTarget
  OnlyInnerFlitsSink
  FlitsReachAddress
PROPERTIES
  HopsApproach
  TurnsOnce
CHECK_DEADLOCK FALSE
