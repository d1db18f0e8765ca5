CONSTANTS
  ROWS = 2
  COLUMNS = 2
  Depth = 2
  Script <- MCScript
SPECIFICATION Spec
INVARIANTS
  TypeOK
  CountsBalance
  RoutedRight
  PopIsPending
  MonitorKeepsUp
  ExactlyOnce
  OrderKept
PROPERTIES
  ArbitersImplemented
  DriversImplemented
  Drains
