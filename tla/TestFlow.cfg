CONSTANTS
  Terminals <- MCTerminals
  NumItems = {2}
  NumScenarios = 2
  MaxLost = 1
  MaxDoubled = 1
  Flits <- MCFlits
  Keys <- MCKeys
  KeyOf <- MCKeyOf
SPECIFICATION FairFlow
CHECK_DEADLOCK FALSE
INVARIANTS
  ReportIsNet
  CountHidesLag
  RowsAreRight
PROPERTIES
  Terminates
