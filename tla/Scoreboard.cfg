CONSTANTS
  Terminals <- MCTerminals
  Flits <- MCFlits
  Keys <- MCKeys
  KeyOf <- MCKeyOf
  None = none
SPECIFICATION BoardSpec
INVARIANTS
  NoFalseAlarm
  HearsAll
