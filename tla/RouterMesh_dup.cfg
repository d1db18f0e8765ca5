CONSTANTS
  ROWS = 2
  COLUMNS = 2
  Depth = 2
  Script <- MCScript
SPECIFICATION Spec
INVARIANT NoUnexpectedOut
