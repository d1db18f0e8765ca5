CONSTANTS
  Drvrs = 3
  Bcast = 255
  MaxPackets <- MCMaxPackets
  PckgSz = 3
SPECIFICATION Spec
INVARIANTS
  WordIsAligned
PROPERTIES
  GrantIsKept
  TransfersPackets
  AllArrive
