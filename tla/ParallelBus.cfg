CONSTANTS
  Drvrs = 3
  Bcast = 255
  MaxPackets <- MCMaxPackets
SPECIFICATION Spec
INVARIANTS
  WriterAlone
  Delivered
PROPERTIES
  TurnIsPassedOn
  TransfersPackets
  AllArrive
