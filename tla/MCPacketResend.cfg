SPECIFICATION FairSpec
CONSTANTS
  HEADER_SIZE = 2
  packet_size = 3
  Selections <- OneFile
  MaxTransfers = 1
  Garbage <- Misread
  Protocols = {"UDP"}
  MaxLoss = 1
  MaxDup = 0
  MaxEnds = 0
PROPERTY DroppedAreResent
CHECK_DEADLOCK FALSE
