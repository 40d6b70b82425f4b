SPECIFICATION FairSpec
CONSTANTS
  HEADER_SIZE = 2
  packet_size = 3
  Selections <- Mixed
  MaxTransfers = 2
  Garbage <- Misread
  Protocols = {"TCP", "UDP"}
  MaxLoss = 1
  MaxDup = 1
  MaxEnds = 1
INVARIANTS TypeOK TakenInOrder CompletedIsReceived EndsWithLast
PROPERTY TransferArrives
CHECK_DEADLOCK FALSE
