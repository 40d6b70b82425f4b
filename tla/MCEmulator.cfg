SPECIFICATION FairSpec
CONSTANTS
  p1 = p1
  p2 = p2
  p3 = p3
  p4 = p4
  P_SIZE = 3
  BUFLEN = 11
  Packet <- Four
  Resolvable <- Known
  SendMayFail = TRUE
  LossSettings <- Settings
  SocketRoom = 2
  NoByte = NoByte
INVARIANTS TypeOK WholePackets
PROPERTIES ImplementsChannel Drains
CHECK_DEADLOCK FALSE
