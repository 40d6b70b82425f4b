SPECIFICATION FairSpec
CONSTANTS
  u1 = u1
  u2 = u2
  red = red
  blue = blue
  User <- TwoUsers
  Name <- TwoNames
  NoName = NoName
  MaxConns = 2
  QUEUE = 5
  MAX_CHANNELS = 2
  MAX_CLIENTS = 2
  MaxCommands = 2
  MaxGhosts = 1
  MaxSaid = 1
  MaxUp = 1
  Commands <- Typed
  MayKill = TRUE
INVARIANTS TypeOK NoCrossTalk
PROPERTIES ImplementsRooms JoinsAnswered LeavesEnd
CHECK_DEADLOCK FALSE
