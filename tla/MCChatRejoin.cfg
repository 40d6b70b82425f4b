SPECIFICATION Spec
CONSTANTS
  u1 = u1
  u2 = u2
  red = red
  blue = blue
  User <- TwoUsers
  Name <- OneName
  NoName = NoName
  MaxConns = 3
  QUEUE = 5
  MAX_CHANNELS = 1
  MAX_CLIENTS = 3
  MaxCommands = 1
  MaxGhosts = 1
  MaxSaid = 1
  MaxUp = 2
  Commands <- CreateOne
  MayKill = FALSE
INVARIANTS JoinedIsMember
PROPERTY ImplementsRooms
SYMMETRY Users
CHECK_DEADLOCK FALSE
