SPECIFICATION Spec
CONSTANTS
  u1 = u1
  u2 = u2
  red = red
  blue = blue
  User <- TwoUsers
  Name <- TwoNames
  NoName = NoName
  MaxConns = 3
  QUEUE = 5
  MAX_CHANNELS = 2
  MAX_CLIENTS = 1
  MaxCommands = 2
  MaxGhosts = 1
  MaxSaid = 1
  MaxUp = 2
  Commands <- CreateTwo
  MayKill = FALSE
INVARIANT NoCrossTalk
SYMMETRY Users
CHECK_DEADLOCK FALSE
