SPECIFICATION Spec
CONSTANTS
  Cars = {c1, c2}
  Windows = {1, 2}
  None = None
  Terminals = {1, 2}
  Ports = {"com1"}
  Keys = {"a", "b"}
  MaxLine = 2
  Options = {"bg"}
  Values = {0, 4}
  Default = 4
  Axes = {"v"}
  MaxPos = 1
  MaxShapes = 2
  MaxParties = 1
  MAX_USER_NAME = 1
  MAX_CHANNEL_NAME = 1
  MAX_STRING = 2
  MAX_CLIENTS = 1
  MaxLines = 4
  MaxConns = 2
  MaxHeard = 1
INVARIANTS TypesOK OneWinner SessionHolds ShownAsSent OptionsAgree CommandsInOrder ReadAsWritten
PROPERTIES RaceEnds NotedIsClosed StoredWhereDrawn DrawingKept EveryLineTaken
CHECK_DEADLOCK FALSE
