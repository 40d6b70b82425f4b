SPECIFICATION Spec
CONSTANTS
  A = A
  B = B
  Host <- Both
  Sizes = {2}
  Windows = {2}
  MaxSends <- TwoNone
  SendMayFail = FALSE
  UndefinedOutcomes = {"continue"}
  MaxLoss = 1
  Room = 6
INVARIANT CompletedIsDelivered
CHECK_DEADLOCK FALSE
