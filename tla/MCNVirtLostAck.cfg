SPECIFICATION Spec
CONSTANTS
  A = A
  B = B
  Host <- Both
  Sizes = {2}
  Windows = {2}
  MaxSends <- TwoNone
  SendMayFail = FALSE
  UndefinedOutcomes = {"continue"}
  MaxLoss = 1
  Room = 6
INVARIANT LossTimesOut
CHECK_DEADLOCK FALSE
