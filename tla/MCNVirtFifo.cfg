SPECIFICATION FairSpec
CONSTANTS
  A = A
  B = B
  Host <- Both
  Sizes = {2}
  Windows = {1}
  MaxSends <- TwoOne
  SendMayFail = FALSE
  UndefinedOutcomes = {"continue"}
  MaxLoss = 1
  Room = 5
INVARIANTS LosslessIsDelivered LosslessIdleTimer
PROPERTIES EveryTransferEnds LosslessSendsOnce LosslessIsQueue ImplementsNetwork
CHECK_DEADLOCK FALSE
