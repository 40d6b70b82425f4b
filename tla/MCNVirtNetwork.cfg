SPECIFICATION Spec
CONSTANTS
  A = A
  B = B
  Host <- Both
  Sizes = {0, 3}
  Windows = {0, 1, 2}
  MaxSends <- OneEach
  SendMayFail = TRUE
  UndefinedOutcomes = {"crash", "continue"}
INVARIANTS TypeOK CountersAgree FirstAcksSound
PROPERTIES FirstIsReliable

CHECK_DEADLOCK FALSE
