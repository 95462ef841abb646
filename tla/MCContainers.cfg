SPECIFICATION Spec
CONSTANTS
  Calls = {1, 2}
  ReqsOf <- MCReqsOf
  MaxBoxes = 2
CHECK_DEADLOCK FALSE
INVARIANT RunAnswersHold
PROPERTIES RunningIsKept CallsAnswered PodsCollected
