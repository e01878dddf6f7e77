CONSTANTS
  e1 = e1
  e2 = e2
  None = None
  Event <- TwoEvents
  MaxEose = 1
  CancelStages <- Stages
SPECIFICATION Spec
INVARIANT NoSendOnClosed
CHECK_DEADLOCK FALSE
