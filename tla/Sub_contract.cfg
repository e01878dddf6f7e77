CONSTANTS
  e1 = e1
  e2 = e2
  None = None
  Event <- TwoEvents
  MaxEose = 2
  CancelStages <- AfterLive
SPECIFICATION FairSpec
INVARIANT NoSendOnClosed
INVARIANT EoseAfterStored
INVARIANT OneClose
PROPERTY KeepsContract
PROPERTY CancelledIsClosed
PROPERTY DisconnectEnds
PROPERTY EosePassedOn
CHECK_DEADLOCK FALSE
