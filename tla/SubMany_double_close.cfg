CONSTANTS
  r1 = r1
  r2 = r2
  e1 = e1
  None = None
  Relay <- TwoRelays
  Event <- OneEvent
  Repeats = 0
  Reasons <- BothReasons
  MaxSubs <- Once
  CanBreak = FALSE
SPECIFICATION Spec
INVARIANT ClosedOnce
CHECK_DEADLOCK FALSE
