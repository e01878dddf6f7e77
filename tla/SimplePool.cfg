CONSTANTS
  r1 = r1
  r2 = r2
  e1 = e1
  e2 = e2
  t1 = t1
  t2 = t2
  t3 = t3
  u1 = u1
  u2 = u2
  None = None
  Relay <- TwoRelays
  Event <- OneEvent
  Repeats = 0
  Reasons <- AuthRequired
  MaxSubs <- TwiceR1
  CanBreak = TRUE
SPECIFICATION MCSpec
INVARIANT EoseCountedOnce
INVARIANT NoSendAfterClose
INVARIANT EmittedOnce
INVARIANT FetchedOnce
 
INVARIANT OneSharedConnection
PROPERTY WaitersReleased
PROPERTY FetchEnds
PROPERTY PublishManyEnds
CHECK_DEADLOCK FALSE
