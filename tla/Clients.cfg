CONSTANTS
  c1 = c1
  c2 = c2
  s1 = s1
  r1 = r1
  None = None
  MaxItem = 6
  Buckets = 2
  FrameLimit <- SmallFrames
  Call <- TwoCalls
  KeyCall <- TwoCalls
  Relays = 1
  MaxSerial = 2
  MaxResponses = 3
  Sends = {s1}
  Receives = {r1}
  Amounts <- SmallAmounts
  Fee = 0
  StoredTokens = 2
  StoredWorth <- SmallWorth
  SpentBefore = {1}
  Replaced <- SmallReplaced
  WalletStarts <- SmallStarts
  MaxToken = 4
SPECIFICATION MCSpec
INVARIANT OwnAnswer
 
INVARIANT SyncIsComplete
INVARIANT Balanced
PROPERTY CallEnds
PROPERTY Terminates
PROPERTY SyncEnds
PROPERTY CallsSettle
CHECK_DEADLOCK FALSE
