CONSTANTS
  None = None
  s1 = s1
  Send <- OneSend
  Receive = {}
  Amount <- Amounts
  Fee = 0
  Stored = 2
  Worth <- Worths
  SpentBefore = {1}
  Deletes <- Replaces
  Starts <- OneStart
  MaxToken = 3
SPECIFICATION FairSpec
PROPERTY OperationsEnd
CHECK_DEADLOCK FALSE
