CONSTANTS
  p1 = p1
  a1 = a1
  c1 = c1
  i1 = i1
  i2 = i2
  k1 = k1
  None = None
  Publisher <- OnePublisher
  Auther <- OneAuther
  Counter <- OneCounter
  Challenge <- OneChallenge
  Id <- Ids
  IdOf <- DistinctIds
  MaxCalls = 2
  MaxAnswers = 1
  MaxPings = 2
SPECIFICATION FairSpec
INVARIANT NoNilClose
INVARIANT SuccessMeansAcceptedOrLost
INVARIANT CallbacksMatchWaits
PROPERTY CallsReturn
PROPERTY TeardownCompletes
PROPERTY BreakIsNoticed
PROPERTY ChallengeWakesAuth
CHECK_DEADLOCK FALSE
