CONSTANTS
  p1 = p1
  a1 = a1
  c1 = c1
  i1 = i1
  i2 = i2
  k1 = k1
  None = None
  Publisher <- OnePublisher
  Auther <- Nobody
  Counter <- Nobody
  Challenge <- OneChallenge
  Id <- Ids
  IdOf <- DistinctIds
  MaxCalls = 1
  MaxAnswers = 1
  MaxPings = 2
SPECIFICATION Spec
INVARIANT NilMeansAccepted
CHECK_DEADLOCK FALSE
