CONSTANTS
  r1 = r1
  r2 = r2
  e1 = e1
  e2 = e2
  None = None
  Relay <- TwoRelays
  Event <- TwoEvents
  CreatedAt <- Timestamps
  Has <- HasOf
  Calls <- ReplaceableOnly
  Reasons <- ReasonsOf
  MaxSubs <- SubsOf
SPECIFICATION Spec
INVARIANT LatestWins
CHECK_DEADLOCK FALSE
