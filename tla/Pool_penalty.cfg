CONSTANTS
  t1 = t1
  t2 = t2
  t3 = t3
  t4 = t4
  u1 = u1
  u2 = u2
  u3 = u3
  Task <- Tasks
  Url <- Urls
  UrlOf <- TaskUrls
  LockOf <- Locks
  Proactive = TRUE
  AuthHandler = TRUE
  MaxDials = 3
  MaxSweeps = 2
SPECIFICATION Spec
PROPERTY PenaltyServed
CHECK_DEADLOCK FALSE
