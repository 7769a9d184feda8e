CONSTANTS
  s1 = s1  s2 = s2
  c1 = c1  c2 = c2
  r1 = r1  r2 = r2
  None = None
  Ghost = Ghost
  Interval = 4
  MaxRetries = 1
  RetryDelay = 1
  MaxDelay = 1
  ResignAgain = TRUE
  Server = {s1}
  Call = {c1, c2}
  Renewal = {r1}
  HomeOf <- Together
  Lease = 9
SPECIFICATION FairSpec
PROPERTIES IdleKeyExpires
