CONSTANTS
  s1 = s1  s2 = s2
  c1 = c1  c2 = c2
  r1 = r1  r2 = r2
  None = None
  Ghost = Ghost
  Interval = 3
  MaxRetries = 1
  RetryDelay = 0
  MaxDelay = 1
  ResignAgain = FALSE
  Server = {s1, s2}
  Call = {c1, c2}
  Renewal = {r1, r2}
  HomeOf <- Apart
  Lease = 7
SPECIFICATION Spec
INVARIANTS TypeOK LeaderHoldsKey
PROPERTIES YesIsCurrent
