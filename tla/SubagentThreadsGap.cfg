SPECIFICATION Spec
CONSTANTS
  r0 = r0  t1 = t1  a1 = a1
  c1 = c1  c2 = c2
  d1 = d1  d2 = d2
  Task = {c1}
  Thread = {t1}
  ThreadOf <- OneThread
  AttemptOf <- OneAttempt
  Continuing = {}
  Root = r0
  Deletion = {d1}
  None = None
  Ttl = 2
  Window = 2
  MaxFences = 1
  MaxTime = 2
  MaxBegun = 2
  MaxFaults = 0
PROPERTIES NoWorkOutlivesDeletion
CHECK_DEADLOCK FALSE
