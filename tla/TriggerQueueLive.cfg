CONSTANTS
  d1 = d1  d2 = d2
  l1 = l1  u1 = u1
  r1 = r1
  w1 = w1  w2 = w2
  t1 = t1  t2 = t2  t3 = t3
  Delivery = {d1, d2}
  Lane = {l1}
  User = {u1}
  Replica = {r1}
  Worker = {w1}
  Token = {t1, t2}
  LaneOf <- OneLane
  OwnerOf <- OneOwner
  ReplicaOf <- OneHome
  None = None
  MaxAttempts = 2
  MaxSeq = 2
  MaxFaults = 2
SPECIFICATION FairSpec
INVARIANTS AttemptBudget DeadForCause
PROPERTIES PublishedSettles
CHECK_DEADLOCK FALSE
