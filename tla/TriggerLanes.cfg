CONSTANTS
  l1 = l1  u1 = u1
  c1 = c1  c2 = c2
  Delivery = {1, 2}
  Lane = {l1}
  User = {u1}
  Deletable = {u1}
  Call = {c1, c2}
  None = None
  LaneOf <- OneLane
  OwnerOf <- OneOwner
  MaxTime = 1
  MaxSeq = 2
  MaxRequeues = 0
  MaxRollbacks = 0
  MaxLosses = 1
SPECIFICATION WatchedSpec
SYMMETRY CallSymmetry
INVARIANTS TypeOK CounterCoversLane 
PROPERTIES KeepsPromise
CHECK_DEADLOCK FALSE
