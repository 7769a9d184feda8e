CONSTANTS
  l1 = l1  u1 = u1
  c1 = c1  c2 = c2
  Delivery = {1, 2}
  Lane = {l1}
  User = {u1}
  Deletable = {u1}
  Call = {c1}
  None = None
  LaneOf <- OneLane
  OwnerOf <- OneOwner
  MaxTime = 2
  MaxSeq = 3
  MaxRequeues = 1
  MaxRollbacks = 1
  MaxLosses = 1
SPECIFICATION FairSpec
INVARIANTS SequencesDiffer
PROPERTIES PublishedAtTail StagedIsPublished
CHECK_DEADLOCK FALSE
