CONSTANTS
  d1 = d1  d2 = d2
  l1 = l1  u1 = u1
  r1 = r1  r2 = r2
  w1 = w1  w2 = w2
  t1 = t1  t2 = t2  t3 = t3 
  Delivery = {d1, d2}
  Lane = {l1}
  User = {u1}
  Replica = {r1}
  Worker = {w1, w2}
  Token = {t1, t2, t3}
  LaneOf <- OneLane
  OwnerOf <- OneOwner
  ReplicaOf <- SharedHome
  None = None
  MaxAttempts = 1
  MaxSeq = 2
SPECIFICATION Spec
SYMMETRY LaneSymmetry
INVARIANTS TypeOK LaneSerial ClaimKnowsAttempts
PROPERTIES DeferralIsFree OnlyTheClaimSettles KeepsPromise
