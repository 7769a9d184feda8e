SPECIFICATION OrderSpec
CONSTANTS
  Steer = {s1, s2}
  Run = {r1, r2}
  None = None
  MaxDepth = 2
  Faults = {"append", "crash"}
  MaxGen = 2
  MaxAction = 1
INVARIANTS DeliveredIsVoiced
PROPERTIES InOrder OnlyTheDriverFails AcceptedSettles
CHECK_DEADLOCK FALSE
