SPECIFICATION Spec
CONSTANTS
  Steer = {s1, s2}
  Run = {r1, r2}
  None = None
  MaxDepth = 2
  Faults = {}
  MaxGen = 2
  MaxAction = 1
PROPERTIES RecoveryOwnsItsSource
CHECK_DEADLOCK FALSE
