SPECIFICATION Spec
CONSTANTS
  Steer = {s1, s2}
  Run = {r1, r2}
  None = None
  MaxDepth = 2
  Faults = {"release"}
  MaxGen = 1
  MaxAction = 1
PROPERTIES OnlyTheDriverFails
CHECK_DEADLOCK FALSE
