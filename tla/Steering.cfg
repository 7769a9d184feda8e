SPECIFICATION Spec
CONSTANTS
  Steer = {s1, s2}
  Run = {r1, r2}
  None = None
  MaxDepth = 2
  Faults = {"append", "reply", "restore", "release", "crash"}
  MaxGen = 3
  MaxAction = 2
SYMMETRY Symmetry
INVARIANTS TypeOK ReceiptTellsPlace VoicedOnce RecoveredIsSaved OneOwner
PROPERTIES PauseIsSaved KeepsLedger
CHECK_DEADLOCK FALSE
