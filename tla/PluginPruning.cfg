SPECIFICATION Spec
CONSTANTS
  Kinds <- MCKinds
  NoInput = "none"
  ProtectedParams = {"q"}
  ProtectedTools <- DefaultLists
  PurgeTurns = 1
  ProtectTurns = {0, 1}
  Automatic = FALSE
  MaxCache = 2
  MaxMsgs = 5
  MaxCalls = 3
  MaxStep = 1
  MaxSweeps = 1
  MaxBlocks = 1
INVARIANTS
  SeenBeforePruned
  ProtectedKept
PROPERTIES
  OneCopyLeft
CHECK_DEADLOCK FALSE
