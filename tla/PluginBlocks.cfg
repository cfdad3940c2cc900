SPECIFICATION Spec
CONSTANTS
  MaxMsg = 2
  MaxBlocks = 3
  Calls = {c1, c2}
  MaxEntries = 2
  Modes = {"range", "message"}
SYMMETRY CallSymmetry
INVARIANTS
  TypeOK
  IndexesAgree
  FoldedStaysHidden
  ActiveIsDerived
PROPERTIES
  SummaryGoesOut
CHECK_DEADLOCK FALSE
