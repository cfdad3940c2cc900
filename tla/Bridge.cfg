SPECIFICATION BridgeSpec
CONSTANTS
  MaxHost = 3
  MaxMsg = 6
  MaxBlocks = 1
  Texts = {0, 1, 2}
  Shapes = {}
  Paths = {"a", "b"}
  Inputs = {"edit"}
  NoInput = NoInput
  PathsOf <- FilesOf
  DedupProtected = {}
  PurgeProtected = {}
  StaleProtected = {}
  ProtectedPaths = {}
  PurgeTurns = 1
  Forms = {"bare", "summary"}
  Modes = {"agent-message"}
PROPERTIES
  UndecidedStayWhole
  FoldedStaysOut
  ErrorReachesModel
CHECK_DEADLOCK FALSE
