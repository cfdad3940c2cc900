SPECIFICATION Spec
CONSTANTS
  MaxMsg = 3
  MaxBlocks = 1
  Shapes = {"text", "text+call"}
  Paths = {"a", "b"}
  Inputs = {"edit"}
  NoInput = NoInput
  PathsOf <- FilesOf
  DedupProtected = {}
  PurgeProtected = {}
  StaleProtected = {}
  ProtectedPaths = {}
  Forms = {"bare", "summary", "block"}
  PurgeTurns = 1
  Modes = {"agent-message", "manual"}
PROPERTIES
  SummaryReachesModel
