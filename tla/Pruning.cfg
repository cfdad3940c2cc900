SPECIFICATION Spec
CONSTANTS
  MaxMsg = 6
  MaxBlocks = 1
  Shapes = {"text+call"}
  Paths = {"a", "b"}
  Inputs = {"read", "edit"}
  NoInput = NoInput
  PathsOf <- FilesOf
  DedupProtected = {}
  PurgeProtected = {}
  StaleProtected = {}
  ProtectedPaths = {}
  Forms = {"summary"}
  PurgeTurns = 2
  Modes = {"manual"}
INVARIANTS
  MostRecentKept
PROPERTIES
  RebuildPrunesSame
  ErrorStaysVisible
