SPECIFICATION Spec
CONSTANTS
  MaxMsg = 2
  MaxRef = 9
  MaxBlocks = 3
  MaxRuns = 3
  MaxEntries = 2
  Unlisted = {}
  Invalid = {}
  HostPasses = {"session", "output"}
  EndKinds = {"m", "b"}
  Oversizes = {TRUE}
  LooseForms = {{}, {0}}
INVARIANTS
  RebuildAgrees
  LineageConsistent
  IncludedIsClosure
PROPERTIES
  ImplementsLedger
