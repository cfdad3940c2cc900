SPECIFICATION Spec
CONSTANTS
  MaxMsg = 3
  MaxRef = 9
  MaxBlocks = 3
  MaxRuns = 3
  MaxEntries = 1
  Unlisted = {}
  Invalid = {}
  HostPasses = {"session", "output"}
  EndKinds = {"m"}
  Oversizes = {FALSE}
  LooseForms = {{}, {0}}
INVARIANTS
  TypeOK
  ActiveIndexAgrees
  AnchorLookupSound
  SummaryCarriesIncluded
  IncludedIsClosure
