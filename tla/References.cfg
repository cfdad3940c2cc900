SPECIFICATION Spec
CONSTANTS
  MaxMsg = 6
  MaxRef = 3
  MaxBlocks = 1
  MaxRuns = 1
  MaxEntries = 1
  Unlisted = {2, 3}
  Invalid = {3}
  HostPasses = {"session"}
  EndKinds = {"m", "b"}
  Oversizes = {FALSE}
  LooseForms = {{}}
INVARIANTS
  RefsInverse
  RefsChronological
