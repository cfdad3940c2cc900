SPECIFICATION Spec
CONSTANTS
  Sessions = {s1, s2}
  SubAgents = {s2}
  Agents = {a1, a2}
  Whole <- Layers
  HostRules <- Rules
  MaxFiles = 2
  Followed <- FollowedLayers
  MaxArrivals = 3
  None = None
  Null = Null
  Bad = Bad
  Odd = Odd
INVARIANTS
  SameFilesSameSettings
  PromptFollowsRules
SYMMETRY Alike
CHECK_DEADLOCK FALSE
