SPECIFICATION Spec
CONSTANTS
  Sessions = {s1, s2}
  NoSession = NoSession
  Tasks = {t1, t2}
  Kinds = {"request", "compress", "toggle", "trigger"}
  Hosts = {"V1", "V2"}
  ManualDefault = FALSE
  MaxStarts = 2
  MaxCompactions = 1
  MaxCrashes = 1
INVARIANTS
  TypeOK
  SessionsKeptApart
  MemoryAgreesWithFile
PROPERTIES
  HandlersEnd
  TornIsTransient
CHECK_DEADLOCK FALSE
