SPECIFICATION Spec
CONSTANTS
  Tasks = {t1, t2}
  Pruners = {p1, p2}
  Sessions = {s1}
  KeepBackup = TRUE
  MaxChanges = 1
  MaxRuns = 2
  MaxLosses = 1
  None = None
  Half = Half
INVARIANTS
  TypeOK
  AcknowledgedSurvives
PROPERTIES
  ImplementsSavedSessions
  CallsReturn
CHECK_DEADLOCK FALSE
