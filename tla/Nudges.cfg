SPECIFICATION Spec
CONSTANTS
  MaxMsg = 4
  MaxFolds = 1
  MaxLate = 1
  Engines = {"rust", "plugin"}
  Frequency = 2
  Threshold = 2
  NudgeForce = "soft"
  InjectionMode = "append_text"
INVARIANTS
  TypeOK
PROPERTIES
  PluginNudgesWhenFull
  NudgesStay
  TurnNudgedOnce
CHECK_DEADLOCK FALSE
