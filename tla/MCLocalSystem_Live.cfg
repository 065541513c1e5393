SPECIFICATION Spec
CONSTANTS
  s1 = s1
  s2 = s2
  Sensors <- MCSensors
  Capacity = 1
  Registers <- MCRegisters
  CharIsSigned = FALSE
  DEFAULT_MIN = 128
  DEFAULT_MAX = 256
  Limits <- NoLimits
  MaxControls = 1
CHECK_DEADLOCK FALSE
PROPERTIES
  ReadingIsUsed
  PromptEnds
