SPECIFICATION Spec
CONSTANTS
  s1 = s1
  s2 = s2
  Sensors <- MCSensors
  Capacity = 1
  Registers <- MCRegisters
  CharIsSigned = FALSE
  DEFAULT_MIN = 128
  DEFAULT_MAX = 256
  Limits <- MCLimits
  MaxControls = 2
SYMMETRY Symmetry
CHECK_DEADLOCK FALSE
INVARIANTS
  TypeOK
  KnownOrUnread
  LightFollowsReadings
PROPERTIES
  ImplementsFeed
