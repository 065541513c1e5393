CONSTANTS
  s1 = s1
  s2 = s2
  Sensors <- MCSensors
  Readings <- MCReadings
  Mins <- MCMins
  Maxs <- MCMaxs
  DefaultMin = 1
  DefaultMax = 2
SPECIFICATION Spec
SYMMETRY Symmetry
INVARIANTS
  TypeOK
  RolesAreWatched
  NoCommandBeforeBoth
  StaleOnlyByLoss
