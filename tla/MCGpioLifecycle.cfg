SPECIFICATION Spec
CONSTANTS
  p1 = p1
  p2 = p2
  Procs <- MCProcs
  InitialDirection = "1"
  Claims <- MCClaims
  MaxStarts = 4
SYMMETRY Symmetry
CHECK_DEADLOCK FALSE
INVARIANTS
  TypeOK
  RepairedStart
  ReadyOwnsLines
  CleanExit
  LeftOnOnlyInWindow
