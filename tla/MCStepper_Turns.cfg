CONSTANTS
  MaxRotations = 3
  WorkerRounds = 2
  InitialDirection = 0
  Directions <- MCDirections
  Turns <- MCTurns
SPECIFICATION Spec
INVARIANT TurnsAreRotated
