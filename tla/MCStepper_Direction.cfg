CONSTANTS
  MaxRotations = 3
  WorkerRounds = 2
  InitialDirection = 1
  Directions <- MCDirections
  Turns <- MCTurns
SPECIFICATION Spec
PROPERTY DirectionObeyed
