CONSTANTS
  MaxRotations = 3
  WorkerRounds = 2
  InitialDirection = 0
  Directions <- MCDirections
  Turns <- MCTurns
SPECIFICATION Spec
INVARIANTS
  TypeOK
  MutexDiscipline
  ParkedByFlag
  ReleasedWhenIdle
  ExactWhenAlone
PROPERTIES
  KeepsPromise
  CommandsComplete
  ResumedMotorRuns
  StoppedWorkerParks
  DirectionObeyed
  FlagFollowsCommand
