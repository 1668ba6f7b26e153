SPECIFICATION Spec
CONSTANTS
  Scene <- MCScene
  Capacity = 2
  GenerationModulus = 8
  TriggerMode = "OnReadyAndExternalRequests"
  InitialSpawnCount = 1
  Declares = {TRUE, FALSE}
  MaxSpawns = 2
  MaxDespawns = 1
  MaxActivations = 2
INVARIANTS
  LeaseHeld
  ActiveIsComplete
  BoundEntitiesExist
  EntitiesOwned
  AnswersCoherent
  StrandedOnlyByControllers
CHECK_DEADLOCK FALSE
