SPECIFICATION FairSpec
CONSTANTS
  Scene <- MCScene
  Capacity = 1
  GenerationModulus = 8
  TriggerMode = "OnReadyAndExternalRequests"
  InitialSpawnCount = 1
  Declares = {TRUE}
  MaxSpawns = 2
  MaxDespawns = 2
  MaxActivations = 1
PROPERTIES
  RequestsAnswered
CHECK_DEADLOCK FALSE
