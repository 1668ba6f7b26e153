SPECIFICATION Spec
CONSTANTS
  Scene <- MCScene
  Capacity = 1
  GenerationModulus = 8
  TriggerMode = "OnReadyAndExternalRequests"
  InitialSpawnCount = 1
  Declares = {TRUE}
  MaxSpawns = 2
  MaxDespawns = 1
  MaxActivations = 1
INVARIANTS
  NoOrphanSlots
CHECK_DEADLOCK FALSE
