SPECIFICATION Spec
CONSTANTS
  Scene = {1}
  Capacity = 2
  GenerationModulus = 3
  Entities = {1}
  Owners = {1}
  MaxQueue = 2
  MaxReleases = 2
INVARIANTS
  EndedLeasesStayEnded
  DormantSlotsClean
  ControllersHoldLease
  LeasesUnique
CHECK_DEADLOCK FALSE
