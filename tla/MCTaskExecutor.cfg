SPECIFICATION FairSpec
CONSTANTS
  Worker = {w1, w2, w3}
  Caller = caller
  Counts <- MCCounts
  Grains <- MCGrains
  MaxDispatches = 2
INVARIANTS
  NoWorkerOutlivesCall
  StatisticsExact
PROPERTIES
  ImplementsParallelFor
  CallsReturn
