CONSTANTS
    NodeCount = 3
    rest = rest
    slow = slow
    fast = fast
    Still = Still
    MotionState <- MCMotionState
    Stationary <- MCStationary
    MaxBatch = 3
    MaxGeneration = 2
SPECIFICATION Spec
INVARIANTS SpansDetectable LastUpdateWins
CHECK_DEADLOCK FALSE
