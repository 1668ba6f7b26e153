CONSTANTS
    Node <- MCNode
    NoNode <- MCNoNode
    Parent <- MCParent
    Transform <- MCTransform
    Compose <- MCCompose
    Motion = {1}
    Still = Still
    integrate <- MCIntegrate
    MaxRevision = 6
    MaxTick = 2
    Slot = {1, 2}
    NodesOf <- MCNodesOf
    InitialLocal <- MCInitialLocal
    Entity = {"e1", "e2"}
    NoEntity = NoEntity
    Offset <- MCOffset
    GetInverse <- MCGetInverse
    FixedStep = 2
    MaxCatchUpSteps = 2
    FrameDeltas = {1, 5}
    EpochWidth = 3
    Commands <- MCCommands
    Writes <- MCWrites
    MaxQueue = 1
    LastEdit = 4
    LastTick = 1
SPECIFICATION FairSpec
INVARIANTS DirectBatchExact QuiescentShown BindingTableAgrees HeadRoomExact
PROPERTIES WorldCorrectionExact EventuallyShown
CHECK_DEADLOCK FALSE
