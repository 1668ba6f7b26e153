CONSTANTS
    Slot = {1, 2}
    Node = {1, 2, 3}
    NodesOf <- MCNodesOf
    Type = {"a", "b"}
    Declarations <- MCDeclarations
    Kind = {"motion"}
    Value = {0, 1}
    None = None
    HandleWidth = 3
    MaxLease <- MCMaxLease
    MaxEpoch = 4
    MaxCommands = 2
SPECIFICATION Spec
INVARIANTS TargetsExact TokensFaithful HandlesNeverRevive FreeSlotsStill CallbacksApplyExactly
CHECK_DEADLOCK FALSE
