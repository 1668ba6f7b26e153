CONSTANTS
    NoId = 0
    Absent = "none"
    NonFinite = "nan"
    Placement = "placement"
    Prefabs <- MCPrefabs
    Configurations <- MCConfigurations
    Edited <- MCEdited
    Renamed <- MCRenamed
SPECIFICATION Spec
INVARIANTS TopologyExact PlacedExactly
CHECK_DEADLOCK FALSE
