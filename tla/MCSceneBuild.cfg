CONSTANTS
    SceneEntity = {1, 2}
    NoEntity = NoEntity
    Owner = {1, 2, 3}
    PrefabOf <- MCPrefabOf
    Prefab = {"p", "q", "b"}
    BadPrefab = {"b"}
    PermanentNodes <- MCPermanentNodes
    BadConfig = {2}
    NoScene = NoScene
    SystemStops = TRUE
    MaxTokens = 2
    MaxScenes = 2
    MaxCollections = 1
SPECIFICATION FairSpec
INVARIANTS AnsweredOnce ReadyIsWhole ScenesOwned NoneLost
PROPERTY BuildsEnd
CHECK_DEADLOCK FALSE
