SPECIFICATION EventsFairSpec
CONSTANTS
    k1 = k1
    v1 = v1
    v2 = v2
    Keys = {k1}
    Contents = {v1, v2}
    Nothing = nothing
    ZeroContent = v1
    NumWorkers = 1
    InitMaps <- MCInitMaps
    MaxOperations = 2
CHECK_DEADLOCK FALSE
INVARIANTS
    ReplayReproduces
PROPERTIES
    NobodyWaitsForListeners
