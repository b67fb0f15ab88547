SPECIFICATION FairSpec
CONSTANTS
    a = a
    b = b
    c = c
    Clients = {a, b, c}
    Depth = 3
    Setups <- MCSetups
    BufferSize = 1
    Idle = none
CHECK_DEADLOCK FALSE
PROPERTIES
    ImplementsLookup
    LookupsAreAnswered
    EndedScopeIsLeft
