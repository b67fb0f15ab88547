SPECIFICATION MCSpec
CONSTANTS
    a = a
    b = b
    k1 = k1
    k2 = k2
    k3 = k3
    w1 = w1
    w2 = w2
    Callers = {a, b}
    Keys = {k1, k2, k3}
    Workers = {w1, w2}
    PartitionOf <- MCHash
    BufferSize = 2
    MaxCalls = 2
    Parent = parent
    Handler = handler
    NoCall = none
SYMMETRY Symmetric
CHECK_DEADLOCK FALSE
INVARIANTS
    PerKeyOrder
    PerKeyExclusion
    AtMostOnce
    RecoveredOnlyWhenDone
PROPERTIES
    ImplementsKeyedExecutor
