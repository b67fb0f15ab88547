SPECIFICATION ResumableFairSpec
CONSTANTS
    a = a
    b = b
    k1 = k1
    w1 = w1
    Callers = {a, b}
    Keys = {k1}
    Workers = {w1}
    PartitionOf <- MCPartitionOf
    BufferSize = 1
    MaxCalls = 1
    Parent = parent
    Handler = handler
    NoCall = none
    AwaitMode = "select"
CHECK_DEADLOCK FALSE
INVARIANTS
    WorkerNeverPanics
    ResultIsEarned
    ResultLostOnlyWhenDone
PROPERTIES
    AcceptedIsResumed
    EndedScopeReleases
