SPECIFICATION SupervisorFairSpec
CONSTANTS
    a = a
    k1 = k1
    w1 = w1
    Callers = {a}
    Keys = {k1}
    Workers = {w1}
    PartitionOf <- MCPartitionOf
    BufferSize = 1
    MaxCalls = 2
    Parent = parent
    Handler = handler
    NoCall = none
    AwaitMode = "bare"
    Batch <- MCBatch
CHECK_DEADLOCK FALSE
PROPERTIES
    CloseJoinsChildren
    ListedChildrenStop
    TeardownHangsOnLateChildrenOnly
    BareWaitHangsOnlyInBuffer
