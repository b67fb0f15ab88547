SPECIFICATION FairSpec
CONSTANTS
    Channels = {"s", "t", "mid", "out"}
    Sink = "out"
    Capacity = 1
    NumStages = 2
    Setups <- MCSetups
CHECK_DEADLOCK FALSE
INVARIANTS
    DeliversInOrder
    NoSendOnClosed
PROPERTIES
    EndsWithItsSources
    CancelledChildYields
    ReturnedIsFinal
