SPECIFICATION FairSpec
CONSTANTS
    o1 = o1
    o2 = o2
    o3 = o3
    Owners = {o1, o2, o3}
    NumOwners = 1
    TTL = 1
    Setups <- MCSetups
CHECK_DEADLOCK FALSE
INVARIANTS
    SlotsMatchHolders
    OneExtraHolder
PROPERTIES
    AcquirerReturns
    FilterEndsWithPair
