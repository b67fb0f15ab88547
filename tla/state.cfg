SPECIFICATION FairSpec
CONSTANTS
  c1 = c1
  c2 = c2
  Clients <- MCClients
  Values = {"a", "z"}
  Zero = "z"
  Setups <- MCSetups
  MaxTimers = 2
CHECK_DEADLOCK FALSE
INVARIANTS LoadIsFresh WriteThrough
PROPERTIES ImplementsCell CallReturns
