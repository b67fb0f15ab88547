SPECIFICATION FairSpec
CONSTANTS
  s1 = s1
  s2 = s2
  d1 = d1
  Subs = {s1, s2, s3, s4}
  Setups <- MCSetups
  NoChannel = NoChannel
  BufferSize = 1
  MaxArbiters = 2
CHECK_DEADLOCK FALSE
INVARIANTS SilentAfterUnsubscribe SourceOrder
PROPERTIES ReloadSeesAll ArbiterEndsWithSource
