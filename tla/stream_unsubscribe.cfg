SPECIFICATION Spec
CONSTANTS
  s1 = s1
  s2 = s2
  d1 = d1
  Subs = {s1, s2, s3, s4}
  Setups <- MCLeaving
  NoChannel = NoChannel
  BufferSize = 1
  MaxArbiters = 1
CHECK_DEADLOCK FALSE
INVARIANT RemovesOnlyThatSink
