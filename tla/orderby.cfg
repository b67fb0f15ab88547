SPECIFICATION FairSpec
CONSTANTS
  WindowSizes = {1, 2}
  Keys = {1, 2, 3}
  MaxInput = 5
CHECK_DEADLOCK FALSE
INVARIANT MatchesReference
PROPERTY FlushedAfterClose
