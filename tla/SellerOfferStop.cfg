SPECIFICATION Spec
CONSTANTS
  MaxPosts = 2
  MaxFaults = 1
  MaxStarts = 1
INVARIANT
  StopLeavesNothing
CHECK_DEADLOCK FALSE
