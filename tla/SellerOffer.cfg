SPECIFICATION Spec
CONSTANTS
  MaxPosts = 2
  MaxFaults = 1
  MaxStarts = 2
INVARIANT
  NoSecondSell
  JournalNamesSell
  CleanStop
PROPERTY
  RelistedOrReported
CHECK_DEADLOCK FALSE
