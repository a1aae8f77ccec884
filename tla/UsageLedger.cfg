SPECIFICATION Spec
CONSTANTS
  Requests = {r1, r2}
  MaxFaults = 3
  MaxRuns = 3
SYMMETRY Symmetry
CHECK_DEADLOCK FALSE
INVARIANT
  TotalsExact
INVARIANT
  NothingMissingWhenComplete
INVARIANT
  UnresolvedStaysShut
PROPERTY
  NoStopWhileOwed
