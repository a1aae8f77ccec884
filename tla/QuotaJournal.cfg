SPECIFICATION Spec
CONSTANTS
  Deals = {a, b}
  Handlers = {h1}
  Swapper = swapper
  MaxRoutes = 3
  MaxFaults = 2
SYMMETRY Symmetry
CHECK_DEADLOCK FALSE
INVARIANT
  NoOlderQuota
INVARIANT
  EndedHasNoQuota
