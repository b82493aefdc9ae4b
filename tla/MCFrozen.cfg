SPECIFICATION Spec
CONSTANTS
  Indexes = {0, 1}
  MaxVisits = 3
  MaxOutages = 1
INVARIANTS VisibleTilesAreTracked
CHECK_DEADLOCK FALSE
