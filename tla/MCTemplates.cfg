SPECIFICATION Spec
CONSTANTS
  Idle = Idle
  Weight <- MCWeight
  Order <- MCOrder
  Clusters <- MCClusters
  Hints <- MCHints
  Mempools <- MCMempools
  BlockCount = 3
  Enforce = FALSE
  MaxWeight = 7
  MaxSigops = 4
  Reserved = 1
  MaxFailures = 1
  MaxWasted = 2
  Nodes = {n1, n2, n3, n4}
  Keys = {0, 1, 2}
  Nil = Nil
SYMMETRY Interchangeable
INVARIANTS
  LinearizationIsTopological
  ActiveIsInternal
  ChunksReproduce
  AncestorsFirst
  BlocksWithinLimits
  NoRoomWasted
PROPERTIES
  OptimizesTopological
  SearchAdvances
  HeapImplementsQueue
CHECK_DEADLOCK FALSE
