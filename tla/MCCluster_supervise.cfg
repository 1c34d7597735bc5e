SPECIFICATION ClusterFairSpec
CONSTANTS
  Pids = {1, 2, 3}
  Descriptors = {0, 1, 2, 3, 4, 5, 6, 7}
  Workers = 1
  Environments <- Usual
INVARIANTS SendReachesInOrder
PROPERTIES RestartsOnSignal NoOrphans
CHECK_DEADLOCK FALSE
