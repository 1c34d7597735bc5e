SPECIFICATION ClusterFairSpec
CONSTANTS
  Pids = {1, 2, 3}
  Descriptors = {0, 1, 2, 3, 4, 5, 6, 7}
  Workers = 2
  Environments <- CloseFirst

PROPERTIES Restarts
CHECK_DEADLOCK FALSE
