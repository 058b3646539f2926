SPECIFICATION ClusterFairSpec
CONSTANTS
  Instances = 2
  MaxForks = 4
  MaxSent = 2
INVARIANTS
  WorkersAreCounted
  NoOrphans
PROPERTIES
  ClusterStops
CHECK_DEADLOCK FALSE
