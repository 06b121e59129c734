SPECIFICATION ServerSpec
CONSTANTS
  PoolSize = 2
  MaxFds = 3
  MaxArrivals = 3
INVARIANTS
  ObjectsOutliveThreads
  NoStrandedConnection
  IdleDescriptorKept
PROPERTIES
  PoolStartsAndEnds
