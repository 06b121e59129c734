SPECIFICATION FairSpec
CONSTANTS
  Reader = Reader
  Writer = Writer
  Noop = Noop
  FullDuplex = FALSE
  MaxUnits = 2
INVARIANTS
  WatcherAgreesWithKernel
  NoLostEdge
PROPERTY
  DownWakesWaiters
