SPECIFICATION FairTimeoutSpec
CONSTANTS
  MaxOps = 4
  MaxData = 2
  Noop = Noop
  Kinds = {"tcp", "tls", "udp", "pipe"}
INVARIANTS
  OnlyEarlyTimeoutsHurt
  NoDataLost
PROPERTY
  EveryOpCompletes
