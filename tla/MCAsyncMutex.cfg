SPECIFICATION FairSpec
CONSTANTS
  Coros = {c1, c2, c3}
  Threads = {t1, t2}
  kNotLocked = kNotLocked
  kLockedNoWaiters = kLockedNoWaiters
INVARIANTS
  MutualExclusion
  WaitersListed
PROPERTIES
  ImplementsFifo
  WaiterServed
