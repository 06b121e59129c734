SPECIFICATION FairSpec
CONSTANTS
  Tasks = {c1, c2}
  Threads = {t1, t2}
  Foreign = {}
  Loop = Loop
  NoThread = NoThread
  MaxSuspends = 1
INVARIANTS
  NoLostWakeUp
  NoLostStop
  FramesSafe
PROPERTIES
  LoopProgress
