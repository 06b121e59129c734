SPECIFICATION FairSpec
CONSTANTS
  Consumers = {c1, c2}
  Producers = {p1, p2}
  Threads = {t1, t2}
  Null = Null
  Sole = p1
  MaxItems = 2
INVARIANTS
  NoDanglingRead
  WaitersReachable
  NoLostNotification
PROPERTY
  MessagesTaken
CHECK_DEADLOCK FALSE
