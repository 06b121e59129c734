SPECIFICATION Spec
CONSTANTS
  Tasks = {c1, c2}
  Threads = {t1}
  Foreign = {t1}
  Loop = Loop
  NoThread = NoThread
  MaxSuspends = 1
INVARIANT
  CompletionDone
