SPECIFICATION FairTimerSpec
CONSTANTS
  MaxId = 4
  Tasks = {a}
  MaxTime = 5
  Expiries = {0, 5}
  PerMs = 2
  Tick = 1
PROPERTIES
  ImplementsTimerSet
  TimersPunctual
