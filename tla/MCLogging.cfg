SPECIFICATION Spec
CONSTANTS
  Threads = {t1, t2}
  Sinks = {"tty", "file", "bad"}
  Loggers = {"default", "named", "namesake"}
  Default = "default"
  NameOf <- MCNameOf
  Setups <- MCSetups
  SinksOf <- MCSinksOf
  FileSinks = {"file", "bad"}
  Broken = {"bad"}
  FlushLevel = 4
  CallLevels = {2, 5}
  NewLevels = {6}
  CustomFlags = {"C", "E"}
  FlushInterval = 0
  MaxTime = 2
  MaxCalls = 2
  MaxChanges = 2
  ConfigLevel = NoLevel
  NoLevel = NoLevel
  None = None
SYMMETRY Symmetry
INVARIANTS
  LinesInOrder
  FatalLineKept
  UsedLoggerAlive
  NobodyStuck
