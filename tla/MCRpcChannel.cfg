SPECIFICATION FairSpec
CONSTANT
  MaxCalls = 2
INVARIANTS
  PatienceIsSafe
  AnswersMatch
PROPERTIES
  EveryCallReturns
CHECK_DEADLOCK FALSE
