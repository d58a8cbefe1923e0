SPECIFICATION Spec
CONSTANTS
  ContentionBytes <- MCContention
  ServerType = "rom"
  ServerStart = 50000
  ServerEnd = 50600
  InitMem <- MCInitMem
  Environment = {}
  Calls <- MCCalls
  MaxBudget = 0
INVARIANTS TypeOK BusDiscipline NeverOutOfStep
PROPERTIES NoStrobeLost Implements
CHECK_DEADLOCK FALSE
