SPECIFICATION Spec
CONSTANTS
  ContentionBytes <- MCLowWins
  ServerType = "rom"
  ServerStart = 50000
  ServerEnd = 50600
  InitMem <- MCInitMem
  Environment = {}
  Calls <- MCCalls
  Chunk = 1
  MaxSize = 20
  MaxBudget = 0
INVARIANTS TypeOK BusDiscipline InFrame AnswersMatch NeverOutOfStep
PROPERTIES NoStrobeLost Implements
CHECK_DEADLOCK FALSE
