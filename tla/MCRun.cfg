SPECIFICATION Spec
CONSTANTS
  ContentionBytes <- MCLowWins
  ServerType = "ram"
  ServerStart = 50000
  ServerEnd = 50600
  InitMem <- MCInitMem
  Environment = {}
  Calls <- MCShort
  MaxBudget = 0
INVARIANTS SaneVector
CHECK_DEADLOCK FALSE
