SPECIFICATION FairSpec
CONSTANTS
  ContentionBytes <- MCLowWins
  ServerType = "ram"
  ServerStart = 50000
  ServerEnd = 50600
  InitMem <- MCInitMem
  Environment = {"power"}
  Calls <- MCPeeks
  Chunk = 16
  MaxSize = 20
  MaxBudget = 1
PROPERTIES CallsReturn
CHECK_DEADLOCK FALSE
