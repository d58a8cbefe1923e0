SPECIFICATION FairSpec
CONSTANTS
  ContentionBytes <- MCLowWins
  ServerType = "ram"
  ServerStart = 50000
  ServerEnd = 50600
  InitMem <- MCInitMem
  Environment = {"late", "kill", "power", "mask"}
  Calls <- MCPeek
  MaxBudget = 1
PROPERTIES CallsReturn
CHECK_DEADLOCK FALSE
