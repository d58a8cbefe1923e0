SPECIFICATION Spec
CONSTANTS
  ContentionBytes <- MCLowWins
  ServerType = "rom"
  ServerStart = 50000
  ServerEnd = 50600
  InitMem <- MCInitMem
  Environment = {"late", "kill", "power"}
  Calls <- MCPokes
  MaxBudget = 2
PROPERTIES Implements
CHECK_DEADLOCK FALSE
