SPECIFICATION Spec
CONSTANTS
  ContentionBytes <- MCLowWins
  ServerType = "rom"
  ServerStart = 50000
  ServerEnd = 50600
  InitMem <- MCInitMem
  Environment = {"late", "kill", "mask"}
  Calls <- MCPoke
  Chunk = 16
  MaxSize = 20
  MaxBudget = 2
PROPERTIES Implements
CHECK_DEADLOCK FALSE
