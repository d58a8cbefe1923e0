SPECIFICATION FairSpec
CONSTANTS
  ContentionBytes <- MCLowWins
  ServerType = "rom"
  ServerStart = 50000
  ServerEnd = 50600
  InitMem <- MCInitMem
  Environment = {"late", "kill", "power"}
  Calls <- MCCalls
  Packet = 2
  Payload = 3
  MaxBudget = 1
INVARIANTS TypeOK BusDiscipline NeverOutOfStep
PROPERTIES NoStrobeLost Implements CallsReturn
CHECK_DEADLOCK FALSE
