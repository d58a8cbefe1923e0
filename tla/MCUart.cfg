SPECIFICATION Spec
CONSTANTS
  Low = 3
  Arrivals = 9
  Puts = 8
  Programs <- MCPrograms
INVARIANTS TypeOK WillTransmit
PROPERTIES Implements PutReturns ReadReturns
CHECK_DEADLOCK FALSE
