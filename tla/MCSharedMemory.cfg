SPECIFICATION FairSpec
CONSTANTS
  Calls <- MCCalls
  MaxBudget = 1
INVARIANTS StrobesMeetOnlyAfterReply Faithful
PROPERTIES CallsReturn
CHECK_DEADLOCK FALSE
