SPECIFICATION FairSpec
CONSTANTS
  Machines <- MCMachines
  Datas <- MCDatas
  Servers <- MCServers
  Memtops <- MCMemtops
INVARIANTS FindsPlace FoundIsFree ClosestToEnd FailsOnlyIfBlocked
PROPERTIES Terminates
CHECK_DEADLOCK FALSE
