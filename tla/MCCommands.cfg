SPECIFICATION FairSpec
CONSTANTS
  Sessions <- MCSessions
  Places <- MCPlaces
  BootTimes <- MCBootTimes
  MaxResets = 1
INVARIANTS TypeOK SparesServer
PROPERTIES IoIsSpared ReadyMeansServing SessionsEnd
CHECK_DEADLOCK FALSE
