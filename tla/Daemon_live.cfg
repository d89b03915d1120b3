CONSTANTS
  k1 = k1
  k2 = k2
  v1 = v1
  v2 = v2
  Keys = {k1, k2}
  Videos = {v1, v2}
  KeyOf <- BothInOne
  ItemsInFinishedList = 1
  Raises = TRUE
  MaxCrashes = 1
  MaxStarts = 2
SPECIFICATION FairSpec
INVARIANTS TypeOK HistoryKept
PROPERTIES QuitStops EveryEngineServed
CHECK_DEADLOCK FALSE
