CONSTANTS
  w1 = w1  w2 = w2  v1 = v1  resy = resy
  Loops = {"loop", "again"}
  Hosts = {"host"}
  Watches <- TwoWatches
  Venues <- OneVenue
  Providers = {resy}
  ProviderOf <- AllResy
  Faults = {"error", "login", "find403", "throw", "edit", "stop"}
  MaxMultiplier = 4
  PauseThreshold = 2
  MaxDelay = 3
SPECIFICATION FairSpec
INVARIANTS SingleFlight WarnedIffPaused
PROPERTIES LoginPauseNeedsHandover PassesGoOn
CHECK_DEADLOCK FALSE
