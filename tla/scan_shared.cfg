CONSTANTS
  k1 = k1  w1 = w1  w2 = w2  w3 = w3
  NoProc = noproc
  Procs = {p1}
  MaxPasses = 3
  Keys <- OneKey
  DateOf <- OneDate
  Watches <- ThreeWatches
  KeysOf <- Shared
  Faults = {"reject"}
  Autobook = FALSE
  DayTicks = 2
  UtcLead = 0
  Retention = 2
  MaxTime = 2
SPECIFICATION FairSpec
INVARIANTS NoAlertLost
PROPERTIES OneAlertPerOpening EveryPassSettles
CHECK_DEADLOCK FALSE
