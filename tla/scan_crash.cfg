CONSTANTS
  k1 = k1  w1 = w1  w2 = w2  w3 = w3
  NoProc = noproc
  Procs = {p1}
  MaxPasses = 3
  Keys <- OneKey
  DateOf <- OneDate
  Watches <- OneWatch
  KeysOf <- OneKeyOf
  Faults = {"find", "store", "reject", "crash", "session", "edit"}
  Autobook = TRUE
  DayTicks = 4
  UtcLead = 0
  Retention = 1
  MaxTime = 2
SPECIFICATION Spec
INVARIANTS InCallOrder SeenSinceHorizon
PROPERTIES RealertNeedsBlindPass ImplementsLedger
CHECK_DEADLOCK FALSE
