CONSTANTS
  k1 = k1  w1 = w1  w2 = w2  w3 = w3
  Procs = {p1}
  NoProc = noproc
  MaxPasses = 2
  Keys <- OneKey
  DateOf <- OneDate
  Watches <- OneWatch
  KeysOf <- OneKeyOf
  Faults = {}
  Autobook = FALSE
  DayTicks = 2
  UtcLead = 1
  Retention = 3
  MaxTime = 3
SPECIFICATION Spec
PROPERTIES OneAlertPerOpening
CHECK_DEADLOCK FALSE
