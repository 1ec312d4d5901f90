CONSTANTS
  pass = pass  manual = manual
  Attempts <- Both
  ByPasses <- JustPass
  Tables = 2
  Faults = {"error", "lost", "record", "edit", "crash"}
SPECIFICATION Spec
INVARIANTS OneReservationPerAttempt BookedIsHeld
CHECK_DEADLOCK FALSE
