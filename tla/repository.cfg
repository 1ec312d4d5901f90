CONSTANTS
  w1 = w1  w2 = w2  resy = resy  venue = venue  tonight = tonight  later = later  odd = odd  seat = seat
  p1 = p1  p2 = p2
  Ids = {w1, w2}
  Names = {tonight, later, odd}
  ProviderName = {resy}
  Venues = {venue}
  Seats = {seat}
  Absent = Absent
  JsonNull = JsonNull
  NULL = NULL
  MaxTime = 3
  Watches <- TheWatches
  Sessions <- TheSessions
  Entries <- TheEntries
  Events <- TheEvents
  Drops <- TheDrops
  Limits <- TheLimits
  Processes = {p1, p2}
  Uses = {"watches", "sessions", "seat_prefs", "activity", "droplog", "seen"}
  Retention = 1
  ReservationOf <- TheReservations
  MaxRows = 2
SPECIFICATION Spec
INVARIANTS SchemaIsVersioned
PROPERTIES ImplementsPort
CHECK_DEADLOCK FALSE
