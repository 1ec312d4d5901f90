------------------------- MODULE MCSqliteRepository -------------------------
(* An instance of SqliteRepository: two processes over one file.           *)
EXTENDS SqliteRepository

CONSTANTS w1, w2, resy, venue, tonight, later, odd, seat, p1, p2

TheWatch(id, created, item, range, on) ==
  [id |-> id, provider |-> resy, label |-> tonight, slug |-> item, item |-> item,
   tiers |-> IF item = Absent THEN Absent ELSE {tonight},
   seating |-> IF item = Absent THEN Absent ELSE [seats |-> {seat}, zones |-> {"center"}, depths |-> Absent],
   dateRange |-> range, autobook |-> ~on, enabled |-> on, createdAt |-> created]

TheWatches ==
  {TheWatch(w1, 1, Absent, [rollingDays |-> 7], TRUE), TheWatch(w1, 1, tonight, [start |-> 0, end |-> 1], FALSE),
   TheWatch(w2, 0, tonight, [rollingDays |-> 2], TRUE), TheWatch(w2, 1, Absent, [start |-> 1, end |-> 1], TRUE)}

TheSessions ==
  {[provider |-> resy, state |-> s, data |-> d, expiresAt |-> e, updatedAt |-> 0] :
     s \in {"active", "challenged"}, d \in {tonight, JsonNull, Absent}, e \in {0, Absent}}

TheEntries == {[provider |-> resy, venueId |-> venue, layoutKey |-> l, seats |-> s] : l \in {tonight, later}, s \in {{}, {seat}}}

TheEvents == {[at |-> t, type |-> y, watchId |-> w] : t \in Time, y \in {"notified", "error"}, w \in {Absent}}

TheDrops == {[venueId |-> venue, hoursUntilReservation |-> h] : h \in {-1, 1, 23, 24, 30, 48}}

TheLimits == {-1, 0, 1}

TheReservations == [n \in Names |-> IF n = tonight THEN 2 ELSE IF n = later THEN 3 ELSE Absent]

=============================================================================
