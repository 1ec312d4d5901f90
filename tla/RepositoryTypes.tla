-------------------------- MODULE RepositoryTypes --------------------------
(***************************************************************************)
(* What the repository keeps (packages/shared/src/types.ts).  Fields that  *)
(* every layer carries along alike are left out, or stand in one: what is  *)
(* kept are the keys, the fields that may be absent, those with two forms, *)
(* and those a query orders or selects by.  Times are days.                *)
(***************************************************************************)
EXTENDS Integers, Sequences, FiniteSets

CONSTANTS
  Ids, Names,              \* ids of watches; labels, slugs, film titles, layouts
  ProviderName, Venues, Seats,
  Absent,                  \* undefined: an optional field left out
  JsonNull,                \* null, which JSON has for it
  MaxTime                  \* bound: the days a behaviour lasts

CONSTANTS
  Watches, Sessions, Entries, Events, Drops,   \* bound: the records a caller may store
  Limits                                       \* bound: and the limits it may ask for, -1 for none

ASSUME TypeConstants == MaxTime \in Nat /\ Absent \notin Names /\ JsonNull \notin Names \union {Absent} /\ Limits \subseteq {-1} \union Nat

Time == 0..MaxTime
Optional(S) == S \union {Absent}

DateRange == [start : Time, end : Time] \union [rollingDays : Nat \ {0}]

SeatingPreference == [seats : Optional(SUBSET Seats), zones : Optional(SUBSET {"left", "center", "right"}),
                      depths : Optional(SUBSET {"front", "middle", "back"})]

Watch ==
  [id : Ids, provider : ProviderName, label : Names, slug : Optional(Names), item : Optional(Names),
   tiers : Optional(SUBSET Names), seating : Optional(SeatingPreference), dateRange : DateRange,
   autobook : BOOLEAN, enabled : BOOLEAN, createdAt : Time]

SessionState == {"active", "challenged", "expired", "missing"}
Session == [provider : ProviderName, state : SessionState, data : Names \union {Absent, JsonNull},
            expiresAt : Optional(Time), updatedAt : Time]

SeatPrefEntry == [provider : ProviderName, venueId : Venues, layoutKey : Names, seats : SUBSET Seats]

ActivityType == {"slot-found", "notified", "booked", "cancelled", "book-failed", "auth-challenged",
                 "session-ingested", "notify-failed", "error", "pass-complete"}
ActivityEvent == [at : Time, type : ActivityType, watchId : Optional(Ids)]

DropEvent == [venueId : Venues, hoursUntilReservation : Int]

(* The buckets of the drop statistics, with the hours each begins at.      *)
HOURS_UNTIL_BUCKETS == <<"0-1", "1-6", "6-24", "24-30", "30-48", "48+">>

DropStats == [venueId : Venues, sampleCount : Nat,
              byHoursUntilBucket : [{HOURS_UNTIL_BUCKETS[i] : i \in 1..6} -> Nat]]

SeenEntry == [key : Names, lastSeenAt : Time, disappearedAt : Optional(Time)]

ASSUME StoredConstants ==
  /\ Watches \subseteq Watch /\ Sessions \subseteq Session /\ Entries \subseteq SeatPrefEntry
  /\ Events \subseteq ActivityEvent /\ Drops \subseteq DropEvent

(* A table, and what it has under a key.                                   *)
Put(table, key, row) == [k \in DOMAIN table \union {key} |-> IF k = key THEN row ELSE table[k]]
Get(table, key) == IF key \in DOMAIN table THEN table[key] ELSE Absent
Without(table, keys) == [k \in DOMAIN table \ keys |-> table[k]]

=============================================================================
