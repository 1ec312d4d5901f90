------------------------------ MODULE Listing ------------------------------
(***************************************************************************)
(* Finding openings at AMC and at Resy (adapters/providers/amc, resy), for *)
(* the scan of a watch (services/scan.ts) and for an ad-hoc check          *)
(* (services/availability.ts); the keys of what is found (shared           *)
(* dedupe.ts) and its instants (services/time.ts, droplog); and AMC's      *)
(* theatre directory, which is kept for a day.                             *)
(*                                                                         *)
(* An instant is a number of hours, of which a day has DayLength.  A zone  *)
(* is ahead of UTC by "before" and, from the instant "at" on, by "after".  *)
(* A date is a number of days, a time of day a number of hours.            *)
(***************************************************************************)
EXTENDS Integers, SequencesExt

CONSTANTS
  DayLength, TimeZones, UTC,
  Shows,            \* a showtime at AMC, a table at Resy: its id there
  Films, Formats,   \* AMC films; formats there and seating types at Resy
  Words,            \* words that a watch asks for, of titles and of tiers
  Says,             \* film -> the words its title or its slug has
  Code, Label,      \* format -> the words of its code, and of its label
  Given,            \* bound: shows that there may be
  Wants,            \* bound: what is wanted of them, [tier, item]
  Ranges,           \* bound: date ranges, [start, end] or [rollingDays]
  Windows,          \* bound: windows, of which some go past midnight
  Statuses,         \* HTTP statuses of a refusal
  MaxNow,           \* bound: the clock stops here
  SITEMAP_TTL, Clients, None

Show == [starts : Nat, film : Films, format : Formats \union {None}, data : {"whole", "no map", "unreadable"}]

ErrorClass == {"auth-expired", "challenged", "rate-limited", "not-found", "schema-drift", "other"}

(* A zone's clocks change by a day at most, and an id is not empty.        *)
ASSUME ListingConstants ==
  /\ DayLength \in Nat \ {0} /\ SITEMAP_TTL \in Nat \ {0} /\ MaxNow \in Nat
  /\ IsFiniteSet(Shows) /\ "" \notin Shows /\ None \notin ErrorClass
  /\ TimeZones # {} /\ Given # {} /\ Given \subseteq Show
  /\ TimeZones \subseteq [before : Int, after : Int, at : Int]
  /\ \A zone \in TimeZones : zone.after - zone.before \in -DayLength .. DayLength
  /\ UTC = [before |-> 0, after |-> 0, at |-> 0]
  /\ Wants \subseteq [tier : Words \union {None}, item : Films \union Words \union {None}]
  /\ Ranges \subseteq [start : Int, end : Int] \union [rollingDays : Nat]
  /\ Windows \subseteq [start : 0 .. DayLength - 1, end : 0 .. DayLength - 1]
  /\ Statuses \subseteq Nat

VARIABLES
  now,       \* the clock
  site,      \* what a provider has: [zone, shows, late]
  ask,       \* a watch, or what a check makes of its query; None: lookups only
  pc, range, day, todo,  \* how far find is, and the dates it is about
  found,     \* the openings, in order
  kept,      \* those that the service hands on
  outcome,   \* None, or the class of the error that ended find
  sitemap,   \* the directory: [asOf, fetchedAt], or None
  lookups    \* client -> its lookup: [state, at, asOf]

finding == <<pc, range, day, todo, found, kept, outcome>>
looking == <<sitemap, lookups>>
vars == <<now, site, ask, finding, looking>>

-----------------------------------------------------------------------------
(* Time.                                                                   *)
offsetAt(zone, t) == IF t < zone.at THEN zone.before ELSE zone.after
Wall(zone, t) == t + offsetAt(zone, t)
Date(wall) == wall \div DayLength
Time(wall) == wall % DayLength

(* Mutant of zonedWallTimeToInstant: the offset is not refined.            *)
GuessedInstant(date, time, zone) ==
  LET wall == date * DayLength + time IN wall - offsetAt(zone, wall)
zonedWallTimeToInstant(date, time, zone) ==
  LET wall == date * DayLength + time IN wall - offsetAt(zone, wall - offsetAt(zone, wall))

resolveDateRange(asked, zone, t) ==
  IF "rollingDays" \in DOMAIN asked
  THEN LET today == Date(Wall(zone, t)) IN [start |-> today, end |-> today + asked.rollingDays]
  ELSE asked

isWithinDateRange(date, dates) == dates.start <= date /\ date <= dates.end

isWithinWindow(time, window) ==
  IF window.start <= window.end THEN window.start <= time /\ time <= window.end
  ELSE window.start <= time \/ time <= window.end

-----------------------------------------------------------------------------
(* Keys: the segments between the separators, of which kind may have many. *)
formatDedupeKey(parts) ==
  <<parts.provider, parts.venueId, parts.date, parts.start, parts.partySize>>
    \o (IF parts.kind = <<>> THEN <<"">> ELSE parts.kind)

kindParts(key) == IF SubSeq(key, 6, Len(key)) = <<"">> THEN <<>> ELSE SubSeq(key, 6, Len(key))
parseDedupeKey(key) ==
  [provider |-> key[1], venueId |-> key[2], date |-> key[3], start |-> key[4],
   partySize |-> key[5], kind |-> kindParts(key)]

-----------------------------------------------------------------------------
(* The sites.  A date's page at AMC may list shows of the early hours of   *)
(* the next one, too; a show may be given without a map, or not be read.   *)
LocalDate(s) == Date(Wall(site.zone, site.shows[s].starts))
LocalTime(s) == Time(Wall(site.zone, site.shows[s].starts))
Page(date) ==
  {s \in Shows : LocalDate(s) = date \/ (site.late /\ LocalDate(s) = date + 1 /\ LocalTime(s) < DayLength \div 2)}

(* An element of a page that cannot be read is passed over.                *)
extractBalancedJson(s) == site.shows[s].data # "unreadable"
parseShowtimesPage(date) == {s \in Page(date) : extractBalancedJson(s)}
parseSeatingLayout(s) == site.shows[s].data # "no map"

classifyStatus(status) ==
  IF status \in {401, 419} THEN "auth-expired"
  ELSE IF status = 403 THEN "challenged"
  ELSE IF status = 404 THEN "not-found"
  ELSE IF status = 429 \/ status >= 500 THEN "rate-limited" ELSE "other"

-----------------------------------------------------------------------------
(* What is asked: a watch in the venue's zone, or a check.                 *)
WholeDay == [start |-> 0, end |-> DayLength - 1]
Ask == [for : {"scan", "check"}, provider : {"amc", "resy"}, dateRange : Ranges \union [start : Int, end : Int],
        timeWindow : Windows \union {WholeDay}, tier : Words \union {None}, item : Films \union Words \union {None},
        zone : TimeZones \union {UTC}]

syntheticWatch(provider, date, window) ==
  [for |-> "check", provider |-> provider, dateRange |-> [start |-> date, end |-> date],
   timeWindow |-> IF window = None THEN WholeDay ELSE window, tier |-> None, item |-> None, zone |-> UTC]

matchesItem(s) ==
  \/ ask.item = None
  \/ ask.item \in Films /\ site.shows[s].film = ask.item
  \/ ask.item \in Words /\ ask.item \in Says[site.shows[s].film]

(* AMC looks at the code of a format and at its label, the scan at what is *)
(* shown of it.                                                            *)
amcTiers(s) ==
  LET f == site.shows[s].format IN ask.tier = None \/ (f # None /\ ask.tier \in Code[f] \union Label[f])
scanTiers(slot) == ask.tier = None \/ (slot.kind # None /\ ask.tier \in Label[slot.kind])

Parts(s, date, start) ==
  [provider |-> ask.provider, venueId |-> "venue", date |-> date, start |-> start, partySize |-> 2,
   kind |-> IF ask.provider = "amc" THEN <<site.shows[s].film, s>> ELSE <<s>>]

(* A slot of AMC is told in the zone of the watch, one of Resy as the      *)
(* venue tells it.                                                         *)
Slot(s, date, start) ==
  [show |-> s, date |-> date, start |-> start, kind |-> site.shows[s].format,
   key |-> formatDedupeKey(Parts(s, date, start))]
amcSlot(s) == LET wall == Wall(ask.zone, site.shows[s].starts) IN Slot(s, Date(wall), Time(wall))
mapSlot(s) == Slot(s, LocalDate(s), LocalTime(s))

(* Mutant of withinWindow: a window does not go past midnight.             *)
Unwrapped(hhmm, window) == window.start <= hhmm /\ hhmm <= window.end
withinWindow(hhmm, window) ==
  IF window.start <= window.end THEN Unwrapped(hhmm, window) ELSE hhmm >= window.start \/ hhmm <= window.end

(* The filters of AMC before a map is fetched; the mutant does without the *)
(* one that keeps the dates aligned.                                       *)
Misaligned(date, slot) ==
  matchesItem(slot.show) /\ amcTiers(slot.show) /\ withinWindow(slot.start, ask.timeWindow)
Aligned(date, slot) == Misaligned(date, slot) /\ slot.date = date

-----------------------------------------------------------------------------
Sites == [zone : TimeZones, shows : [Shows -> Given], late : BOOLEAN]

(* Lookups are followed by themselves, from the start of the clock on.     *)
Init ==
  /\ site \in Sites
  /\ \/ ask = None /\ site = CHOOSE any \in Sites : TRUE
     \/ \E provider \in {"amc", "resy"}, dates \in Ranges, window \in Windows, want \in Wants :
          ask = [for |-> "scan", provider |-> provider, dateRange |-> dates, timeWindow |-> window,
                 tier |-> want.tier, item |-> want.item, zone |-> site.zone]
     \/ \E provider \in {"amc", "resy"}, dates \in Ranges, window \in Windows \union {None} :
          "start" \in DOMAIN dates /\ ask = syntheticWatch(provider, dates.start, window)
  /\ now = IF ask = None THEN 0 ELSE MaxNow - 1
  /\ pc = "begin" /\ range = [start |-> 0, end |-> 0] /\ day = 0 /\ todo = {}
  /\ found = <<>> /\ kept = {} /\ outcome = None
  /\ sitemap = None
  /\ lookups = [c \in Clients |-> [state |-> "idle", at |-> 0, asOf |-> 0]]

(* A find that is over is not followed any further.                        *)
Tick == now < MaxNow /\ pc # "kept" /\ now' = now + 1 /\ UNCHANGED <<site, ask, finding, looking>>

-----------------------------------------------------------------------------
(* find.                                                                   *)
(* The loop over days; there may be none, or none left.                    *)
Turn(d, dates) == day' = d /\ pc' = IF d > dates.end THEN "done" ELSE "page"

Begin ==
  /\ ask # None /\ pc = "begin"
  /\ range' = resolveDateRange(ask.dateRange, ask.zone, now)
  /\ IF ask.provider = "amc" THEN Turn(range'.start, range') ELSE pc' = "calendar" /\ UNCHANGED day
  /\ UNCHANGED <<todo, found, kept, outcome>>

FetchPage ==
  /\ pc = "page"
  /\ todo' = {s \in parseShowtimesPage(day) : Aligned(day, amcSlot(s))}
  /\ IF todo' = {} THEN Turn(day + 1, range) ELSE pc' = "maps" /\ UNCHANGED day
  /\ UNCHANGED <<range, found, kept, outcome>>

(* A show without a map is passed over; the mutant gives the watch up.     *)
fetchSeatMap(s) == IF parseSeatingLayout(s) THEN None ELSE "schema-drift"
NeverPassed(class) == class = None
Passed(class) == class \in {None, "schema-drift"}

FetchMap(s) ==
  /\ pc = "maps" /\ s \in todo
  /\ LET class == fetchSeatMap(s) IN
       IF Passed(class)
       THEN /\ found' = IF class = None THEN Append(found, amcSlot(s)) ELSE found
            /\ todo' = todo \ {s}
            /\ IF todo' = {} THEN Turn(day + 1, range) ELSE UNCHANGED <<pc, day>>
            /\ UNCHANGED outcome
       ELSE pc' = "failed" /\ outcome' = class /\ UNCHANGED <<day, todo, found>>
  /\ UNCHANGED <<range, kept>>

(* Resy: the days that have something, then what they have.                *)
Calendar ==
  /\ pc = "calendar"
  /\ todo' = {d \in {LocalDate(s) : s \in Shows} : isWithinDateRange(d, range)}
  /\ pc' = IF todo' = {} THEN "done" ELSE "day"
  /\ UNCHANGED <<range, day, found, kept, outcome>>

findDay(d) ==
  /\ pc \in {"day", "day by post"} /\ d \in todo /\ \A e \in todo : d <= e
  /\ found' = found \o SetToSeq({mapSlot(s) : s \in {x \in Shows : LocalDate(x) = d /\ extractBalancedJson(x)}})
  /\ todo' = todo \ {d}
  /\ pc' = IF todo' = {} THEN "done" ELSE "day"
  /\ UNCHANGED <<range, day, kept, outcome>>

(* A request of a day that is refused with 405 is made again, by POST.     *)
Refused(status) ==
  /\ pc \in {"page", "maps", "calendar", "day", "day by post"}
  /\ IF pc = "day" /\ status = 405 THEN pc' = "day by post" /\ UNCHANGED outcome
     ELSE pc' = "failed" /\ outcome' = classifyStatus(status)
  /\ UNCHANGED <<range, day, todo, found, kept>>

(* The instant of a slot, as the drop log tells it.                        *)
reservationInstant(slot) == zonedWallTimeToInstant(slot.date, slot.start, ask.zone)

(* The scan and the check filter what was found themselves.                *)
scanKeeps(slot) ==
  /\ isWithinDateRange(slot.date, resolveDateRange(ask.dateRange, ask.zone, now))
  /\ isWithinWindow(slot.start, ask.timeWindow) /\ scanTiers(slot)
checkKeeps(slot) == slot.date = ask.dateRange.start /\ isWithinWindow(slot.start, ask.timeWindow)

Filter ==
  /\ pc = "done" /\ pc' = "kept"
  /\ kept' = {slot \in {found[i] : i \in DOMAIN found} : IF ask.for = "scan" THEN scanKeeps(slot) ELSE checkKeeps(slot)}
  /\ UNCHANGED <<range, day, todo, found, outcome>>

find == Begin \/ FetchPage \/ Calendar \/ Filter \/ (\E s \in Shows : FetchMap(s))
          \/ (\E d \in todo : findDay(d)) \/ \E status \in Statuses : Refused(status)

-----------------------------------------------------------------------------
(* resolveVenue: lookups in the directory.  Those that find it missing or  *)
(* old each fetch it; it is as of the moment the site answers, and kept    *)
(* under the moment it was asked for.  The mutant keeps it under now.      *)
To(c, state, at, asOf) == lookups' = [lookups EXCEPT ![c] = [state |-> state, at |-> at, asOf |-> asOf]]

Lookup(c) ==
  /\ ask = None /\ lookups[c].state \in {"idle", "served", "refused"}
  /\ IF sitemap # None /\ now - sitemap.fetchedAt < SITEMAP_TTL
     THEN To(c, "served", now, sitemap.asOf) ELSE To(c, "sent", now, 0)
  /\ UNCHANGED sitemap

SiteAnswers(c, state) ==
  /\ lookups[c].state = "sent" /\ state \in {"answered", "refused"}
  /\ To(c, state, lookups[c].at, now) /\ UNCHANGED sitemap

FetchedNow(c) == now
FetchedAt(c) == lookups[c].at

Land(c) ==
  /\ lookups[c].state = "answered"
  /\ sitemap' = [asOf |-> lookups[c].asOf, fetchedAt |-> FetchedAt(c)]
  /\ To(c, "idle", 0, 0)

look(c) == Lookup(c) \/ Land(c) \/ \E state \in {"answered", "refused"} : SiteAnswers(c, state)

Next ==
  \/ Tick
  \/ find /\ UNCHANGED <<now, site, ask, looking>>
  \/ (\E c \in Clients : look(c)) /\ UNCHANGED <<now, site, ask, finding>>

Spec == Init /\ [][Next]_vars

-----------------------------------------------------------------------------
TypeOK ==
  /\ site.shows \in [Shows -> Show] /\ (ask # None => ask \in Ask)
  /\ \A i \in DOMAIN found : LET slot == found[i] IN
       slot.show \in Shows /\ slot.start \in WholeDay.start .. WholeDay.end /\ Len(slot.key) > 5
  /\ kept \subseteq {found[i] : i \in DOMAIN found}
  /\ outcome \in ErrorClass \union {None} /\ (outcome # None <=> pc = "failed")

(* One find tells an opening once, though a page lists it under two dates: *)
(* two of one key would be alerted of once and booked at random.           *)
FoundOnce == \A i, j \in DOMAIN found : i # j => found[i].key # found[j].key

(* What a scan would keep if it saw everything the venue has: all of it,   *)
(* however the provider filters before it.                                 *)
Sought(s) ==
  LET slot == mapSlot(s) IN
    /\ site.shows[s].data = "whole" /\ isWithinDateRange(slot.date, range)
    /\ (ask.provider = "amc" => matchesItem(s)) /\ scanKeeps(slot)

(* "doing it here avoids fetching a seat map": the filters of the provider *)
(* lose nothing that the scan, which filters again, would have kept.       *)
NothingMissed == pc = "kept" /\ ask.for = "scan" => \A s \in Shows : Sought(s) => \E slot \in kept : slot.show = s

(* "skip just this one so the rest of the theatre's showtimes still scan": *)
(* a show without a map never ends the find of a watch, and none of the    *)
(* others is lost with it.                                                 *)
DriftCostsOneShow ==
  /\ outcome # "schema-drift"
  /\ pc = "done" /\ ask.provider = "amc" =>
       \A s \in Shows : site.shows[s].data = "whole" /\ isWithinDateRange(amcSlot(s).date, range)
            /\ s \in parseShowtimesPage(amcSlot(s).date) /\ Aligned(amcSlot(s).date, amcSlot(s))
          => \E i \in DOMAIN found : found[i].show = s

(* The instant that the drop log computes from the date and time of a slot *)
(* is the one it starts at, on either side of a change of the clocks,      *)
(* unless the clock shows that time twice.                                 *)
LeadIsTrue ==
  \A i \in DOMAIN found : LET slot == found[i]  t == site.shows[slot.show].starts IN
    ask.zone = site.zone /\ (\A u \in t - DayLength .. t + DayLength : Wall(site.zone, u) = Wall(site.zone, t) => u = t)
      => reservationInstant(slot) = t

(* The parts of a slot are recovered from its key: a booking takes the     *)
(* size of the party from it.                                              *)
KeysAreRead ==
  \A i \in DOMAIN found : LET slot == found[i] IN
    parseDedupeKey(slot.key) = Parts(slot.show, slot.date, slot.start)

(* What is made of an opening, its date, its time and its key, can be read *)
(* back: the drop log, the sweep and a booking do.                         *)
SlotsAreReadBack == TypeOK /\ LeadIsTrue /\ KeysAreRead

(* A lookup is served from what the site had within the last day, however  *)
(* slow the fetches and whichever lands last.                              *)
DirectoryIsOfToday ==
  \A c \in Clients : lookups[c].state = "served" => lookups[c].at - lookups[c].asOf < SITEMAP_TTL

(* "The window filter and explicit date make results timezone-independent  *)
(* for a one-shot check": whatever its zone, a check keeps what the venue  *)
(* has on that date, in that window.                                       *)
ChecksNeedNoZone ==
  pc = "kept" /\ ask.for = "check" =>
    \A s \in Shows : site.shows[s].data = "whole" /\ checkKeeps(mapSlot(s)) => mapSlot(s) \in kept

=============================================================================
