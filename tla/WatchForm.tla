----------------------------- MODULE WatchForm -----------------------------
(***************************************************************************)
(* The create/edit form of a watch (apps/web/src/components/WatchForm.tsx) *)
(* with the part of pages/WatchesPage.tsx that saves from it, from the     *)
(* mount of one form to its unmount.                                       *)
(*                                                                         *)
(* Every lookup is an await: its answer is applied to the form as it is    *)
(* when it arrives, with the provider, venue and selection that were the   *)
(* form's when the call was made.  Nothing cancels a lookup.  Two equal    *)
(* calls in flight at once are one here.  Text fields are left out but for *)
(* whether they all pass validation.                                       *)
(***************************************************************************)
EXTENDS SeatMapPicker, FiniteSets, Sequences

CONSTANTS
  Providers, Offers,                  \* PROVIDER_RESOURCE_TYPES: the kinds each provider offers
  Venues, OwnerOf,                    \* the provider that knows a venue
  Shows, VenueOf, DateOf, FilmOf, RoomOf,
  Rooms, SeatsOf,                     \* the seats of a room's layout
  Dates, Films, Today, Default,       \* the browse date and provider a new form begins with
  Edited, Prefs0,                     \* the watches that may be edited, and the seat_prefs tables
  MaxCalls                            \* bound: lookups in flight at once

None == "none"
KindsOf(p) == {Offers[p][i] : i \in DOMAIN Offers[p]}
Kinds == UNION {KindsOf(p) : p \in Providers}

(* The form offers only a provider's own kinds, and the provider of        *)
(* screenings offers nothing else.                                         *)
ASSUME FormConstants ==
  /\ Offers \in [Providers -> Seq(STRING) \ {<<>>}]
  /\ \A p \in Providers : "screening" \in KindsOf(p) => Offers[p] = <<"screening">>
  /\ \A watch \in Edited : watch.kind \in KindsOf(watch.provider)
  /\ OwnerOf \in [Venues -> Providers] /\ VenueOf \in [Shows -> Venues]
  /\ DateOf \in [Shows -> Dates] /\ FilmOf \in [Shows -> Films] /\ RoomOf \in [Shows -> Rooms]
  /\ SeatsOf \in [Rooms -> SUBSET Seats]
  /\ Today \in Dates /\ Default \in Providers
  /\ Edited \subseteq [provider : Providers, kind : Kinds, venue : Venues, film : Films \union {None}, seats : SUBSET Seats]
  /\ Prefs0 \subseteq [Venues \X Rooms -> SUBSET Seats]
  /\ MaxCalls \in Nat /\ None \notin Providers \union Venues \union Shows \union Films \union Kinds

VARIABLES
  row,         \* the watch, as the watches table has it
  prefs,       \* the seat_prefs table: <<venue, room>> -> seats, {} for no entry
  initial,     \* the watch the form edits, or NoWatch
  open,        \* whether the form is mounted
  form,        \* FormState: [provider, kind, venue, film, date, seats]
  matches,     \* venueMatches: the provider that was searched
  screenings,  \* the schedule shown: [provider, venue, date] it was asked for
  view,        \* seatView: the showtime whose map is shown
  active,      \* activeShowtime
  meta,        \* seatMeta: showtime -> "saved" or "unsaved", or None
  submitting,
  calls        \* requests in flight

shown  == <<matches, screenings, view, active>>
tables == <<row, prefs>>
vars   == <<tables, initial, open, form, shown, meta, submitting, calls>>

Watch     == [provider : Providers, kind : Kinds, venue : Venues, film : Films \union {None}, seats : SUBSET Seats]
FormState == [provider : Providers, kind : Kinds, venue : Venues \union {None},
              film : Films \union {None}, date : Dates, seats : SUBSET Seats]
NoWatch == [saved |-> FALSE]   \* a form that creates
NoList  == [loaded |-> FALSE]

TypeOK ==
  /\ row \in Watch \union {NoWatch}
  /\ prefs \in [Venues \X Rooms -> SUBSET Seats]
  /\ initial \in Edited \union {NoWatch} /\ open \in BOOLEAN
  /\ form \in FormState
  /\ matches \in Providers \union {None}
  /\ screenings \in [provider : Providers, venue : Venues, date : Dates] \union {NoList}
  /\ view \in Shows \union {None} /\ active \in Shows \union {None}
  /\ meta \in [Shows -> {None, "saved", "unsaved"}]
  /\ submitting \in BOOLEAN


(* fromWatch: the form's state for a watch, or its defaults.               *)
fromWatch(watch) ==
  IF watch = NoWatch
  THEN [provider |-> Default, kind |-> Offers[Default][1], venue |-> None, film |-> None, date |-> Today, seats |-> {}]
  ELSE [provider |-> watch.provider, kind |-> watch.kind, venue |-> watch.venue,
        film |-> watch.film, date |-> Today, seats |-> watch.seats]

(* toCandidate: what the form leaves empty stays what the watch had.       *)
toCandidate ==
  [provider |-> form.provider, kind |-> form.kind, venue |-> form.venue,
   film  |-> IF form.film = None /\ initial # NoWatch THEN initial.film ELSE form.film,
   seats |-> IF form.seats = {} /\ initial # NoWatch THEN initial.seats ELSE form.seats]

(* The form mounts; one that edits a screening asks for the schedule.      *)
Init ==
  /\ initial \in Edited \union {NoWatch} /\ open = TRUE
  /\ row = initial
  /\ prefs \in Prefs0
  /\ form = fromWatch(initial)
  /\ matches = None /\ screenings = NoList /\ view = None /\ active = None
  /\ meta = [s \in Shows |-> None]
  /\ submitting = FALSE
  /\ calls = IF form.kind = "screening" /\ initial # NoWatch
             THEN {[op |-> "list", provider |-> form.provider, venue |-> form.venue, date |-> Today]} ELSE {}

-----------------------------------------------------------------------------
(* The schedule of a venue, and what it lists of the form's film.          *)
Listed(list) ==
  IF list = NoList THEN {}
  ELSE {s \in Shows : VenueOf[s] = list.venue /\ DateOf[s] = list.date /\ OwnerOf[list.venue] = list.provider}

OfFilm(list, film) == {s \in Listed(list) : FilmOf[s] = film}

ListCall(venue, date) == [op |-> "list", provider |-> form.provider, venue |-> venue, date |-> date]

(* The effect of [filmId, screenings]: one pass over the film's showtimes  *)
(* that have no badge yet.                                                 *)
Probe(list, film) ==
  LET todo == {s \in OfFilm(list, film) : meta[s] = None}
  IN  IF todo = {} THEN {}
      ELSE {[op |-> "probe", provider |-> form.provider, venue |-> form.venue, todo |-> todo,
             known |-> [room \in Rooms |-> None]]}

(* Bound: schedules and seat maps are asked for beside others of the kind. *)
MayCall(op) ==
  calls = {} \/ (Cardinality(calls) < MaxCalls /\ op \in {"list", "map"} /\ \A c \in calls : c.op = op)

-----------------------------------------------------------------------------
(* Cancel, which waits for a save, or another page, which does not: a save *)
(* under way goes on without a form to answer to.                          *)
Close(navigates) ==
  /\ open
  /\ navigates \/ ~submitting
  /\ open' = FALSE
  /\ calls' = {c \in calls : c.op \in {"put", "save"}}
  /\ UNCHANGED <<tables, initial, form, shown, meta, submitting>>

(* Mutants of Switched: the kind is cleared, too; or it stays.             *)
SwitchedClearing(p) == [form EXCEPT !.provider = p, !.venue = None, !.seats = {}, !.kind = None]
SwitchedKeeping(p) == [form EXCEPT !.provider = p, !.venue = None, !.seats = {}]

Switched(p) ==
  [form EXCEPT !.provider = p, !.venue = None, !.seats = {},
               !.kind = IF @ \in KindsOf(p) THEN @ ELSE Offers[p][1]]

(* activeShowtime, the film and the badges survive the switch.             *)
changeProvider(p) ==
  /\ open /\ p # form.provider
  /\ form' = Switched(p)
  /\ matches' = None /\ screenings' = NoList /\ view' = None
  /\ UNCHANGED <<tables, initial, open, active, meta, submitting, calls>>

changeKind(kind) ==
  /\ open /\ Len(Offers[form.provider]) > 1
  /\ kind \in KindsOf(form.provider)
  /\ form' = [form EXCEPT !.kind = kind]
  /\ UNCHANGED <<tables, initial, open, shown, meta, submitting, calls>>

searchVenues ==
  /\ open /\ MayCall("search")
  /\ matches' = None
  /\ calls' = calls \union {[op |-> "search", provider |-> form.provider]}
  /\ UNCHANGED <<tables, initial, open, form, screenings, view, active, meta, submitting>>

SearchAnswers(c) ==
  /\ c.op = "search"
  /\ matches' = c.provider
  /\ calls' = calls \ {c}
  /\ UNCHANGED <<tables, initial, open, form, screenings, view, active, meta, submitting>>

(* loadScreenings: the old schedule goes at once.                          *)
loadScreenings(venue, date) ==
  /\ screenings' = NoList /\ view' = None /\ active' = None
  /\ calls' = calls \union {ListCall(venue, date)}

pickVenue(venue) ==
  /\ open /\ MayCall("list")
  /\ matches # None /\ OwnerOf[venue] = matches
  /\ form' = [form EXCEPT !.venue = venue]
  /\ matches' = None
  /\ IF form.kind = "screening"
     THEN loadScreenings(venue, form.date)
     ELSE UNCHANGED <<screenings, view, active, calls>>
  /\ UNCHANGED <<tables, initial, open, meta, submitting>>

(* The screening section of the form can be used.                          *)
Screening == open /\ form.kind = "screening" /\ form.venue # None

changeBrowseDate(date) ==
  /\ Screening /\ MayCall("list")
  /\ form' = [form EXCEPT !.date = date]
  /\ loadScreenings(form.venue, date)
  /\ UNCHANGED <<tables, initial, open, matches, meta, submitting>>

ListAnswers(c) ==
  /\ c.op = "list"
  /\ screenings' = [provider |-> c.provider, venue |-> c.venue, date |-> c.date]
  /\ calls' = (calls \ {c}) \union Probe(screenings', form.film)
  /\ UNCHANGED <<tables, initial, open, form, matches, view, active, meta, submitting>>

MapGone == active' = None /\ view' = None

pickFilm(film) ==
  /\ Screening /\ MayCall("probe")
  /\ film \in {FilmOf[s] : s \in Listed(screenings)} \union {None}
  /\ form' = [form EXCEPT !.film = film, !.seats = {}]
  /\ MapGone
  /\ calls' = calls \union Probe(screenings, film)
  /\ UNCHANGED <<tables, initial, open, matches, screenings, meta, submitting>>

loadShowtimeSeatMap(show) ==
  /\ Screening /\ MayCall("map")
  /\ show \in OfFilm(screenings, form.film)
  /\ active' = show /\ view' = None
  /\ calls' = calls \union {[op |-> "map", provider |-> form.provider, venue |-> form.venue,
                             show |-> show, empty |-> form.seats = {}]}
  /\ UNCHANGED <<tables, initial, open, form, matches, screenings, meta, submitting>>

(* The map is there, and the saved seats of its room are asked for.        *)
MapAnswers(c) ==
  /\ c.op = "map"
  /\ c.provider = OwnerOf[VenueOf[c.show]]
  /\ view' = c.show
  /\ calls' = (calls \ {c}) \union {[c EXCEPT !.op = "prefs"]}
  /\ UNCHANGED <<tables, initial, open, form, matches, screenings, active, meta, submitting>>

Saved(venue, show) == prefs[<<venue, RoomOf[show]>>]
Badge(seats) == IF seats = {} THEN "unsaved" ELSE "saved"

(* The saved seats fill the selection if it was empty at the click.        *)
PrefsAnswer(c) ==
  /\ c.op = "prefs"
  /\ meta' = [meta EXCEPT ![c.show] = Badge(Saved(c.venue, c.show))]
  /\ form' = [form EXCEPT !.seats = IF c.empty /\ Saved(c.venue, c.show) # {} THEN Saved(c.venue, c.show) ELSE @]
  /\ calls' = calls \ {c}
  /\ UNCHANGED <<tables, initial, open, shown, submitting>>

(* prefetchSeatMeta, one showtime of the loop at a time, in whatever order *)
(* the schedule has: of a room that is known already (prefsBySignature) no *)
(* more is asked; a showtime that fails gets no badge, and all do without  *)
(* a venue or at a provider without seat maps.                             *)
HasPrefs(c, room) == IF c.known[room] = None THEN Badge(prefs[<<c.venue, room>>]) ELSE c.known[room]
After(c) == IF c.todo = {} THEN {} ELSE {c}

ProbeAnswers(c) ==
  /\ c.op = "probe"
  /\ \E s \in c.todo :
       \/ /\ c.venue # None /\ c.provider = OwnerOf[VenueOf[s]]
          /\ LET badge == HasPrefs(c, RoomOf[s])
             IN  /\ meta' = [meta EXCEPT ![s] = badge]
                 /\ calls' = (calls \ {c}) \union After([c EXCEPT !.todo = @ \ {s}, !.known[RoomOf[s]] = badge])
       \/ meta' = meta /\ calls' = (calls \ {c}) \union After([c EXCEPT !.todo = @ \ {s}])
  /\ UNCHANGED <<tables, initial, open, form, shown, submitting>>

(* A lookup fails, or is never answered: only its status line shows it.    *)
LookupFails(c) ==
  /\ c.op \in {"search", "list", "map", "prefs"}
  /\ calls' = calls \ {c}
  /\ UNCHANGED <<tables, initial, open, form, shown, meta, submitting>>

-----------------------------------------------------------------------------
(* A gesture of the picker, from press to release, over the room of the    *)
(* map shown; a click may follow on a seat that was pressed and released.  *)
Gesture(from, to) ==
  LET room  == SeatsOf[RoomOf[view]]
      swept == handlePointerUp(handlePointerMove(handlePointerDown(from, room, form.seats), to), room, form.seats)
  IN
  /\ Screening /\ view # None
  /\ \/ form' = [form EXCEPT !.seats = swept]
     \/ \E s \in SeatAt(from, room) \intersect SeatAt(to, room) :
          form' = [form EXCEPT !.seats = toggle(s, swept)]
  /\ UNCHANGED <<tables, initial, open, shown, meta, submitting, calls>>

-----------------------------------------------------------------------------
SaveCall(watch) == [op |-> "save", watch |-> watch]

(* handleSubmit: a candidate without a venue, or with a field that is not  *)
(* valid, goes nowhere.  Drawn seats are put away first.                   *)
handleSubmit ==
  /\ open /\ ~submitting
  /\ form.venue # None
  /\ submitting' = TRUE
  /\ calls' = calls \union
       IF view # None /\ form.seats # {}
       THEN {[op |-> "put", key |-> <<form.venue, RoomOf[view]>>, save |-> SaveCall(toCandidate)]}
       ELSE {SaveCall(toCandidate)}
  /\ UNCHANGED <<tables, initial, open, form, shown, meta>>

(* The put is awaited with .catch(() => undefined) inside a try whose      *)
(* finally enables the form again: had the failure of the put not been     *)
(* caught, it would be the end of the submit.                              *)
(* Mutant of GoesOn: no .catch.                                            *)
GoesOnIfDone(ok) == ok
GoesOn(ok) == TRUE

PutAnswers(c, ok) ==
  /\ c.op = "put"
  /\ prefs' = IF ok THEN [prefs EXCEPT ![c.key] = c.save.watch.seats] ELSE prefs
  /\ IF GoesOn(ok)
     THEN calls' = (calls \ {c}) \union {c.save} /\ UNCHANGED submitting
     ELSE calls' = calls \ {c} /\ submitting' = FALSE
  /\ UNCHANGED <<row, initial, open, form, shown, meta>>

(* The server merges what is there into the row: nothing takes a film or   *)
(* seats away.                                                             *)
Merged(watch) ==
  [watch EXCEPT !.film = IF @ = None THEN row.film ELSE @, !.seats = IF @ = {} THEN row.seats ELSE @]

SaveAnswers(c, ok) ==
  /\ c.op = "save"
  /\ row' = IF ~ok THEN row ELSE IF initial = NoWatch THEN c.watch ELSE Merged(c.watch)
  /\ submitting' = FALSE
  /\ open' = (open /\ ~ok)
  /\ calls' = IF ok THEN {} ELSE calls \ {c}
  /\ UNCHANGED <<prefs, initial, form, shown, meta>>

Answer(c) ==
  \/ SearchAnswers(c) \/ ListAnswers(c) \/ MapAnswers(c) \/ PrefsAnswer(c) 
  \/ ProbeAnswers(c) \/ LookupFails(c)
  \/ \E ok \in BOOLEAN : PutAnswers(c, ok) \/ SaveAnswers(c, ok)

User ==
  \/ \E navigates \in BOOLEAN : Close(navigates)
  \/ \E p \in Providers : changeProvider(p)
  \/ \E kind \in Kinds : changeKind(kind)
  \/ searchVenues \/ \E venue \in Venues : pickVenue(venue)
  \/ \E date \in Dates : changeBrowseDate(date)
  \/ \E film \in Films \union {None} : pickFilm(film)
  \/ \E show \in Shows : loadShowtimeSeatMap(show)
  \/ \E from, to \in Points : Gesture(from, to)
  \/ handleSubmit

Next == User \/ \E c \in calls : Answer(c)

(* The answer to the put of the seats arrives, or its failure does: the    *)
(* browser's fetch ends.  No other request need ever be answered.          *)
PutEnds == \E c \in calls, ok \in BOOLEAN : PutAnswers(c, ok)

Spec == Init /\ [][Next]_vars /\ WF_vars(PutEnds)

-----------------------------------------------------------------------------
(* "snapping the resource type to one the provider offers": whatever is    *)
(* switched back and forth while lookups are under way, a watch is never   *)
(* saved for a kind that its provider does not have.                       *)
SavedKindIsOffered == row # NoWatch => row.kind \in KindsOf(row.provider)

(* "a cache failure must never block saving the watch itself": the seats   *)
(* that are put away first, kept or not, are followed by the save, even if *)
(* the form has gone in the meantime.                                      *)
SaveIsAsked == (\E c \in calls : c.op = "put") ~> (\E c \in calls : c.op = "save")

(* "clearing the venue (an id from one provider is meaningless to another) *)
(* plus any loaded seat map": the venue and the seat map of the form are   *)
(* its provider's.                                                         *)
ProviderHoldsTogether ==
  open => /\ form.venue # None => OwnerOf[form.venue] = form.provider
          /\ view # None => OwnerOf[VenueOf[view]] = form.provider

(* "Remember the drawn seats for this auditorium so future watches inherit *)
(* them": what is saved for a room are seats of that room.                 *)
SavedForTheirRoom == \A k \in DOMAIN prefs : prefs[k] \subseteq SeatsOf[k[2]]

=============================================================================
