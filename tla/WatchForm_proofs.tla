-------------------------- MODULE WatchForm_proofs --------------------------
(***************************************************************************)
(* Proofs about the form of a watch, for any providers, venues, schedules  *)
(* and seats, and any number of lookups in flight, answered in any order   *)
(* or never.                                                               *)
(***************************************************************************)
EXTENDS WatchForm, TLAPS

(* Requests, by what they are.                                             *)
Searches == [op : {"search"}, provider : Providers]
Lists    == [op : {"list"}, provider : Providers, venue : Venues, date : Dates]
Maps     == [op : {"map", "prefs"}, provider : Providers, venue : Venues, show : Shows, empty : BOOLEAN]
Probes   == [op : {"probe"}, provider : Providers, venue : Venues \union {None}, todo : SUBSET Shows,
             known : [Rooms -> {None, "saved", "unsaved"}]]
Saves    == [op : {"save"}, watch : Watch]
Puts     == [op : {"put"}, key : Venues \X Rooms, save : Saves]

Formed(c) ==
  /\ c \in Searches \union Lists \union Maps \union Probes \union Saves \union Puts
  /\ c.op = "save" => c.watch.kind \in KindsOf(c.watch.provider)
  /\ c.op = "put" => c.save.watch.kind \in KindsOf(c.save.watch.provider)

(* The kind is the provider's in the form, in what is on its way to the    *)
(* server, and so in what has been saved.                                  *)
FormInv ==
  /\ TypeOK
  /\ \A c \in calls : Formed(c)
  /\ initial # NoWatch => row # NoWatch
  /\ form.kind \in KindsOf(form.provider)
  /\ SavedKindIsOffered

-----------------------------------------------------------------------------
(* What is given.                                                          *)

LEMMA KindsAre ==
  ASSUME NEW p \in Providers
  PROVE  Offers[p][1] \in KindsOf(p) /\ KindsOf(p) \subseteq Kinds
<1>1. Offers[p] \in Seq(STRING) /\ Offers[p] # <<>>
  BY FormConstants
<1>2. 1 \in DOMAIN Offers[p]
  BY <1>1
<1> QED BY <1>2 DEF KindsOf, Kinds

LEMMA ShowsAre ==
  ASSUME NEW s \in Shows
  PROVE  /\ VenueOf[s] \in Venues /\ FilmOf[s] \in Films /\ RoomOf[s] \in Rooms
         /\ SeatsOf[RoomOf[s]] \subseteq Seats /\ s # None
  BY FormConstants

LEMMA NoWatchIsNone == NoWatch \notin Watch
<1>1. \A watch \in Watch : DOMAIN watch = {"provider", "kind", "venue", "film", "seats"}
  BY DEF Watch
<1>2. DOMAIN NoWatch = {"saved"}
  BY DEF NoWatch
<1> QED BY <1>1, <1>2

(* Requests by what they ask.                                              *)
LEMMA RequestIs ==
  ASSUME NEW c, Formed(c)
  PROVE  /\ c.op = "search" => c \in Searches
         /\ c.op = "list" => c \in Lists
         /\ c.op \in {"map", "prefs"} => c \in Maps
         /\ c.op = "probe" => c \in Probes
         /\ c.op = "save" => c \in Saves
         /\ c.op = "put" => c \in Puts
  BY DEF Formed, Searches, Lists, Maps, Probes, Saves, Puts
-----------------------------------------------------------------------------
(* Requests that are made.                                                 *)

LEMMA SearchFormed ==
  ASSUME NEW p \in Providers
  PROVE  Formed([op |-> "search", provider |-> p])
  BY DEF Formed, Searches

LEMMA ListFormed ==
  ASSUME NEW p \in Providers, NEW venue \in Venues, NEW date \in Dates
  PROVE  Formed([op |-> "list", provider |-> p, venue |-> venue, date |-> date])
  BY DEF Formed, Lists

LEMMA MapFormed ==
  ASSUME NEW p \in Providers, NEW venue \in Venues, NEW show \in Shows, NEW empty \in BOOLEAN,
         NEW op \in {"map", "prefs"}
  PROVE  Formed([op |-> op, provider |-> p, venue |-> venue, show |-> show, empty |-> empty])
  BY DEF Formed, Maps

LEMMA ProbeFormed ==
  ASSUME TypeOK, NEW list, NEW film, NEW c \in Probe(list, film)
  PROVE  Formed(c)
<1> DEFINE todo == {s \in OfFilm(list, film) : meta[s] = None}
           known == [room \in Rooms |-> None]
<1>1. c = [op |-> "probe", provider |-> form.provider, venue |-> form.venue, todo |-> todo, known |-> known]
  BY DEF Probe
<1>2. todo \in SUBSET Shows /\ known \in [Rooms -> {None, "saved", "unsaved"}]
  BY DEF OfFilm, Listed
<1> HIDE DEF todo, known
<1>3. c \in Probes /\ c.op = "probe"
  BY <1>1, <1>2 DEF TypeOK, FormState, Probes
<1> QED BY <1>3 DEF Formed

(* What is submitted is a watch of the form's provider and kind.           *)
LEMMA CandidateIs ==
  ASSUME FormInv, form.venue # None
  PROVE  toCandidate \in Watch /\ toCandidate.kind \in KindsOf(toCandidate.provider)
<1>1. initial # NoWatch => initial \in Watch
  BY FormConstants DEF FormInv, TypeOK, Watch
<1>2. toCandidate.kind = form.kind /\ toCandidate.provider = form.provider
  BY DEF toCandidate
<1> QED BY <1>1, <1>2 DEF FormInv, TypeOK, FormState, Watch, toCandidate

LEMMA SaveFormed ==
  ASSUME NEW watch \in Watch, watch.kind \in KindsOf(watch.provider)
  PROVE  Formed(SaveCall(watch)) /\ SaveCall(watch) \in Saves
  BY DEF SaveCall, Formed, Saves

LEMMA PutFormed ==
  ASSUME NEW venue \in Venues, NEW room \in Rooms, NEW watch \in Watch, watch.kind \in KindsOf(watch.provider)
  PROVE  Formed([op |-> "put", key |-> <<venue, room>>, save |-> SaveCall(watch)])
<1> DEFINE c == [op |-> "put", key |-> <<venue, room>>, save |-> SaveCall(watch)]
<1>1. c.save.watch = watch
  BY DEF SaveCall
<1>2. c \in Puts
  BY SaveFormed DEF Puts
<1> QED BY <1>1, <1>2 DEF Formed

-----------------------------------------------------------------------------
(* What the operator does.                                                 *)

LEMMA CloseKeeps ==
  ASSUME FormInv, NEW navigates \in BOOLEAN, Close(navigates)
  PROVE  FormInv'
  BY DEF Close, FormInv, TypeOK, SavedKindIsOffered, shown, tables

LEMMA ProviderKeeps ==
  ASSUME FormInv, NEW p \in Providers, changeProvider(p)
  PROVE  FormInv'
<1> USE DEF FormInv
<1> DEFINE kind == IF form.kind \in KindsOf(p) THEN form.kind ELSE Offers[p][1]
<1>1. kind \in KindsOf(p) /\ kind \in Kinds
  BY KindsAre
<1>2. /\ form' = [form EXCEPT !.provider = p, !.venue = None, !.seats = {}, !.kind = kind]
      /\ matches' = None /\ screenings' = NoList /\ view' = None
      /\ UNCHANGED <<tables, initial, open, active, meta, submitting, calls>>
  BY DEF changeProvider, Switched
<1> HIDE DEF kind
<1>3. form' \in FormState /\ form'.kind = kind /\ form'.provider = p
  BY <1>1, <1>2 DEF TypeOK, FormState
<1> QED BY <1>1, <1>2, <1>3 DEF TypeOK, SavedKindIsOffered, tables

LEMMA KindKeeps ==
  ASSUME FormInv, NEW kind \in Kinds, changeKind(kind)
  PROVE  FormInv'
<1> USE DEF FormInv
<1>1. form' \in FormState /\ form'.kind = kind /\ form'.provider = form.provider /\ kind \in KindsOf(form.provider)
  BY DEF changeKind, TypeOK, FormState
<1>2. UNCHANGED <<tables, initial, open, shown, meta, submitting, calls>>
  BY DEF changeKind
<1> QED BY <1>1, <1>2 DEF TypeOK, SavedKindIsOffered, tables, shown

LEMMA SearchKeeps ==
  ASSUME FormInv, searchVenues
  PROVE  FormInv'
<1> USE DEF FormInv
<1> DEFINE c == [op |-> "search", provider |-> form.provider]
<1>1. Formed(c)
  BY SearchFormed DEF TypeOK, FormState
<1>2. /\ matches' = None /\ calls' = calls \union {c}
      /\ UNCHANGED <<tables, initial, open, form, screenings, view, active, meta, submitting>>
  BY DEF searchVenues
<1> HIDE DEF c
<1> QED BY <1>1, <1>2 DEF TypeOK, SavedKindIsOffered, tables

LEMMA VenueKeeps ==
  ASSUME FormInv, NEW venue \in Venues, pickVenue(venue)
  PROVE  FormInv'
<1> USE DEF FormInv
<1>1. form' \in FormState /\ form'.provider = form.provider /\ form'.kind = form.kind
  BY DEF pickVenue, TypeOK, FormState
<1>2. matches' = None /\ UNCHANGED <<tables, initial, open, meta, submitting>>
  BY DEF pickVenue
<1> DEFINE c == ListCall(venue, form.date)
<1>3. Formed(c)
  BY ListFormed DEF ListCall, TypeOK, FormState
<1>4. \/ screenings' = NoList /\ view' = None /\ active' = None /\ calls' = calls \union {c}
      \/ UNCHANGED <<screenings, view, active, calls>>
  BY DEF pickVenue, loadScreenings
<1> HIDE DEF c
<1> QED BY <1>1, <1>2, <1>3, <1>4 DEF TypeOK, SavedKindIsOffered, tables

LEMMA DateKeeps ==
  ASSUME FormInv, NEW date \in Dates, changeBrowseDate(date)
  PROVE  FormInv'
<1> USE DEF FormInv
<1>1. form' \in FormState /\ form'.provider = form.provider /\ form'.kind = form.kind
  BY DEF changeBrowseDate, TypeOK, FormState
<1> DEFINE c == ListCall(form.venue, date)
<1>2. Formed(c)
  BY ListFormed DEF changeBrowseDate, Screening, ListCall, TypeOK, FormState
<1>3. /\ screenings' = NoList /\ view' = None /\ active' = None /\ calls' = calls \union {c}
      /\ UNCHANGED <<tables, initial, open, matches, meta, submitting>>
  BY DEF changeBrowseDate, loadScreenings
<1> HIDE DEF c
<1> QED BY <1>1, <1>2, <1>3 DEF TypeOK, SavedKindIsOffered, tables

LEMMA FilmKeeps ==
  ASSUME FormInv, NEW film \in Films \union {None}, pickFilm(film)
  PROVE  FormInv'
<1> USE DEF FormInv
<1>1. form' \in FormState /\ form'.provider = form.provider /\ form'.kind = form.kind
  BY DEF pickFilm, TypeOK, FormState
<1>2. /\ active' = None /\ view' = None
      /\ calls' = calls \union Probe(screenings, film)
      /\ UNCHANGED <<tables, initial, open, matches, screenings, meta, submitting>>
  BY DEF pickFilm, MapGone
<1>3. \A c \in Probe(screenings, film) : Formed(c)
  BY ProbeFormed
<1> QED BY <1>1, <1>2, <1>3 DEF TypeOK, SavedKindIsOffered, tables

LEMMA MapKeeps ==
  ASSUME FormInv, NEW show \in Shows, loadShowtimeSeatMap(show)
  PROVE  FormInv'
<1> USE DEF FormInv
<1> DEFINE c == [op |-> "map", provider |-> form.provider, venue |-> form.venue,
                 show |-> show, empty |-> form.seats = {}]
<1>1. Formed(c)
  BY MapFormed DEF loadShowtimeSeatMap, Screening, TypeOK, FormState
<1>2. /\ active' = show /\ view' = None /\ calls' = calls \union {c}
      /\ UNCHANGED <<tables, initial, open, form, matches, screenings, meta, submitting>>
  BY DEF loadShowtimeSeatMap
<1> HIDE DEF c
<1> QED BY <1>1, <1>2 DEF TypeOK, SavedKindIsOffered, tables

(* What a gesture selects are seats.                                       *)
LEMMA SweptAre ==
  ASSUME NEW from, NEW to, NEW room \in SUBSET Seats, NEW selected \in SUBSET Seats
  PROVE  handlePointerUp(handlePointerMove(handlePointerDown(from, room, selected), to), room, selected)
           \in SUBSET Seats
  BY DEF handlePointerUp, seatsInRect

LEMMA GestureKeeps ==
  ASSUME FormInv, NEW from \in Points, NEW to \in Points, Gesture(from, to)
  PROVE  FormInv'
<1> USE DEF FormInv
<1> DEFINE room  == SeatsOf[RoomOf[view]]
           swept == handlePointerUp(handlePointerMove(handlePointerDown(from, room, form.seats), to), room, form.seats)
<1>1. /\ \/ form' = [form EXCEPT !.seats = swept]
         \/ \E s \in SeatAt(from, room) \intersect SeatAt(to, room) : form' = [form EXCEPT !.seats = toggle(s, swept)]
      /\ UNCHANGED <<tables, initial, open, shown, meta, submitting, calls>>
  BY DEF Gesture
<1>2. room \in SUBSET Seats /\ form.seats \in SUBSET Seats
  BY ShowsAre DEF Gesture, TypeOK, FormState
<1>3. SeatAt(from, room) \subseteq room
  BY DEF SeatAt
<1> HIDE DEF room
<1>4. swept \in SUBSET Seats
  BY <1>2, SweptAre
<1> HIDE DEF swept
<1>5. PICK seats \in SUBSET Seats : form' = [form EXCEPT !.seats = seats]
  <2>1. ASSUME NEW s \in SeatAt(from, room)
        PROVE  toggle(s, swept) \in SUBSET Seats
    BY <1>2, <1>3, <1>4, <2>1 DEF toggle
  <2> QED BY <1>1, <1>4, <2>1
<1>6. form' \in FormState /\ form'.provider = form.provider /\ form'.kind = form.kind
  BY <1>5 DEF TypeOK, FormState
<1> QED BY <1>1, <1>6 DEF TypeOK, SavedKindIsOffered, tables, shown

LEMMA SubmitKeeps ==
  ASSUME FormInv, handleSubmit
  PROVE  FormInv'
<1> USE DEF FormInv
<1> DEFINE save == SaveCall(toCandidate)
           put  == [op |-> "put", key |-> <<form.venue, RoomOf[view]>>, save |-> save]
<1>1. toCandidate \in Watch /\ toCandidate.kind \in KindsOf(toCandidate.provider)
  BY CandidateIs DEF handleSubmit
<1>2. Formed(save)
  BY <1>1, SaveFormed
<1>3. view # None => Formed(put)
  BY <1>1, ShowsAre, PutFormed DEF handleSubmit, TypeOK, FormState
<1>4. /\ submitting' = TRUE
      /\ \/ calls' = calls \union {save}
         \/ view # None /\ calls' = calls \union {put}
      /\ UNCHANGED <<tables, initial, open, form, shown, meta>>
  BY DEF handleSubmit
<1> HIDE DEF save, put
<1> QED BY <1>2, <1>3, <1>4 DEF TypeOK, SavedKindIsOffered, tables, shown

-----------------------------------------------------------------------------
(* Answers.                                                                *)

LEMMA SearchAnswersKeeps ==
  ASSUME FormInv, NEW c \in calls, SearchAnswers(c)
  PROVE  FormInv'
<1> USE DEF FormInv
<1>1. c.provider \in Providers
  BY RequestIs DEF SearchAnswers, Searches
<1> QED BY <1>1 DEF SearchAnswers, TypeOK, SavedKindIsOffered, tables

LEMMA ListAnswersKeeps ==
  ASSUME FormInv, NEW c \in calls, ListAnswers(c)
  PROVE  FormInv'
<1> USE DEF FormInv
<1> DEFINE list == [provider |-> c.provider, venue |-> c.venue, date |-> c.date]
<1>1. list \in [provider : Providers, venue : Venues, date : Dates]
  BY RequestIs DEF ListAnswers, Lists
<1>2. /\ screenings' = list /\ calls' = (calls \ {c}) \union Probe(list, form.film)
      /\ UNCHANGED <<tables, initial, open, form, matches, view, active, meta, submitting>>
  BY DEF ListAnswers
<1>3. \A d \in Probe(list, form.film) : Formed(d)
  BY ProbeFormed
<1> HIDE DEF list
<1> QED BY <1>1, <1>2, <1>3 DEF TypeOK, SavedKindIsOffered, tables

LEMMA MapAnswersKeeps ==
  ASSUME FormInv, NEW c \in calls, MapAnswers(c)
  PROVE  FormInv'
<1> USE DEF FormInv
<1> DEFINE d == [c EXCEPT !.op = "prefs"]
<1>1. c \in Maps /\ c.show \in Shows
  BY RequestIs DEF MapAnswers, Maps
<1>2. Formed(d)
  BY <1>1 DEF Maps, Formed
<1>3. /\ view' = c.show /\ calls' = (calls \ {c}) \union {d}
      /\ UNCHANGED <<tables, initial, open, form, matches, screenings, active, meta, submitting>>
  BY DEF MapAnswers
<1> HIDE DEF d
<1> QED BY <1>1, <1>2, <1>3 DEF TypeOK, SavedKindIsOffered, tables

LEMMA PrefsAnswerKeeps ==
  ASSUME FormInv, NEW c \in calls, PrefsAnswer(c)
  PROVE  FormInv'
<1> USE DEF FormInv
<1>1. c.show \in Shows /\ c.venue \in Venues
  BY RequestIs DEF PrefsAnswer, Maps
<1> DEFINE saved == Saved(c.venue, c.show)
           seats == IF c.empty /\ saved # {} THEN saved ELSE form.seats
<1>2. seats \in SUBSET Seats
  BY <1>1, ShowsAre DEF Saved, TypeOK, FormState
<1>3. form' = [form EXCEPT !.seats = seats]
  BY DEF PrefsAnswer
<1>4. /\ meta' = [meta EXCEPT ![c.show] = Badge(saved)] /\ calls' = calls \ {c}
      /\ UNCHANGED <<tables, initial, open, shown, submitting>>
  BY DEF PrefsAnswer
<1> HIDE DEF seats, saved
<1>5. form' \in FormState /\ form'.provider = form.provider /\ form'.kind = form.kind
  BY <1>2, <1>3 DEF TypeOK, FormState
<1> QED BY <1>4, <1>5 DEF TypeOK, SavedKindIsOffered, tables, shown, Badge

LEMMA ProbeAnswersKeeps ==
  ASSUME FormInv, NEW c \in calls, ProbeAnswers(c)
  PROVE  FormInv'
<1> USE DEF FormInv
<1>1. c \in Probes /\ c.op = "probe"
  BY RequestIs DEF ProbeAnswers
<1>2. PICK s \in c.todo :
        \/ LET badge == HasPrefs(c, RoomOf[s])
           IN  /\ meta' = [meta EXCEPT ![s] = badge]
               /\ calls' = (calls \ {c}) \union After([c EXCEPT !.todo = @ \ {s}, !.known[RoomOf[s]] = badge])
        \/ meta' = meta /\ calls' = (calls \ {c}) \union After([c EXCEPT !.todo = @ \ {s}])
  BY DEF ProbeAnswers
<1> DEFINE badge == HasPrefs(c, RoomOf[s])
           d == [c EXCEPT !.todo = @ \ {s}, !.known[RoomOf[s]] = badge]
           e == [c EXCEPT !.todo = @ \ {s}]
<1>3. s \in Shows /\ RoomOf[s] \in Rooms
  BY <1>1, ShowsAre DEF Probes
<1>4. badge \in {None, "saved", "unsaved"}
  BY <1>1, <1>3 DEF HasPrefs, Badge, Probes
<1>5. \/ meta' = [meta EXCEPT ![s] = badge] /\ calls' = (calls \ {c}) \union After(d)
      \/ meta' = meta /\ calls' = (calls \ {c}) \union After(e)
  BY <1>2
<1> HIDE DEF badge
<1>6. d \in Probes /\ e \in Probes /\ d.op = "probe" /\ e.op = "probe"
  BY <1>1, <1>3, <1>4 DEF Probes
<1> HIDE DEF d, e
<1>7. \A f \in After(d) \union After(e) : Formed(f)
  BY <1>6 DEF After, Formed
<1>8. UNCHANGED <<tables, initial, open, form, shown, submitting>>
  BY DEF ProbeAnswers
<1> QED BY <1>3, <1>4, <1>5, <1>7, <1>8 DEF TypeOK, SavedKindIsOffered, tables, shown

LEMMA LookupFailsKeeps ==
  ASSUME FormInv, NEW c \in calls, LookupFails(c)
  PROVE  FormInv'
  BY DEF LookupFails, FormInv, TypeOK, SavedKindIsOffered, tables, shown

LEMMA PutAnswersKeeps ==
  ASSUME FormInv, NEW c \in calls, NEW ok \in BOOLEAN, PutAnswers(c, ok)
  PROVE  FormInv'
<1> USE DEF FormInv
<1>1. c \in Puts /\ c.save.watch.kind \in KindsOf(c.save.watch.provider)
  BY RequestIs DEF PutAnswers, Formed
<1>2. c.key \in Venues \X Rooms /\ c.save \in Saves /\ c.save.op = "save" /\ c.save.watch.seats \in SUBSET Seats
  BY <1>1 DEF Puts, Saves, Watch
<1>3. Formed(c.save)
  BY <1>1, <1>2 DEF Formed
<1>4. prefs' \in [Venues \X Rooms -> SUBSET Seats]
  BY <1>2 DEF PutAnswers, TypeOK
<1>5. /\ calls' \subseteq calls \union {c.save} /\ submitting' \in BOOLEAN
      /\ UNCHANGED <<row, initial, open, form, shown, meta>>
  BY DEF PutAnswers, TypeOK
<1> QED BY <1>3, <1>4, <1>5 DEF TypeOK, SavedKindIsOffered, shown

(* What the server keeps of the watch that was is neither kind nor         *)
(* provider.                                                               *)
LEMMA SaveAnswersKeeps ==
  ASSUME FormInv, NEW c \in calls, NEW ok \in BOOLEAN, SaveAnswers(c, ok)
  PROVE  FormInv'
<1> USE DEF FormInv
<1>1. c.watch \in Watch /\ c.watch.kind \in KindsOf(c.watch.provider)
  BY RequestIs DEF SaveAnswers, Saves, Formed
<1>2. /\ row' = (IF ~ok THEN row ELSE IF initial = NoWatch THEN c.watch ELSE Merged(c.watch))
      /\ submitting' = FALSE /\ open' = (open /\ ~ok) /\ calls' \subseteq calls
      /\ UNCHANGED <<prefs, initial, form, shown, meta>>
  BY DEF SaveAnswers
<1>3. initial # NoWatch =>
        /\ Merged(c.watch) \in Watch
        /\ Merged(c.watch).kind = c.watch.kind /\ Merged(c.watch).provider = c.watch.provider
  BY <1>1 DEF Merged, Watch, TypeOK
<1>4. /\ row' \in Watch \union {NoWatch} /\ (initial # NoWatch => row' # NoWatch)
      /\ row' # NoWatch => row'.kind \in KindsOf(row'.provider)
  BY <1>1, <1>2, <1>3, NoWatchIsNone DEF TypeOK, SavedKindIsOffered
<1> QED BY <1>2, <1>4 DEF TypeOK, SavedKindIsOffered, shown

-----------------------------------------------------------------------------
(* The theorems.                                                           *)

LEMMA FormInit == Init => FormInv
<1> SUFFICES ASSUME Init PROVE FormInv
  OBVIOUS
<1>1. initial # NoWatch => initial \in Watch /\ initial.kind \in KindsOf(initial.provider)
  BY FormConstants DEF Init, Watch
<1>2. Offers[Default][1] \in KindsOf(Default) /\ Offers[Default][1] \in Kinds
  BY KindsAre, FormConstants
<1>3. form \in FormState /\ form.kind \in KindsOf(form.provider)
  <2>1. CASE initial = NoWatch
    BY <1>2, <2>1, FormConstants DEF Init, fromWatch, FormState
  <2>2. CASE initial # NoWatch
    BY <1>1, <2>2, FormConstants DEF Init, fromWatch, FormState, Watch
  <2> QED BY <2>1, <2>2
<1>4. prefs \in [Venues \X Rooms -> SUBSET Seats]
  BY FormConstants DEF Init
<1>5. \A c \in calls : Formed(c)
  <2> SUFFICES ASSUME NEW c \in calls PROVE Formed(c)
    OBVIOUS
  <2>1. initial # NoWatch /\ c = [op |-> "list", provider |-> form.provider, venue |-> form.venue, date |-> Today]
    BY DEF Init
  <2>2. form.provider \in Providers /\ form.venue \in Venues
    BY <1>1, <1>3, <2>1 DEF FormState, Init, fromWatch, Watch
  <2> QED BY <2>1, <2>2, ListFormed, FormConstants
<1>6. row = initial
  BY DEF Init
<1> QED BY <1>1, <1>3, <1>4, <1>5, <1>6 DEF Init, FormInv, TypeOK, SavedKindIsOffered

LEMMA FormKeeps ==
  ASSUME FormInv, [Next]_vars
  PROVE  FormInv'
<1>1. CASE UNCHANGED vars
  BY <1>1 DEF vars, tables, shown, FormInv, TypeOK, SavedKindIsOffered
<1>2. CASE User
  BY <1>2, CloseKeeps, ProviderKeeps, KindKeeps, SearchKeeps, VenueKeeps, DateKeeps, FilmKeeps, MapKeeps,
     GestureKeeps, SubmitKeeps DEF User
<1>3. ASSUME NEW c \in calls, Answer(c)
      PROVE  FormInv'
  BY <1>3, SearchAnswersKeeps, ListAnswersKeeps, MapAnswersKeeps, PrefsAnswerKeeps, ProbeAnswersKeeps,
     LookupFailsKeeps, PutAnswersKeeps, SaveAnswersKeeps DEF Answer
<1> QED BY <1>1, <1>2, <1>3 DEF Next

LEMMA FormInvHolds == Spec => []FormInv
  BY FormInit, FormKeeps, PTL DEF Spec

(* The form's state is well formed, whatever is answered when: its kind is *)
(* one there is, its venue and film are known, its seats are seats         *)
(* (components/WatchForm.tsx).                                             *)
THEOREM FormTypesHold == Spec => []TypeOK
<1>1. FormInv => TypeOK
  BY DEF FormInv
<1> QED BY <1>1, FormInvHolds, PTL

(* "snapping the resource type to one the provider offers": in whatever    *)
(* order the operator switches, picks and submits, and lookups and saves   *)
(* are answered, no watch is saved for a kind that its provider does not   *)
(* have (WatchForm.tsx, changeProvider).                                   *)
THEOREM SavedKindsAreOffered == Spec => []SavedKindIsOffered
<1>1. FormInv => SavedKindIsOffered
  BY DEF FormInv
<1> QED BY <1>1, FormInvHolds, PTL

=============================================================================
