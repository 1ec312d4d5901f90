------------------------------- MODULE Seating -------------------------------
(***************************************************************************)
(* Assigned seating: the acceptable-seat gate of the scan engine           *)
(* (packages/core/src/seating/ and lines 141-158 of services/scan.ts) over *)
(* a room that fills and empties, the watch's seat preferences and the     *)
(* per-theater preferences saved from the seat picker.                     *)
(*                                                                         *)
(* A seat is a position <<row, column>>, rows counted from the screen and  *)
(* both from 1 as the AMC adapter delivers them; a position that is not in *)
(* the domain of the map is an aisle or a void.  Seats that are not        *)
(* sellable count as taken, which they are to everything modelled here.    *)
(***************************************************************************)
EXTENDS Integers, Sequences, FiniteSets, TLC

CONSTANTS
  Rows, Columns,   \* the size of the layouts
  Layouts,         \* the rooms: functions from their seats to the types of these
  Payloads,        \* [room, order]: the orders in which a fetch may list its seats
  Picks,           \* the seat sets an operator may draw in the picker
  Preferences,     \* the `seating` values a watch may have
  Parties          \* the party sizes a watch may have

Positions == (1 .. Rows) \X (1 .. Columns)
Zones     == {"left", "center", "right"}
Depths    == {"front", "middle", "back"}

ASSUME SeatingConstants ==
  /\ Rows \in Nat \ {0} /\ Columns \in Nat \ {0}
  /\ \A room \in Layouts : DOMAIN room \subseteq Positions
  /\ \A f \in Payloads :
       /\ f.room \in Layouts /\ f.order \in Seq(DOMAIN f.room)
       /\ \A p \in DOMAIN f.room : \E n \in DOMAIN f.order : f.order[n] = p
       /\ \A m, n \in DOMAIN f.order : f.order[m] = f.order[n] => m = n
  /\ Picks \subseteq SUBSET Positions
  /\ Preferences \subseteq [seats : SUBSET Positions, zones : SUBSET Zones, depths : SUBSET Depths]
  /\ Parties \subseteq Nat \ {0}

VARIABLES
  fetch,     \* the room the slot plays in, and the order it was last listed in
  map,       \* the seat map of the slot: its seats, "available" or "taken"
  watch,     \* the watch's seating preference and party size
  prefs,     \* the seat_prefs table of the theater: layout signature -> seats
  picked     \* history: the seats last saved from a map of each room

roomVars == <<fetch, map, watch, prefs, picked>>

-----------------------------------------------------------------------------
(* Zones and depths.  The ratios (mid - 0.5) / columns and                 *)
(* (rowIndex + 0.5) / rowCount are compared with 1/3 and 2/3 as rationals. *)

(* Mutant of zoneOf: the column edge instead of the cell's midpoint.       *)
zoneOfEdge(first, last) ==
  CASE 3 * (first + last) < 2 * Columns -> "left"
    [] 3 * (first + last) > 4 * Columns -> "right"
    [] OTHER -> "center"

(* The zone of the midpoint of columns first .. last.                      *)
zoneOf(first, last) ==
  CASE 3 * (first + last - 1) < 2 * Columns -> "left"
    [] 3 * (first + last - 1) > 4 * Columns -> "right"
    [] OTHER -> "center"

(* map.rows: the rows that have a seat; one without is not counted.        *)
RowsOf(room) == {p[1] : p \in DOMAIN room}
rowIndex(rows, row) == Cardinality({r \in rows : r < row})

(* Mutant of depthOf: the row's front edge instead of its middle.          *)
depthOfEdge(index, count) ==
  CASE 3 * index < count -> "front"
    [] 3 * index > 2 * count -> "back"
    [] OTHER -> "middle"

depthOf(index, count) ==
  CASE 3 * (2 * index + 1) < 2 * count -> "front"
    [] 3 * (2 * index + 1) > 4 * count -> "back"
    [] OTHER -> "middle"

Depth(rows, row) == depthOf(rowIndex(rows, row), Cardinality(rows))

-----------------------------------------------------------------------------
TypedSeats(room, order) == [n \in DOMAIN order |-> <<order[n], room[order[n]]>>]

(* Mutant of layoutSignature: the seats in the order of the payload.       *)
layoutSignatureUnsorted(f) ==
  [rows |-> RowsOf(f.room), columns |-> Columns, seats |-> TypedSeats(f.room, f.order)]

RowThenColumn(p, q) == p[1] < q[1] \/ (p[1] = q[1] /\ p[2] < q[2])

(* The fingerprint of a room: its rows, its width and its seats with their *)
(* types, sorted, never their availability.  A seat's id goes with its     *)
(* position, and two fingerprints are not expected to share a hash.        *)
layoutSignature(f) ==
  [rows |-> RowsOf(f.room), columns |-> Columns,
   seats |-> TypedSeats(f.room, SortSeq(f.order, RowThenColumn))]

(* seatPrefs.get: the cached set of this room, or nothing.                 *)
Cached ==
  LET sig == layoutSignature(fetch) IN
  IF sig \in DOMAIN prefs THEN prefs[sig] ELSE {}

(* Explicit seats, then the cached set, then zones and depths, then all.   *)
resolveAcceptableSeats(preference, room, cached) ==
  IF preference.seats # {} THEN preference.seats
  ELSE IF cached # {} THEN cached
  ELSE {p \in DOMAIN room :
          /\ preference.zones # {} => zoneOf(p[2], p[2]) \in preference.zones
          /\ preference.depths # {} => Depth(RowsOf(room), p[1]) \in preference.depths}

-----------------------------------------------------------------------------
(* Mutant of AddSeat: a void does not break the run.                       *)
AddAcrossVoid(runs, column) ==
  IF runs = <<>> THEN <<<<column>>>>
  ELSE [runs EXCEPT ![Len(runs)] = Append(@, column)]

End(run) == run[Len(run)]

(* One more free seat of a row, left to right: it continues the last run   *)
(* or, after a gap, starts a new one.                                      *)
AddSeat(runs, column) ==
  IF runs # <<>> /\ column = End(runs[Len(runs)]) + 1
  THEN [runs EXCEPT ![Len(runs)] = Append(@, column)]
  ELSE Append(runs, <<column>>)

(* The runs of seats of a row, as the columns up to each have been seen.   *)
RunsUpTo(seats, row) ==
  LET upTo[c \in 0 .. Columns] ==
        IF c = 0 THEN <<>>
        ELSE IF <<row, c>> \in seats THEN AddSeat(upTo[c - 1], c) ELSE upTo[c - 1]
  IN  upTo
Runs(seats, row) == RunsUpTo(seats, row)[Columns]

Block(rows, row, run) ==
  [row |-> row, columns |-> run, size |-> Len(run),
   position |-> zoneOf(run[1], End(run)), depth |-> Depth(rows, row)]

RowBlocks(rows, seats, row) == {Block(rows, row, Runs(seats, row)[i]) : i \in DOMAIN Runs(seats, row)}

(* compareBlocks: center, then not front, then larger, then further back;  *)
(* the sort is stable, so blocks of one row that tie stay left to right.   *)
Score(block) ==
  <<IF block.position = "center" THEN 1 ELSE 0, IF block.depth = "front" THEN 0 ELSE 1,
    block.size, block.row, Columns - block.columns[1]>>

Better(a, b) ==
  \E i \in 1 .. 5 :
    /\ Score(a)[i] > Score(b)[i]
    /\ \A j \in 1 .. i - 1 : Score(a)[j] = Score(b)[j]

FreeSeats(room) == {p \in DOMAIN room : room[p] = "available"}

(* Mutant of Summary: the mask is left out, as in the adapter's own digest.*)
UnmaskedSummary(room, acceptable) ==
  UNION {RowBlocks(RowsOf(room), FreeSeats(room), r) : r \in RowsOf(room)}

(* summarizeSeatMap(map, acceptable).blocks; of their order, only which    *)
(* one comes first is ever looked at.                                      *)
Summary(room, acceptable) ==
  UNION {RowBlocks(RowsOf(room), FreeSeats(room) \intersect acceptable, r) : r \in RowsOf(room)}
FirstOf(blocks) == CHOOSE a \in blocks : \A b \in blocks : ~Better(b, a)

passesSeatingGate(blocks, partySize) ==
  \E block \in blocks : block.size >= partySize

(* What the scan computes of the slot: its acceptable seats, its gated     *)
(* summary and whether it is worth an alert.                               *)
Acceptable == resolveAcceptableSeats(watch.seating, map, Cached)
Seating    == Summary(map, Acceptable)
Alerts     == passesSeatingGate(Seating, watch.partySize)

(* The seats that bookingUrl pre-selects in the alert's link.              *)
Preselected ==
  IF Seating = {} THEN {}
  ELSE LET best == FirstOf(Seating) IN {<<best.row, best.columns[n]>> : n \in DOMAIN best.columns}

-----------------------------------------------------------------------------
RoomInit ==
  /\ fetch \in Payloads
  /\ map = [p \in DOMAIN fetch.room |-> "available"]
  /\ watch \in [seating : Preferences, partySize : Parties]
  /\ prefs = [sig \in {} |-> {}]
  /\ picked = [room \in Layouts |-> {}]

(* A seat is sold, or released, between two fetches, and the later one     *)
(* lists the seats in an order of its own.                                 *)
SeatChanges(p) ==
  /\ p \in DOMAIN map
  /\ map' = [map EXCEPT ![p] = IF @ = "available" THEN "taken" ELSE "available"]
  /\ \E f \in Payloads : f.room = fetch.room /\ fetch' = f
  /\ UNCHANGED <<watch, prefs, picked>>

(* The next slot plays in another room of the theater.                     *)
OtherRoom(f) ==
  /\ f.room # fetch.room
  /\ fetch' = f
  /\ map' = [p \in DOMAIN f.room |-> "available"]
  /\ UNCHANGED <<watch, prefs, picked>>

(* putPrefs: seats are saved under the signature of a map that was fetched *)
(* for the picker, of some room of the theater.                            *)
putPrefs(f, seats) ==
  LET sig == layoutSignature(f) IN
  /\ prefs' = [s \in DOMAIN prefs \union {sig} |-> IF s = sig THEN seats ELSE prefs[s]]
  /\ picked' = [picked EXCEPT ![f.room] = seats]
  /\ UNCHANGED <<fetch, map, watch>>

EditWatch(seating) ==
  /\ seating # watch.seating
  /\ watch' = [watch EXCEPT !.seating = seating]
  /\ UNCHANGED <<fetch, map, prefs, picked>>

RoomNext ==
  \/ \E p \in Positions : SeatChanges(p)
  \/ \E f \in Payloads : OtherRoom(f)
  \/ \E f \in Payloads, seats \in Picks : putPrefs(f, seats)
  \/ \E seating \in Preferences : EditWatch(seating)

RoomSpec == RoomInit /\ [][RoomNext]_roomVars

-----------------------------------------------------------------------------
Free == FreeSeats(map)

(* "The gate always requires a contiguous block of at least the watch's    *)
(* party size" (gate.ts): an alert goes out exactly when somewhere in one  *)
(* row the whole party finds free, acceptable seats next to one another.   *)
GateSeatsTheParty ==
  Alerts <=> \E row \in 1 .. Rows, first \in 1 .. Columns :
               \A c \in first .. first + watch.partySize - 1 :
                 <<row, c>> \in Free \intersect Acceptable

(* "The best block in the alert and the pre-selected seats in the link     *)
(* must be the user's seats" (scan.ts): whatever was saved, drawn or sold, *)
(* a link never pre-selects a seat that is taken or not acceptable, and    *)
(* an alert's link always pre-selects some.                                *)
LinkHoldsUsersSeats ==
  /\ Preselected \subseteq Free \intersect Acceptable
  /\ Alerts => Preselected # {}

(* "Two fetches of the same auditorium produce identical geometry"         *)
(* (signature.ts): what was saved from a map of one room is what the scan  *)
(* applies to a slot in that room, in whatever order the two fetches list  *)
(* its seats and however it has filled between them, and it is not applied *)
(* in a room that differs in its seats or in their types.  Which seats the *)
(* form saves, and from which map, is the matter of module WatchForm.      *)
PicksFollowTheRoom == Cached = picked[fetch.room]

Turned(p) == <<Rows + 1 - p[1], Columns + 1 - p[2]>>
TurnedZone(zone) == IF zone = "left" THEN "right" ELSE IF zone = "right" THEN "left" ELSE zone
TurnedDepth(depth) == IF depth = "front" THEN "back" ELSE IF depth = "back" THEN "front" ELSE depth

(* "Normalize by the cell midpoint so a 6-wide room splits cleanly", and a *)
(* depth is "the third of the auditorium it falls in, front-to-back"       *)
(* (summary.ts): in the room turned around every open block has its size,  *)
(* and lies in the opposite zone and depth, so that no third of a room is  *)
(* favoured, also where a row has no seat at all.                          *)
ZonesAreSymmetric ==
  LET image == [p \in {Turned(q) : q \in DOMAIN map} |-> map[Turned(p)]] IN
  \A block \in Summary(map, Positions) : \E turned \in Summary(image, Positions) :
    /\ <<turned.row, turned.columns[1]>> = Turned(<<block.row, End(block.columns)>>)
    /\ turned.size = block.size
    /\ turned.depth = TurnedDepth(block.depth)
    /\ turned.position = TurnedZone(block.position)

=============================================================================
