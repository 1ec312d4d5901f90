--------------------------- MODULE SeatMapPicker ---------------------------
(***************************************************************************)
(* The seat map picker of the dashboard                                    *)
(* (apps/web/src/components/SeatMapPicker.tsx): pointer gestures over the  *)
(* seats of one room.  A gesture is a press, any number of moves and a     *)
(* release; the browser may follow it with a click on the pressed seat.    *)
(* The selection itself belongs to the form (module WatchForm).            *)
(***************************************************************************)
EXTENDS Integers

CONSTANTS
  Seats,
  Box,       \* Box[s]: the pixels of a seat's button, [left, right, top, bottom]
  Points     \* the pixels <<x, y>> where the pointer may be

ASSUME PickerConstants ==
  /\ Box \in [Seats -> [left : Int, right : Int, top : Int, bottom : Int]]
  /\ Points \subseteq Int \X Int

CLICK_TOLERANCE == 5

Abs(n) == IF n < 0 THEN -n ELSE n
Less(a, b) == IF a < b THEN a ELSE b
More(a, b) == IF a < b THEN b ELSE a

(* The seats whose button the drag's rectangle overlaps; edges that only   *)
(* touch do not.                                                           *)
seatsInRect(drag, room) ==
  LET Between(low, high, i) == /\ low < More(drag.from[i], drag.to[i])
                               /\ high > Less(drag.from[i], drag.to[i])
  IN  {s \in room : /\ Between(Box[s].left, Box[s].right, 1)
                    /\ Between(Box[s].top, Box[s].bottom, 2)}

SeatAt(p, room) ==
  {s \in room : /\ Box[s].left <= p[1] /\ p[1] < Box[s].right
                /\ Box[s].top <= p[2] /\ p[2] < Box[s].bottom}

moved(drag) == \E i \in {1, 2} : Abs(drag.to[i] - drag.from[i]) > CLICK_TOLERANCE

(* A press on a selected seat begins a sweep out of the selection.         *)
handlePointerDown(p, room, selected) ==
  [from |-> p, to |-> p, deselects |-> SeatAt(p, room) \intersect selected # {}]

handlePointerMove(drag, p) == [drag EXCEPT !.to = p]

(* What a release leaves selected: a press that stayed put changes nothing.*)
handlePointerUp(drag, room, selected) ==
  IF ~moved(drag) THEN selected
  ELSE IF drag.deselects THEN selected \ seatsInRect(drag, room)
  ELSE selected \union seatsInRect(drag, room)

(* The click that follows: the drag is over by then, so it always toggles. *)
toggle(s, selected) == IF s \in selected THEN selected \ {s} ELSE selected \union {s}

=============================================================================
