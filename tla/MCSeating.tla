------------------------------ MODULE MCSeating ------------------------------
(* An instance of Seating: a room with an aisle, a row without seats and a *)
(* short last row, and two small rooms of the same theater that differ in  *)
(* the type of one seat; each is listed forwards or backwards.             *)
EXTENDS Seating, SequencesExt

HallSeats  == <<<<1, 1>>, <<1, 2>>, <<1, 3>>, <<1, 4>>, <<1, 5>>, <<2, 2>>, <<2, 4>>, <<4, 3>>>>
SmallSeats == <<<<1, 1>>, <<1, 2>>, <<1, 3>>>>

Hall   == [p \in ToSet(HallSeats) |-> "CanReserve"]
Studio == [p \in ToSet(SmallSeats) |-> "CanReserve"]
Lounge == [Studio EXCEPT ![<<1, 3>>] = "Wheelchair"]
Rooms  == {Hall, Studio, Lounge}

Seats(room) == IF room = Hall THEN HallSeats ELSE SmallSeats
BothOrders ==
  {[room |-> room, order |-> Seats(room)] : room \in Rooms} \union
  {[room |-> room, order |-> Reverse(Seats(room))] : room \in Rooms}

AnySeat    == [seats |-> {}, zones |-> {}, depths |-> {}]
CenterOnly == [seats |-> {}, zones |-> {"center", "right"}, depths |-> {"front", "middle"}]
Drawn      == [seats |-> {<<1, 2>>, <<1, 3>>, <<2, 4>>}, zones |-> {"left"}, depths |-> {}]
SomePreferences == {AnySeat, CenterOnly, Drawn}

SomePicks == {{<<1, 1>>, <<1, 2>>, <<2, 2>>, <<2, 4>>}, {<<1, 3>>}}

=============================================================================
