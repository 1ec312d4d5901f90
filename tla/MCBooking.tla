------------------------------ MODULE MCBooking ------------------------------
(* An instance of Booking: a pass and the operator after the same slot.    *)
EXTENDS Booking

CONSTANTS pass, manual

Both     == {pass, manual}
JustPass == {pass}

=============================================================================
