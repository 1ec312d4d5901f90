----------------------------- MODULE MCConsole -----------------------------
(* An instance of Console: one watch at first, or none, and one more id.   *)
EXTENDS Console

CONSTANTS w1, w2, dinner, lunch, all, booked, resy

=============================================================================
