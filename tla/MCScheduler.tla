----------------------------- MODULE MCScheduler -----------------------------
(* Instances of Scheduler: two watches on one venue.                       *)
EXTENDS Scheduler

CONSTANTS w1, w2, v1, resy

TwoWatches == {w1, w2}
OneVenue   == {v1}
AllResy    == [v \in Venues |-> resy]

=============================================================================
