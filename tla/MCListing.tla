----------------------------- MODULE MCListing -----------------------------
(* An instance of Listing: days of six hours, two zones whose clocks go    *)
(* forward and back on the second day, and two shows.                      *)
EXTENDS Listing, TLC

CONSTANTS s1, s2, dune, heat, imax, plain, c1, c2

MCUTC == [before |-> 0, after |-> 0, at |-> 0]
MCZones == {[before |-> -2, after |-> -1, at |-> 9], [before |-> 2, after |-> 1, at |-> 9]}
MCSays == (dune :> {"sand"}) @@ (heat :> {"cops"})
MCCode == (imax :> {"laser"}) @@ (plain :> {"digital"})
MCLabel == (imax :> {"big"}) @@ (plain :> {"digital"})
MCGiven ==
  {[starts |-> t, film |-> dune, format |-> imax, data |-> "whole"] : t \in {7, 8, 9, 10, 13}} \union
  {[starts |-> 10, film |-> heat, format |-> f, data |-> "whole"] : f \in {plain, None}} \union
  {[starts |-> 10, film |-> dune, format |-> imax, data |-> d] : d \in {"no map", "unreadable"}}
MCWants ==
  {[tier |-> None, item |-> None], [tier |-> "big", item |-> dune], [tier |-> None, item |-> "cops"],
   [tier |-> "laser", item |-> None]}
MCRanges == {[start |-> 1, end |-> 2], [start |-> 2, end |-> 1], [rollingDays |-> 1]}
MCWindows == {[start |-> 2, end |-> 4], [start |-> 4, end |-> 1]}

=============================================================================
