------------------------------ MODULE MCResyKey ------------------------------
(* Instances of ResyKey: two concurrent calls, or passes alone.            *)
EXTENDS ResyKey

CONSTANTS c1, c2

OneCaller  == {c1}
TwoCallers == {c1, c2}

=============================================================================
