---------------------------- MODULE MCScanEngine ----------------------------
(* Instances of ScanEngine: one slot; one watch that matches it, or two    *)
(* that share it beside a third that does not match it.                    *)
EXTENDS ScanEngine

CONSTANTS k1, w1, w2, w3

OneKey       == {k1}
OneDate      == [k \in OneKey |-> 0]
OneWatch     == {w1}
OneKeyOf     == [w \in OneWatch |-> OneKey]
ThreeWatches == {w1, w2, w3}
Shared       == [w \in ThreeWatches |-> IF w = w3 THEN {} ELSE OneKey]

=============================================================================
