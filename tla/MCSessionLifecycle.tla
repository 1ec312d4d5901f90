------------------------- MODULE MCSessionLifecycle -------------------------
(* Instances of SessionLifecycle: one call of ensureLiveSession at a time. *)
EXTENDS SessionLifecycle

CONSTANTS c1, resy, club

OneCaller  == {c1}

(* resy logs in headlessly; club stands for a provider that cannot.        *)
OneProvider  == {resy}
TwoProviders == {resy, club}

=============================================================================
