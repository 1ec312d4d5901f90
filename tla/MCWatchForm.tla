---------------------------- MODULE MCWatchForm ----------------------------
(* An instance of WatchForm: a theater with two rooms of different layout, *)
(* and a members' club.                                                    *)
EXTENDS WatchForm, TLC

CONSTANTS amc, club, theater, house, matinee, evening, film, large, small, today1, tomorrow, A1, A2

TheProviders == {amc, club}
TheOffers    == amc :> <<"screening">> @@ club :> <<"table", "bedroom">>
TheOwners    == theater :> amc @@ house :> club
TheShows     == {matinee, evening}
TheVenues    == [s \in TheShows |-> theater]
TheDates     == [s \in TheShows |-> today1]
TheFilms     == [s \in TheShows |-> film]
TheRooms     == matinee :> large @@ evening :> small
TheSeats     == large :> Seats @@ small :> {A1}
TheBoxes     == [s \in Seats |->
                  [left |-> IF s = A1 THEN 0 ELSE 20, right |-> IF s = A1 THEN 20 ELSE 40, top |-> 0, bottom |-> 20]]
ThePoints    == {<<5, 5>>, <<15, 5>>} \union (IF A2 \in Seats THEN {<<25, 5>>} ELSE {})

TheWatch  == {[provider |-> amc, kind |-> "screening", venue |-> theater, film |-> film, seats |-> {A1}]}
ThePrefs0 == {[k \in {theater, house} \X {large, small} |-> IF k = <<theater, large>> THEN {A1} ELSE {}]}

=============================================================================
