----------------------------- MODULE MCAnswers -----------------------------
EXTENDS Answers, TLC

CONSTANTS p1, p2, film, show, subtitle

(* Two viewers' requests, about two titles or one, and about the one       *)
(* asset, of the film.                                                     *)
Apps        == {p1, p2}
Library     == {film, show}
Subtitles   == {subtitle}
OfTheFilm   == [a \in Subtitles |-> film]
Ages        == [id \in Library |-> IF id = film THEN 0 ELSE 1]
ItWasThere  == {[rating |-> Ages, there |-> Subtitles, importing |-> FALSE]}
ItIsNot     == {[rating |-> Ages, there |-> {}, importing |-> TRUE]}
Either      == ItWasThere \cup ItIsNot
Lists       == [title |-> {{film}}, asset |-> {}, list |-> {{show}}, available |-> {{film, show}}]
OneFilm     == [title |-> {}, asset |-> {}, list |-> {}, available |-> {{film}}]
AgesCapped  == {0, 1}
SymmetricApps == Permutations(Apps)
=============================================================================
