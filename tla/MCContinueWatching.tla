------------------------- MODULE MCContinueWatching -------------------------
(* A series of a special, a file of two episodes and one of one; a film.   *)
EXTENDS ContinueWatching

CONSTANTS special, one, two, three, film, series

Episodes   == {special, one, two, three}
WithAFilm  == Episodes \cup {film}
SeriesOfIt == [i \in Items |-> IF i = film THEN NoSeries ELSE series]
ListingOf  == [s \in {series} |-> <<special, one, two, three>>]
HolderOf   == [i \in Items |-> IF i = two THEN one ELSE i]
=============================================================================
