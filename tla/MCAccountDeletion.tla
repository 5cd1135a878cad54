-------------------------- MODULE MCAccountDeletion --------------------------
EXTENDS AccountDeletion, TLC

CONSTANTS first, again

(* The statements on watchlist_items, watchlists (its titles with it) and  *)
(* playback_progress; the three after them delete as the third does.       *)
Asked    == {first, again}
Kept     == {"title", "list", "position"}
Refers   == [k \in Kept |-> IF k = "title" THEN {"list"} ELSE {}]
Statements == <<{"title"}, {"list", "title"}, {"position"}>>
=============================================================================
