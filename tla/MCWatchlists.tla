---------------------------- MODULE MCWatchlists ----------------------------
EXTENDS Watchlists, TLC

CONSTANTS ann, ben, annDefault, benDefault, w1, w2, w3, phone, tv

People   == {ann, ben}
Apps     == {phone, tv}
Minted   == {w1, w2, w3}
AllLists == {annDefault, benDefault} \cup Minted
Defaults == (ann :> annDefault) @@ (ben :> benDefault)

(* The default's name, two that differ in case only, and one more: lists   *)
(* past the cap need names of their own.                                   *)
SomeNames == {"Watchlist", "films", "Films", "series"}
LowerCase == [n \in SomeNames |-> IF n = "Films" THEN "films" ELSE n]

(* The people are alike, each with their default list.                     *)
Swapped   == (ann :> ben) @@ (ben :> ann) @@ (annDefault :> benDefault) @@ (benDefault :> annDefault)
Symmetric == Permutations(Apps) \cup Permutations(Minted) \cup {Swapped}
=============================================================================
