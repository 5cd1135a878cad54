-------------------------------- MODULE Table --------------------------------
(***************************************************************************)
(* A table of answers that are kept for a while (keep and answer,          *)
(* internal/katalog/ratings.go): a function from keys to records with      *)
(* their last moment in "until", of at most maxAnswers keys.               *)
(***************************************************************************)
EXTENDS Integers, FiniteSets

CONSTANT MaxAnswers  \* maxAnswers: that many answers in one table

Fresh(m, k, now) == k \in DOMAIN m /\ now < m[k].until

(* Fault: the bound is checked too late.                                   *)
FullTooLate(m) == Cardinality(DOMAIN m) > MaxAnswers

Full(m) == Cardinality(DOMAIN m) >= MaxAnswers

(* keep: a full table loses what expired; if that is not enough,           *)
(* everything.                                                             *)
Room(m, now) ==
  LET live == {k \in DOMAIN m : now < m[k].until}
      rest == [k \in live |-> m[k]]
  IN  IF ~Full(m) THEN m ELSE IF Full(rest) THEN [k \in {} |-> 0] ELSE rest

Keep(m, k, a, now) ==
  LET room == Room(m, now)
  IN  [j \in DOMAIN room \cup {k} |-> IF j = k THEN a ELSE room[j]]
=============================================================================
