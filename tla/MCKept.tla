------------------------------- MODULE MCKept -------------------------------
EXTENDS Kept, TLC

CONSTANTS s1, s2, t1, t2, en, de, e1, e2, e3, noCap

(* Two clients that ask for the languages, two that write; a file of three *)
(* episodes, of which a capped viewer is not served the holder.            *)
Apps       == {s1, s2}
Tvs        == {t1, t2}
Languages2 == {en, de}
Episodes   == {e1, e2, e3}
Two        == {noCap, 12}
Sees       == [c \in Two |-> IF c = noCap THEN Episodes ELSE {e2, e3}]
OneFile    == [setting |-> en, holder |-> [i \in Episodes |-> e1]]
Same       == Permutations(Apps) \cup Permutations(Tvs)
=============================================================================
