----------------------------- MODULE MCPlayback -----------------------------
EXTENDS Playback, TLC

CONSTANTS e15, e16, tv, phone

(* A double-length finale: one file, two episodes.                         *)
Finale      == {e15, e16}
FinaleFiles == [i \in Finale |-> Finale]

(* Nothing tells the devices apart, nor the episodes of one file.         *)
Both      == {tv, phone}
Symmetric == Permutations(Both) \cup Permutations(Finale)

(* Of a title of 100 s the second half finishes it, of 400 s the last 120. *)
At(pos, dur, live, age) ==
  [pos |-> pos, dur |-> dur, dismiss |-> FALSE, live |-> live, age |-> age]

Sent == [progress |-> {At(-1, 400, TRUE, 0),   \* the start, below zero
                       At(60, 100, TRUE, 0),   \* finishes, of a shorter length
                       At(400, 0, TRUE, 0),    \* the length not known yet
                       At(300, 400, FALSE, 1), \* finishes, kept by a phone
                       At(100, 400, FALSE, 2), \* of an age no Duration holds
                       [At(400, 400, TRUE, 0) EXCEPT !.dismiss = TRUE]},
         mark     |-> {At(0, 0, FALSE, 1)},
         unmark   |-> {At(0, 0, TRUE, 0)}]
=============================================================================
