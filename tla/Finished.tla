------------------------------ MODULE Finished ------------------------------
(***************************************************************************)
(* When a title is finished: store.Finished and its twin in SQL            *)
(* (internal/store/finished.go).  Whole seconds, integer division.  Pure:  *)
(* no state.                                                               *)
(***************************************************************************)
EXTENDS Integers

CONSTANT MaxInt      \* the largest INTEGER of the database (2^31 - 1)

ASSUME MaxIntAssumption == MaxInt \in Nat

TailPercent == 5     \* finishedTailPercent
TailMinSec  == 120   \* finishedTailMinSec

Least(a, b)    == IF a <= b THEN a ELSE b
Greatest(a, b) == IF a >= b THEN a ELSE b

(* The end of a title that finishes it: its last 5 %, at least 2 minutes,  *)
(* at most its second half.                                                *)
FinishedTail(dur) ==
  LET tail == (dur * TailPercent) \div 100
  IN  Least(Greatest(tail, TailMinSec), dur \div 2)

Finished(pos, dur) ==
  /\ dur > 0
  /\ pos >= dur - FinishedTail(dur)

(* finishedSQL on a row: the same rule, in the database's INTEGER, whose   *)
(* product is an error past MaxInt.                                        *)
SQLOverflows(dur) == dur > 0 /\ dur * TailPercent > MaxInt

FinishedSQL(pos, dur) ==
  IF SQLOverflows(dur)
  THEN "error"
  ELSE IF /\ dur > 0
          /\ pos >= dur - Least(Greatest((dur * TailPercent) \div 100, TailMinSec),
                                dur \div 2)
       THEN "yes"
       ELSE "no"

(* Fault: a save that writes a position as it was sent.                    *)
PosAsSent(pos) == pos

(* What a save writes of a position and a length over a row's.             *)
ClampedPos(pos)          == Greatest(pos, 0)
KeptDur(bodyDur, rowDur) == Greatest(bodyDur, rowDur)
=============================================================================
