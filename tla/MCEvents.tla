------------------------------ MODULE MCEvents ------------------------------
EXTENDS Events, TLC

CONSTANTS reader, stalled

(* A browser that reads its notes and one that stopped reading.            *)
Browsers   == {reader, stalled}
OneReading == {reader}
FewNotes   == [item |-> 2, extra |-> 1]
=============================================================================
