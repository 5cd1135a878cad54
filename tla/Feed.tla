-------------------------------- MODULE Feed --------------------------------
(***************************************************************************)
(* What GET /api/v1/events promises, whatever channels, locks and tails it *)
(* is made of: a stream brings every note that is published while it is    *)
(* open, each once, in order and with nothing left out, until it ends.     *)
(* Nobody waits for a client: a stream that is further behind than its     *)
(* patience is cut off there, and brings what it owed before that note.    *)
(***************************************************************************)
EXTENDS Naturals, Sequences

CONSTANTS Clients, Topics, Patience

VARIABLES
  read,  \* topic -> how far it was read
  open,  \* the clients with a stream
  on,    \* those of them that are brought what is published
  due,   \* client -> the notes published since its stream began
  seen   \* client -> the notes it was brought

vars == <<read, open, on, due, seen>>

Init ==
  /\ read = [t \in Topics |-> 0]
  /\ open = {}
  /\ on = {}
  /\ due = [c \in Clients |-> <<>>]
  /\ seen = [c \in Clients |-> <<>>]

Begin(c) ==
  /\ c \notin open
  /\ open' = open \cup {c}
  /\ on' = on \cup {c}
  /\ UNCHANGED <<read, due, seen>>

Behind(c) == Len(due[c]) - Len(seen[c])

(* A topic's next message is published, at once to every stream.  Who is   *)
(* patience behind may be cut off by it, who is further behind is.         *)
Publish(t, cut) ==
  /\ cut \subseteq {c \in on : Behind(c) >= Patience}
  /\ {c \in on : Behind(c) > Patience} \subseteq cut
  /\ read' = [read EXCEPT ![t] = @ + 1]
  /\ on' = on \ cut
  /\ due' = [c \in Clients |-> IF c \in on THEN Append(due[c], <<t, read'[t]>>) ELSE due[c]]
  /\ UNCHANGED <<open, seen>>

(* Messages that are none for a browser, or from before there was a tail.  *)
Pass ==
  /\ read' \in [Topics -> Nat]
  /\ \A t \in Topics : read[t] <= read'[t]
  /\ UNCHANGED <<open, on, due, seen>>

(* The next note due - but the one it was cut off by.                      *)
Tell(c) ==
  /\ c \in open
  /\ Behind(c) > IF c \in on THEN 0 ELSE 1
  /\ seen' = [seen EXCEPT ![c] = Append(@, due[c][Len(@) + 1])]
  /\ UNCHANGED <<read, open, on, due>>

End(c) ==
  /\ c \in open
  /\ open' = open \ {c}
  /\ on' = on \ {c}
  /\ due' = [due EXCEPT ![c] = <<>>]
  /\ seen' = [seen EXCEPT ![c] = <<>>]
  /\ UNCHANGED read

Next ==
  \/ \E t \in Topics, cut \in SUBSET Clients : Publish(t, cut)
  \/ Pass
  \/ \E c \in Clients : Begin(c) \/ Tell(c) \/ End(c)

Spec == Init /\ [][Next]_vars
=============================================================================
