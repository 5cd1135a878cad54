---------------------------- MODULE EventsProofs ----------------------------
(***************************************************************************)
(* The safety properties of Events, for any number of clients and notes    *)
(* and any buffer.                                                         *)
(***************************************************************************)
EXTENDS Events, SequenceTheorems, TLAPS

USE ClientsAssumption, BoundsAssumption

-----------------------------------------------------------------------------
(* A tail's next message is a note of its topic.                           *)
LEMMA NextNote ==
  ASSUME TypeOK, NEW g \in Tails, NEW t \in TopicsOf[g], ReadMessage(g, t)
  PROVE  /\ t \in Topics
         /\ <<t, read[t] + 1>> \in Note
         /\ read' = [read EXCEPT ![t] = read[t] + 1]
         /\ read[t] + 1 <= made[t]
<1>1. t \in Topics
  BY DEF Tails, TopicsOf, Topics
<1>2. read[t] \in Nat /\ made[t] \in Nat /\ made[t] <= MaxNotes[t] /\ read[t] < made[t]
  BY <1>1 DEF TypeOK, ReadMessage
<1>3. read[t] + 1 \in 1 .. MaxNotes[t]
  BY <1>1, <1>2
<1>4. <<t, read[t] + 1>> \in Note
  BY <1>1, <1>3 DEF Note
<1> QED
  BY <1>1, <1>2, <1>4 DEF ReadMessage

(* Every step keeps the types: Publish drops a client before its channel   *)
(* overflows.                                                              *)
LEMMA TypeStep == TypeOK /\ [Next]_vars => TypeOK'
<1> SUFFICES ASSUME TypeOK, [Next]_vars PROVE TypeOK'
  OBVIOUS
<1> USE DEF TypeOK
<1>1. ASSUME NEW t \in Topics, Provision(t) \/ Produce(t) PROVE TypeOK'
  <2>1. CASE Provision(t)
    BY <2>1 DEF Provision, clientVars
  <2>2. CASE Produce(t)
    <3>1. \A u \in Topics : made'[u] \in Nat /\ made'[u] <= MaxNotes[u] /\ read[u] <= made'[u]
      BY <2>2 DEF Produce
    <3>2. made' \in [Topics -> Nat]
      BY <2>2 DEF Produce
    <3> QED
      BY <2>2, <3>1, <3>2 DEF Produce, clientVars
  <2> QED
    BY <1>1, <2>1, <2>2
<1>2. ASSUME NEW g \in Tails, Join(g) PROVE TypeOK'
  BY <1>2 DEF Join, clientVars
<1>3. ASSUME NEW g \in Tails, NEW t \in TopicsOf[g], ReadMessage(g, t) PROVE TypeOK'
  <2>0. t \in Topics /\ read' = [read EXCEPT ![t] = read[t] + 1] /\ read[t] + 1 <= made[t]
    BY <1>3, NextNote
  <2>1. read' \in [Topics -> Nat] /\ \A u \in Topics : read'[u] <= made[u]
    BY <2>0
  <2>2. CASE UNCHANGED clientVars
    BY <1>3, <2>1, <2>2 DEF ReadMessage, clientVars
  <2>3. CASE Publish(<<t, read[t] + 1>>)
    <3> DEFINE note == <<t, read[t] + 1>>
    <3>1. note \in Note
      BY <1>3, NextNote
    <3> HIDE DEF note
    <3>2. ASSUME NEW s \in Seq(Note)
          PROVE  Append(s, note) \in Seq(Note) /\ Len(Append(s, note)) = Len(s) + 1
      BY <3>1
    <3>3. chan' \in [Clients -> Seq(Note)] /\ due' \in [Clients -> Seq(Note)]
      BY <2>3, <3>2 DEF Publish, note
    <3>4. \A c \in Clients : Len(chan'[c]) <= ClientBuffer
      BY <2>3, <3>2 DEF Publish, note
    <3>5. subs' \subseteq Clients /\ closes' \in [Clients -> Nat]
      BY <2>3 DEF Publish
    <3> QED
      BY <1>3, <2>1, <2>3, <3>3, <3>4, <3>5 DEF ReadMessage, Publish
  <2> QED
    BY <1>3, <2>2, <2>3 DEF ReadMessage
<1>4. ASSUME NEW c \in Clients, Connect(c) \/ Subscribe(c) \/ Heartbeat(c) \/ Dropped(c) \/ Gone(c)
      PROVE  TypeOK'
  <2>1. phase' \in [Clients -> Phases] /\ hand' \in [Clients -> Note \cup {NoNote}]
    BY <1>4 DEF Connect, Subscribe, Heartbeat, Dropped, Gone, Phases
  <2>2. closes' \in [Clients -> Nat] /\ subs' \subseteq Clients
    BY <1>4 DEF Connect, Subscribe, Heartbeat, Dropped, Gone
  <2>3. UNCHANGED <<chan, due, seen, kafkaVars>>
    BY <1>4 DEF Connect, Subscribe, Heartbeat, Dropped, Gone
  <2> QED
    BY <2>1, <2>2, <2>3 DEF kafkaVars
<1>5. ASSUME NEW c \in Clients, Take(c) PROVE TypeOK'
  <2>1. Head(chan[c]) \in Note /\ Tail(chan[c]) \in Seq(Note)
        /\ Len(Tail(chan[c])) = Len(chan[c]) - 1
    BY <1>5 DEF Take
  <2> QED
    BY <1>5, <2>1 DEF Take, Phases, kafkaVars
<1>6. ASSUME NEW c \in Clients, Wrote(c) PROVE TypeOK'
  <2>1. hand[c] # NoNote => Append(seen[c], hand[c]) \in Seq(Note)
    OBVIOUS
  <2> QED
    BY <1>6, <2>1 DEF Wrote, Phases, kafkaVars
<1>7. ASSUME NEW c \in Clients, Leave(c) PROVE TypeOK'
  BY <1>7 DEF Leave, Phases, kafkaVars
<1>8. CASE UNCHANGED vars
  BY <1>8 DEF vars
<1> QED
  BY <1>1, <1>2, <1>3, <1>4, <1>5, <1>6, <1>7, <1>8 DEF Next, Kafka, Client

(* Every variable keeps its type, no channel outgrows its buffer, no tail  *)
(* is past what was said.                                                  *)
THEOREM TypeCorrect == Spec => []TypeOK
<1>1. Init => TypeOK
  BY DEF Init, TypeOK, Topics, Phases
<1> QED
  BY <1>1, TypeStep, PTL DEF Spec

-----------------------------------------------------------------------------
(* A client not subscribed yet has a channel nobody closed.                *)
ClosedInv ==
  /\ ClosedOnce
  /\ \A c \in Clients : phase[c] = "connected" => closes[c] = 0

(* Every step keeps it: who is dropped is taken off Broker.subs as its     *)
(* channel is closed.                                                      *)
LEMMA ClosedInvStep == TypeOK /\ ClosedInv /\ [Next]_vars => ClosedInv'
<1> SUFFICES ASSUME TypeOK, ClosedInv, [Next]_vars PROVE ClosedInv'
  OBVIOUS
<1>0. closes \in [Clients -> Nat] /\ phase \in [Clients -> Phases] /\ subs \subseteq Clients
  BY DEF TypeOK
<1> USE <1>0 DEF ClosedOnce, ClosedInv
<1>1. CASE UNCHANGED clientVars
  BY <1>1 DEF clientVars
<1>2. ASSUME NEW note, Publish(note) PROVE ClosedInv'
  <2> DEFINE full == {c \in subs : Len(chan[c]) >= ClientBuffer}
  <2>1. phase' = phase /\ subs' = subs \ full
    BY <1>2 DEF Publish
  <2>2. \A c \in Clients : closes'[c] = IF c \in full THEN closes[c] + 1 ELSE closes[c]
    BY <1>2 DEF Publish
  <2> HIDE DEF full
  <2>3. full \subseteq subs
    BY DEF full
  <2>4. \A c \in Clients : closes[c] \in Nat
    OBVIOUS
  <2> QED
    BY <2>1, <2>2, <2>3, <2>4
<1>3. ASSUME NEW c \in Clients, Connect(c) \/ Subscribe(c) PROVE ClosedInv'
  <2>1. CASE Connect(c)
    <3>1. /\ c \notin subs /\ subs' = subs
          /\ closes'[c] = 0 /\ phase'[c] = "connected"
          /\ \A b \in Clients \ {c} : closes'[b] = closes[b] /\ phase'[b] = phase[b]
      BY <2>1 DEF Connect
    <3> QED
      BY <3>1
  <2>2. CASE Subscribe(c)
    <3>1. /\ closes[c] = 0 /\ subs' = subs \cup {c} /\ closes' = closes
          /\ phase'[c] = "listening"
          /\ \A b \in Clients \ {c} : phase'[b] = phase[b]
      BY <2>2 DEF Subscribe
    <3> QED
      BY <3>1
  <2> QED
    BY <1>3, <2>1, <2>2
<1>4. ASSUME NEW c \in Clients, Take(c) \/ Heartbeat(c) \/ Dropped(c) \/ Gone(c) \/ Wrote(c)
      PROVE  ClosedInv'
  BY <1>4 DEF Take, Heartbeat, Dropped, Gone, Wrote
<1>5. ASSUME NEW c \in Clients, Leave(c) PROVE ClosedInv'
  BY <1>5 DEF Leave
<1>6. CASE Kafka
  BY <1>1, <1>2, <1>6 DEF Kafka, Provision, Produce, Join, ReadMessage
<1>7. CASE UNCHANGED vars
  BY <1>1, <1>7 DEF vars, clientVars
<1> QED
  BY <1>3, <1>4, <1>5, <1>6, <1>7 DEF Next, Client

(* No channel is closed twice or sent to when it is closed, however the    *)
(* tails' Publish and the Handlers' unsubscribe interleave.                *)
THEOREM ChannelsCloseOnce == Spec => []ClosedOnce
<1>1. Init => ClosedInv
  <2> SUFFICES ASSUME Init, NEW c \in Clients
               PROVE  closes[c] = 0 /\ c \notin subs /\ phase[c] = "away"
    BY DEF ClosedInv, ClosedOnce
  <2> QED
    BY DEF Init
<1>2. ClosedInv => ClosedOnce
  BY DEF ClosedInv
<1> QED
  BY <1>1, <1>2, ClosedInvStep, TypeCorrect, PTL DEF Spec
-----------------------------------------------------------------------------
(* A sequence is its first element and the rest.                           *)
LEMMA HeadThenTail ==
  ASSUME NEW S, NEW s \in Seq(S), s # <<>>
  PROVE  s = <<Head(s)>> \o Tail(s)
<1> DEFINE h == <<Head(s)>>
           t == Tail(s)
<1>1. h \in Seq(S) /\ Len(h) = 1 /\ h[1] = s[1]
  BY HeadTailProperties
<1>2. t \in Seq(S) /\ Len(t) = Len(s) - 1 /\ Len(s) \in Nat
      /\ \A i \in 1 .. Len(t) : t[i] = s[i + 1]
  BY HeadTailProperties, LenProperties
<1> HIDE DEF h, t
<1>3. /\ h \o t \in Seq(S) /\ Len(h \o t) = Len(h) + Len(t)
      /\ \A i \in 1 .. Len(h) + Len(t) :
           (h \o t)[i] = IF i <= Len(h) THEN h[i] ELSE t[i - Len(h)]
  BY <1>1, <1>2, ConcatProperties
<1> DEFINE c == h \o t
<1> HIDE DEF c
<1>4. c \in Seq(S) /\ Len(c) = Len(s) /\ \A i \in 1 .. Len(s) : c[i] = s[i]
  BY <1>1, <1>2, <1>3 DEF c
<1>5. c = s
  BY <1>4, SeqEqual
<1> QED
  BY <1>5 DEF c, h, t

(* A heartbeat is no note.                                                 *)
LEMMA NoNoteIsNone == NoNote \notin Note
BY DEF Note, NoNote

(* Sequences of notes concatenate, in any grouping.                        *)
LEMMA Concat ==
  ASSUME NEW S, NEW a \in Seq(S), NEW b \in Seq(S), NEW d \in Seq(S)
  PROVE  /\ a \o b \in Seq(S)
         /\ (a \o b) \o d = a \o (b \o d)
BY ConcatProperties, ConcatAssociative

(* What a client was given is a sequence of notes.                         *)
LEMMA GivenTyped ==
  ASSUME TypeOK, NEW c \in Clients
  PROVE  /\ seen[c] \in Seq(Note) /\ InHand(c) \in Seq(Note) /\ chan[c] \in Seq(Note)
         /\ seen[c] \o InHand(c) \in Seq(Note)
         /\ Given(c) \in Seq(Note) /\ due[c] \in Seq(Note)
<1>1. seen[c] \in Seq(Note) /\ chan[c] \in Seq(Note) /\ due[c] \in Seq(Note)
  BY DEF TypeOK
<1>2. InHand(c) \in Seq(Note)
  BY DEF TypeOK, InHand
<1> DEFINE h == InHand(c)
           F == seen[c] \o h
<1> HIDE DEF h
<1>3. F \in Seq(Note)
  BY <1>1, <1>2, Concat DEF h
<1> HIDE DEF F
<1>4. F \o chan[c] \in Seq(Note)
  BY <1>1, <1>3, Concat
<1> QED
  BY <1>1, <1>2, <1>3, <1>4 DEF Given, F, h

(* A client not subscribed yet was given nothing.                          *)
StreamInv ==
  /\ NothingSkipped
  /\ \A c \in Clients : phase[c] \in {"away", "connected"} =>
       chan[c] = <<>> /\ due[c] = <<>> /\ seen[c] = <<>>

(* A step that gives a client nothing and is due it nothing leaves it be.  *)
LEMMA SameGiven ==
  ASSUME StreamInv, NEW c \in Clients,
         phase[c] \in {"listening", "writing"}, Given(c)' = Given(c), due'[c] = due[c],
         c \in subs' => c \in subs
  PROVE  /\ Len(Given(c)') <= Len(due'[c])
         /\ \A n \in 1 .. Len(Given(c)') : Given(c)'[n] = due'[c][n]
         /\ c \in subs' => Len(Given(c)') = Len(due'[c])
BY DEF StreamInv, NothingSkipped

(* Publishing a note gives it to a client that has room, and drops the     *)
(* others: what those were given stays a beginning of what they are due.   *)
LEMMA PublishStep ==
  ASSUME TypeOK, TypeOK', ClosedInv, StreamInv, NEW note \in Note, Publish(note)
  PROVE  StreamInv'
<1> DEFINE full == {c \in subs : Len(chan[c]) >= ClientBuffer}
<1>1. /\ phase' = phase /\ hand' = hand /\ seen' = seen /\ subs' = subs \ full
      /\ \A c \in Clients : chan'[c] = IF c \in subs \ full THEN Append(chan[c], note) ELSE chan[c]
      /\ \A c \in Clients : due'[c] = IF c \in subs THEN Append(due[c], note) ELSE due[c]
  BY DEF Publish
<1> HIDE DEF full
<1>2. ASSUME NEW c \in Clients, phase[c] \in {"away", "connected"}
      PROVE  chan'[c] = <<>> /\ due'[c] = <<>> /\ seen'[c] = <<>>
  <2>1. c \notin subs
    BY <1>2 DEF ClosedInv, ClosedOnce
  <2> QED
    BY <1>1, <1>2, <2>1 DEF StreamInv
<1>3. ASSUME NEW c \in Clients, phase[c] \in {"listening", "writing"}
      PROVE  /\ Len(Given(c)') <= Len(due'[c])
             /\ \A n \in 1 .. Len(Given(c)') : Given(c)'[n] = due'[c][n]
             /\ c \in subs' => Len(Given(c)') = Len(due'[c])
  <2> DEFINE G == Given(c)
             D == due[c]
  <2>1. /\ G \in Seq(Note) /\ D \in Seq(Note) /\ Len(G) \in Nat /\ Len(D) \in Nat
        /\ Len(G) <= Len(D) /\ \A n \in 1 .. Len(G) : G[n] = D[n]
        /\ c \in subs => Len(G) = Len(D)
    BY <1>3, GivenTyped, LenProperties DEF StreamInv, NothingSkipped
  <2>2. InHand(c)' = InHand(c)
    BY <1>1 DEF InHand
  <2>3. CASE c \notin subs
    <3>1. Given(c)' = G /\ due'[c] = D /\ c \notin subs'
      BY <1>1, <2>2, <2>3 DEF Given
    <3> QED
      BY <2>1, <3>1
  <2>4. CASE c \in subs /\ c \in full
    <3>1. Given(c)' = G /\ due'[c] = Append(D, note) /\ c \notin subs'
      BY <1>1, <2>2, <2>4 DEF Given
    <3>2. Len(due'[c]) = Len(D) + 1 /\ \A n \in 1 .. Len(D) : due'[c][n] = D[n]
      BY <2>1, <3>1, AppendProperties
    <3> QED
      BY <2>1, <3>1, <3>2
  <2>5. CASE c \in subs \ full
    <3> DEFINE F == seen[c] \o InHand(c)
    <3>1. F \in Seq(Note) /\ chan[c] \in Seq(Note) /\ <<note>> \in Seq(Note)
      BY GivenTyped
    <3>2. Given(c)' = F \o Append(chan[c], note) /\ due'[c] = Append(D, note)
      BY <1>1, <2>2, <2>5 DEF Given
    <3> HIDE DEF F
    <3> DEFINE q == chan[c]
               o == <<note>>
    <3>3. F \o Append(q, note) = F \o (q \o o)
      BY <3>1, AppendIsConcat
    <3> HIDE DEF q, o
    <3>a. F \in Seq(Note) /\ q \in Seq(Note) /\ o \in Seq(Note)
      BY <3>1 DEF q, o
    <3>4. F \o (q \o o) = (F \o q) \o o
      BY <3>a, Concat
    <3>5. Given(c)' = Append(G, note)
      BY <2>1, <3>2, <3>3, <3>4, AppendIsConcat DEF Given, F, q, o
    <3> HIDE DEF G, D
    <3>6. /\ Len(Append(G, note)) = Len(G) + 1 /\ Len(Append(D, note)) = Len(D) + 1
          /\ \A i \in 1 .. Len(G) : Append(G, note)[i] = G[i]
          /\ \A i \in 1 .. Len(D) : Append(D, note)[i] = D[i]
          /\ Append(G, note)[Len(G) + 1] = note /\ Append(D, note)[Len(D) + 1] = note
      BY <2>1, AppendProperties
    <3>7. Len(G) = Len(D)
      BY <2>1, <2>5
    <3> QED
      BY <2>1, <3>2, <3>5, <3>6, <3>7
  <2> QED
    BY <2>3, <2>4, <2>5
<1> QED
  BY <1>1, <1>2, <1>3 DEF StreamInv, NothingSkipped

(* Taking a note moves it from the channel to the hand.                     *)
LEMMA TakeKeepsGiven ==
  ASSUME TypeOK, NEW c \in Clients, Take(c)
  PROVE  Given(c)' = Given(c)
<1> DEFINE s == seen[c]
           q == chan[c]
           h == Head(q)
           t == Tail(q)
<1>1. s \in Seq(Note) /\ q \in Seq(Note) /\ q # <<>>
  BY DEF TypeOK, Take
<1>2. h \in Note /\ t \in Seq(Note) /\ q = <<h>> \o t
  BY <1>1, HeadThenTail, HeadTailProperties
<1>3. /\ seen'[c] = s /\ chan'[c] = t /\ hand'[c] = h /\ phase'[c] = "writing"
      /\ phase[c] = "listening"
  BY DEF TypeOK, Take
<1> HIDE DEF s, q, h, t
<1>4. InHand(c)' = <<h>> /\ InHand(c) = <<>>
  BY <1>2, <1>3, NoNoteIsNone DEF InHand
<1>5. Given(c)' = (s \o <<h>>) \o t
  BY <1>3, <1>4 DEF Given
<1>6. Given(c) = s \o q
  <2>1. Given(c) = (s \o <<>>) \o q
    BY <1>4 DEF Given, s, q
  <2>2. s \o <<>> = s
    BY <1>1, ConcatEmptySeq
  <2> QED
    BY <2>1, <2>2
<1> DEFINE o == <<h>>
<1>7. o \in Seq(Note)
  BY <1>2
<1> HIDE DEF o
<1>8. (s \o o) \o t = s \o (o \o t)
  BY <1>1, <1>2, <1>7, Concat
<1> QED
  BY <1>2, <1>5, <1>6, <1>8 DEF o

(* Writing a note moves it from the hand to what was written.              *)
LEMMA WroteKeepsGiven ==
  ASSUME TypeOK, NEW c \in Clients, Wrote(c)
  PROVE  Given(c)' = Given(c)
<1> DEFINE s == seen[c]
           q == chan[c]
           h == hand[c]
<1>1. s \in Seq(Note) /\ q \in Seq(Note) /\ h \in Note \cup {NoNote}
  BY DEF TypeOK
<1>2. /\ seen'[c] = IF h = NoNote THEN s ELSE Append(s, h)
      /\ chan'[c] = q /\ phase'[c] = "listening" /\ phase[c] = "writing"
  BY DEF TypeOK, Wrote
<1> HIDE DEF s, q, h
<1>3. InHand(c)' = <<>>
  BY <1>2 DEF InHand
<1>4. InHand(c) = IF h = NoNote THEN <<>> ELSE <<h>>
  BY <1>2 DEF InHand, h
<1>5. seen'[c] \in Seq(Note) /\ seen'[c] \o <<>> = seen'[c]
  BY <1>1, <1>2, ConcatEmptySeq
<1>6. Given(c)' = seen'[c] \o q
  BY <1>2, <1>3, <1>5 DEF Given
<1>7. seen'[c] = s \o InHand(c)
  <2>1. CASE h = NoNote
    <3>1. s \o <<>> = s
      BY <1>1, ConcatEmptySeq
    <3> QED
      BY <1>2, <1>4, <2>1, <3>1
  <2>2. CASE h # NoNote
    <3>1. Append(s, h) = s \o <<h>>
      BY <1>1, <2>2, AppendIsConcat
    <3> QED
      BY <1>2, <1>4, <2>2, <3>1
  <2> QED
    BY <2>1, <2>2
<1> QED
  BY <1>6, <1>7 DEF Given, s, q

(* A step of a client keeps its own stream.                                *)
LEMMA ClientStep ==
  ASSUME TypeOK, ClosedInv, StreamInv, NEW c \in Clients, Client(c)
  PROVE  StreamInv'
<1> DEFINE Kept(b) ==
      /\ phase'[b] \in {"listening", "writing"} =>
           /\ Len(Given(b)') <= Len(due'[b])
           /\ \A n \in 1 .. Len(Given(b)') : Given(b)'[n] = due'[b][n]
           /\ b \in subs' => Len(Given(b)') = Len(due'[b])
      /\ phase'[b] \in {"away", "connected"} =>
           chan'[b] = <<>> /\ due'[b] = <<>> /\ seen'[b] = <<>>
<1>0. SUFFICES \A b \in Clients : Kept(b)
  BY DEF StreamInv, NothingSkipped
<1>1. ASSUME NEW b \in Clients, b # c PROVE Kept(b)
  <2>1. /\ phase'[b] = phase[b] /\ chan'[b] = chan[b] /\ due'[b] = due[b]
        /\ seen'[b] = seen[b] /\ hand'[b] = hand[b] /\ (b \in subs' <=> b \in subs)
    BY <1>1 DEF TypeOK, Client, Connect, Subscribe, Take, Heartbeat, Dropped, Gone, Wrote, Leave
  <2>2. Given(b)' = Given(b)
    BY <2>1 DEF Given, InHand
  <2>3. phase[b] \in {"away", "connected"} => chan[b] = <<>> /\ due[b] = <<>> /\ seen[b] = <<>>
    BY DEF StreamInv
  <2>4. CASE phase[b] \in {"listening", "writing"}
    BY <2>1, <2>2, <2>4, SameGiven
  <2> QED
    BY <2>1, <2>3, <2>4
<1>2. ASSUME phase'[c] \in {"away", "connected"},
             chan'[c] = <<>>, due'[c] = <<>>, seen'[c] = <<>>
      PROVE  Kept(c)
  BY <1>2
<1>3. ASSUME phase[c] \in {"listening", "writing"}, phase'[c] \in {"listening", "writing"},
             Given(c)' = Given(c), due' = due, subs' = subs
      PROVE  Kept(c)
  <2>1. /\ Len(Given(c)') <= Len(due'[c])
        /\ \A n \in 1 .. Len(Given(c)') : Given(c)'[n] = due'[c][n]
        /\ c \in subs' => Len(Given(c)') = Len(due'[c])
    BY <1>3, SameGiven
  <2> QED
    BY <1>3, <2>1
<1>4. ASSUME phase'[c] = "leaving" PROVE Kept(c)
  BY <1>4
<1>5. ASSUME Connect(c) \/ Leave(c) PROVE Kept(c)
  <2>1. CASE Connect(c)
    <3>1. /\ phase[c] = "away" /\ phase'[c] = "connected"
          /\ chan' = chan /\ due' = due /\ seen' = seen
      BY <2>1 DEF Connect, TypeOK
    <3>2. chan[c] = <<>> /\ due[c] = <<>> /\ seen[c] = <<>>
      BY <3>1 DEF StreamInv
    <3> HIDE DEF Kept
    <3> QED
      BY <1>2, <3>1, <3>2
  <2>2. CASE Leave(c)
    <3>1. /\ phase'[c] = "away" /\ chan'[c] = <<>> /\ due'[c] = <<>> /\ seen'[c] = <<>>
      BY <2>2 DEF Leave, TypeOK
    <3> HIDE DEF Kept
    <3> QED
      BY <1>2, <3>1
  <2> QED
    BY <1>5, <2>1, <2>2
<1>6. ASSUME Subscribe(c) PROVE Kept(c)
  <2>1. /\ phase[c] = "connected" /\ phase'[c] = "listening"
        /\ chan' = chan /\ due' = due /\ seen' = seen
    BY <1>6 DEF Subscribe, TypeOK
  <2>2. chan'[c] = <<>> /\ due'[c] = <<>> /\ seen'[c] = <<>>
    BY <2>1 DEF StreamInv
  <2>3. InHand(c)' = <<>> /\ <<>> \o <<>> = <<>>
    BY <2>1 DEF InHand
  <2>4. Given(c)' = <<>>
    BY <2>2, <2>3 DEF Given
  <2> QED
    BY <2>1, <2>2, <2>4
<1>7. ASSUME Heartbeat(c) PROVE Kept(c)
  <2>1. /\ phase[c] = "listening" /\ phase'[c] = "writing" /\ hand'[c] = NoNote
        /\ chan' = chan /\ due' = due /\ seen' = seen /\ subs' = subs
    BY <1>7 DEF Heartbeat, TypeOK
  <2>2. Given(c)' = Given(c)
    BY <2>1 DEF Given, InHand
  <2> HIDE DEF Kept
  <2> QED
    BY <1>3, <2>1, <2>2
<1>8. ASSUME Take(c) PROVE Kept(c)
  <2>1. /\ phase[c] = "listening" /\ phase'[c] = "writing"
        /\ due' = due /\ subs' = subs
    BY <1>8 DEF Take, TypeOK
  <2>2. Given(c)' = Given(c)
    BY <1>8, TakeKeepsGiven
  <2> HIDE DEF Kept
  <2> QED
    BY <1>3, <2>1, <2>2
<1>9. ASSUME Wrote(c) PROVE Kept(c)
  <2>1. /\ phase[c] = "writing" /\ phase'[c] = "listening"
        /\ due' = due /\ subs' = subs
    BY <1>9 DEF Wrote, TypeOK
  <2>2. Given(c)' = Given(c)
    BY <1>9, WroteKeepsGiven
  <2> HIDE DEF Kept
  <2> QED
    BY <1>3, <2>1, <2>2
<1>10. ASSUME Dropped(c) \/ Gone(c) PROVE Kept(c)
  <2>1. phase'[c] = "leaving"
    BY <1>10 DEF Dropped, Gone, TypeOK
  <2> HIDE DEF Kept
  <2> QED
    BY <1>4, <2>1
<1> HIDE DEF Kept
<1> QED
  BY <1>1, <1>5, <1>6, <1>7, <1>8, <1>9, <1>10 DEF Client

(* Every step keeps the streams.                                           *)
LEMMA StreamInvStep ==
  TypeOK /\ TypeOK' /\ ClosedInv /\ StreamInv /\ [Next]_vars => StreamInv'
<1> SUFFICES ASSUME TypeOK, TypeOK', ClosedInv, StreamInv, [Next]_vars
             PROVE  StreamInv'
  OBVIOUS
<1>1. ASSUME UNCHANGED clientVars PROVE StreamInv'
  BY <1>1 DEF clientVars, StreamInv, NothingSkipped, Given, InHand
<1>2. ASSUME NEW g \in Tails, NEW t \in TopicsOf[g], ReadMessage(g, t) PROVE StreamInv'
  <2>1. <<t, read[t] + 1>> \in Note
    BY <1>2, NextNote
  <2> QED
    BY <1>1, <1>2, <2>1, PublishStep DEF ReadMessage
<1>3. CASE Kafka
  BY <1>1, <1>2, <1>3 DEF Kafka, Provision, Produce, Join
<1>4. CASE UNCHANGED vars
  BY <1>1, <1>4 DEF vars, clientVars
<1> QED
  BY <1>3, <1>4, ClientStep DEF Next

(* What a client is written is what was published since it subscribed, in  *)
(* order and without a gap, however slow it and its peers are.             *)
THEOREM NothingIsSkipped == Spec => []NothingSkipped
<1>1. Init => StreamInv
  BY DEF Init, StreamInv, NothingSkipped
<1>2. Init => ClosedInv
  <2> SUFFICES ASSUME Init, NEW c \in Clients
               PROVE  closes[c] = 0 /\ c \notin subs /\ phase[c] = "away"
    BY DEF ClosedInv, ClosedOnce
  <2> QED
    BY DEF Init
<1>3. StreamInv => NothingSkipped
  BY DEF StreamInv
<1> QED
  BY <1>1, <1>2, <1>3, StreamInvStep, ClosedInvStep, TypeCorrect, PTL DEF Spec

-----------------------------------------------------------------------------
(* Who was cut off is due one note more than it was, or will be, given:    *)
(* the one there was no room for.                                          *)
CutInv ==
  \A c \in Open \ subs : Len(Given(c)) + 1 = Len(due[c])

LEMMA CutInvStep ==
  ASSUME TypeOK, ClosedInv, StreamInv, CutInv, [Next]_vars
  PROVE  CutInv'
<1>1. ASSUME UNCHANGED clientVars PROVE CutInv'
  BY <1>1 DEF clientVars, CutInv, Open, Given, InHand
<1>2. ASSUME NEW note \in Note, Publish(note) PROVE CutInv'
  <2> SUFFICES ASSUME NEW c \in Clients, c \in Open', c \notin subs'
               PROVE  Len(Given(c)') + 1 = Len(due'[c])
    BY DEF CutInv, Open
  <2>1. /\ c \in Open /\ Given(c)' = Given(c)
        /\ due'[c] = IF c \in subs THEN Append(due[c], note) ELSE due[c]
    BY <1>2 DEF Publish, Open, Given, InHand
  <2>2. CASE c \in subs
    <3>1. Len(Given(c)) = Len(due[c])
      BY <2>1, <2>2 DEF StreamInv, NothingSkipped, Open
    <3>2. Len(Append(due[c], note)) = Len(due[c]) + 1
      BY GivenTyped, AppendProperties
    <3> QED
      BY <2>1, <2>2, <3>1, <3>2
  <2>3. CASE c \notin subs
    BY <2>1, <2>3 DEF CutInv
  <2> QED
    BY <2>2, <2>3
<1>3. ASSUME NEW b \in Clients, Client(b) PROVE CutInv'
  <2> SUFFICES ASSUME NEW c \in Clients, c \in Open', c \notin subs'
               PROVE  Len(Given(c)') + 1 = Len(due'[c])
    BY DEF CutInv, Open
  <2>1. c \in Open /\ c \notin subs /\ due'[c] = due[c]
    BY <1>3 DEF TypeOK, Open, Client, Connect, Subscribe, Take, Heartbeat, Dropped, Gone,
                Wrote, Leave
  <2>2. Given(c)' = Given(c)
    <3>1. CASE b = c /\ Take(c)
      BY <3>1, TakeKeepsGiven
    <3>2. CASE b = c /\ Wrote(c)
      BY <3>2, WroteKeepsGiven
    <3>3. CASE b = c /\ Heartbeat(c)
      BY <3>3 DEF TypeOK, Heartbeat, Given, InHand
    <3>4. CASE b = c /\ (Connect(c) \/ Subscribe(c) \/ Dropped(c) \/ Gone(c) \/ Leave(c))
      BY <2>1, <3>4 DEF TypeOK, Open, Connect, Subscribe, Dropped, Gone, Leave
    <3>5. CASE b # c
      BY <1>3, <3>5 DEF TypeOK, Given, InHand, Client, Connect, Subscribe, Take, Heartbeat,
                        Dropped, Gone, Wrote, Leave
    <3> QED
      BY <1>3, <3>1, <3>2, <3>3, <3>4, <3>5 DEF Client
  <2> QED
    BY <2>1, <2>2 DEF CutInv
<1>4. ASSUME NEW g \in Tails, NEW t \in TopicsOf[g], ReadMessage(g, t) PROVE CutInv'
  BY <1>1, <1>2, <1>4, NextNote DEF ReadMessage
<1>5. CASE Kafka
  BY <1>1, <1>4, <1>5 DEF Kafka, Provision, Produce, Join
<1>6. CASE UNCHANGED vars
  BY <1>1, <1>6 DEF vars, clientVars
<1> QED
  BY <1>3, <1>5, <1>6 DEF Next

(* How far a client's stream is behind: the note in hand, and its channel. *)
LEMMA BehindIs ==
  ASSUME TypeOK, StreamInv, CutInv, NEW c \in Open
  PROVE  /\ Len(InHand(c)) \in Nat /\ Len(InHand(c)) <= 1
         /\ Len(chan[c]) \in Nat /\ Len(seen[c]) \in Nat
         /\ c \in subs => Len(due[c]) = Len(seen[c]) + Len(InHand(c)) + Len(chan[c])
         /\ c \notin subs => Len(due[c]) = Len(seen[c]) + Len(InHand(c)) + Len(chan[c]) + 1
<1>1. c \in Clients
  BY DEF Open
<1>2. /\ seen[c] \in Seq(Note) /\ InHand(c) \in Seq(Note) /\ chan[c] \in Seq(Note)
      /\ seen[c] \o InHand(c) \in Seq(Note)
  BY <1>1, GivenTyped
<1>3. Len(InHand(c)) <= 1
  BY DEF InHand
<1>4. /\ Len(seen[c]) \in Nat /\ Len(InHand(c)) \in Nat /\ Len(chan[c]) \in Nat
      /\ Len(seen[c] \o InHand(c)) = Len(seen[c]) + Len(InHand(c))
  BY <1>2, LenProperties, ConcatProperties
<1>5. Len(Given(c)) = Len(seen[c] \o InHand(c)) + Len(chan[c])
  BY <1>2, ConcatProperties DEF Given
<1>6. c \in subs => Len(due[c]) = Len(Given(c))
  BY <1>1 DEF StreamInv, NothingSkipped, Open
<1>7. c \notin subs => Len(due[c]) = Len(Given(c)) + 1
  BY DEF CutInv
<1> QED
  BY ONLY <1>3, <1>4, <1>5, <1>6, <1>7

(* As Feed counts it.                                                      *)
LEMMA FeedsBehind ==
  ASSUME TypeOK, StreamInv, CutInv, NEW c \in Open
  PROVE  /\ c \in subs => Promise!Behind(c) = Len(InHand(c)) + Len(chan[c])
         /\ c \notin subs => Promise!Behind(c) = Len(InHand(c)) + Len(chan[c]) + 1
<1> DEFINE d == Len(due[c])
           s == Len(seen[c])
           h == Len(InHand(c))
           n == Len(chan[c])
           b == Promise!Behind(c)
<1>1. /\ h \in Nat /\ n \in Nat /\ s \in Nat
      /\ c \in subs => d = s + h + n
      /\ c \notin subs => d = s + h + n + 1
  BY BehindIs
<1>2. b = d - s
  BY DEF Promise!Behind, OfOpen, Open
<1> HIDE DEF d, s, h, n, b
<1>3. /\ c \in subs => b = h + n
      /\ c \notin subs => b = h + n + 1
  BY ONLY <1>1, <1>2
<1> QED
  BY <1>3 DEF b, h, n

(* The note in a client's hand is the next one it is due.                  *)
LEMMA HandIsNext ==
  ASSUME TypeOK, StreamInv, NEW c \in Clients, phase[c] = "writing", hand[c] # NoNote
  PROVE  due[c][Len(seen[c]) + 1] = hand[c]
<1> DEFINE s == seen[c]
           o == <<hand[c]>>
           q == chan[c]
<1>1. s \in Seq(Note) /\ o \in Seq(Note) /\ q \in Seq(Note)
  BY DEF TypeOK
<1>2. Given(c) = (s \o o) \o q
  BY DEF Given, InHand
<1>3. Len(o) = 1 /\ o[1] = hand[c]
  OBVIOUS
<1> HIDE DEF s, o, q
<1>4. Len(s) \in Nat /\ Len(q) \in Nat
  BY <1>1, LenProperties
<1>5. /\ s \o o \in Seq(Note) /\ Len(s \o o) = Len(s) + 1
      /\ (s \o o)[Len(s) + 1] = hand[c]
  <2>1. /\ s \o o \in Seq(Note) /\ Len(s \o o) = Len(s) + Len(o)
        /\ \A i \in 1 .. Len(s) + Len(o) :
             (s \o o)[i] = IF i <= Len(s) THEN s[i] ELSE o[i - Len(s)]
    BY <1>1, ConcatProperties
  <2>2. Len(s) + 1 \in 1 .. Len(s) + Len(o) /\ (Len(s) + 1) - Len(s) = 1
    BY <1>3, <1>4
  <2> QED
    BY <1>3, <1>4, <2>1, <2>2
<1> DEFINE f == s \o o
<1> HIDE DEF f
<1>6. /\ f \in Seq(Note) /\ Len(f) = Len(s) + 1 /\ f[Len(s) + 1] = hand[c]
      /\ Given(c) = f \o q
  BY <1>2, <1>5 DEF f
<1>7. /\ Len(f \o q) = Len(f) + Len(q)
      /\ \A i \in 1 .. Len(f) + Len(q) : (f \o q)[i] = IF i <= Len(f) THEN f[i] ELSE q[i - Len(f)]
  BY <1>1, <1>6, ConcatProperties
<1>8. Len(s) + 1 \in 1 .. Len(f) + Len(q) /\ Len(s) + 1 <= Len(f)
  BY <1>4, <1>6
<1>9. Given(c)[Len(s) + 1] = hand[c] /\ Len(s) + 1 \in 1 .. Len(Given(c))
  BY <1>6, <1>7, <1>8
<1>10. \A n \in 1 .. Len(Given(c)) : Given(c)[n] = due[c][n]
  BY DEF StreamInv, NothingSkipped
<1> QED
  BY <1>9, <1>10 DEF s

(* What of the streams Feed speaks of.                                     *)
Streams == <<Open, Open \cap subs, OfOpen(due), OfOpen(seen)>>

(* Connecting, a heartbeat and the way from a channel to the hand are not  *)
(* Feed's business, nor is what a Handler leaves behind.                   *)
LEMMA QuietSteps ==
  ASSUME TypeOK,
         \/ UNCHANGED clientVars
         \/ \E c \in Clients : \/ Connect(c) \/ Take(c) \/ Heartbeat(c) \/ Leave(c)
                               \/ Wrote(c) /\ hand[c] = NoNote
  PROVE  UNCHANGED Streams
<1>1. CASE UNCHANGED clientVars
  BY <1>1 DEF clientVars, Streams, Open, OfOpen
<1>2. ASSUME NEW c \in Clients,
             \/ Connect(c) \/ Take(c) \/ Heartbeat(c) \/ Leave(c)
             \/ Wrote(c) /\ hand[c] = NoNote
      PROVE  UNCHANGED Streams
  <2>1. Open' = Open
    BY <1>2 DEF TypeOK, Open, Connect, Take, Heartbeat, Leave, Wrote
  <2>2. (Open \cap subs)' = Open \cap subs
    BY <1>2, <2>1 DEF TypeOK, Open, Connect, Take, Heartbeat, Leave, Wrote
  <2>3. \A b \in Open : due'[b] = due[b] /\ seen'[b] = seen[b]
    BY <1>2 DEF TypeOK, Open, Connect, Take, Heartbeat, Leave, Wrote
  <2> QED
    BY <2>1, <2>2, <2>3 DEF Streams, OfOpen
<1> QED
  BY <1>1, <1>2

(* A tail's progress.                                                      *)
LEMMA TailSteps ==
  ASSUME TypeOK, TypeOK', StreamInv, CutInv, Kafka
  PROVE  \/ Promise!Next
         \/ UNCHANGED Promise!vars
<1>1. ASSUME NEW t \in Topics, Provision(t) \/ Produce(t) PROVE UNCHANGED Promise!vars
  <2>1. read' = read /\ UNCHANGED clientVars
    BY <1>1 DEF Provision, Produce
  <2> QED
    BY <2>1, QuietSteps DEF Streams, Promise!vars
<1>2. ASSUME NEW g \in Tails, Join(g) PROVE Promise!Pass
  <2>1. UNCHANGED Streams
    BY <1>2, QuietSteps DEF Join
  <2>2. read' \in [Topics -> Nat] /\ \A t \in Topics : read[t] <= read'[t]
    BY <1>2 DEF TypeOK, Join
  <2> QED
    BY <2>1, <2>2 DEF Streams, Promise!Pass
<1>3. ASSUME NEW g \in Tails, NEW t \in TopicsOf[g], ReadMessage(g, t)
      PROVE  Promise!Pass \/ \E u \in Topics, cut \in SUBSET Clients : Promise!Publish(u, cut)
  <2> DEFINE note == <<t, read[t] + 1>>
  <2>0. /\ t \in Topics /\ note \in Note /\ read' = [read EXCEPT ![t] = read[t] + 1]
        /\ read[t] \in Nat /\ read \in [Topics -> Nat]
    BY <1>3, NextNote DEF TypeOK
  <2>1. CASE UNCHANGED clientVars
    <3>1. UNCHANGED Streams
      BY <2>1, QuietSteps
    <3>2. read' \in [Topics -> Nat] /\ \A u \in Topics : read[u] <= read'[u]
      BY <2>0
    <3> QED
      BY <3>1, <3>2 DEF Streams, Promise!Pass
  <2>2. CASE Publish(note)
    <3> DEFINE full == {c \in subs : Len(chan[c]) >= ClientBuffer}
               cut  == Open \cap full
    <3>1. /\ subs' = subs \ full /\ phase' = phase /\ seen' = seen
          /\ due' = [c \in Clients |-> IF c \in subs THEN Append(due[c], note) ELSE due[c]]
      BY <2>2 DEF Publish
    <3>2. Open' = Open
      BY <3>1 DEF Open
    <3>3. (Open \cap subs)' = (Open \cap subs) \ cut
      BY <3>1, <3>2
    <3>4. OfOpen(seen)' = OfOpen(seen)
      BY <3>1, <3>2 DEF OfOpen
    <3>5. note = <<t, read'[t]>>
      BY <2>0
    <3>6. OfOpen(due)' = [c \in Clients |-> IF c \in Open \cap subs
                                              THEN Append(OfOpen(due)[c], <<t, read'[t]>>)
                                              ELSE OfOpen(due)[c]]
      BY <3>1, <3>2, <3>5 DEF OfOpen
    <3>7. ASSUME NEW c \in Open, c \in subs
          PROVE  /\ Len(chan[c]) >= ClientBuffer => Promise!Behind(c) >= ClientBuffer
                 /\ Promise!Behind(c) > ClientBuffer => Len(chan[c]) >= ClientBuffer
      <4> DEFINE h == Len(InHand(c))
                 n == Len(chan[c])
                 b == Promise!Behind(c)
      <4>1. h \in Nat /\ h <= 1 /\ n \in Nat
        BY <3>7, BehindIs
      <4>2. b = h + n
        BY <3>7, FeedsBehind
      <4>3. ClientBuffer \in Nat
        OBVIOUS
      <4> HIDE DEF h, n, b
      <4>4. (n >= ClientBuffer => b >= ClientBuffer) /\ (b > ClientBuffer => n >= ClientBuffer)
        BY ONLY <4>1, <4>2, <4>3
      <4> QED
        BY <4>4 DEF n, b
    <3>8. cut \subseteq {c \in Open \cap subs : Promise!Behind(c) >= ClientBuffer}
      BY <3>7
    <3>9. {c \in Open \cap subs : Promise!Behind(c) > ClientBuffer} \subseteq cut
      BY <3>7
    <3>10. cut \in SUBSET Clients
      BY DEF Open
    <3> HIDE DEF note, full, cut
    <3>11. Promise!Publish(t, cut)
      BY <2>0, <3>2, <3>3, <3>4, <3>6, <3>8, <3>9 DEF Promise!Publish
    <3> QED
      BY <2>0, <3>10, <3>11
  <2> QED
    BY <1>3, <2>1, <2>2 DEF ReadMessage
<1> QED
  BY <1>1, <1>2, <1>3 DEF Kafka, Promise!Next

(* A client's stream begins, brings a note and ends as Feed has it.        *)
LEMMA StreamSteps ==
  ASSUME TypeOK, StreamInv, CutInv, NEW c \in Clients, Client(c)
  PROVE  \/ Promise!Begin(c) \/ Promise!Tell(c) \/ Promise!End(c)
         \/ UNCHANGED Promise!vars
<1>0. read' = read
  BY DEF Client, Connect, Subscribe, Take, Heartbeat, Dropped, Gone, Wrote, Leave, kafkaVars
<1>1. CASE \/ Connect(c) \/ Take(c) \/ Heartbeat(c) \/ Leave(c)
           \/ Wrote(c) /\ hand[c] = NoNote
  <2>1. UNCHANGED Streams
    BY <1>1, QuietSteps
  <2> QED
    BY <1>0, <2>1 DEF Streams, Promise!vars
<1>2. CASE Subscribe(c)
  <2>1. /\ phase[c] = "connected" /\ phase' = [phase EXCEPT ![c] = "listening"]
        /\ subs' = subs \cup {c} /\ due' = due /\ seen' = seen
    BY <1>2 DEF Subscribe
  <2>2. c \notin Open /\ Open' = Open \cup {c}
    BY <2>1 DEF TypeOK, Open
  <2>3. (Open \cap subs)' = (Open \cap subs) \cup {c}
    <3> SUFFICES ASSUME NEW b PROVE b \in Open' \cap subs' <=> b \in (Open \cap subs) \cup {c}
      OBVIOUS
    <3> QED
      BY <2>1, <2>2
  <2>4. due[c] = <<>> /\ seen[c] = <<>>
    BY <2>1 DEF StreamInv
  <2>5. OfOpen(due)' = OfOpen(due) /\ OfOpen(seen)' = OfOpen(seen)
    BY <2>1, <2>2, <2>4 DEF OfOpen
  <2> QED
    BY <1>0, <2>2, <2>3, <2>5 DEF Promise!Begin
<1>3. CASE Wrote(c) /\ hand[c] # NoNote
  <2>1. /\ phase[c] = "writing" /\ phase' = [phase EXCEPT ![c] = "listening"]
        /\ subs' = subs /\ due' = due /\ seen' = [seen EXCEPT ![c] = Append(@, hand[c])]
    BY <1>3 DEF Wrote
  <2>2. c \in Open /\ Open' = Open
    BY <2>1 DEF TypeOK, Open
  <2>3. OfOpen(due)' = OfOpen(due)
    BY <2>1, <2>2 DEF OfOpen
  <2>4. OfOpen(due)[c] = due[c] /\ OfOpen(seen)[c] = seen[c]
    BY <2>2 DEF OfOpen
  <2>5. hand[c] = due[c][Len(seen[c]) + 1]
    BY <1>3, <2>1, HandIsNext
  <2>6. OfOpen(seen)' = [OfOpen(seen) EXCEPT ![c] = Append(@, OfOpen(due)[c][Len(@) + 1])]
    BY <2>1, <2>2, <2>4, <2>5 DEF TypeOK, OfOpen
  <2>7. Promise!Behind(c) > IF c \in Open \cap subs THEN 0 ELSE 1
    <3>1. Len(InHand(c)) = 1
      BY <1>3, <2>1 DEF InHand
    <3>2. Len(chan[c]) \in Nat
      BY <2>2, BehindIs
    <3> DEFINE h == Len(InHand(c))
               n == Len(chan[c])
               b == Promise!Behind(c)
    <3>3. /\ h = 1 /\ n \in Nat
          /\ c \in subs => b = h + n
          /\ c \notin subs => b = h + n + 1
      BY <2>2, <3>1, <3>2, FeedsBehind
    <3> HIDE DEF h, n, b
    <3>4. (c \in subs => b > 0) /\ (c \notin subs => b > 1)
      BY ONLY <3>3
    <3> QED
      BY <2>2, <3>4 DEF b
  <2> QED
    BY <1>0, <2>1, <2>2, <2>3, <2>6, <2>7 DEF Promise!Tell
<1>4. CASE Dropped(c) \/ Gone(c)
  <2>1. /\ c \in Open /\ phase' = [phase EXCEPT ![c] = "leaving"]
        /\ subs' = subs /\ due' = due /\ seen' = seen
    BY <1>4 DEF Dropped, Gone, Open
  <2>2. Open' = Open \ {c}
    BY <2>1 DEF TypeOK, Open
  <2>3. (Open \cap subs)' = (Open \cap subs) \ {c}
    BY <2>1, <2>2
  <2>4. /\ OfOpen(due)' = [OfOpen(due) EXCEPT ![c] = <<>>]
        /\ OfOpen(seen)' = [OfOpen(seen) EXCEPT ![c] = <<>>]
    BY <2>1, <2>2 DEF OfOpen
  <2> QED
    BY <1>0, <2>1, <2>2, <2>3, <2>4 DEF Promise!End
<1> QED
  BY <1>1, <1>2, <1>3, <1>4 DEF Client

LEMMA FeedStep ==
  ASSUME TypeOK, TypeOK', StreamInv, CutInv, [Next]_vars
  PROVE  [Promise!Next]_(Promise!vars)
<1>1. CASE Kafka
  BY <1>1, TailSteps
<1>2. ASSUME NEW c \in Clients, Client(c) PROVE [Promise!Next]_(Promise!vars)
  BY <1>2, StreamSteps DEF Promise!Next
<1>3. CASE UNCHANGED vars
  <2>1. read' = read /\ UNCHANGED clientVars
    BY <1>3 DEF vars, clientVars
  <2> QED
    BY <2>1, QuietSteps DEF Streams, Promise!vars
<1> QED
  BY <1>1, <1>2, <1>3 DEF Next

(* The Broker keeps Feed's promise: to every client that holds a stream    *)
(* open come all notes published while it does, each once and in order, or *)
(* all of them up to the one it was too far behind for.                    *)
THEOREM KeepsThePromise == Spec => DeliversAFeed
<1>1. Init => StreamInv /\ ClosedInv /\ CutInv
  <2> SUFFICES ASSUME Init PROVE StreamInv /\ ClosedInv /\ CutInv
    OBVIOUS
  <2>1. \A c \in Clients : /\ closes[c] = 0 /\ c \notin subs /\ phase[c] = "away"
                           /\ chan[c] = <<>> /\ due[c] = <<>> /\ seen[c] = <<>>
    BY DEF Init
  <2>2. Open = {}
    BY <2>1 DEF Open
  <2> QED
    BY <2>1, <2>2 DEF StreamInv, NothingSkipped, ClosedInv, ClosedOnce, CutInv
<1>2. Init => Promise!Init
  <2> SUFFICES ASSUME Init PROVE Promise!Init
    OBVIOUS
  <2>1. Open = {}
    BY DEF Init, Open
  <2>2. /\ OfOpen(due) = [c \in Clients |-> <<>>]
        /\ OfOpen(seen) = [c \in Clients |-> <<>>]
    BY <2>1 DEF OfOpen
  <2> QED
    BY <2>1, <2>2 DEF Init, Promise!Init
<1> QED
  BY <1>1, <1>2, FeedStep, StreamInvStep, ClosedInvStep, CutInvStep, TypeCorrect, PTL
     DEF Spec, DeliversAFeed, Promise!Spec
=============================================================================
