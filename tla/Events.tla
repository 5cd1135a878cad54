------------------------------- MODULE Events -------------------------------
(***************************************************************************)
(* Live refresh (internal/eventsse): two tails of the pipeline's topics    *)
(* publish notes into the Broker, which fans them out to the clients of    *)
(* GET /api/v1/events through a bounded channel each.  A client may read   *)
(* slowly, not at all, or go; the extras' topic may not be there yet.      *)
(***************************************************************************)
EXTENDS Naturals, Sequences

CONSTANTS
  Clients,
  Readers,       \* those of them that read what is written to them
  ClientBuffer,  \* clientBuffer: a channel holds that many notes
  MaxNotes       \* bound: topic -> how many messages it gets

(* The item topics are one topic here: their tail treats them alike.       *)
Topics   == {"item", "extra"}
Tails    == {"items", "extras"}
(* Fault: one consumer group for all of them.                              *)
TopicsOfOneGroup == [items |-> {"item", "extra"}, extras |-> {}]

(* Which topics each tail's consumer group reads.                          *)
TopicsOf == [items |-> {"item"}, extras |-> {"extra"}]

ASSUME ClientsAssumption == Readers \subseteq Clients
ASSUME BoundsAssumption  == ClientBuffer \in Nat \ {0} /\ MaxNotes \in [Topics -> Nat]

Note   == UNION {{t} \X (1 .. MaxNotes[t]) : t \in Topics}
NoNote == <<"heartbeat", 0>>

Phases == {"away", "connected", "listening", "writing", "leaving"}

VARIABLES
  there,   \* the topics the cluster has
  made,    \* topic -> how many messages it has
  tailing, \* the tails whose consumer group has its partitions
  read,    \* topic -> how many of its messages its tail is past
  subs,    \* Broker.subs
  chan,    \* client -> its channel's notes
  closes,  \* client -> how many times its channel was closed
  phase,   \* client -> where its Handler is
  hand,    \* client -> the note its Handler is writing
  \* History variables: the properties read them, no guard does.
  due,     \* client -> the notes published while it was subscribed
  seen     \* client -> the notes written to it

vars == <<there, made, tailing, read, subs, chan, closes, phase, hand, due, seen>>
kafkaVars  == <<there, made, tailing, read>>
clientVars == <<subs, chan, closes, phase, hand, due, seen>>

Init ==
  /\ there = {"item"}
  /\ made = [t \in Topics |-> 0]
  /\ tailing = {}
  /\ read = [t \in Topics |-> 0]
  /\ subs = {}
  /\ chan = [c \in Clients |-> <<>>]
  /\ closes = [c \in Clients |-> 0]
  /\ phase = [c \in Clients |-> "away"]
  /\ hand = [c \in Clients |-> NoNote]
  /\ due = [c \in Clients |-> <<>>]
  /\ seen = [c \in Clients |-> <<>>]

-----------------------------------------------------------------------------
(* The cluster is provisioned for extras; the pipeline says something.     *)
Provision(t) ==
  /\ there' = there \cup {t}
  /\ UNCHANGED <<made, tailing, read, clientVars>>

Produce(t) ==
  /\ t \in there
  /\ made[t] < MaxNotes[t]
  /\ made' = [made EXCEPT ![t] = @ + 1]
  /\ UNCHANGED <<there, tailing, read, clientVars>>

(* A tail's group gets its partitions, at the latest offset: none of them  *)
(* while one of its topics is unknown (the extras' tail waits for its own).*)
Join(g) ==
  /\ g \notin tailing
  /\ TopicsOf[g] \subseteq there
  /\ tailing' = tailing \cup {g}
  /\ read' = [t \in Topics |-> IF t \in TopicsOf[g] THEN made[t] ELSE read[t]]
  /\ UNCHANGED <<there, made, clientVars>>

(* Faults: a buffer taken for one note longer; a full channel's client     *)
(* loses the note and stays; its channel is left open.                     *)
PublishOverfull(note) ==
  LET full == {c \in subs : Len(chan[c]) > ClientBuffer}
  IN
  /\ chan' = [c \in Clients |-> IF c \in subs \ full THEN Append(chan[c], note) ELSE chan[c]]
  /\ subs' = subs \ full
  /\ closes' = [c \in Clients |-> IF c \in full THEN closes[c] + 1 ELSE closes[c]]
  /\ due' = [c \in Clients |-> IF c \in subs THEN Append(due[c], note) ELSE due[c]]
  /\ UNCHANGED <<phase, hand, seen>>

PublishSkippingTheFull(note) ==
  LET full == {c \in subs : Len(chan[c]) >= ClientBuffer}
  IN
  /\ chan' = [c \in Clients |-> IF c \in subs \ full THEN Append(chan[c], note) ELSE chan[c]]
  /\ due' = [c \in Clients |-> IF c \in subs THEN Append(due[c], note) ELSE due[c]]
  /\ UNCHANGED <<subs, closes, phase, hand, seen>>

PublishLeavingOpen(note) ==
  LET full == {c \in subs : Len(chan[c]) >= ClientBuffer}
  IN
  /\ chan' = [c \in Clients |-> IF c \in subs \ full THEN Append(chan[c], note) ELSE chan[c]]
  /\ subs' = subs \ full
  /\ due' = [c \in Clients |-> IF c \in subs THEN Append(due[c], note) ELSE due[c]]
  /\ UNCHANGED <<closes, phase, hand, seen>>

(* Broker.Publish, under its mutex: a client whose channel is full is      *)
(* dropped, never waited for.                                              *)
Publish(note) ==
  LET full == {c \in subs : Len(chan[c]) >= ClientBuffer}
  IN
  /\ chan' = [c \in Clients |-> IF c \in subs \ full THEN Append(chan[c], note) ELSE chan[c]]
  /\ subs' = subs \ full
  /\ closes' = [c \in Clients |-> IF c \in full THEN closes[c] + 1 ELSE closes[c]]
  /\ due' = [c \in Clients |-> IF c \in subs THEN Append(due[c], note) ELSE due[c]]
  /\ UNCHANGED <<phase, hand, seen>>

(* tail reads its next message, and publishes it when it is an envelope.   *)
ReadMessage(g, t) ==
  /\ g \in tailing
  /\ t \in TopicsOf[g]
  /\ read[t] < made[t]
  /\ read' = [read EXCEPT ![t] = @ + 1]
  /\ \/ Publish(<<t, read[t] + 1>>)
     \/ UNCHANGED clientVars
  /\ UNCHANGED <<there, made, tailing>>

-----------------------------------------------------------------------------
(* Handler: a client is told it is connected, then subscribed, to a        *)
(* channel of its own.                                                     *)
Connect(c) ==
  /\ phase[c] = "away"
  /\ phase' = [phase EXCEPT ![c] = "connected"]
  /\ closes' = [closes EXCEPT ![c] = 0]
  /\ hand' = [hand EXCEPT ![c] = NoNote]
  /\ UNCHANGED <<subs, chan, due, seen, kafkaVars>>

Subscribe(c) ==
  /\ phase[c] = "connected"
  /\ phase' = [phase EXCEPT ![c] = "listening"]
  /\ subs' = subs \cup {c}
  /\ UNCHANGED <<chan, closes, hand, due, seen, kafkaVars>>

(* The select: a note is there to write, ...                               *)
Take(c) ==
  /\ phase[c] = "listening"
  /\ chan[c] # <<>>
  /\ phase' = [phase EXCEPT ![c] = "writing"]
  /\ hand' = [hand EXCEPT ![c] = Head(chan[c])]
  /\ chan' = [chan EXCEPT ![c] = Tail(@)]
  /\ UNCHANGED <<subs, closes, due, seen, kafkaVars>>

(* ... a heartbeat is due, ...                                             *)
Heartbeat(c) ==
  /\ phase[c] = "listening"
  /\ phase' = [phase EXCEPT ![c] = "writing"]
  /\ hand' = [hand EXCEPT ![c] = NoNote]
  /\ UNCHANGED <<subs, chan, closes, due, seen, kafkaVars>>

(* ... the channel is closed and read to its end, or the client is gone.   *)
Dropped(c) ==
  /\ phase[c] = "listening"
  /\ closes[c] > 0
  /\ chan[c] = <<>>
  /\ phase' = [phase EXCEPT ![c] = "leaving"]
  /\ UNCHANGED <<subs, chan, closes, hand, due, seen, kafkaVars>>

Gone(c) ==
  /\ phase[c] \in {"listening", "writing"}
  /\ phase' = [phase EXCEPT ![c] = "leaving"]
  /\ UNCHANGED <<subs, chan, closes, hand, due, seen, kafkaVars>>

(* What is written is read: the write ends.  No write has a timeout.       *)
Wrote(c) ==
  /\ phase[c] = "writing"
  /\ phase' = [phase EXCEPT ![c] = "listening"]
  /\ seen' = [seen EXCEPT ![c] = IF hand[c] = NoNote THEN @ ELSE Append(@, hand[c])]
  /\ UNCHANGED <<subs, chan, closes, hand, due, kafkaVars>>

(* Fault: unsubscribe does not ask whether Publish closed the channel.     *)
LeaveClosing(c) ==
  /\ phase[c] = "leaving"
  /\ subs' = subs \ {c}
  /\ closes' = [closes EXCEPT ![c] = @ + 1]
  /\ phase' = [phase EXCEPT ![c] = "away"]
  /\ chan' = [chan EXCEPT ![c] = <<>>]
  /\ due' = [due EXCEPT ![c] = <<>>]
  /\ seen' = [seen EXCEPT ![c] = <<>>]
  /\ UNCHANGED <<hand, kafkaVars>>

(* The deferred unsubscribe closes the channel, unless Publish has.        *)
Leave(c) ==
  /\ phase[c] = "leaving"
  /\ subs' = subs \ {c}
  /\ closes' = [closes EXCEPT ![c] = IF c \in subs THEN @ + 1 ELSE @]
  /\ phase' = [phase EXCEPT ![c] = "away"]
  /\ chan' = [chan EXCEPT ![c] = <<>>]
  /\ due' = [due EXCEPT ![c] = <<>>]
  /\ seen' = [seen EXCEPT ![c] = <<>>]
  /\ UNCHANGED <<hand, kafkaVars>>

-----------------------------------------------------------------------------
Client(c) ==
  \/ Connect(c) \/ Subscribe(c)
  \/ Take(c) \/ Heartbeat(c) \/ Dropped(c) \/ Gone(c)
  \/ Wrote(c) \/ Leave(c)

Kafka ==
  \/ \E t \in Topics : Provision(t) \/ Produce(t)
  \/ \E g \in Tails : Join(g) \/ \E t \in TopicsOf[g] : ReadMessage(g, t)

Next == Kafka \/ \E c \in Clients : Client(c)

(* The tails go on: they read again after an error.  So do the Handlers,   *)
(* but for a write, which ends for a client that reads; a select with a    *)
(* ready channel and a heartbeat due takes the channel in the end.  The pipeline  *)
(* and the clients' coming and going are not fair.                         *)
Fairness ==
  /\ \A g \in Tails : WF_vars(Join(g)) /\ \A t \in Topics : WF_vars(ReadMessage(g, t))
  /\ \A c \in Clients : /\ WF_vars(Subscribe(c))
                     /\ SF_vars(Take(c) \/ Dropped(c))
                     /\ WF_vars(Leave(c))
  /\ \A c \in Readers : WF_vars(Wrote(c))

Spec == Init /\ [][Next]_vars /\ Fairness

-----------------------------------------------------------------------------
(* Every variable has its type, and no channel holds more than its buffer. *)
TypeOK ==
  /\ there \subseteq Topics
  /\ made \in [Topics -> Nat] /\ \A t \in Topics : made[t] <= MaxNotes[t]
  /\ tailing \subseteq Tails
  /\ read \in [Topics -> Nat] /\ \A t \in Topics : read[t] <= made[t]
  /\ subs \subseteq Clients
  /\ chan \in [Clients -> Seq(Note)]
  /\ \A c \in Clients : Len(chan[c]) <= ClientBuffer
  /\ closes \in [Clients -> Nat]
  /\ phase \in [Clients -> Phases]
  /\ hand \in [Clients -> Note \cup {NoNote}]
  /\ due \in [Clients -> Seq(Note)]
  /\ seen \in [Clients -> Seq(Note)]

(* Neither Publish nor unsubscribe closes a channel twice, nor sends on a  *)
(* closed one (both panic), and a Handler that ended leaves none behind    *)
(* (Broker.subs).                                                          *)
ClosedOnce ==
  \A c \in Clients :
    /\ closes[c] <= 1
    /\ c \in subs => closes[c] = 0 /\ phase[c] \in {"listening", "writing", "leaving"}
    /\ phase[c] \in {"listening", "writing"} /\ c \notin subs => closes[c] = 1

(* What a client was written, is being written and has in its channel is   *)
(* what was published since it subscribed: in order, and without a gap up  *)
(* to the note it was dropped for (Publish drops the client, not a note).  *)
InHand(c) == IF phase[c] = "writing" /\ hand[c] # NoNote THEN <<hand[c]>> ELSE <<>>
Given(c)  == seen[c] \o InHand(c) \o chan[c]

NothingSkipped ==
  \A c \in Clients :
    phase[c] \in {"listening", "writing"} =>
      /\ Len(Given(c)) <= Len(due[c])
      /\ \A n \in 1 .. Len(Given(c)) : Given(c)[n] = due[c][n]
      /\ c \in subs => Len(Given(c)) = Len(due[c])

(* A stream is open while its Handler is in its loop.                      *)
Open == {c \in Clients : phase[c] \in {"listening", "writing"}}

OfOpen(notes) == [c \in Clients |-> IF c \in Open THEN notes[c] ELSE <<>>]

(* The promise of Feed, kept by tails, a bounded channel per client and a  *)
(* mutex: a stream has no gap and no note twice until it ends, and nobody  *)
(* is cut off who is less than clientBuffer behind (Publish, subscribe,    *)
(* Handler, unsubscribe).                                                  *)
Promise == INSTANCE Feed WITH
  open <- Open, on <- Open \cap subs, due <- OfOpen(due), seen <- OfOpen(seen),
  Patience <- ClientBuffer

DeliversAFeed == Promise!Spec

(* Every message of the item topics gets read, whether a client reads its  *)
(* notes or not, and whether the extras' topic is there or not (Publish,   *)
(* Run).                                                                   *)
ItemsAreRead ==
  \A n \in 1 .. MaxNotes["item"] : (made["item"] >= n) ~> (read["item"] >= n)

(* A client that reads is written every note published since it            *)
(* subscribed, or its stream ends (Publish's drop, Handler).               *)
ReadersAreTold ==
  \A c \in Readers : \A n \in 1 .. MaxNotes["item"] + MaxNotes["extra"] :
    (Len(due[c]) >= n) ~> (Len(seen[c]) >= n \/ phase[c] \in {"leaving", "away"})
=============================================================================
