--------------------------- MODULE FeedbackProofs ---------------------------
(***************************************************************************)
(* The properties of Feedback, for any number of clients, users,           *)
(* fingerprints and reports, any limit and any windows.                    *)
(***************************************************************************)
EXTENDS Feedback, FiniteSetTheorems, TLAPS

USE ClientsAssumption, NoneAssumption, LimitsAssumption

-----------------------------------------------------------------------------
(* A report moved on is a report.                                          *)
LEMMA ReqTyped ==
  ASSUME TypeOK, NEW c \in Clients, NEW r \in Report \cup {Idle}, req' = [req EXCEPT ![c] = r]
  PROVE  req' \in [Clients -> Report \cup {Idle}]
BY DEF TypeOK

(* Every step keeps the types.                                             *)
LEMMA TypeStep == TypeOK /\ [Next]_vars => TypeOK'
<1> SUFFICES ASSUME TypeOK, [Next]_vars PROVE TypeOK'
  OBVIOUS
<1>1. CASE Tick
  BY <1>1 DEF Tick, TypeOK
<1>2. CASE Restart
  BY <1>2 DEF Restart, TypeOK
<1>3. ASSUME NEW w \in tickets, DeleteTicket(w) PROVE TypeOK'
  BY <1>3 DEF DeleteTicket, TypeOK
<1>4. ASSUME NEW c \in Clients, NEW u \in Users,
             NEW f \in Fingerprints \cup {NoFingerprint}, Arrive(c, u, f)
      PROVE  TypeOK'
  <2> DEFINE this == [at |-> clock, nr |-> sent + 1]
             new  == [phase |-> IF f = NoFingerprint THEN "create" ELSE "lookup",
                      fp |-> f, found |-> NoRow, wp |-> 0]
  <2>1. this \in Attempt /\ Kept(u) \in SUBSET Attempt /\ new \in Report
    BY DEF TypeOK, Attempt, Kept, Report
  <2>2. req' = req \/ req' = [req EXCEPT ![c] = new]
    BY <1>4 DEF Arrive
  <2>3. req' \in [Clients -> Report \cup {Idle}]
    BY <2>1, <2>2, ReqTyped DEF TypeOK
  <2>4. seen' \in [Users -> SUBSET Attempt]
    BY <1>4, <2>1 DEF Arrive, TypeOK
  <2>5. allowed' \in [Users -> SUBSET Attempt]
    BY <1>4, <2>1 DEF Arrive, TypeOK
  <2>6. sent' \in 0 .. MaxReports /\ overtaken' \subseteq Clients
    BY <1>4 DEF Arrive, TypeOK
  <2> QED
    BY <1>4, <2>3, <2>4, <2>5, <2>6 DEF Arrive, TypeOK
<1>5. ASSUME NEW c \in Clients, Lookup(c) PROVE TypeOK'
  <2> DEFINE row == ledger[req[c].fp]
             new == [req[c] EXCEPT !.found = row, !.phase = IF Recent(row) THEN "bump" ELSE "create"]
  <2>1. req[c] \in [phase : {"lookup"}, fp : Fingerprints, found : {NoRow}, wp : {0}]
    BY <1>5 DEF Lookup, TypeOK, Report, Idle
  <2>2. row \in Row \cup {NoRow} /\ (Recent(row) => row \in Row)
    BY <2>1 DEF TypeOK, Recent
  <2>3. new \in Report
    BY <2>1, <2>2 DEF Report
  <2>4. req' = [req EXCEPT ![c] = new]
    BY <1>5, <2>1 DEF Lookup, TypeOK
  <2> QED
    BY <1>5, <2>3, <2>4, ReqTyped DEF Lookup, TypeOK
<1>6. ASSUME NEW c \in Clients, Bump(c) PROVE TypeOK'
  <2> DEFINE f == req[c].fp
             new == [req[c] EXCEPT !.phase = "comment"]
  <2>1. req[c] \in [phase : {"bump", "comment"}, fp : Fingerprints, found : Row, wp : {0}]
    BY <1>6 DEF Bump, TypeOK, Report, Idle
  <2>2. new \in Report
    BY <2>1 DEF Report
  <2>3. req' = [req EXCEPT ![c] = new]
    BY <1>6 DEF Bump, TypeOK
  <2>4. ledger' \in [Fingerprints -> Row \cup {NoRow}]
    <3>1. CASE ledger[f] = NoRow
      BY <1>6, <3>1 DEF Bump, TypeOK
    <3>2. CASE ledger[f] # NoRow
      <4> DEFINE row == [wp |-> ledger[f].wp, count |-> ledger[f].count + 1, last |-> clock]
      <4>1. ledger[f] \in Row /\ clock \in Nat
        BY <2>1, <3>2 DEF TypeOK
      <4>2. row \in Row
        BY <4>1 DEF Row
      <4>3. ledger' = [ledger EXCEPT ![f] = row]
        BY <1>6, <2>1, <3>2 DEF Bump, TypeOK
      <4> HIDE DEF row
      <4> QED
        BY <4>2, <4>3 DEF TypeOK
    <3> QED
      BY <3>1, <3>2
  <2>5. overtaken' \subseteq Clients
    BY <1>6 DEF Bump, Overtake, TypeOK
  <2> QED
    BY <1>6, <2>2, <2>3, <2>4, <2>5, ReqTyped DEF Bump, TypeOK
<1>7. ASSUME NEW c \in Clients, Comment(c) PROVE TypeOK'
  <2> DEFINE w == req[c].found.wp
             new == [req[c] EXCEPT !.phase = "create"]
  <2>1. req[c] \in [phase : {"bump", "comment"}, fp : Fingerprints, found : Row, wp : {0}]
    BY <1>7 DEF Comment, TypeOK, Report, Idle
  <2>2. new \in Report /\ w \in Numbers
    BY <2>1 DEF Report, Row
  <2>3. req' = [req EXCEPT ![c] = new] \/ req' = [req EXCEPT ![c] = Idle]
    BY <1>7 DEF Comment, Done, TypeOK
  <2>4. req' \in [Clients -> Report \cup {Idle}]
    BY <2>2, <2>3, ReqTyped
  <2>5. comments' \in [Numbers -> Nat]
    BY <1>7, <2>2 DEF Comment, TypeOK
  <2> QED
    BY <1>7, <2>4, <2>5 DEF Comment, TypeOK
<1>8. ASSUME NEW c \in Clients, NEW heard \in BOOLEAN, Create(c, heard) PROVE TypeOK'
  <2> DEFINE new == [req[c] EXCEPT !.phase = "upsert", !.wp = opened + 1]
  <2>1. req[c] \in [phase : {"create"}, fp : Fingerprints \cup {NoFingerprint},
                    found : Row \cup {NoRow}, wp : {0}]
    BY <1>8 DEF Create, TypeOK, Report, Idle
  <2>2. opened + 1 \in Numbers
    BY <1>8 DEF Create, TypeOK, Numbers
  <2>3. req[c].fp # NoFingerprint => new \in Report
    BY <2>1, <2>2 DEF Report
  <2>4. (req[c].fp # NoFingerprint /\ req' = [req EXCEPT ![c] = new]) \/ req' = [req EXCEPT ![c] = Idle]
    BY <1>8 DEF Create, Done, TypeOK
  <2>5. req' \in [Clients -> Report \cup {Idle}]
    BY <2>3, <2>4, ReqTyped
  <2>6. opened' \in 0 .. MaxTickets /\ tickets' \subseteq 1 .. opened'
    BY <1>8 DEF Create, TypeOK
  <2> QED
    BY <1>8, <2>5, <2>6 DEF Create, TypeOK
<1>9. ASSUME NEW c \in Clients, Upsert(c) PROVE TypeOK'
  <2>1. req[c] \in [phase : {"upsert"}, fp : Fingerprints, found : Row \cup {NoRow}, wp : Numbers]
    BY <1>9 DEF Upsert, TypeOK, Report, Idle
  <2>2. [wp |-> req[c].wp, count |-> 1, last |-> clock] \in Row
    BY <2>1 DEF Row, TypeOK
  <2>3. ledger' \in [Fingerprints -> Row \cup {NoRow}]
    BY <1>9, <2>1, <2>2 DEF Upsert, TypeOK
  <2>4. overtaken' \subseteq Clients /\ req' \in [Clients -> Report \cup {Idle}]
    BY <1>9, ReqTyped DEF Upsert, Overtake, Done, TypeOK
  <2> QED
    BY <1>9, <2>3, <2>4 DEF Upsert, TypeOK
<1>10. ASSUME NEW c \in Clients, Fail(c) PROVE TypeOK'
  BY <1>10 DEF Fail, Done, TypeOK
<1>11. CASE UNCHANGED vars
  BY <1>11 DEF vars, TypeOK
<1> QED
  BY <1>1, <1>2, <1>3, <1>4, <1>5, <1>6, <1>7, <1>8, <1>9, <1>10, <1>11 DEF Next, Handle

(* Every variable keeps its type.                                          *)
THEOREM TypeCorrect == Spec => []TypeOK
<1>1. Init => TypeOK
  BY DEF Init, TypeOK
<1> QED
  BY <1>1, TypeStep, PTL DEF Spec

-----------------------------------------------------------------------------
(* What a report nobody overtook knows of its fingerprint's row.           *)
Knows(c) ==
  /\ req[c].phase = "bump" => ledger[req[c].fp] = req[c].found
  /\ req[c].phase = "comment" =>
       ledger[req[c].fp] # NoRow /\ ledger[req[c].fp].wp = req[c].found.wp
  /\ req[c].phase = "create" => ~HasTicket(req[c].fp)

(* No row and no report is ahead of the tickets, and a report that was not *)
(* overtaken knows its row.                                                *)
KnowInv ==
  /\ \A f \in Fingerprints : ledger[f] # NoRow => ledger[f].wp <= opened
  /\ \A c \in Clients : req[c].phase = "upsert" => req[c].wp <= opened
  /\ \A c \in Clients \ overtaken : Knows(c)

(* A report's fingerprint is one, when its phase needs it.                 *)
LEMMA ReportFp ==
  ASSUME TypeOK, NEW c \in Clients, req[c].phase \in {"lookup", "bump", "comment", "upsert"}
  PROVE  req[c].fp \in Fingerprints
BY DEF TypeOK, Report, Idle

(* A report that waits knows its row still when that row, its ticket and   *)
(* the clock did nothing but grow older.                                   *)
LEMMA StillKnows ==
  ASSUME TypeOK, TypeOK', KnowInv, NEW c \in Clients, Knows(c), req'[c] = req[c],
         req[c].fp \in Fingerprints => ledger'[req[c].fp] = ledger[req[c].fp],
         clock <= clock', tickets' \subseteq tickets \cup {opened + 1}
  PROVE  Knows(c)'
<1>1. req[c] = Idle \/ req[c].fp \in Fingerprints \/ (req[c].phase = "create" /\ req[c].fp = NoFingerprint)
  BY DEF TypeOK, Report
<1>2. CASE req[c] = Idle
  BY <1>2 DEF Knows, Idle
<1>3. CASE req[c].phase = "create" /\ req[c].fp = NoFingerprint
  BY <1>3 DEF Knows, HasTicket
<1>4. CASE req[c].fp \in Fingerprints
  <2>1. HasTicket(req[c].fp)' => HasTicket(req[c].fp)
    <3> SUFFICES ASSUME HasTicket(req[c].fp)' PROVE HasTicket(req[c].fp)
      OBVIOUS
    <3>1. ledger[req[c].fp] \in Row /\ ledger'[req[c].fp] = ledger[req[c].fp]
      BY <1>4 DEF TypeOK, HasTicket, Recent
    <3>2. ledger[req[c].fp].wp <= opened /\ ledger[req[c].fp].wp \in Int /\ ledger[req[c].fp].last \in Int
      BY <1>4, <3>1 DEF KnowInv, Row, Numbers
    <3>3. clock \in Int /\ clock' \in Int /\ opened \in Int /\ DedupWindow \in Int
      BY DEF TypeOK
    <3> QED
      BY <3>1, <3>2, <3>3 DEF HasTicket, Recent
  <2> QED
    BY <1>4, <2>1 DEF Knows
<1> QED
  BY <1>1, <1>2, <1>3, <1>4

(* Every step keeps it.                                                    *)
LEMMA KnowStep == TypeOK /\ TypeOK' /\ KnowInv /\ [Next]_vars => KnowInv'
<1> SUFFICES ASSUME TypeOK, TypeOK', KnowInv, [Next]_vars PROVE KnowInv'
  OBVIOUS
<1>1. CASE Tick
  <2>1. \A c \in Clients \ overtaken' : Knows(c)'
    BY <1>1, StillKnows DEF Tick, KnowInv, TypeOK
  <2> QED
    BY <1>1, <2>1 DEF Tick, KnowInv
<1>2. CASE Restart
  BY <1>2 DEF Restart, KnowInv, Knows, Idle
<1>3. ASSUME NEW w \in tickets, DeleteTicket(w) PROVE KnowInv'
  <2>1. \A c \in Clients \ overtaken' : Knows(c)'
    BY <1>3, StillKnows DEF DeleteTicket, KnowInv, TypeOK
  <2> QED
    BY <1>3, <2>1 DEF DeleteTicket, KnowInv
<1>4. ASSUME NEW c \in Clients, NEW u \in Users,
             NEW f \in Fingerprints \cup {NoFingerprint}, Arrive(c, u, f)
      PROVE  KnowInv'
  <2>1. ASSUME NEW b \in Clients \ {c}, b \notin overtaken' PROVE Knows(b)'
    BY <1>4, <2>1, StillKnows DEF Arrive, KnowInv, TypeOK
  <2>2. req'[c] = Idle \/ req'[c].phase = "lookup" \/ (req'[c].phase = "create" /\ req'[c].fp = NoFingerprint)
    BY <1>4 DEF Arrive, TypeOK
  <2>3. Knows(c)'
    BY <2>2 DEF Knows, HasTicket, Idle
  <2>4. \A b \in Clients : req'[b].phase = "upsert" => req'[b] = req[b]
    BY <1>4, <2>2 DEF Arrive, TypeOK, Idle
  <2> QED
    BY <1>4, <2>1, <2>3, <2>4 DEF Arrive, KnowInv
<1>5. ASSUME NEW c \in Clients, Lookup(c) PROVE KnowInv'
  <2>1. ASSUME NEW b \in Clients \ {c}, b \notin overtaken' PROVE Knows(b)'
    BY <1>5, <2>1, StillKnows DEF Lookup, KnowInv, TypeOK
  <2>2. /\ req'[c].fp = req[c].fp /\ req'[c].found = ledger[req[c].fp]
        /\ req'[c].phase = IF Recent(ledger[req[c].fp]) THEN "bump" ELSE "create"
    <3>1. req[c] \in Report
      BY <1>5 DEF Lookup, TypeOK, Idle
    <3> QED
      BY <1>5, <3>1 DEF Lookup, TypeOK, Report
  <2>3. Knows(c)'
    BY <1>5, <2>2 DEF Lookup, Knows, HasTicket, Recent
  <2>4. \A b \in Clients : req'[b].phase = "upsert" => req'[b] = req[b]
    BY <1>5, <2>2 DEF Lookup, TypeOK
  <2> QED
    BY <1>5, <2>1, <2>3, <2>4 DEF Lookup, KnowInv
<1>6. ASSUME NEW c \in Clients, Bump(c) PROVE KnowInv'
  <2> DEFINE f == req[c].fp
  <2>1. f \in Fingerprints /\ req'[c].phase = "comment" /\ req'[c].fp = f /\ req'[c].found = req[c].found
    <3>1. req[c] \in Report
      BY <1>6 DEF Bump, TypeOK, Idle
    <3> QED
      BY <1>6, <3>1, ReportFp DEF Bump, TypeOK, Report
  <2>2. \A g \in Fingerprints : g # f => ledger'[g] = ledger[g]
    BY <1>6 DEF Bump, TypeOK
  <2>3. /\ ledger[f] = NoRow => ledger'[f] = NoRow
        /\ ledger[f] # NoRow => ledger'[f].wp = ledger[f].wp
    BY <1>6, <2>1 DEF Bump, TypeOK
  <2>4. ASSUME NEW b \in Clients \ {c}, b \notin overtaken' PROVE Knows(b)'
    <3>1. req'[b] = req[b] /\ Knows(b)
      BY <1>6, <2>4 DEF Bump, Overtake, KnowInv, TypeOK
    <3>2. req[b] = Idle \/ req[b].phase = "lookup" \/ req[b].fp # f
      BY <1>6, <2>4 DEF Bump, Overtake
    <3>3. CASE req[b] = Idle \/ req[b].phase = "lookup"
      BY <3>1, <3>3 DEF Knows, Idle
    <3>4. CASE req[b].fp # f
      BY <1>6, <2>2, <3>1, <3>4, StillKnows DEF Bump, TypeOK
    <3> QED
      BY <3>2, <3>3, <3>4
  <2>5. c \notin overtaken' => Knows(c)'
    <3> SUFFICES ASSUME c \notin overtaken' PROVE Knows(c)'
      OBVIOUS
    <3>1. Knows(c) /\ req[c].phase = "bump"
      BY <1>6 DEF Bump, Overtake, KnowInv
    <3>2. req[c].found \in Row
      BY <1>6 DEF Bump, TypeOK, Report, Idle
    <3>3. ledger[f] = req[c].found /\ ledger[f] # NoRow
      BY <3>1, <3>2 DEF Knows
    <3>4. ledger'[f] # NoRow /\ ledger'[f].wp = req[c].found.wp
      BY <1>6, <2>1, <2>3, <3>2, <3>3 DEF Bump, TypeOK, Row
    <3> QED
      BY <2>1, <3>4 DEF Knows
  <2>6. \A g \in Fingerprints : ledger'[g] # NoRow => ledger'[g].wp <= opened
    BY <2>2, <2>3 DEF KnowInv
  <2>7. \A b \in Clients : req'[b].phase = "upsert" => req'[b] = req[b]
    BY <1>6, <2>1 DEF Bump, TypeOK
  <2> QED
    BY <1>6, <2>4, <2>5, <2>6, <2>7 DEF Bump, KnowInv
<1>7. ASSUME NEW c \in Clients, Comment(c) PROVE KnowInv'
  <2>1. ASSUME NEW b \in Clients \ {c}, b \notin overtaken' PROVE Knows(b)'
    BY <1>7, <2>1, StillKnows DEF Comment, Done, KnowInv, TypeOK
  <2>2. \/ req'[c] = Idle
        \/ req'[c].phase = "create" /\ req'[c].fp = req[c].fp /\ req[c].found.wp \notin tickets
    <3>1. req[c] \in Report
      BY <1>7 DEF Comment, TypeOK, Idle
    <3> QED
      BY <1>7, <3>1 DEF Comment, Done, TypeOK, Report
  <2>3. c \notin overtaken' => Knows(c)'
    BY <1>7, <2>2 DEF Comment, KnowInv, Knows, HasTicket, Idle
  <2>4. \A b \in Clients : req'[b].phase = "upsert" => req'[b] = req[b]
    BY <1>7, <2>2 DEF Comment, Done, TypeOK, Idle
  <2> QED
    BY <1>7, <2>1, <2>3, <2>4 DEF Comment, KnowInv
<1>8. ASSUME NEW c \in Clients, NEW heard \in BOOLEAN, Create(c, heard) PROVE KnowInv'
  <2>1. ASSUME NEW b \in Clients \ {c}, b \notin overtaken' PROVE Knows(b)'
    BY <1>8, <2>1, StillKnows DEF Create, Done, KnowInv, TypeOK
  <2>2. req'[c] = Idle \/ (req'[c].phase = "upsert" /\ req'[c].wp = opened + 1)
    <3>1. req[c] \in Report
      BY <1>8 DEF Create, TypeOK, Idle
    <3> QED
      BY <1>8, <3>1 DEF Create, Done, TypeOK, Report
  <2>3. Knows(c)'
    BY <2>2 DEF Knows, Idle
  <2>4. \A b \in Clients \ {c} : req'[b] = req[b]
    BY <1>8 DEF Create, Done, TypeOK
  <2>5. \A g \in Fingerprints : ledger'[g] # NoRow => ledger'[g].wp <= opened'
    BY <1>8 DEF Create, KnowInv, TypeOK, Row, Numbers
  <2>6. \A b \in Clients : req'[b].phase = "upsert" => req'[b].wp <= opened'
    <3>1. ASSUME NEW b \in Clients \ {c}, req[b].phase = "upsert" PROVE req[b].wp \in Int /\ req[b].wp <= opened
      BY <3>1 DEF KnowInv, TypeOK, Report, Idle, Numbers
    <3>2. opened \in Int /\ opened' = opened + 1
      BY <1>8 DEF Create, TypeOK
    <3>3. req'[c].phase = "upsert" => req'[c].wp <= opened'
      BY <2>2, <3>2 DEF Idle
    <3> QED
      BY <2>4, <3>1, <3>2, <3>3
  <2> QED
    BY <1>8, <2>1, <2>3, <2>5, <2>6 DEF Create, KnowInv
<1>9. ASSUME NEW c \in Clients, Upsert(c) PROVE KnowInv'
  <2> DEFINE f == req[c].fp
  <2>1. f \in Fingerprints /\ req'[c] = Idle
    BY <1>9, ReportFp DEF Upsert, Done, TypeOK
  <2>2. \A g \in Fingerprints : g # f => ledger'[g] = ledger[g]
    BY <1>9 DEF Upsert, TypeOK
  <2>3. ledger'[f].wp = req[c].wp /\ req[c].wp <= opened
    BY <1>9, <2>1 DEF Upsert, TypeOK, KnowInv
  <2>4. ASSUME NEW b \in Clients \ {c}, b \notin overtaken' PROVE Knows(b)'
    <3>1. req'[b] = req[b] /\ Knows(b)
      BY <1>9, <2>4 DEF Upsert, Done, Overtake, KnowInv, TypeOK
    <3>2. req[b] = Idle \/ req[b].phase = "lookup" \/ req[b].fp # f
      BY <1>9, <2>4 DEF Upsert, Overtake
    <3>3. CASE req[b] = Idle \/ req[b].phase = "lookup"
      BY <3>1, <3>3 DEF Knows, Idle
    <3>4. CASE req[b].fp # f
      BY <1>9, <2>2, <3>1, <3>4, StillKnows DEF Upsert, TypeOK
    <3> QED
      BY <3>2, <3>3, <3>4
  <2>5. Knows(c)'
    BY <2>1 DEF Knows, Idle
  <2>6. \A g \in Fingerprints : ledger'[g] # NoRow => ledger'[g].wp <= opened
    BY <2>2, <2>3 DEF KnowInv
  <2>7. \A b \in Clients : req'[b].phase = "upsert" => req'[b] = req[b]
    BY <1>9, <2>1 DEF Upsert, Done, TypeOK, Idle
  <2> QED
    BY <1>9, <2>4, <2>5, <2>6, <2>7 DEF Upsert, KnowInv
<1>10. ASSUME NEW c \in Clients, Fail(c) PROVE KnowInv'
  <2>1. ASSUME NEW b \in Clients \ {c}, b \notin overtaken' PROVE Knows(b)'
    BY <1>10, <2>1, StillKnows DEF Fail, Done, KnowInv, TypeOK
  <2>2. req'[c] = Idle /\ Knows(c)'
    BY <1>10 DEF Fail, Done, TypeOK, Knows, Idle
  <2>3. \A b \in Clients : req'[b].phase = "upsert" => req'[b] = req[b]
    BY <1>10, <2>2 DEF Fail, Done, TypeOK, Idle
  <2> QED
    BY <1>10, <2>1, <2>2, <2>3 DEF Fail, KnowInv
<1>11. CASE UNCHANGED vars
  BY <1>11 DEF vars, KnowInv, Knows, HasTicket, Recent
<1> QED
  BY <1>1, <1>2, <1>3, <1>4, <1>5, <1>6, <1>7, <1>8, <1>9, <1>10, <1>11 DEF Next, Handle

(* A report opens a second ticket only when another of its fingerprint     *)
(* wrote the row after it looked.                                          *)
THEOREM SecondTicketNeedsARace == Spec => SecondTicketByRacesOnly
<1>1. Init => KnowInv
  BY DEF Init, KnowInv, Knows, Idle
<1>2. Spec => []KnowInv
  BY <1>1, TypeCorrect, KnowStep, PTL DEF Spec
<1>3. KnowInv => [\A c \in Clients : (Opens(c) /\ HasTicket(req[c].fp)) => c \in overtaken]_vars
  BY DEF KnowInv, Knows, Opens
<1> QED
  BY <1>2, <1>3, PTL DEF SecondTicketByRacesOnly

-----------------------------------------------------------------------------
Holds(c, w) == req[c].phase \in {"bump", "comment"} /\ req[c].found.wp = w
Has(f, w)   == ledger[f] # NoRow /\ ledger[f].wp = w

(* A ticket belongs to one fingerprint: to its row, to the reports that    *)
(* found it there or to the one that just opened it.                       *)
OwnInv ==
  /\ \A f \in Fingerprints, w \in Numbers : Has(f, w) => w <= opened
  /\ \A c \in Clients, w \in Numbers : Holds(c, w) => w <= opened
  /\ \A f, g \in Fingerprints, w \in Numbers : Has(f, w) /\ Has(g, w) => f = g
  /\ \A c \in Clients, f \in Fingerprints, w \in Numbers :
       Holds(c, w) /\ Has(f, w) => f = req[c].fp
  /\ \A c \in Clients : req[c].phase = "upsert" =>
       /\ req[c].wp <= opened
       /\ comments[req[c].wp] = 0
       /\ \A f \in Fingerprints : ~Has(f, req[c].wp)
       /\ \A b \in Clients : ~Holds(b, req[c].wp)
       /\ \A b \in Clients \ {c} : req[b].phase = "upsert" => req[b].wp # req[c].wp
  /\ \A w \in Numbers : w > opened => comments[w] = 0

(* What the phases say of a report's fields.                               *)
LEMMA ReportFields ==
  ASSUME TypeOK, NEW c \in Clients
  PROVE  /\ req[c].phase \in {"bump", "comment"} =>
              req[c].fp \in Fingerprints /\ req[c].found \in Row /\ req[c].found.wp \in Numbers
         /\ req[c].phase = "upsert" => req[c].fp \in Fingerprints /\ req[c].wp \in Numbers
         /\ req[c].phase # "idle" => req[c] \in Report
<1>1. \A r \in Row : r.wp \in Numbers
  BY DEF Row
<1> QED
  BY <1>1 DEF TypeOK, Report, Idle

(* Every step keeps it.                                                    *)
LEMMA OwnStep == TypeOK /\ TypeOK' /\ OwnInv /\ [Next]_vars => OwnInv'
<1> SUFFICES ASSUME TypeOK, TypeOK', OwnInv, [Next]_vars PROVE OwnInv'
  OBVIOUS
<1> USE DEF Holds, Has
<1>1. CASE Tick
  BY <1>1 DEF Tick, OwnInv
<1>2. CASE Restart
  BY <1>2 DEF Restart, OwnInv, Idle
<1>3. ASSUME NEW w \in tickets, DeleteTicket(w) PROVE OwnInv'
  BY <1>3 DEF DeleteTicket, OwnInv
<1>4. ASSUME NEW c \in Clients, NEW u \in Users,
             NEW f \in Fingerprints \cup {NoFingerprint}, Arrive(c, u, f)
      PROVE  OwnInv'
  <2>1. req'[c].phase \in {"idle", "lookup", "create"} /\ \A b \in Clients \ {c} : req'[b] = req[b]
    BY <1>4 DEF Arrive, TypeOK, Idle
  <2>2. \A b \in Clients : req'[b].phase \in {"bump", "comment", "upsert"} => req'[b] = req[b]
    BY <2>1
  <2> QED
    BY <1>4, <2>2 DEF Arrive, OwnInv
<1>5. ASSUME NEW c \in Clients, Lookup(c) PROVE OwnInv'
  <2> DEFINE f == req[c].fp
  <2>1. f \in Fingerprints /\ req[c] \in Report
    BY <1>5, ReportFp DEF Lookup, TypeOK, Idle
  <2>2. /\ req'[c].fp = f /\ req'[c].found = ledger[f]
        /\ req'[c].phase = IF Recent(ledger[f]) THEN "bump" ELSE "create"
        /\ \A b \in Clients \ {c} : req'[b] = req[b]
    BY <1>5, <2>1 DEF Lookup, TypeOK, Report
  <2>3. \A w \in Numbers : Holds(c, w)' => Has(f, w)
    BY <2>2 DEF Recent
  <2>4. \A b \in Clients : req'[b].phase = "upsert" => req'[b] = req[b] /\ req[b].wp \in Numbers
    BY <2>2, ReportFields
  <2>5. \A b \in Clients, w \in Numbers : Holds(b, w)' => w <= opened
    BY <2>1, <2>2, <2>3 DEF OwnInv
  <2>6. \A b \in Clients, g \in Fingerprints, w \in Numbers : Holds(b, w)' /\ Has(g, w) => g = req'[b].fp
    BY <2>1, <2>2, <2>3 DEF OwnInv
  <2>7. \A b \in Clients : req'[b].phase = "upsert" => \A a \in Clients : ~Holds(a, req[b].wp)'
    BY <2>1, <2>2, <2>3, <2>4 DEF OwnInv
  <2>8. ledger' = ledger /\ comments' = comments /\ opened' = opened
    BY <1>5 DEF Lookup
  <2>9. \A g \in Fingerprints, w \in Numbers : Has(g, w)' <=> Has(g, w)
    BY <2>8
  <2>10. \A b \in Clients : req'[b].phase = "upsert" => \A g \in Fingerprints : ~Has(g, req[b].wp)'
    BY <2>4, <2>8 DEF OwnInv
  <2> HIDE DEF Has, Holds
  <2> QED
    BY <2>4, <2>5, <2>6, <2>7, <2>8, <2>9, <2>10 DEF OwnInv
<1>6. ASSUME NEW c \in Clients, Bump(c) PROVE OwnInv'
  <2>1. req[c].fp \in Fingerprints /\ req[c] \in Report
    BY <1>6, ReportFp DEF Bump, TypeOK, Idle
  <2>2. /\ req'[c].fp = req[c].fp /\ req'[c].found = req[c].found /\ req'[c].phase = "comment"
        /\ \A b \in Clients \ {c} : req'[b] = req[b]
    BY <1>6, <2>1 DEF Bump, TypeOK, Report
  <2>3. \A g \in Fingerprints, w \in Numbers : Has(g, w)' => Has(g, w)
    BY <1>6, <2>1 DEF Bump, TypeOK
  <2>4. \A b \in Clients, w \in Numbers : Holds(b, w)' => Holds(b, w) /\ req'[b].fp = req[b].fp
    BY <1>6, <2>2 DEF Bump
  <2>5. \A b \in Clients : req'[b].phase = "upsert" => req'[b] = req[b] /\ req[b].wp \in Numbers
    BY <2>2, ReportFields
  <2>6. comments' = comments /\ opened' = opened
    BY <1>6 DEF Bump
  <2> HIDE DEF Holds, Has
  <2> QED
    BY <2>3, <2>4, <2>5, <2>6 DEF OwnInv
<1>7. ASSUME NEW c \in Clients, Comment(c) PROVE OwnInv'
  <2> DEFINE w == req[c].found.wp
  <2>1. w \in Numbers /\ req[c] \in Report /\ Holds(c, w)
    BY <1>7, ReportFields DEF Comment
  <2>2. req'[c].phase \in {"idle", "create"} /\ \A b \in Clients \ {c} : req'[b] = req[b]
    BY <1>7, <2>1 DEF Comment, Done, TypeOK, Report, Idle
  <2>3. \A b \in Clients : req'[b].phase \in {"bump", "comment", "upsert"} => req'[b] = req[b]
    BY <2>2
  <2>4. \A v \in Numbers \ {w} : comments'[v] = comments[v]
    BY <1>7 DEF Comment, TypeOK
  <2>5. \A b \in Clients : req'[b].phase = "upsert" => comments'[req[b].wp] = 0
    BY <2>1, <2>3, <2>4, ReportFields DEF OwnInv
  <2>6. \A v \in Numbers : v > opened => comments'[v] = 0
    <3>1. w <= opened
      BY <2>1 DEF OwnInv
    <3>2. \A v \in Numbers : v > opened => v # w
      BY <3>1, <2>1 DEF Numbers, TypeOK
    <3> QED
      BY <2>4, <3>2 DEF OwnInv
  <2>7. ledger' = ledger /\ opened' = opened
    BY <1>7 DEF Comment
  <2> QED
    BY <2>3, <2>5, <2>6, <2>7 DEF OwnInv
<1>8. ASSUME NEW c \in Clients, NEW heard \in BOOLEAN, Create(c, heard) PROVE OwnInv'
  <2>1. req'[c].phase = "idle" \/ (req'[c].phase = "upsert" /\ req'[c].wp = opened + 1)
    <3>1. req[c] \in Report
      BY <1>8, ReportFields DEF Create
    <3> QED
      BY <1>8, <3>1 DEF Create, Done, TypeOK, Report, Idle
  <2>2. /\ \A b \in Clients \ {c} : req'[b] = req[b]
        /\ opened' = opened + 1 /\ ledger' = ledger /\ comments' = comments
    BY <1>8 DEF Create, Done, TypeOK
  <2>3. opened \in Nat /\ opened + 1 \in Numbers /\ \A w \in Numbers : w \in Nat
    BY <1>8 DEF Create, TypeOK, Numbers
  <2>4. \A f \in Fingerprints : ~Has(f, opened + 1)
    BY <2>3 DEF OwnInv
  <2>5. \A b \in Clients : ~Holds(b, opened + 1)
    BY <2>3 DEF OwnInv
  <2>6. \A b \in Clients, w \in Numbers : Holds(b, w)' => Holds(b, w) /\ req'[b] = req[b]
    BY <2>1, <2>2
  <2>7. \A f \in Fingerprints, w \in Numbers : Has(f, w)' <=> Has(f, w)
    BY <2>2
  <2>8. \A b \in Clients \ {c} : req[b].phase = "upsert" => req[b].wp \in Numbers /\ req[b].wp <= opened
    BY ReportFields DEF OwnInv
  <2>9. ASSUME NEW b \in Clients, req'[b].phase = "upsert"
        PROVE  /\ req'[b].wp <= opened'
               /\ comments'[req'[b].wp] = 0
               /\ \A a \in Clients : ~Holds(a, req[b].wp)'
               /\ \A a \in Clients \ {b} : req'[a].phase = "upsert" => req'[a].wp # req'[b].wp
    <3>1. CASE b = c
      <4>1. req'[b].wp = opened + 1
        BY <2>1, <2>9, <3>1
      <4>2. comments[opened + 1] = 0
        BY <2>3 DEF OwnInv
      <4>3. \A a \in Clients \ {b} : req'[a].phase = "upsert" => req'[a].wp # opened + 1
        BY <2>2, <2>3, <2>8, <3>1
      <4>4. \A a \in Clients : ~(req'[a].phase \in {"bump", "comment"} /\ req'[a].found.wp = opened + 1)
        BY <2>3, <2>5, <2>6
      <4> QED
        BY <2>2, <2>3, <3>1, <4>1, <4>2, <4>3, <4>4
    <3>2. CASE b # c
      <4>1. req'[b] = req[b] /\ req[b].wp \in Numbers /\ req[b].wp <= opened
        BY <2>2, <2>8, <2>9, <3>2
      <4>2. req[b].wp # opened + 1 /\ req[b].wp <= opened + 1
        BY <2>3, <4>1
      <4>3. \A a \in Clients \ {b} : req'[a].phase = "upsert" => req'[a].wp # req[b].wp
        BY <2>1, <2>2, <2>9, <4>1, <4>2 DEF OwnInv
      <4>4. comments[req[b].wp] = 0 /\ \A f \in Fingerprints : ~Has(f, req[b].wp)
        BY <2>9, <4>1 DEF OwnInv
      <4>5. \A a \in Clients : ~(req'[a].phase \in {"bump", "comment"} /\ req'[a].found.wp = req[b].wp)
        BY <2>6, <2>9, <4>1 DEF OwnInv
      <4> QED
        BY <2>2, <4>1, <4>2, <4>3, <4>4, <4>5
    <3> QED
      BY <3>1, <3>2
  <2>10. ASSUME NEW b \in Clients, req'[b].phase = "upsert", NEW f \in Fingerprints
         PROVE  ~(ledger'[f] # NoRow /\ ledger'[f].wp = req'[b].wp)
    BY <2>1, <2>2, <2>4, <2>10 DEF OwnInv
  <2>11. /\ \A w \in Numbers : w <= opened => w <= opened'
         /\ \A w \in Numbers : w > opened' => comments'[w] = 0
    BY <2>2, <2>3 DEF OwnInv
  <2> QED
    BY <2>2, <2>6, <2>9, <2>10, <2>11 DEF OwnInv
<1>9. ASSUME NEW c \in Clients, Upsert(c) PROVE OwnInv'
  <2> DEFINE f == req[c].fp
             n == req[c].wp
  <2>1. f \in Fingerprints /\ n \in Numbers /\ req[c].phase = "upsert"
    BY <1>9, ReportFields DEF Upsert
  <2>2. /\ req'[c].phase = "idle" /\ \A b \in Clients \ {c} : req'[b] = req[b]
        /\ comments' = comments /\ opened' = opened
    BY <1>9 DEF Upsert, Done, TypeOK, Idle
  <2>3. \A g \in Fingerprints, w \in Numbers : Has(g, w)' => (g = f /\ w = n) \/ (g # f /\ Has(g, w))
    <3>1. ledger'[f].wp = n
      BY <1>9, <2>1 DEF Upsert, TypeOK
    <3>2. \A g \in Fingerprints : g # f => ledger'[g] = ledger[g]
      BY <1>9 DEF Upsert, TypeOK
    <3> HIDE DEF f, n
    <3> QED
      BY <3>1, <3>2
  <2>4. \A b \in Clients : req'[b].phase \in {"bump", "comment", "upsert"} => req'[b] = req[b] /\ b # c
    BY <2>2
  <2>5. \A b \in Clients, w \in Numbers : Holds(b, w)' => Holds(b, w) /\ w # n
    BY <2>1, <2>4 DEF OwnInv
  <2>6. \A b \in Clients : req'[b].phase = "upsert" => req[b].wp \in Numbers /\ req[b].wp # n
    BY <2>1, <2>4, ReportFields DEF OwnInv
  <2>7. n <= opened /\ \A g \in Fingerprints : ~Has(g, n)
    BY <2>1 DEF OwnInv
  <2> HIDE DEF Holds, Has
  <2>8. \A g, h \in Fingerprints, w \in Numbers : Has(g, w)' /\ Has(h, w)' => g = h
    BY <2>3, <2>7 DEF OwnInv
  <2>9. \A b \in Clients, g \in Fingerprints, w \in Numbers : Holds(b, w)' /\ Has(g, w)' => g = req[b].fp
    BY <2>1, <2>3, <2>5 DEF OwnInv
  <2>10. \A g \in Fingerprints, w \in Numbers : Has(g, w)' => w <= opened
    BY <2>3, <2>7 DEF OwnInv
  <2>11. \A b \in Clients, w \in Numbers : Holds(b, w)' => req'[b].fp = req[b].fp
    BY <2>4 DEF Holds
  <2>12. ASSUME NEW b \in Clients, req'[b].phase = "upsert"
         PROVE  \A g \in Fingerprints : ~Has(g, req[b].wp)'
    BY <2>3, <2>4, <2>6, <2>12 DEF OwnInv
  <2>13. ASSUME NEW b \in Clients, req'[b].phase = "upsert"
         PROVE  \A a \in Clients : ~Holds(a, req[b].wp)'
    BY <2>4, <2>5, <2>6, <2>13 DEF OwnInv
  <2> QED
    BY <2>2, <2>4, <2>5, <2>8, <2>9, <2>10, <2>11, <2>12, <2>13 DEF OwnInv
<1>10. ASSUME NEW c \in Clients, Fail(c) PROVE OwnInv'
  <2>1. \A b \in Clients : req'[b].phase \in {"bump", "comment", "upsert"} => req'[b] = req[b]
    BY <1>10 DEF Fail, Done, TypeOK, Idle
  <2> QED
    BY <1>10, <2>1 DEF Fail, OwnInv
<1>11. CASE UNCHANGED vars
  BY <1>11 DEF vars, OwnInv
<1> QED
  BY <1>1, <1>2, <1>3, <1>4, <1>5, <1>6, <1>7, <1>8, <1>9, <1>10, <1>11 DEF Next, Handle

-----------------------------------------------------------------------------
(* The reports about to comment on the ticket of f's row: each is counted  *)
(* already, when the row still names the ticket it was counted for.        *)
Pending(f) == {c \in Clients : /\ req[c].phase = "comment"
                               /\ req[c].fp = f
                               /\ req[c].found.wp = ledger[f].wp}

Counted(f) == comments[ledger[f].wp] + Cardinality(Pending(f)) < ledger[f].count

CountInv == \A f \in Fingerprints : ledger[f] # NoRow => Counted(f)

LEMMA PendingFinite ==
  ASSUME NEW f PROVE IsFiniteSet(Pending(f)) /\ Cardinality(Pending(f)) \in Nat
<1>1. Pending(f) \subseteq Clients
  BY DEF Pending
<1>2. IsFiniteSet(Pending(f))
  BY <1>1, FS_Subset
<1> QED
  BY <1>2, FS_CardinalityType

(* A row stays counted while none joins those about to comment.            *)
LEMMA StillCounted ==
  ASSUME TypeOK, NEW f \in Fingerprints, ledger[f] # NoRow, Counted(f),
         ledger'[f] = ledger[f], comments'[ledger[f].wp] = comments[ledger[f].wp],
         Pending(f)' \subseteq Pending(f)
  PROVE  Counted(f)'
<1>1. IsFiniteSet(Pending(f)) /\ Cardinality(Pending(f)) \in Nat
  BY PendingFinite
<1>2. Cardinality(Pending(f)') <= Cardinality(Pending(f)) /\ Cardinality(Pending(f)') \in Nat
  BY <1>1, FS_Subset, FS_CardinalityType
<1>3. ledger[f].count \in Nat /\ comments[ledger[f].wp] \in Nat
  BY DEF TypeOK, Row
<1> QED
  BY <1>1, <1>2, <1>3 DEF Counted

(* Every step keeps it.                                                    *)
LEMMA CountStep == TypeOK /\ TypeOK' /\ OwnInv /\ CountInv /\ [Next]_vars => CountInv'
<1> SUFFICES ASSUME TypeOK, TypeOK', OwnInv, CountInv, [Next]_vars,
                    NEW f \in Fingerprints, ledger'[f] # NoRow
             PROVE  Counted(f)'
  BY DEF CountInv
<1>0. ledger[f] # NoRow => Counted(f)
  BY DEF CountInv
<1>1. CASE UNCHANGED <<ledger, comments, req>>
  BY <1>0, <1>1 DEF Counted, Pending
<1>2. CASE Restart
  <2>1. Pending(f)' = {}
    BY <1>2 DEF Restart, Pending, Idle
  <2> QED
    BY <1>0, <1>2, <2>1, StillCounted DEF Restart
<1>3. ASSUME NEW c \in Clients, NEW r \in Report \cup {Idle}, r.phase # "comment",
             req' = [req EXCEPT ![c] = r], UNCHANGED <<ledger, comments>>
      PROVE  Counted(f)'
  <2>1. Pending(f)' \subseteq Pending(f)
    BY <1>3 DEF Pending, TypeOK
  <2> QED
    BY <1>0, <1>3, <2>1, StillCounted
<1>4. ASSUME NEW c \in Clients, NEW u \in Users,
             NEW g \in Fingerprints \cup {NoFingerprint}, Arrive(c, u, g)
      PROVE  Counted(f)'
  <2>1. req' = req \/ (req' = [req EXCEPT ![c] = req'[c]] /\ req'[c].phase # "comment")
    BY <1>4 DEF Arrive, TypeOK
  <2>2. req'[c] \in Report \cup {Idle} /\ UNCHANGED <<ledger, comments>>
    BY <1>4 DEF Arrive, TypeOK
  <2> QED
    BY <1>1, <1>3, <2>1, <2>2
<1>5. ASSUME NEW c \in Clients, Lookup(c) PROVE Counted(f)'
  <2>1. req[c] \in Report
    BY <1>5, ReportFields DEF Lookup
  <2>2. req' = [req EXCEPT ![c] = req'[c]] /\ req'[c].phase # "comment"
    BY <1>5, <2>1 DEF Lookup, TypeOK, Report
  <2>3. req'[c] \in Report \cup {Idle} /\ UNCHANGED <<ledger, comments>>
    BY <1>5 DEF Lookup, TypeOK
  <2> QED
    BY <1>3, <2>2, <2>3
<1>6. ASSUME NEW c \in Clients, Bump(c) PROVE Counted(f)'
  <2>1. req[c] \in Report /\ req[c].fp \in Fingerprints /\ comments' = comments
    BY <1>6, ReportFields DEF Bump
  <2>2. /\ req'[c].fp = req[c].fp /\ \A b \in Clients \ {c} : req'[b] = req[b]
    BY <1>6, <2>1 DEF Bump, TypeOK, Report
  <2>3. CASE f # req[c].fp
    <3>1. ledger'[f] = ledger[f]
      BY <1>6, <2>3 DEF Bump, TypeOK
    <3>2. Pending(f)' \subseteq Pending(f)
      BY <2>2, <2>3, <3>1 DEF Pending
    <3> QED
      BY <1>0, <2>1, <3>1, <3>2, StillCounted
  <2>4. CASE f = req[c].fp
    <3>1. ledger[f] # NoRow /\ ledger[f] \in Row
      BY <1>6, <2>4 DEF Bump, TypeOK
    <3>2. ledger'[f].wp = ledger[f].wp /\ ledger'[f].count = ledger[f].count + 1
      BY <1>6, <2>4, <3>1 DEF Bump, TypeOK
    <3>3. Pending(f)' \subseteq Pending(f) \cup {c}
      BY <2>2, <3>2 DEF Pending
    <3>4. IsFiniteSet(Pending(f)) /\ Cardinality(Pending(f)) \in Nat
      BY PendingFinite
    <3>5. /\ IsFiniteSet(Pending(f) \cup {c})
          /\ Cardinality(Pending(f) \cup {c}) \in Nat
          /\ Cardinality(Pending(f) \cup {c}) <= Cardinality(Pending(f)) + 1
      <4>1. /\ IsFiniteSet(Pending(f) \cup {c})
            /\ Cardinality(Pending(f) \cup {c}) =
                 IF c \in Pending(f) THEN Cardinality(Pending(f)) ELSE Cardinality(Pending(f)) + 1
        BY <3>4, FS_AddElement
      <4> QED
        BY <3>4, <4>1
    <3>6. Cardinality(Pending(f)') \in Nat /\ Cardinality(Pending(f)') <= Cardinality(Pending(f)) + 1
      <4>1. IsFiniteSet(Pending(f)') /\ Cardinality(Pending(f)') <= Cardinality(Pending(f) \cup {c})
        BY <3>3, <3>5, FS_Subset
      <4>2. Cardinality(Pending(f)') \in Nat
        BY <4>1, FS_CardinalityType
      <4> QED
        BY <3>4, <3>5, <4>1, <4>2
    <3>7. ledger[f].count \in Nat /\ comments[ledger[f].wp] \in Nat
      BY <3>1 DEF TypeOK, Row
    <3> QED
      BY <1>0, <2>1, <3>1, <3>2, <3>4, <3>6, <3>7 DEF Counted
  <2> QED
    BY <2>3, <2>4
<1>7. ASSUME NEW c \in Clients, Comment(c) PROVE Counted(f)'
  <2>1. /\ req[c] \in Report /\ req[c].phase = "comment" /\ ledger' = ledger
        /\ req[c].found.wp \in Numbers /\ req[c].fp \in Fingerprints
    BY <1>7, ReportFields DEF Comment
  <2>2. req'[c].phase # "comment" /\ \A b \in Clients \ {c} : req'[b] = req[b]
    BY <1>7, <2>1 DEF Comment, Done, TypeOK, Report, Idle
  <2>3. Pending(f)' = Pending(f) \ {c}
    BY <2>1, <2>2 DEF Pending
  <2>4. ledger[f] \in Row /\ ledger[f].wp \in Numbers
    BY <2>1 DEF TypeOK, Row
  <2>5. CASE ledger[f].wp # req[c].found.wp
    <3>1. comments'[ledger[f].wp] = comments[ledger[f].wp]
      BY <1>7, <2>4, <2>5 DEF Comment, TypeOK
    <3> QED
      BY <1>0, <2>1, <2>3, <3>1, StillCounted
  <2>6. CASE ledger[f].wp = req[c].found.wp
    <3>1. c \in Pending(f)
      BY <2>1, <2>4, <2>6 DEF OwnInv, Holds, Has, Pending
    <3>2. IsFiniteSet(Pending(f)) /\ Cardinality(Pending(f)) \in Nat
      BY PendingFinite
    <3>3. Cardinality(Pending(f)') = Cardinality(Pending(f)) - 1
      BY <2>3, <3>1, <3>2, FS_RemoveElement
    <3>4. comments'[ledger[f].wp] \in {comments[ledger[f].wp], comments[ledger[f].wp] + 1}
      BY <1>7, <2>4, <2>6 DEF Comment, TypeOK
    <3>5. ledger[f].count \in Nat /\ comments[ledger[f].wp] \in Nat
      BY <2>4 DEF TypeOK, Row
    <3> QED
      BY <1>0, <2>1, <3>2, <3>3, <3>4, <3>5 DEF Counted
  <2> QED
    BY <2>5, <2>6
<1>8. ASSUME NEW c \in Clients, NEW heard \in BOOLEAN, Create(c, heard) PROVE Counted(f)'
  <2>1. req[c] \in Report
    BY <1>8, ReportFields DEF Create
  <2>2. req' = [req EXCEPT ![c] = req'[c]] /\ req'[c].phase # "comment"
    BY <1>8, <2>1 DEF Create, Done, TypeOK, Report, Idle
  <2>3. req'[c] \in Report \cup {Idle} /\ UNCHANGED <<ledger, comments>>
    BY <1>8 DEF Create, TypeOK
  <2> QED
    BY <1>3, <2>2, <2>3
<1>9. ASSUME NEW c \in Clients, Upsert(c) PROVE Counted(f)'
  <2>1. /\ req[c].fp \in Fingerprints /\ req[c].wp \in Numbers /\ req[c].phase = "upsert"
        /\ comments' = comments
    BY <1>9, ReportFields DEF Upsert
  <2>2. req'[c] = Idle /\ \A b \in Clients \ {c} : req'[b] = req[b]
    BY <1>9 DEF Upsert, Done, TypeOK
  <2>3. CASE f # req[c].fp
    <3>1. ledger'[f] = ledger[f]
      BY <1>9, <2>3 DEF Upsert, TypeOK
    <3>2. Pending(f)' \subseteq Pending(f)
      BY <2>2, <3>1 DEF Pending, Idle
    <3> QED
      BY <1>0, <2>1, <3>1, <3>2, StillCounted
  <2>4. CASE f = req[c].fp
    <3>1. ledger'[f].wp = req[c].wp /\ ledger'[f].count = 1
      BY <1>9, <2>1, <2>4 DEF Upsert, TypeOK
    <3>2. Pending(f)' = {}
      BY <2>1, <2>2, <3>1 DEF Pending, OwnInv, Holds, Idle
    <3>3. comments[req[c].wp] = 0
      BY <2>1 DEF OwnInv
    <3> QED
      BY <2>1, <3>1, <3>2, <3>3, FS_EmptySet DEF Counted
  <2> QED
    BY <2>3, <2>4
<1>10. ASSUME NEW c \in Clients, Fail(c) PROVE Counted(f)'
  BY <1>3, <1>10 DEF Fail, Done, Idle
<1> QED
  BY <1>1, <1>2, <1>4, <1>5, <1>6, <1>7, <1>8, <1>9, <1>10
  DEF Next, Handle, Tick, DeleteTicket, vars

(* No ticket has more recurrences written on it than its row counts.       *)
THEOREM EveryCommentIsCounted == Spec => []CommentsAreCounted
<1>1. Init => OwnInv /\ CountInv
  BY DEF Init, OwnInv, Holds, Has, CountInv, Idle
<1>2. Spec => [](OwnInv /\ CountInv)
  BY <1>1, TypeCorrect, OwnStep, CountStep, PTL DEF Spec
<1>3. TypeOK /\ CountInv => CommentsAreCounted
  <2> SUFFICES ASSUME TypeOK, CountInv, NEW f \in Fingerprints, ledger[f] # NoRow
               PROVE  comments[ledger[f].wp] < ledger[f].count
    BY DEF CommentsAreCounted
  <2>1. Cardinality(Pending(f)) \in Nat
    BY PendingFinite
  <2>2. ledger[f].count \in Nat /\ comments[ledger[f].wp] \in Nat
    BY DEF TypeOK, Row
  <2> QED
    BY <2>1, <2>2 DEF CountInv, Counted
<1> QED
  BY <1>2, <1>3, TypeCorrect, PTL

-----------------------------------------------------------------------------
(* The attempts of u let through in the window that ends at t.             *)
Window(u, t) == {s \in allowed[u] : s.at <= t.at /\ s.at > t.at - RateWindow}

(* The limiter remembers what it let through in the window that ends now,  *)
(* and no window that ended had too many.                                  *)
BudgetInv ==
  \A u \in Users :
    /\ IsFiniteSet(seen[u])
    /\ \A s \in allowed[u] : s.at <= clock
    /\ \A s \in allowed[u] : s.at > clock - RateWindow => s \in seen[u]
    /\ \A t \in allowed[u] : Cardinality(Window(u, t)) <= RateLimit

(* A report let through fills the window no further than the limit.        *)
LEMMA Filled ==
  ASSUME TypeOK, BudgetInv, NEW u \in Users, NEW this, ~Spent(u)
  PROVE  /\ IsFiniteSet(Kept(u)) /\ IsFiniteSet(Kept(u) \cup {this})
         /\ \A S \in SUBSET (Kept(u) \cup {this}) : Cardinality(S) <= RateLimit
<1>1. IsFiniteSet(seen[u]) /\ Kept(u) \subseteq seen[u]
  BY DEF BudgetInv, Kept
<1>2. IsFiniteSet(Kept(u))
  BY <1>1, FS_Subset
<1>3. Cardinality(Kept(u)) \in Nat
  BY <1>2, FS_CardinalityType
<1>4. Cardinality(Kept(u)) + 1 <= RateLimit
  BY <1>3 DEF Spent
<1>5. /\ IsFiniteSet(Kept(u) \cup {this})
      /\ Cardinality(Kept(u) \cup {this}) =
           IF this \in Kept(u) THEN Cardinality(Kept(u)) ELSE Cardinality(Kept(u)) + 1
  BY <1>2, FS_AddElement
<1>6. Cardinality(Kept(u) \cup {this}) <= RateLimit /\ Cardinality(Kept(u) \cup {this}) \in Nat
  BY <1>3, <1>4, <1>5
<1>7. ASSUME NEW S \in SUBSET (Kept(u) \cup {this}) PROVE Cardinality(S) <= RateLimit
  <2>1. IsFiniteSet(S) /\ Cardinality(S) <= Cardinality(Kept(u) \cup {this})
    BY <1>5, FS_Subset
  <2>2. Cardinality(S) \in Nat
    BY <2>1, FS_CardinalityType
  <2> QED
    BY <1>6, <2>1, <2>2
<1> QED
  BY <1>2, <1>5, <1>7

(* Every step keeps it.                                                    *)
LEMMA BudgetStep == TypeOK /\ BudgetInv /\ [Next]_vars => BudgetInv'
<1> SUFFICES ASSUME TypeOK, BudgetInv, [Next]_vars PROVE BudgetInv'
  OBVIOUS
<1>1. \A u \in Users : \A s \in allowed[u] \cup seen[u] : s.at \in Nat
  BY DEF TypeOK, Attempt
<1>2. clock \in Nat
  BY DEF TypeOK
<1>3. CASE Tick
  <2>1. allowed' = allowed /\ seen' = seen /\ clock' = clock + 1
    BY <1>3 DEF Tick
  <2>2. ASSUME NEW u \in Users, NEW s \in allowed[u]
        PROVE  s.at <= clock' /\ (s.at > clock' - RateWindow => s \in seen[u])
    BY <1>1, <1>2, <2>1, <2>2 DEF BudgetInv
  <2> QED
    BY <2>1, <2>2 DEF BudgetInv, Window
<1>4. CASE Restart
  BY <1>4, FS_EmptySet DEF Restart, BudgetInv
<1>5. ASSUME NEW c \in Clients, NEW u \in Users,
             NEW f \in Fingerprints \cup {NoFingerprint}, Arrive(c, u, f)
      PROVE  BudgetInv'
  <2> DEFINE this == [at |-> clock, nr |-> sent + 1]
  <2>1. clock' = clock
    BY <1>5 DEF Arrive
  <2>2. \A v \in Users \ {u} : seen'[v] = seen[v] /\ allowed'[v] = allowed[v]
    BY <1>5 DEF Arrive, TypeOK
  <2>3. CASE Spent(u)
    <3>1. allowed' = allowed /\ seen'[u] = Kept(u)
      BY <1>5, <2>3 DEF Arrive, TypeOK
    <3>2. IsFiniteSet(Kept(u))
      BY FS_Subset DEF BudgetInv, Kept
    <3>3. \A s \in allowed[u] : s.at > clock - RateWindow => s \in Kept(u)
      BY DEF BudgetInv, Kept
    <3> QED
      BY <2>1, <2>2, <3>1, <3>2, <3>3 DEF BudgetInv, Window
  <2>4. CASE ~Spent(u)
    <3>1. seen'[u] = Kept(u) \cup {this} /\ allowed'[u] = allowed[u] \cup {this}
      BY <1>5, <2>4 DEF Arrive, TypeOK
    <3> HIDE DEF this
    <3>2. /\ IsFiniteSet(Kept(u) \cup {this})
          /\ \A S \in SUBSET (Kept(u) \cup {this}) : Cardinality(S) <= RateLimit
      BY <2>4, Filled
    <3>3. this.at = clock
      BY DEF this
    <3>4. \A s \in allowed[u] : s.at \in Nat /\ s.at <= clock
      BY <1>1 DEF BudgetInv
    <3>5. \A s \in allowed'[u] : s.at \in Nat /\ s.at <= clock
      BY <1>2, <3>1, <3>3, <3>4
    <3>6. \A s \in allowed'[u] : s.at > clock - RateWindow => s \in seen'[u]
      BY <3>1 DEF BudgetInv, Kept
    <3>7. ASSUME NEW t \in allowed'[u] PROVE Cardinality({s \in allowed'[u] : s.at <= t.at /\ s.at > t.at - RateWindow}) <= RateLimit
      <4> DEFINE win == {s \in allowed'[u] : s.at <= t.at /\ s.at > t.at - RateWindow}
      <4>1. CASE t.at = clock
        <5>1. win \in SUBSET (Kept(u) \cup {this})
          BY <3>1, <3>6, <4>1
        <5> QED
          BY <3>2, <5>1
      <4>2. CASE t.at # clock
        <5>1. t \in allowed[u] /\ t.at < clock
          BY <1>2, <3>1, <3>3, <3>5, <4>2
        <5>2. win = Window(u, t)
          BY <1>1, <1>2, <3>1, <3>3, <5>1 DEF Window
        <5> QED
          BY <5>1, <5>2 DEF BudgetInv
      <4> QED
        BY <4>1, <4>2
    <3> QED
      BY <2>1, <2>2, <3>1, <3>2, <3>5, <3>6, <3>7 DEF BudgetInv, Window
  <2> QED
    BY <2>3, <2>4
<1>6. CASE UNCHANGED <<clock, seen, allowed>>
  BY <1>6 DEF BudgetInv, Window
<1> QED
  BY <1>3, <1>4, <1>5, <1>6
  DEF Next, Handle, DeleteTicket, Lookup, Bump, Comment, Create, Upsert, Fail, vars

(* However they are spread, no more reports of a user than the limit get   *)
(* through in any window.                                                  *)
THEOREM BudgetHolds == Spec => []WithinTheBudget
<1>1. Init => BudgetInv
  BY FS_EmptySet DEF Init, BudgetInv
<1>2. Spec => []BudgetInv
  BY <1>1, TypeCorrect, BudgetStep, PTL DEF Spec
<1>3. BudgetInv => WithinTheBudget
  BY DEF BudgetInv, WithinTheBudget, Window
<1> QED
  BY <1>2, <1>3, PTL
=============================================================================
