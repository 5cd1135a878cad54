--------------------------- MODULE AnswersProofs ---------------------------
(***************************************************************************)
(* The properties of Answers, for any number of clients, titles, assets    *)
(* and caps, any lifetimes, batch and table size.                          *)
(***************************************************************************)
EXTENDS Answers, FiniteSetTheorems, TLAPS

(* A request that looks for an asset's title names the asset; one that     *)
(* found it names the title.                                               *)
Knows(r) ==
  /\ r.phase \in {"finding", "asking title", "keeping title"} => r.asset \in Assets
  /\ r.phase = "calling" => r.item \in Ids
  /\ r.phase \in {"finding", "asking title", "keeping title", "calling", "looking", "asking",
                  "locking", "keeping"} => r.cap \in Caps

AssetKnown == \A p \in Requests : Knows(req[p])

-----------------------------------------------------------------------------
(* A request with one field changed is a request.                          *)
LEMMA SetPhase ==
  ASSUME NEW r \in Request, NEW x \in Phases PROVE [r EXCEPT !.phase = x] \in Request
BY DEF Request

LEMMA SetAsset ==
  ASSUME NEW r \in Request, NEW x \in Assets \cup {NoAsset} PROVE [r EXCEPT !.asset = x] \in Request
BY DEF Request

LEMMA SetItem ==
  ASSUME NEW r \in Request, NEW x \in Ids \cup {NoTitle} PROVE [r EXCEPT !.item = x] \in Request
BY DEF Request

LEMMA SetIds ==
  ASSUME NEW r \in Request, NEW x \in SUBSET Ids PROVE [r EXCEPT !.ids = x] \in Request
BY DEF Request

LEMMA SetNow ==
  ASSUME NEW r \in Request, NEW x \in Nat PROVE [r EXCEPT !.now = x] \in Request
BY DEF Request

LEMMA SetKnown ==
  ASSUME NEW r \in Request, NEW x \in SUBSET Ids PROVE [r EXCEPT !.known = x] \in Request
BY DEF Request

LEMMA SetAsk ==
  ASSUME NEW r \in Request, NEW x \in SUBSET Ids PROVE [r EXCEPT !.ask = x] \in Request
BY DEF Request

LEMMA SetBatch ==
  ASSUME NEW r \in Request, NEW x \in SUBSET Ids PROVE [r EXCEPT !.batch = x] \in Request
BY DEF Request

LEMMA SetReply ==
  ASSUME NEW r \in Request, NEW x \in SUBSET Ids PROVE [r EXCEPT !.reply = x] \in Request
BY DEF Request

LEMMA SetCode ==
  ASSUME NEW r \in Request, NEW x \in Codes PROVE [r EXCEPT !.code = x] \in Request
BY DEF Request

LEMMA SetTitles ==
  ASSUME NEW r \in Request, NEW x \in Nat PROVE [r EXCEPT !.titles = x] \in Request
BY DEF Request

LEMMA FieldsTyped ==
  ASSUME NEW r \in Request
  PROVE  /\ r.cap \in Viewers /\ r.asset \in Assets \cup {NoAsset} /\ r.item \in Ids \cup {NoTitle}
         /\ r.ids \in SUBSET Ids /\ r.since \in Nat /\ r.now \in Nat /\ r.known \in SUBSET Ids
         /\ r.ask \in SUBSET Ids /\ r.batch \in SUBSET Ids /\ r.reply \in SUBSET Ids
BY DEF Request

USE TitlesAssumption, CapsAssumption, NoneAssumption, BoundsAssumption

-----------------------------------------------------------------------------
(* What the handlers make of a request is one.                             *)
LEMMA AnsweredTyped ==
  ASSUME NEW r \in Request, NEW code \in Codes
  PROVE  Answered(r, code) \in Request
<1> DEFINE s == [r EXCEPT !.phase = "answered"]
           t == [s EXCEPT !.code = code]
           u == [t EXCEPT !.ask = {}]
           v == [u EXCEPT !.batch = {}]
<1>1. s \in Request
  BY SetPhase DEF Phases
<1>7. \A q \in Request : [q EXCEPT !.code = code] \in Request
  BY SetCode
<1>2. t \in Request
  BY <1>1, <1>7
<1>3. u \in Request
  BY <1>2, SetAsk
<1>4. v \in Request
  BY <1>3, SetBatch
<1>5. [v EXCEPT !.reply = {}] \in Request
  BY <1>4, SetReply
<1>6. Answered(r, code) = [v EXCEPT !.reply = {}]
  BY Zenon DEF Answered
<1> QED
  BY <1>5, <1>6

LEMMA DecidedTyped == ASSUME NEW r \in Request PROVE Decided(r) \in Request
<1>1. [r EXCEPT !.phase = "counting"] \in Request
  BY SetPhase DEF Phases
<1> QED
  BY <1>1, AnsweredTyped DEF Decided, Codes

LEMMA NewTyped ==
  ASSUME TypeOK, NEW route \in Routes, NEW cap \in Viewers, NEW want \in SUBSET Ids
  PROVE  New(route, cap, want) \in Request
<1>1. clock \in Nat
  BY DEF TypeOK
<1> QED
  BY <1>1 DEF New, Idle, Request, Phases, Routes, Viewers, Codes

LEMMA FoundTyped ==
  ASSUME NEW r \in Request, NEW item \in Ids \cup {NoTitle}
  PROVE  Found(r, item) \in Request
<1>1. [r EXCEPT !.item = item] \in Request
  BY SetItem
<1>2. "calling" \in Phases
  BY DEF Phases
<1>3. [r EXCEPT !.item = item, !.phase = "calling"] \in Request
  BY <1>2, Zenon DEF Request
<1> QED
  BY <1>1, <1>3, AnsweredTyped DEF Found, Codes

LEMMA ReqTyped ==
  ASSUME TypeOK, NEW p \in Requests, NEW r \in Request, req' = [req EXCEPT ![p] = r]
  PROVE  req' \in [Requests -> Request]
BY DEF TypeOK

(* A step that moves a request on and leaves the tables.                   *)
LEMMA MoveTyped ==
  ASSUME TypeOK, NEW p \in Requests, NEW r \in Request, Move(p, r)
  PROVE  TypeOK'
<1>1. req' \in [Requests -> Request]
  BY ReqTyped DEF Move, Step
<1> QED
  BY <1>1 DEF Move, Step, TypeOK

LEMMA BeginTyped ==
  ASSUME TypeOK, NEW p \in Requests, NEW r \in Request, Begin(p, r)
  PROVE  TypeOK'
<1>1. req' \in [Requests -> Request]
  BY ReqTyped DEF Begin
<1>2. begun' \in 0 .. MaxRequests
  BY DEF Begin, TypeOK
<1> QED
  BY <1>1, <1>2 DEF Begin, TypeOK

LEMMA BecomesTyped == ASSUME TypeOK, NEW w \in World, Becomes(w) PROVE TypeOK'
<1>1. changes' \in 0 .. MaxChanges
  BY DEF Becomes, TypeOK
<1>2. past' \in [0 .. MaxTime -> SUBSET World]
  BY DEF Becomes, TypeOK
<1> QED
  BY <1>1, <1>2 DEF Becomes, TypeOK

(* An answer kept is the one looked up; the others are as they were, or    *)
(* gone.                                                                   *)
LEMMA KeepKnows ==
  ASSUME NEW m, NEW k, NEW a, NEW now, NEW j \in DOMAIN Keep(m, k, a, now)
  PROVE  /\ j = k => Keep(m, k, a, now)[j] = a
         /\ j # k => j \in DOMAIN m /\ Keep(m, k, a, now)[j] = m[j]
<1> DEFINE live == {i \in DOMAIN m : now < m[i].until}
           room == Room(m, now)
<1>1. \A i \in DOMAIN room : i \in DOMAIN m /\ room[i] = m[i]
  BY DEF Room
<1>2. DOMAIN Keep(m, k, a, now) = DOMAIN room \cup {k}
  BY DEF Keep
<1>3. Keep(m, k, a, now)[j] = IF j = k THEN a ELSE room[j]
  BY <1>2 DEF Keep
<1> QED
  BY <1>1, <1>2, <1>3

(* A table stays within its bound.                                         *)
LEMMA KeepBounded ==
  ASSUME NEW m, NEW k, NEW a, NEW now,
         IsFiniteSet(DOMAIN m), Cardinality(DOMAIN m) <= MaxAnswers
  PROVE  /\ IsFiniteSet(DOMAIN Keep(m, k, a, now))
         /\ Cardinality(DOMAIN Keep(m, k, a, now)) <= MaxAnswers
<1> DEFINE live == {i \in DOMAIN m : now < m[i].until}
           rest == [i \in live |-> m[i]]
           room == Room(m, now)
<1>1. IsFiniteSet(live) /\ Cardinality(live) \in Nat /\ Cardinality(DOMAIN m) \in Nat
  BY FS_Subset, FS_CardinalityType
<1>2. IsFiniteSet({}) /\ Cardinality({}) = 0
  BY FS_EmptySet
<1>3. DOMAIN rest = live
  OBVIOUS
<1>4. room = IF ~Full(m) THEN m ELSE IF Full(rest) THEN [i \in {} |-> 0] ELSE rest
  BY DEF Room
<1>5. IsFiniteSet(DOMAIN room) /\ Cardinality(DOMAIN room) < MaxAnswers
  <2>1. CASE ~Full(m)
    BY <2>1, <1>1, <1>4 DEF Full
  <2>2. CASE Full(m) /\ Full(rest)
    <3>1. DOMAIN room = {}
      BY <2>2, <1>4
    <3> QED
      BY <3>1, <1>2
  <2>3. CASE Full(m) /\ ~Full(rest)
    BY <2>3, <1>1, <1>3, <1>4 DEF Full
  <2> QED
    BY <2>1, <2>2, <2>3
<1>6. DOMAIN Keep(m, k, a, now) = DOMAIN room \cup {k}
  BY DEF Keep
<1>7. /\ IsFiniteSet(DOMAIN room \cup {k})
      /\ Cardinality(DOMAIN room \cup {k}) =
           IF k \in DOMAIN room THEN Cardinality(DOMAIN room) ELSE Cardinality(DOMAIN room) + 1
  BY <1>5, FS_AddElement
<1>8. Cardinality(DOMAIN room) \in Nat
  BY <1>5, FS_CardinalityType
<1> QED
  BY <1>5, <1>6, <1>7, <1>8

(* Every step keeps the types.                                             *)
LEMMA TypeStep == TypeOK /\ AssetKnown /\ [Next]_vars => TypeOK'
<1> SUFFICES ASSUME TypeOK, AssetKnown, [Next]_vars PROVE TypeOK'
  OBVIOUS
<1>t. \A p \in Requests : req[p] \in Request
  BY DEF TypeOK
<1>1. CASE Tick
  <2>1. clock' \in 0 .. MaxTime
    BY <1>1 DEF Tick, TypeOK
  <2>2. past' \in [0 .. MaxTime -> SUBSET World]
    BY <1>1 DEF Tick, TypeOK
  <2> QED
    BY <1>1, <2>1, <2>2 DEF Tick, TypeOK
<1>2. CASE Reset \/ Imported
  <2>1. \A b \in BOOLEAN : [catalog EXCEPT !.importing = b] \in World
    BY DEF TypeOK, World
  <2> QED
    BY <1>2, <2>1, BecomesTyped DEF Reset, Imported
<1>3. ASSUME NEW id \in Ids, NEW rating \in Ratings \cup {NoTitle}, Rate(id, rating) PROVE TypeOK'
  <2> DEFINE rated == [catalog.rating EXCEPT ![id] = rating]
  <2>4. catalog \in World /\ catalog.rating \in [Ids -> Ratings \cup {NoTitle}]
    BY DEF TypeOK, World
  <2>1. catalog \in World /\ rated \in [Ids -> Ratings \cup {NoTitle}]
    BY <2>4
  <2>2. [catalog EXCEPT !.rating = rated] \in World
    BY <2>1 DEF World
  <2>3. [catalog EXCEPT !.rating[id] = rating] = [catalog EXCEPT !.rating = rated]
    BY Zenon
  <2> QED
    BY <1>3, <2>2, <2>3, BecomesTyped DEF Rate
<1>4. ASSUME NEW a \in Assets, AddAsset(a) \/ RemoveAsset(a) PROVE TypeOK'
  <2>1. /\ [catalog EXCEPT !.there = @ \cup {a}] \in World
        /\ [catalog EXCEPT !.there = @ \ {a}] \in World
    BY DEF TypeOK, World
  <2> QED
    BY <1>4, <2>1, BecomesTyped DEF AddAsset, RemoveAsset
<1>5. ASSUME NEW p \in Requests, NEW route \in Routes, NEW want \in Wants[route],
             BeginUncapped(p, route, want)
      PROVE  TypeOK'
  <2> DEFINE r == [Idle EXCEPT !.route = route, !.ids = want, !.known = want]
  <2>1. want \in SUBSET Ids
    OBVIOUS
  <2>2. r \in Request
    BY <2>1 DEF Idle, Request, Phases, Routes, Viewers, Codes
  <2>3. Answered(r, 200) \in Request
    BY <2>2, AnsweredTyped DEF Codes
  <2> QED
    BY <1>5, <2>3, BeginTyped DEF BeginUncapped
<1>6. ASSUME NEW p \in Requests, NEW route \in Routes, NEW want \in Wants[route], NEW cap \in Caps,
             BeginCapped(p, route, cap, want)
      PROVE  TypeOK'
  <2> DEFINE r == New(route, cap, want)
  <2>1. r \in Request
    BY NewTyped DEF Viewers
  <2>2. [r EXCEPT !.phase = "looking"] \in Request
    BY <2>1, SetPhase DEF Phases
  <2> QED
    BY <1>6, <2>2, BeginTyped DEF BeginCapped
<1>7. ASSUME NEW p \in Requests, NEW want \in Wants["available"], BeginHeld(p, want) PROVE TypeOK'
  <2> DEFINE r == New("available", Uncapped, want)
             s == [r EXCEPT !.phase = "holding"]
  <2>1. want \in SUBSET Ids /\ "available" \in Routes
    BY DEF Routes
  <2>2. r \in Request
    BY <2>1, NewTyped DEF Viewers
  <2>3. s \in Request
    BY <2>2, SetPhase DEF Phases
  <2>4. [s EXCEPT !.ask = want] \in Request
    BY <2>1, <2>3, SetAsk
  <2>5. [r EXCEPT !.phase = "holding", !.ask = want] = [s EXCEPT !.ask = want]
    BY Zenon
  <2> QED
    BY <1>7, <2>4, <2>5, BeginTyped DEF BeginHeld
<1>8. ASSUME NEW p \in Requests, NEW cap \in Caps, NEW a \in Assets, BeginAsset(p, cap, a) PROVE TypeOK'
  <2> DEFINE r == New("asset", cap, {})
             s == [r EXCEPT !.phase = "finding"]
  <2>1. r \in Request
    BY NewTyped DEF Viewers, Routes
  <2>2. s \in Request
    BY <2>1, SetPhase DEF Phases
  <2>3. [s EXCEPT !.asset = a] \in Request
    BY <2>2, SetAsset
  <2>4. [r EXCEPT !.phase = "finding", !.asset = a] = [s EXCEPT !.asset = a]
    BY Zenon
  <2> QED
    BY <1>8, <2>3, <2>4, BeginTyped DEF BeginAsset
<1>9. ASSUME NEW p \in Requests, NEW id \in Ids, HoldOne(p, id) PROVE TypeOK'
  <2> DEFINE known == IF Shown(catalog, Uncapped, id) THEN req[p].known \cup {id} ELSE req[p].known
             r == [req[p] EXCEPT !.ask = @ \ {id}]
             s == [req[p] EXCEPT !.ask = @ \ {id}, !.known = known]
  <2>1. r \in Request
    BY <1>t, FieldsTyped, SetAsk
  <2>2. known \in SUBSET Ids
    BY <1>t, FieldsTyped
  <2>3. [r EXCEPT !.known = known] \in Request
    BY <2>1, <2>2, SetKnown
  <2>4. s = [r EXCEPT !.known = known]
    BY Zenon
  <2>5. Move(p, IF s.ask = {} THEN Decided(s) ELSE s)
    BY <1>9 DEF HoldOne
  <2> QED
    BY <2>3, <2>4, <2>5, DecidedTyped, MoveTyped
<1>10. ASSUME NEW p \in Requests, Find(p) PROVE TypeOK'
  <2> DEFINE r == req[p]
  <2>1. [r EXCEPT !.phase = "asking title"] \in Request
    BY <1>t, SetPhase DEF Phases
  <2>2. ASSUME Fresh(asset, r.asset, r.now) PROVE Found(r, asset[r.asset].item) \in Request
    <3>1. asset[r.asset].item \in Ids \cup {NoTitle}
      BY <2>2 DEF Fresh, TypeOK, Item
    <3> QED
      BY <1>t, <3>1, FoundTyped
  <2>3. Move(p, IF Fresh(asset, r.asset, r.now) THEN Found(r, asset[r.asset].item)
                ELSE [r EXCEPT !.phase = "asking title"])
    BY <1>10 DEF Find
  <2> QED
    BY <2>1, <2>2, <2>3, MoveTyped
<1>11. ASSUME NEW p \in Requests, AskTitle(p) PROVE TypeOK'
  <2> DEFINE r == req[p]
             item == IF HasAsset(catalog, r.asset) THEN Home[r.asset] ELSE NoTitle
             s == [r EXCEPT !.phase = "keeping title"]
  <2>1. s \in Request
    BY <1>t, SetPhase DEF Phases
  <2>2. item \in Ids \cup {NoTitle}
    BY DEF HasAsset, TypeOK, World
  <2>3. [s EXCEPT !.item = item] \in Request
    BY <2>1, <2>2, SetItem
  <2>4. [r EXCEPT !.phase = "keeping title", !.item = item] = [s EXCEPT !.item = item]
    BY Zenon
  <2>5. Move(p, [r EXCEPT !.phase = "keeping title", !.item = item])
    BY <1>11 DEF AskTitle
  <2> QED
    BY <2>3, <2>4, <2>5, MoveTyped
<1>12. ASSUME NEW p \in Requests, KeepTitle(p) PROVE TypeOK'
  <2> DEFINE r == req[p]
             a == [item |-> r.item, until |-> Until(r, AssetTTL)]
  <2>1. r.asset \in Assets
    BY <1>12 DEF KeepTitle, AssetKnown, Knows
  <2>2. a \in Item
    BY <1>t, FieldsTyped DEF Item, Until
  <2>3. asset' = Keep(asset, r.asset, a, r.now) /\ Step(p, Found(r, r.item)) /\ UNCHANGED <<visible, mu>>
    BY <1>12 DEF KeepTitle
  <2>4. DOMAIN asset' \subseteq Assets /\ \A b \in DOMAIN asset' : asset'[b] \in Item
    BY <2>1, <2>2, <2>3, KeepKnows DEF TypeOK
  <2>5. Found(r, r.item) \in Request
    BY <1>t, FieldsTyped, FoundTyped
  <2>6. req' \in [Requests -> Request]
    BY <2>3, <2>5, ReqTyped DEF Step
  <2> QED
    BY <2>3, <2>4, <2>6 DEF Step, TypeOK
<1>13. ASSUME NEW p \in Requests, Call(p) PROVE TypeOK'
  <2> DEFINE r == req[p]
             s == [r EXCEPT !.phase = "looking"]
             t == [s EXCEPT !.ids = {r.item}]
  <2>1. s \in Request
    BY <1>t, SetPhase DEF Phases
  <2>2. r.item \in Ids
    BY <1>13 DEF Call, AssetKnown, Knows
  <2>7. {r.item} \in SUBSET Ids /\ clock \in Nat
    BY <2>2 DEF TypeOK
  <2>3. t \in Request
    BY <2>1, <2>7, SetIds
  <2>4. [t EXCEPT !.now = clock] \in Request
    BY <2>7, <2>3, SetNow
  <2>5. [r EXCEPT !.phase = "looking", !.ids = {r.item}, !.now = clock] = [t EXCEPT !.now = clock]
    BY Zenon
  <2>6. Move(p, [r EXCEPT !.phase = "looking", !.ids = {r.item}, !.now = clock])
    BY <1>13 DEF Call
  <2> QED
    BY <2>4, <2>5, <2>6, MoveTyped
<1>14. ASSUME NEW p \in Requests, Look(p) PROVE TypeOK'
  <2> DEFINE r == req[p]
             kept == {id \in r.ids : Fresh(visible, Key(r.cap, id), r.now)}
             known == {id \in kept : visible[Key(r.cap, id)].visible}
             ask == r.ids \ kept
             t == [r EXCEPT !.known = known]
             s == [r EXCEPT !.known = known, !.ask = ask]
  <2>1. known \in SUBSET Ids /\ ask \in SUBSET Ids
    BY <1>t, FieldsTyped
  <2>2. t \in Request
    BY <1>t, <2>1, SetKnown
  <2>3. [t EXCEPT !.ask = ask] \in Request
    BY <2>1, <2>2, SetAsk
  <2>4. s = [t EXCEPT !.ask = ask]
    BY Zenon
  <2>5. s \in Request
    BY <2>3, <2>4
  <2>6. [s EXCEPT !.phase = "asking"] \in Request
    BY <2>5, SetPhase DEF Phases
  <2>7. Move(p, IF s.ask = {} THEN Decided(s) ELSE [s EXCEPT !.phase = "asking"])
    BY <1>14 DEF Look
  <2> QED
    BY <2>5, <2>6, <2>7, DecidedTyped, MoveTyped
<1>15. ASSUME NEW p \in Requests, NEW batch \in SUBSET Ids, AskVisible(p, batch) PROVE TypeOK'
  <2> DEFINE r == req[p]
             reply == {id \in batch : Shown(catalog, r.cap, id)}
             s == [r EXCEPT !.phase = "locking"]
             t == [s EXCEPT !.batch = batch]
             u == [t EXCEPT !.ask = @ \ batch]
             new == [r EXCEPT !.phase = "locking", !.batch = batch, !.ask = @ \ batch, !.reply = reply]
  <2>1. s \in Request
    BY <1>t, SetPhase DEF Phases
  <2>2. t \in Request
    BY <2>1, SetBatch
  <2>3. u \in Request
    BY <2>2, SetAsk, FieldsTyped
  <2>4. reply \in SUBSET Ids
    OBVIOUS
  <2>5. [u EXCEPT !.reply = reply] \in Request
    BY <2>3, <2>4, SetReply
  <2>6. new = [u EXCEPT !.reply = reply]
    BY Zenon
  <2>7. Move(p, new)
    BY <1>15 DEF AskVisible
  <2> QED
    BY <2>5, <2>6, <2>7, MoveTyped
<1>16. ASSUME NEW p \in Requests, Lock(p) PROVE TypeOK'
  <2>1. [req[p] EXCEPT !.phase = "keeping"] \in Request
    BY <1>t, SetPhase DEF Phases
  <2>2. req' \in [Requests -> Request]
    BY <1>16, <2>1, ReqTyped DEF Lock, Step
  <2> QED
    BY <1>16, <2>2 DEF Lock, Step, TypeOK
<1>17. ASSUME NEW p \in Requests, NEW id \in Ids, KeepVisible(p, id) PROVE TypeOK'
  <2> DEFINE r == req[p]
             t == [r EXCEPT !.batch = @ \ {id}]
             s == [r EXCEPT !.batch = @ \ {id}, !.known = @ \cup ({id} \cap r.reply)]
             new == IF s.batch # {} THEN s
                    ELSE IF s.ask # {} THEN [s EXCEPT !.phase = "asking"] ELSE Decided(s)
             k == Key(r.cap, id)
             a == [visible |-> id \in r.reply, until |-> Until(r, VisibleTTL)]
  <2>1. t \in Request
    BY <1>t, FieldsTyped, SetBatch
  <2>13. \A u \in Request : [u EXCEPT !.known = @ \cup ({id} \cap r.reply)] \in Request
    BY FieldsTyped, SetKnown
  <2>2. [t EXCEPT !.known = @ \cup ({id} \cap r.reply)] \in Request
    BY <2>1, <2>13
  <2>3. s = [t EXCEPT !.known = @ \cup ({id} \cap r.reply)]
    BY Zenon
  <2>4. s \in Request
    BY <2>2, <2>3
  <2>5. [s EXCEPT !.phase = "asking"] \in Request
    BY <2>4, SetPhase DEF Phases
  <2>6. new \in Request
    BY <2>4, <2>5, DecidedTyped
  <2>7. Step(p, new) /\ visible' = Keep(visible, k, a, r.now)
    BY <1>17 DEF KeepVisible
  <2>8. req' \in [Requests -> Request]
    BY <2>6, <2>7, ReqTyped DEF Step
  <2>9. a \in Visible
    BY <1>t, FieldsTyped DEF Visible, Until
  <2>10. k \in Caps \X Ids
    BY <1>17 DEF KeepVisible, AssetKnown, Knows, Key
  <2>11. DOMAIN visible' \subseteq Caps \X Ids /\ \A j \in DOMAIN visible' : visible'[j] \in Visible
    <3>1. DOMAIN visible \subseteq Caps \X Ids /\ \A j \in DOMAIN visible : visible[j] \in Visible
      BY DEF TypeOK
    <3>2. visible' = Keep(visible, k, a, r.now)
      BY <2>7
    <3> HIDE DEF k, a, r
    <3>3. ASSUME NEW j \in DOMAIN visible' PROVE j \in Caps \X Ids /\ visible'[j] \in Visible
      <4>1. j = k => visible'[j] = a
        BY <3>2, <3>3, KeepKnows
      <4>2. j # k => j \in DOMAIN visible /\ visible'[j] = visible[j]
        BY <3>2, <3>3, KeepKnows
      <4> QED
        BY <4>1, <4>2, <3>1, <2>9, <2>10
    <3> QED
      BY <3>3
  <2>12. mu' \in Requests \cup {NoOne} /\ asset' = asset
    BY <1>17 DEF KeepVisible
  <2> QED
    BY <2>7, <2>8, <2>11, <2>12 DEF Step, TypeOK
<1>18. ASSUME NEW p \in Requests, CountAll(p) PROVE TypeOK'
  <2> DEFINE shown == {id \in Ids : Shown(catalog, req[p].cap, id)}
             r == Answered(req[p], 200)
  <2>1. Titles(catalog, req[p].cap) \in Nat
    BY FS_Subset, FS_CardinalityType, shown \subseteq Ids DEF Titles
  <2>2. r \in Request
    BY <1>t, AnsweredTyped DEF Codes
  <2>3. [r EXCEPT !.titles = Titles(catalog, req[p].cap)] \in Request
    BY <2>1, <2>2, SetTitles
  <2> QED
    BY <1>18, <2>3, MoveTyped DEF CountAll
<1>19. ASSUME NEW p \in Requests, Fail(p) PROVE TypeOK'
  <2> DEFINE r == [req[p] EXCEPT !.known = {}]
  <2>1. r \in Request
    BY <1>t, SetKnown
  <2>2. Answered(r, 502) \in Request
    BY <2>1, AnsweredTyped DEF Codes
  <2> QED
    BY <1>19, <2>2, MoveTyped DEF Fail
<1>20. CASE UNCHANGED vars
  BY <1>20 DEF vars, TypeOK
<1> QED
  BY <1>1, <1>2, <1>3, <1>4, <1>5, <1>6, <1>7, <1>8, <1>9, <1>10, <1>11, <1>12, <1>13, <1>14,
     <1>15, <1>16, <1>17, <1>18, <1>19, <1>20 DEF Next

-----------------------------------------------------------------------------
(* The invariant.  A request that decides knows, of what it need not ask   *)
(* about any more, what was so less than visibleTTL before it began.       *)
Deciding(r) == r.phase \in {"asking", "locking", "keeping", "holding", "counting"} \/ DecidedFor(r)

Rightly(r) ==
  /\ \A id \in r.known : SeenShown(r.cap, id, r.now - VisibleTTL)
  /\ \A id \in r.ids \ (r.known \cup r.ask \cup r.batch) : SeenHidden(r.cap, id, r.now - VisibleTTL)

Replied(r) ==
  \A id \in r.batch : IF id \in r.reply THEN SeenShown(r.cap, id, r.now - 1)
                                      ELSE SeenHidden(r.cap, id, r.now - 1)

(* What a request for an asset knows of it, at each phase.                 *)
OfItsTitle(r) == r.ids = {Home[r.asset]} /\ SeenThere(r.asset, r.since - AssetTTL)

Asked(r) ==
  IF r.item = NoTitle THEN SeenMissing(r.asset, r.since - 1)
  ELSE r.item = Home[r.asset] /\ SeenThere(r.asset, r.since - 1)

Shaped(r) ==
  /\ Knows(r)
  /\ r.phase \notin {"locking", "keeping"} => r.batch = {}
  /\ r.phase \notin {"asking", "locking", "keeping", "holding"} => r.ask = {}
  /\ r.phase = "holding" => r.cap = Uncapped
  /\ r.phase \in {"finding", "asking title", "keeping title"} =>
       r.now = r.since /\ r.ids = {} /\ r.known = {}
  /\ r.phase \in {"finding", "asking title", "keeping title", "calling"} => r.route = "asset"

Founded(r) ==
  /\ r.phase = "keeping title" => Asked(r)
  /\ r.phase = "calling" => r.item = Home[r.asset] /\ SeenThere(r.asset, r.since - AssetTTL)
  /\ Deciding(r) => Rightly(r) /\ Replied(r)
  /\ r.route = "asset" /\ (r.phase = "looking" \/ (Deciding(r) /\ r.phase # "answered")) => OfItsTitle(r)
  /\ r.route = "asset" /\ DecidedFor(r) => AsItsTitle(r)

Right(r) == Shaped(r) /\ r.since <= clock /\ r.now <= clock /\ Founded(r)

(* What is kept was so when it was asked for, and not earlier than its     *)
(* lifetime before it expires.                                             *)
VisibleRight ==
  \A k \in DOMAIN visible :
    IF visible[k].visible THEN SeenShown(k[1], k[2], visible[k].until - VisibleTTL - 1)
    ELSE SeenHidden(k[1], k[2], visible[k].until - VisibleTTL - 1)

AssetRight ==
  \A a \in DOMAIN asset :
    IF asset[a].item = NoTitle THEN SeenMissing(a, asset[a].until - AssetTTL - 1)
    ELSE asset[a].item = Home[a] /\ SeenThere(a, asset[a].until - AssetTTL - 1)

KeptInv ==
  /\ TypeOK
  /\ catalog \in past[clock]
  /\ VisibleRight
  /\ AssetRight
  /\ \A p \in Requests : Right(req[p])

-----------------------------------------------------------------------------
(* The past.                                                               *)
LEMMA SeenLonger ==
  ASSUME TypeOK, NEW s \in Int, NEW t \in Int, t <= s, NEW cap, NEW id
  PROVE  /\ SeenShown(cap, id, s) => SeenShown(cap, id, t)
         /\ SeenHidden(cap, id, s) => SeenHidden(cap, id, t)
         /\ SeenThere(id, s) => SeenThere(id, t)
         /\ SeenMissing(id, s) => SeenMissing(id, t)
<1>1. \A v \in 0 .. clock : v > s => v > t
  BY DEF TypeOK
<1>2. Since(s) \subseteq Since(t)
  BY <1>1 DEF Since
<1> QED
  BY <1>2 DEF SeenShown, SeenHidden, SeenThere, SeenMissing

LEMMA SeenNow ==
  ASSUME TypeOK, catalog \in past[clock], NEW t \in Int, t < clock
  PROVE  catalog \in Since(t)
<1>1. clock \in 0 .. clock /\ clock > t
  BY DEF TypeOK
<1> QED
  BY <1>1 DEF Since

(* What was seen stays seen, while time and the catalog go on.             *)
LEMMA SeenStays ==
  ASSUME TypeOK, Tick \/ (\E w \in World : Becomes(w)), NEW t
  PROVE  Since(t) \subseteq Since(t)'
<1> clock \in 0 .. MaxTime /\ MaxTime \in Nat /\ DOMAIN past = 0 .. MaxTime
  BY BoundsAssumption DEF TypeOK
<1>1. clock <= clock' /\ clock' \in Nat /\ \A u \in 0 .. clock : past[u] \subseteq past'[u]
  <2>1. CASE Tick
    BY <2>1 DEF Tick
  <2>2. CASE \E w \in World : Becomes(w)
    BY <2>2 DEF Becomes
  <2> QED
    BY <2>1, <2>2
<1>2. \A u \in 0 .. clock : u \in 0 .. clock'
  BY <1>1 DEF TypeOK
<1> QED
  BY <1>1, <1>2 DEF Since

LEMMA RightStays ==
  ASSUME TypeOK, Tick \/ (\E w \in World : Becomes(w)), NEW p \in Requests, Right(req[p])
  PROVE  Right(req[p])'
<1> DEFINE r == req[p]
<1>1. \A t : Since(t) \subseteq Since(t)'
  BY SeenStays
<1>2. req' = req /\ r \in Request
  BY DEF TypeOK, Tick, Becomes
<1>3. clock \in Nat /\ clock' \in Nat /\ clock <= clock'
  BY DEF TypeOK, Tick, Becomes
<1>4. r.since <= clock /\ r.now <= clock /\ Shaped(r) /\ Founded(r)
  BY DEF Right
<1>5. r.since <= clock' /\ r.now <= clock'
  BY <1>2, <1>3, <1>4, FieldsTyped
<1>6. Rightly(req[p]) => Rightly(req[p])'
  BY <1>1, <1>2 DEF Rightly, SeenShown, SeenHidden
<1>7. Replied(req[p]) => Replied(req[p])'
  BY <1>1, <1>2 DEF Replied, SeenShown, SeenHidden
<1>8. OfItsTitle(req[p]) => OfItsTitle(req[p])'
  BY <1>1, <1>2 DEF OfItsTitle, SeenThere
<1>9. Asked(req[p]) => Asked(req[p])'
  BY <1>1, <1>2 DEF Asked, SeenThere, SeenMissing
<1>10. AsItsTitle(req[p]) => AsItsTitle(req[p])'
  BY <1>1, <1>2 DEF AsItsTitle, SeenThere, SeenMissing
<1>11. SeenThere(req[p].asset, req[p].since - AssetTTL) => SeenThere(req[p].asset, req[p].since - AssetTTL)'
  BY <1>1, <1>2 DEF SeenThere
<1>12. (Deciding(req[p])' <=> Deciding(req[p])) /\ (DecidedFor(req[p])' <=> DecidedFor(req[p]))
  BY <1>2 DEF Deciding, DecidedFor
<1>13. Founded(req[p])'
  BY <1>2, <1>4, <1>6, <1>7, <1>8, <1>9, <1>10, <1>11, <1>12, Zenon DEF Founded
<1>14. Shaped(req[p])'
  BY <1>2, <1>4 DEF Shaped, Knows
<1> QED
  BY <1>2, <1>5, <1>13, <1>14 DEF Right

(* So a step that keeps time and the catalog need only be right about the  *)
(* requests and the tables.                                                *)
LEMMA RequestsRight ==
  ASSUME UNCHANGED <<clock, past>>, \A q \in Requests : Right(req'[q])
  PROVE  \A q \in Requests : Right(req[q])'
<1>1. \A t : Since(t)' = Since(t)
  BY DEF Since
<1>2. ASSUME NEW p \in Requests PROVE Right(req[p])'
  <2> DEFINE r == req'[p]
  <2>1. Rightly(req[p])' <=> Rightly(r)
    BY <1>1 DEF Rightly, SeenShown, SeenHidden
  <2>2. Replied(req[p])' <=> Replied(r)
    BY <1>1 DEF Replied, SeenShown, SeenHidden
  <2>3. OfItsTitle(req[p])' <=> OfItsTitle(r)
    BY <1>1 DEF OfItsTitle, SeenThere
  <2>4. Asked(req[p])' <=> Asked(r)
    BY <1>1 DEF Asked, SeenThere, SeenMissing
  <2>5. AsItsTitle(req[p])' <=> AsItsTitle(r)
    BY <1>1 DEF AsItsTitle, SeenThere, SeenMissing
  <2>6. SeenThere(req[p].asset, req[p].since - AssetTTL)' <=> SeenThere(r.asset, r.since - AssetTTL)
    BY <1>1 DEF SeenThere
  <2>7. (Deciding(req[p])' <=> Deciding(r)) /\ (DecidedFor(req[p])' <=> DecidedFor(r))
    BY DEF Deciding, DecidedFor
  <2>8. Founded(req[p])' <=> Founded(r)
    BY <2>1, <2>2, <2>3, <2>4, <2>5, <2>6, <2>7, Zenon DEF Founded
  <2>9. Shaped(req[p])' <=> Shaped(r)
    BY DEF Shaped, Knows
  <2>10. Right(r) /\ clock' = clock
    OBVIOUS
  <2> QED
    BY <2>8, <2>9, <2>10 DEF Right
<1> QED
  BY <1>2

LEMMA RestRight ==
  ASSUME KeptInv, TypeOK', UNCHANGED <<clock, catalog, visible, asset, past>>,
         \A q \in Requests : Right(req'[q])
  PROVE  KeptInv'
<1>1. \A t : Since(t)' = Since(t)
  BY DEF Since
<1>3. VisibleRight'
  BY <1>1 DEF KeptInv, VisibleRight, SeenShown, SeenHidden
<1>4. AssetRight'
  BY <1>1 DEF KeptInv, AssetRight, SeenThere, SeenMissing
<1> QED
  BY <1>3, <1>4, RequestsRight DEF KeptInv

-----------------------------------------------------------------------------
(* A request that decides: what is known of it carries over.               *)
LEMMA RightlySame ==
  ASSUME NEW r, NEW s, Rightly(r), s.cap = r.cap, s.now = r.now, s.known = r.known, s.ids = r.ids,
         s.ask = r.ask, s.batch = r.batch
  PROVE  Rightly(s)
BY DEF Rightly

LEMMA AnsweredFields ==
  ASSUME NEW r \in Request, NEW code
  PROVE  /\ Answered(r, code).phase = "answered" /\ Answered(r, code).code = code
         /\ Answered(r, code).ask = {} /\ Answered(r, code).batch = {}
         /\ Answered(r, code).route = r.route /\ Answered(r, code).cap = r.cap
         /\ Answered(r, code).asset = r.asset /\ Answered(r, code).item = r.item
         /\ Answered(r, code).ids = r.ids /\ Answered(r, code).since = r.since
         /\ Answered(r, code).now = r.now /\ Answered(r, code).known = r.known
BY DEF Answered, Request

(* An answer of what is allowed, or an error, is right.                    *)
LEMMA AnsweredRight ==
  ASSUME TypeOK, NEW r \in Request, NEW code \in Codes, r.since <= clock, r.now <= clock,
         code # 502 /\ (r.cap # Uncapped \/ r.route = "available") =>
           /\ r.ask = {} /\ r.batch = {} /\ Rightly(r)
           /\ r.route = "asset" => OfItsTitle(r) \/ (code = 404 /\ SeenMissing(r.asset, r.since - AssetTTL))
  PROVE  Right(Answered(r, code))
<1> DEFINE a == Answered(r, code)
<1>1. /\ a.phase = "answered" /\ a.code = code /\ a.ask = {} /\ a.batch = {}
      /\ a.route = r.route /\ a.cap = r.cap /\ a.asset = r.asset /\ a.item = r.item
      /\ a.ids = r.ids /\ a.since = r.since /\ a.now = r.now /\ a.known = r.known
  BY AnsweredFields
<1> HIDE DEF a
<1>2. Shaped(a)
  BY <1>1 DEF Shaped, Knows
<1>3. Deciding(a) <=> code # 502 /\ (r.cap # Uncapped \/ r.route = "available")
  BY <1>1 DEF Deciding, DecidedFor
<1>4. Deciding(a) => Rightly(a) /\ Replied(a)
  <2>1. SUFFICES ASSUME Deciding(a) PROVE Rightly(a) /\ Replied(a)
    OBVIOUS
  <2>2. Rightly(r) /\ a.ask = r.ask /\ a.batch = r.batch
    BY <1>1, <1>3, <2>1
  <2>3. Rightly(a)
    BY <1>1, <2>2, RightlySame
  <2> QED
    BY <1>1, <2>3 DEF Replied
<1>5. Deciding(a) /\ a.route = "asset" => AsItsTitle(a)
  BY <1>1, <1>3 DEF AsItsTitle, OfItsTitle
<1>6. DecidedFor(a) => Deciding(a)
  BY DEF Deciding
<1>7. Founded(a)
  BY <1>1, <1>4, <1>5, <1>6 DEF Founded
<1> QED
  BY <1>1, <1>2, <1>7 DEF Right, a

LEMMA DecidedRight ==
  ASSUME TypeOK, NEW r \in Request, r.since <= clock, r.now <= clock, r.ask = {}, r.batch = {},
         Rightly(r), r.route = "asset" => OfItsTitle(r)
  PROVE  Right(Decided(r))
<1>1. CASE ~(r.route = "available" /\ r.known = {})
  <2>1. \E code \in {200, 404} : Decided(r) = Answered(r, code)
    BY <1>1 DEF Decided
  <2>2. \A code \in {200, 404} : Right(Answered(r, code))
    BY AnsweredRight DEF Codes
  <2> QED
    BY <2>1, <2>2
<1>2. CASE r.route = "available" /\ r.known = {}
  <2> DEFINE c == [r EXCEPT !.phase = "counting"]
  <2>1. Decided(r) = c
    BY <1>2 DEF Decided
  <2>2. /\ c.phase = "counting" /\ c.route = r.route /\ c.cap = r.cap /\ c.ids = r.ids
        /\ c.since = r.since /\ c.now = r.now /\ c.known = r.known /\ c.ask = r.ask
        /\ c.batch = r.batch
    BY DEF Request
  <2> HIDE DEF c
  <2>3. Shaped(c)
    BY <2>2 DEF Shaped, Knows
  <2>4. Rightly(c) /\ Replied(c)
    BY <2>2, RightlySame DEF Replied
  <2>5. Founded(c)
    BY <1>2, <2>2, <2>4 DEF Founded, DecidedFor
  <2> QED
    BY <2>1, <2>2, <2>3, <2>5 DEF Right
<1> QED
  BY <1>1, <1>2

(* What a request is begun with is right.                                  *)
LEMMA NewFields ==
  ASSUME NEW route, NEW cap, NEW want
  PROVE  /\ New(route, cap, want).route = route /\ New(route, cap, want).cap = cap
         /\ New(route, cap, want).ids = want /\ New(route, cap, want).since = clock
         /\ New(route, cap, want).now = clock /\ New(route, cap, want).known = {}
         /\ New(route, cap, want).ask = {} /\ New(route, cap, want).batch = {}
BY DEF New, Idle

LEMMA BeginRight ==
  ASSUME KeptInv, NEW p \in Requests, NEW r \in Request, Begin(p, r), Right(r)
  PROVE  KeptInv'
<1>1. UNCHANGED <<clock, catalog, visible, asset, past>> /\ req' = [req EXCEPT ![p] = r]
  BY DEF Begin
<1>2. TypeOK'
  BY BeginTyped DEF KeptInv
<1>3. \A q \in Requests : Right(req'[q])
  BY <1>1 DEF KeptInv, TypeOK
<1> QED
  BY <1>1, <1>2, <1>3, RestRight

LEMMA BeginSteps ==
  ASSUME KeptInv, NEW p \in Requests,
         \/ \E route \in Routes : \E want \in Wants[route] :
              BeginUncapped(p, route, want) \/ \E cap \in Caps : BeginCapped(p, route, cap, want)
         \/ \E want \in Wants["available"] : BeginHeld(p, want)
         \/ \E cap \in Caps, a \in Assets : BeginAsset(p, cap, a)
  PROVE  KeptInv'
<1>t. TypeOK /\ clock \in Nat
  BY DEF KeptInv, TypeOK
<1>1. ASSUME NEW route \in Routes, NEW want \in Wants[route], BeginUncapped(p, route, want)
      PROVE  KeptInv'
  <2> DEFINE r == [Idle EXCEPT !.route = route, !.ids = want, !.known = want]
  <2>1. r \in Request
    BY want \in SUBSET Ids DEF Idle, Request, Phases, Routes, Viewers, Codes
  <2>2. r.cap = Uncapped /\ r.route = route /\ r.since = 0 /\ r.now = 0
    BY DEF Idle
  <2>3. route # "available" /\ Begin(p, Answered(r, 200))
    BY <1>1 DEF BeginUncapped
  <2>6. 200 \in Codes /\ r.since <= clock /\ r.now <= clock
    BY <1>t, <2>2 DEF Codes
  <2> HIDE DEF r
  <2>4. Right(Answered(r, 200))
    BY <1>t, <2>1, <2>2, <2>3, <2>6, AnsweredRight
  <2>5. Answered(r, 200) \in Request
    BY <2>1, <2>6, AnsweredTyped
  <2> QED
    BY <2>3, <2>4, <2>5, BeginRight
<1>2. ASSUME NEW route \in Routes, NEW want \in Wants[route], NEW cap \in Caps,
             BeginCapped(p, route, cap, want)
      PROVE  KeptInv'
  <2> DEFINE n == New(route, cap, want)
             r == [n EXCEPT !.phase = "looking"]
  <2>1. n \in Request
    BY <1>t, NewTyped DEF Viewers
  <2>2. r \in Request
    BY <2>1, SetPhase DEF Phases
  <2>3. /\ r.phase = "looking" /\ r.route = route /\ r.cap = cap /\ r.since = clock /\ r.now = clock
        /\ r.batch = {} /\ r.ask = {}
    BY <2>1, NewFields DEF Request
  <2>4. route # "asset" /\ Begin(p, r)
    BY <1>2 DEF BeginCapped
  <2> HIDE DEF r
  <2>5. Shaped(r) /\ Founded(r)
    BY <2>3, <2>4 DEF Shaped, Knows, Founded, Deciding, DecidedFor
  <2> QED
    BY <1>t, <2>2, <2>3, <2>4, <2>5, BeginRight DEF Right
<1>3. ASSUME NEW want \in Wants["available"], BeginHeld(p, want) PROVE KeptInv'
  <2> DEFINE n == New("available", Uncapped, want)
             s == [n EXCEPT !.phase = "holding"]
             r == [s EXCEPT !.ask = want]
  <2>1. want \in SUBSET Ids /\ "available" \in Routes
    BY DEF Routes
  <2>2. n \in Request
    BY <1>t, <2>1, NewTyped DEF Viewers
  <2>3. s \in Request
    BY <2>2, SetPhase DEF Phases
  <2>4. r \in Request
    BY <2>1, <2>3, SetAsk
  <2>5. r = [n EXCEPT !.phase = "holding", !.ask = want]
    BY Zenon
  <2>6. /\ s.phase = "holding" /\ s.route = "available" /\ s.cap = Uncapped /\ s.since = clock
        /\ s.now = clock /\ s.batch = {} /\ s.known = {} /\ s.ids = want
    BY <2>2, NewFields DEF Request
  <2>7. /\ r.phase = "holding" /\ r.route = "available" /\ r.cap = Uncapped /\ r.since = clock
        /\ r.now = clock /\ r.batch = {} /\ r.known = {} /\ r.ids = want /\ r.ask = want
    BY <2>3, <2>6 DEF Request
  <2>8. Begin(p, r)
    BY <1>3, <2>5 DEF BeginHeld
  <2> HIDE DEF r
  <2>9. Rightly(r) /\ Replied(r)
    BY <2>7 DEF Rightly, Replied
  <2>10. Shaped(r) /\ Founded(r)
    BY <2>7, <2>9 DEF Shaped, Knows, Founded
  <2> QED
    BY <1>t, <2>4, <2>7, <2>8, <2>10, BeginRight DEF Right
<1>4. ASSUME NEW cap \in Caps, NEW a \in Assets, BeginAsset(p, cap, a) PROVE KeptInv'
  <2> DEFINE n == New("asset", cap, {})
             s == [n EXCEPT !.phase = "finding"]
             r == [s EXCEPT !.asset = a]
  <2>1. n \in Request
    BY <1>t, NewTyped DEF Viewers, Routes
  <2>2. s \in Request
    BY <2>1, SetPhase DEF Phases
  <2>3. r \in Request
    BY <2>2, SetAsset
  <2>4. r = [n EXCEPT !.phase = "finding", !.asset = a]
    BY Zenon
  <2>5. /\ s.phase = "finding" /\ s.route = "asset" /\ s.cap = cap /\ s.since = clock /\ s.now = clock
        /\ s.batch = {} /\ s.ask = {} /\ s.ids = {} /\ s.known = {}
    BY <2>1, NewFields DEF Request
  <2>6. /\ r.ids = {} /\ r.known = {} /\ r.phase = "finding" /\ r.route = "asset" /\ r.cap = cap /\ r.since = clock /\ r.now = clock
        /\ r.batch = {} /\ r.ask = {} /\ r.asset = a
    BY <2>2, <2>5 DEF Request
  <2>7. Begin(p, r)
    BY <1>4, <2>4 DEF BeginAsset
  <2> HIDE DEF r
  <2>8. Shaped(r) /\ Founded(r)
    BY <2>6 DEF Shaped, Knows, Founded, Deciding, DecidedFor
  <2> QED
    BY <1>t, <2>3, <2>6, <2>7, <2>8, BeginRight DEF Right
<1> QED
  BY <1>1, <1>2, <1>3, <1>4

(* A request's step that leaves the tables.                                *)
LEMMA MoveRight ==
  ASSUME KeptInv, NEW p \in Requests, NEW r \in Request, Move(p, r), Right(r)
  PROVE  KeptInv'
<1>1. UNCHANGED <<clock, catalog, visible, asset, past>> /\ req' = [req EXCEPT ![p] = r]
  BY DEF Move, Step
<1>2. TypeOK'
  BY MoveTyped DEF KeptInv
<1>3. \A q \in Requests : Right(req'[q])
  BY <1>1 DEF KeptInv, TypeOK
<1> QED
  BY <1>1, <1>2, <1>3, RestRight

(* What katalog-api answers now is so now, after the request began.        *)
LEMMA AskedNow ==
  ASSUME KeptInv, NEW t \in Nat, t <= clock, NEW cap, NEW id
  PROVE  /\ IF Shown(catalog, cap, id) THEN SeenShown(cap, id, t - 1) ELSE SeenHidden(cap, id, t - 1)
         /\ IF HasAsset(catalog, id) THEN SeenThere(id, t - 1) ELSE SeenMissing(id, t - 1)
<1>1. t - 1 \in Int /\ t - 1 < clock /\ TypeOK /\ catalog \in past[clock]
  BY DEF KeptInv, TypeOK
<1>2. catalog \in Since(t - 1)
  BY <1>1, SeenNow
<1> QED
  BY <1>2 DEF SeenShown, SeenHidden, SeenThere, SeenMissing

(* And is still fresh when the lifetime is looked at.                      *)
LEMMA SeenFresh ==
  ASSUME TypeOK, NEW t \in Nat, NEW cap, NEW id
  PROVE  /\ SeenShown(cap, id, t - 1) => SeenShown(cap, id, t - VisibleTTL)
         /\ SeenHidden(cap, id, t - 1) => SeenHidden(cap, id, t - VisibleTTL)
         /\ SeenThere(id, t - 1) => SeenThere(id, t - AssetTTL)
         /\ SeenMissing(id, t - 1) => SeenMissing(id, t - AssetTTL)
<1>1. t - 1 \in Int /\ t - VisibleTTL \in Int /\ t - VisibleTTL <= t - 1
  OBVIOUS
<1>2. t - AssetTTL \in Int /\ t - AssetTTL <= t - 1
  OBVIOUS
<1> QED
  BY <1>1, <1>2, SeenLonger

(* A title found: its request goes on to ask whether it is visible.        *)
LEMMA FoundRight ==
  ASSUME TypeOK, NEW r \in Request, NEW item \in Ids \cup {NoTitle},
         r.phase \in {"finding", "keeping title"}, r.route = "asset", r.cap \in Caps,
         r.batch = {}, r.ask = {}, r.since <= clock, r.now <= clock, r.asset \in Assets,
         r.ids = {}, r.known = {},
         IF item = NoTitle THEN SeenMissing(r.asset, r.since - AssetTTL)
         ELSE item = Home[r.asset] /\ SeenThere(r.asset, r.since - AssetTTL)
  PROVE  Right(Found(r, item))
<1>1. CASE item = NoTitle
  <2> DEFINE s == [r EXCEPT !.item = item]
  <2>1. s \in Request
    BY SetItem
  <2>2. /\ s.asset = r.asset /\ s.cap = r.cap /\ s.batch = r.batch /\ s.ask = r.ask
        /\ s.now = r.now /\ s.since = r.since /\ s.route = r.route
        /\ s.ids = r.ids /\ s.known = r.known
    BY DEF Request
  <2>3. Found(r, item) = Answered(s, 404)
    BY <1>1 DEF Found
  <2> HIDE DEF s
  <2>4. Rightly(s)
    BY <1>1, <2>2 DEF Rightly
  <2>5. /\ 404 \in Codes /\ s.since <= clock /\ s.now <= clock /\ s.ask = {} /\ s.batch = {}
        /\ SeenMissing(s.asset, s.since - AssetTTL)
    BY <1>1, <2>2 DEF Codes
  <2>6. s.route = "asset" => SeenMissing(s.asset, s.since - AssetTTL)
    BY <2>5
  <2>7. Right(Answered(s, 404))
    BY <2>1, <2>4, <2>5, <2>6, AnsweredRight
  <2> QED
    BY <2>3, <2>7
<1>2. CASE item # NoTitle
  <2> DEFINE t == [r EXCEPT !.item = item]
             s == [t EXCEPT !.phase = "calling"]
  <2>1. t \in Request
    BY SetItem
  <2>2. /\ t.asset = r.asset /\ t.cap = r.cap /\ t.batch = r.batch /\ t.ask = r.ask
        /\ t.now = r.now /\ t.since = r.since /\ t.route = r.route /\ t.item = item
    BY DEF Request
  <2>3. /\ s.asset = r.asset /\ s.cap = r.cap /\ s.batch = r.batch /\ s.ask = r.ask
        /\ s.now = r.now /\ s.since = r.since /\ s.route = r.route /\ s.item = item
        /\ s.phase = "calling"
    BY <2>1, <2>2 DEF Request
  <2>4. Found(r, item) = s
    BY <1>2, Zenon DEF Found
  <2> HIDE DEF s
  <2>5. Shaped(s) /\ Founded(s)
    BY <1>2, <2>3 DEF Shaped, Knows, Founded, Deciding, DecidedFor
  <2> QED
    BY <2>3, <2>4, <2>5 DEF Right
<1> QED
  BY <1>1, <1>2

LEMMA HoldStep == ASSUME KeptInv, NEW p \in Requests, NEW id \in Ids, HoldOne(p, id) PROVE KeptInv'
<1> DEFINE r == req[p]
           known == IF Shown(catalog, Uncapped, id) THEN r.known \cup {id} ELSE r.known
           t == [r EXCEPT !.ask = @ \ {id}]
           s == [t EXCEPT !.known = known]
<1>1. TypeOK /\ r \in Request /\ Right(r)
  BY DEF KeptInv, TypeOK
<1>2. /\ r.phase = "holding" /\ id \in r.ask
      /\ Move(p, IF [r EXCEPT !.ask = @ \ {id}, !.known = known].ask = {}
                 THEN Decided([r EXCEPT !.ask = @ \ {id}, !.known = known])
                 ELSE [r EXCEPT !.ask = @ \ {id}, !.known = known])
  BY DEF HoldOne
<1>3. s = [r EXCEPT !.ask = @ \ {id}, !.known = known]
  BY Zenon
<1>4. t \in Request
  BY <1>1, FieldsTyped, SetAsk
<1>5. known \in SUBSET Ids
  BY <1>1, FieldsTyped
<1>6. s \in Request
  BY <1>4, <1>5, SetKnown
<1>7. /\ t.phase = r.phase /\ t.ask = r.ask \ {id} /\ t.route = r.route /\ t.cap = r.cap
      /\ t.asset = r.asset
      /\ t.ids = r.ids /\ t.since = r.since /\ t.now = r.now /\ t.batch = r.batch
  BY <1>1 DEF Request
<1>8. /\ s.phase = r.phase /\ s.ask = r.ask \ {id} /\ s.route = r.route /\ s.cap = r.cap
      /\ s.asset = r.asset
      /\ s.ids = r.ids /\ s.since = r.since /\ s.now = r.now /\ s.batch = r.batch
      /\ s.known = known
  BY <1>4, <1>7 DEF Request
<1>9. /\ r.cap = Uncapped /\ r.batch = {} /\ r.since <= clock /\ r.now <= clock
      /\ Rightly(r) /\ (r.route = "asset" => OfItsTitle(r)) /\ r.now \in Nat
  BY <1>1, <1>2, FieldsTyped DEF Right, Shaped, Founded, Deciding
<1>10. IF Shown(catalog, Uncapped, id) THEN SeenShown(Uncapped, id, r.now - VisibleTTL)
       ELSE SeenHidden(Uncapped, id, r.now - VisibleTTL)
  BY <1>1, <1>9, AskedNow, SeenFresh
<1> HIDE DEF s
<1>11. Rightly(s)
  BY <1>8, <1>9, <1>10 DEF Rightly
<1>12. s.route = "asset" => OfItsTitle(s)
  BY <1>8, <1>9 DEF OfItsTitle
<1>13. CASE s.ask = {}
  <2>1. Right(Decided(s))
    BY <1>1, <1>6, <1>8, <1>9, <1>11, <1>12, <1>13, DecidedRight
  <2> QED
    BY <1>2, <1>3, <1>6, <1>13, <2>1, DecidedTyped, MoveRight
<1>14. CASE s.ask # {}
  <2>1. Shaped(s) /\ Founded(s)
    BY <1>2, <1>8, <1>9, <1>11, <1>12 DEF Shaped, Knows, Founded, DecidedFor, Replied
  <2> QED
    BY <1>2, <1>3, <1>6, <1>8, <1>9, <1>14, <2>1, MoveRight DEF Right
<1> QED
  BY <1>13, <1>14

LEMMA FindStep == ASSUME KeptInv, NEW p \in Requests, Find(p) PROVE KeptInv'
<1> DEFINE r == req[p]
           a == asset[r.asset]
<1>1. TypeOK /\ r \in Request /\ Right(r)
  BY DEF KeptInv, TypeOK
<1>2. /\ r.phase = "finding"
      /\ Move(p, IF Fresh(asset, r.asset, r.now) THEN Found(r, a.item)
                 ELSE [r EXCEPT !.phase = "asking title"])
  BY DEF Find
<1>3. /\ r.asset \in Assets /\ r.cap \in Caps /\ r.batch = {} /\ r.ask = {} /\ r.now = r.since
      /\ r.ids = {} /\ r.known = {}
      /\ r.route = "asset" /\ r.since <= clock /\ r.now <= clock /\ r.since \in Nat
  BY <1>1, <1>2, FieldsTyped DEF Right, Shaped, Knows
<1>4. CASE Fresh(asset, r.asset, r.now)
  <2>1. r.asset \in DOMAIN asset /\ r.now < a.until /\ a \in Item
    BY <1>4 DEF Fresh, KeptInv, TypeOK
  <2>2. /\ a.until - AssetTTL - 1 \in Int /\ r.since - AssetTTL \in Int
        /\ r.since - AssetTTL <= a.until - AssetTTL - 1 /\ a.item \in Ids \cup {NoTitle}
    BY <1>3, <2>1 DEF Item
  <2>3. IF a.item = NoTitle THEN SeenMissing(r.asset, a.until - AssetTTL - 1)
        ELSE a.item = Home[r.asset] /\ SeenThere(r.asset, a.until - AssetTTL - 1)
    BY <2>1 DEF KeptInv, AssetRight
  <2>4. IF a.item = NoTitle THEN SeenMissing(r.asset, r.since - AssetTTL)
        ELSE a.item = Home[r.asset] /\ SeenThere(r.asset, r.since - AssetTTL)
    BY <1>1, <2>2, <2>3, SeenLonger
  <2>5. Right(Found(r, a.item))
    BY <1>1, <1>2, <1>3, <2>2, <2>4, FoundRight
  <2>6. Found(r, a.item) \in Request
    BY <1>1, <2>2, FoundTyped
  <2> QED
    BY <1>2, <1>4, <2>5, <2>6, MoveRight
<1>5. CASE ~Fresh(asset, r.asset, r.now)
  <2> DEFINE s == [r EXCEPT !.phase = "asking title"]
  <2>1. s \in Request
    BY <1>1, SetPhase DEF Phases
  <2>2. /\ s.phase = "asking title" /\ s.asset = r.asset /\ s.cap = r.cap /\ s.batch = r.batch
        /\ s.ask = r.ask /\ s.now = r.now /\ s.since = r.since /\ s.route = r.route
        /\ s.ids = r.ids /\ s.known = r.known
    BY <1>1 DEF Request
  <2>3. Move(p, s)
    BY <1>2, <1>5
  <2> HIDE DEF s
  <2>4. Shaped(s) /\ Founded(s)
    BY <1>3, <2>2 DEF Shaped, Knows, Founded, Deciding, DecidedFor
  <2> QED
    BY <1>3, <2>1, <2>2, <2>3, <2>4, MoveRight DEF Right
<1> QED
  BY <1>4, <1>5

LEMMA AskTitleStep == ASSUME KeptInv, NEW p \in Requests, AskTitle(p) PROVE KeptInv'
<1> DEFINE r == req[p]
           item == IF HasAsset(catalog, r.asset) THEN Home[r.asset] ELSE NoTitle
           t == [r EXCEPT !.phase = "keeping title"]
           s == [t EXCEPT !.item = item]
<1>1. TypeOK /\ r \in Request /\ Right(r)
  BY DEF KeptInv, TypeOK
<1>2. /\ r.phase = "asking title"
      /\ Move(p, [r EXCEPT !.phase = "keeping title", !.item = item])
  BY DEF AskTitle
<1>3. s = [r EXCEPT !.phase = "keeping title", !.item = item]
  BY Zenon
<1>4. /\ r.asset \in Assets /\ r.cap \in Caps /\ r.batch = {} /\ r.ask = {} /\ r.now = r.since
      /\ r.ids = {} /\ r.known = {} /\ r.since \in Nat
      /\ r.route = "asset" /\ r.since <= clock /\ r.now <= clock
  BY <1>1, <1>2, FieldsTyped DEF Right, Shaped, Knows
<1>5. t \in Request
  BY <1>1, SetPhase DEF Phases
<1>6. s \in Request
  BY <1>4, <1>5, SetItem
<1>7. /\ t.phase = "keeping title" /\ t.asset = r.asset /\ t.cap = r.cap /\ t.batch = r.batch
      /\ t.ask = r.ask /\ t.now = r.now /\ t.since = r.since /\ t.route = r.route
      /\ t.ids = r.ids /\ t.known = r.known
  BY <1>1 DEF Request
<1>8. /\ s.phase = "keeping title" /\ s.asset = r.asset /\ s.cap = r.cap /\ s.batch = r.batch
      /\ s.ask = r.ask /\ s.now = r.now /\ s.since = r.since /\ s.route = r.route
      /\ s.ids = r.ids /\ s.known = r.known /\ s.item = item
  BY <1>5, <1>7 DEF Request
<1>9. Home[r.asset] # NoTitle
  BY <1>4
<1>10. IF HasAsset(catalog, r.asset) THEN SeenThere(r.asset, r.since - 1) ELSE SeenMissing(r.asset, r.since - 1)
  BY <1>4, AskedNow
<1> HIDE DEF s
<1>13. ASSUME HasAsset(catalog, r.asset) PROVE Asked(s)
  BY <1>8, <1>9, <1>10, <1>13 DEF Asked
<1>14. ASSUME ~HasAsset(catalog, r.asset) PROVE Asked(s)
  BY <1>8, <1>10, <1>14 DEF Asked
<1>11. Asked(s)
  BY <1>13, <1>14
<1>12. Shaped(s) /\ Founded(s)
  BY <1>4, <1>8, <1>11 DEF Shaped, Knows, Founded, Deciding, DecidedFor
<1> QED
  BY <1>2, <1>3, <1>4, <1>6, <1>8, <1>12, MoveRight DEF Right

LEMMA KeepTitleStep == ASSUME KeptInv, TypeOK', NEW p \in Requests, KeepTitle(p) PROVE KeptInv'
<1> DEFINE r == req[p]
           a == [item |-> r.item, until |-> Until(r, AssetTTL)]
<1>1. TypeOK /\ r \in Request /\ Right(r)
  BY DEF KeptInv, TypeOK
<1>2. /\ r.phase = "keeping title"
      /\ asset' = Keep(asset, r.asset, a, r.now)
      /\ Step(p, Found(r, r.item))
      /\ UNCHANGED <<visible, mu>>
  BY DEF KeepTitle
<1>3. /\ r.asset \in Assets /\ r.cap \in Caps /\ r.batch = {} /\ r.ask = {} /\ r.now = r.since
      /\ r.ids = {} /\ r.known = {} /\ r.since \in Nat /\ r.item \in Ids \cup {NoTitle}
      /\ r.route = "asset" /\ r.since <= clock /\ r.now <= clock /\ Asked(r)
  BY <1>1, <1>2, FieldsTyped DEF Right, Shaped, Knows, Founded
<1>4. Right(Found(r, r.item))
  <2>1. IF r.item = NoTitle THEN SeenMissing(r.asset, r.since - AssetTTL)
        ELSE r.item = Home[r.asset] /\ SeenThere(r.asset, r.since - AssetTTL)
    BY <1>1, <1>3, SeenFresh DEF Asked
  <2> QED
    BY <1>1, <1>2, <1>3, <2>1, FoundRight
<1>5. UNCHANGED <<clock, catalog, past, visible>> /\ req' = [req EXCEPT ![p] = Found(r, r.item)]
  BY <1>2 DEF Step
<1>6. \A q \in Requests : Right(req'[q])
  BY <1>4, <1>5 DEF KeptInv, TypeOK
<1>7. \A t : Since(t)' = Since(t)
  BY <1>5 DEF Since
<1>8. VisibleRight'
  BY <1>5, <1>7 DEF KeptInv, VisibleRight, SeenShown, SeenHidden
<1>9. a.until - AssetTTL - 1 = r.since - 1 /\ a.item = r.item
  BY <1>3 DEF Until
<1>10. AssetRight'
  <2> SUFFICES ASSUME NEW b \in DOMAIN asset'
               PROVE  IF asset'[b].item = NoTitle THEN SeenMissing(b, asset'[b].until - AssetTTL - 1)
                      ELSE asset'[b].item = Home[b] /\ SeenThere(b, asset'[b].until - AssetTTL - 1)
    BY <1>7 DEF AssetRight, SeenThere, SeenMissing
  <2> DEFINE kept == Keep(asset, r.asset, a, r.now)
  <2>4. b \in DOMAIN kept /\ asset' = kept
    BY <1>2
  <2>5. /\ b = r.asset => kept[b] = a
        /\ b # r.asset => b \in DOMAIN asset /\ kept[b] = asset[b]
    BY <2>4, KeepKnows
  <2>1. /\ b = r.asset => asset'[b] = a
        /\ b # r.asset => b \in DOMAIN asset /\ asset'[b] = asset[b]
    BY <2>4, <2>5
  <2>2. CASE b = r.asset
    BY <1>3, <1>9, <2>1, <2>2 DEF Asked
  <2>3. CASE b # r.asset
    BY <2>1, <2>3 DEF KeptInv, AssetRight
  <2> QED
    BY <2>2, <2>3
<1> QED
  BY <1>5, <1>6, <1>8, <1>10, RequestsRight DEF KeptInv

LEMMA CallStep == ASSUME KeptInv, NEW p \in Requests, Call(p) PROVE KeptInv'
<1> DEFINE r == req[p]
           t == [r EXCEPT !.phase = "looking"]
           u == [t EXCEPT !.ids = {r.item}]
           s == [u EXCEPT !.now = clock]
<1>1. TypeOK /\ r \in Request /\ Right(r) /\ clock \in Nat
  BY DEF KeptInv, TypeOK
<1>2. /\ r.phase = "calling"
      /\ Move(p, [r EXCEPT !.phase = "looking", !.ids = {r.item}, !.now = clock])
  BY DEF Call
<1>3. s = [r EXCEPT !.phase = "looking", !.ids = {r.item}, !.now = clock]
  BY Zenon
<1>4. /\ r.cap \in Caps /\ r.item \in Ids /\ r.batch = {} /\ r.ask = {} /\ r.since <= clock
      /\ r.item = Home[r.asset] /\ SeenThere(r.asset, r.since - AssetTTL)
  BY <1>1, <1>2 DEF Right, Shaped, Knows, Founded
<1>5. t \in Request
  BY <1>1, SetPhase DEF Phases
<1>6. u \in Request
  BY <1>4, <1>5, {r.item} \in SUBSET Ids, SetIds
<1>7. s \in Request
  BY <1>1, <1>6, SetNow
<1>8. /\ t.phase = "looking" /\ t.asset = r.asset /\ t.cap = r.cap /\ t.batch = r.batch
      /\ t.ask = r.ask /\ t.since = r.since /\ t.route = r.route
  BY <1>1 DEF Request
<1>9. /\ u.phase = "looking" /\ u.asset = r.asset /\ u.cap = r.cap /\ u.batch = r.batch
      /\ u.ask = r.ask /\ u.since = r.since /\ u.route = r.route /\ u.ids = {r.item}
  BY <1>5, <1>8 DEF Request
<1>10. /\ s.phase = "looking" /\ s.asset = r.asset /\ s.cap = r.cap /\ s.batch = r.batch
       /\ s.ask = r.ask /\ s.since = r.since /\ s.route = r.route /\ s.ids = {r.item}
       /\ s.now = clock
  BY <1>6, <1>9 DEF Request
<1> HIDE DEF s
<1>11. OfItsTitle(s)
  BY <1>4, <1>10 DEF OfItsTitle
<1>12. Shaped(s) /\ Founded(s)
  BY <1>4, <1>10, <1>11 DEF Shaped, Knows, Founded, Deciding, DecidedFor
<1>13. s.now <= clock /\ s.since <= clock
  BY <1>1, <1>4, <1>10
<1>14. Right(s)
  BY <1>12, <1>13 DEF Right
<1> QED
  BY <1>2, <1>3, <1>7, <1>14, MoveRight

(* What is found kept and fresh was so lately.                             *)
LEMMA LookStep == ASSUME KeptInv, NEW p \in Requests, Look(p) PROVE KeptInv'
<1> DEFINE r == req[p]
           kept == {id \in r.ids : Fresh(visible, Key(r.cap, id), r.now)}
           known == {id \in kept : visible[Key(r.cap, id)].visible}
           ask == r.ids \ kept
           t == [r EXCEPT !.known = known]
           s == [t EXCEPT !.ask = ask]
           u == [s EXCEPT !.phase = "asking"]
<1>1. TypeOK /\ r \in Request /\ Right(r)
  BY DEF KeptInv, TypeOK
<1>2. /\ r.phase = "looking"
      /\ Move(p, IF [r EXCEPT !.known = known, !.ask = ask].ask = {}
                 THEN Decided([r EXCEPT !.known = known, !.ask = ask])
                 ELSE [[r EXCEPT !.known = known, !.ask = ask] EXCEPT !.phase = "asking"])
  BY DEF Look
<1>3. s = [r EXCEPT !.known = known, !.ask = ask]
  BY Zenon
<1>4. /\ r.cap \in Caps /\ r.batch = {} /\ r.since <= clock /\ r.now <= clock /\ r.now \in Nat
      /\ (r.route = "asset" => OfItsTitle(r)) /\ r.ids \in SUBSET Ids
  BY <1>1, <1>2, FieldsTyped DEF Right, Shaped, Knows, Founded
<1>5. known \in SUBSET Ids /\ ask \in SUBSET Ids
  BY <1>4
<1> HIDE DEF known, ask
<1>6. t \in Request
  BY <1>1, <1>5, SetKnown
<1>7. s \in Request
  BY <1>5, <1>6, SetAsk
<1>8. u \in Request
  BY <1>7, SetPhase DEF Phases
<1>9. /\ t.asset = r.asset /\ t.cap = r.cap /\ t.batch = r.batch /\ t.since = r.since
      /\ t.now = r.now /\ t.route = r.route /\ t.ids = r.ids /\ t.known = known
  BY <1>1 DEF Request
<1>10. /\ s.asset = r.asset /\ s.cap = r.cap /\ s.batch = r.batch /\ s.since = r.since
       /\ s.now = r.now /\ s.route = r.route /\ s.ids = r.ids /\ s.known = known /\ s.ask = ask
  BY <1>6, <1>9 DEF Request
<1>11. /\ u.asset = r.asset /\ u.cap = r.cap /\ u.batch = r.batch /\ u.since = r.since
       /\ u.now = r.now /\ u.route = r.route /\ u.ids = r.ids /\ u.known = known /\ u.ask = ask
       /\ u.phase = "asking"
  BY <1>7, <1>10 DEF Request
<1> HIDE DEF s, u
<1>12. ASSUME NEW id \in kept
       PROVE  IF visible[Key(r.cap, id)].visible THEN SeenShown(r.cap, id, r.now - VisibleTTL)
              ELSE SeenHidden(r.cap, id, r.now - VisibleTTL)
  <2> DEFINE v == visible[<<r.cap, id>>]
  <2>1. <<r.cap, id>> \in DOMAIN visible /\ r.now < v.until /\ v \in Visible
    BY <1>1, <1>12 DEF Fresh, Key, TypeOK
  <2>2. /\ v.until - VisibleTTL - 1 \in Int /\ r.now - VisibleTTL \in Int
        /\ r.now - VisibleTTL <= v.until - VisibleTTL - 1
    BY <1>4, <2>1 DEF Visible
  <2>3. IF v.visible THEN SeenShown(r.cap, id, v.until - VisibleTTL - 1)
        ELSE SeenHidden(r.cap, id, v.until - VisibleTTL - 1)
    BY <2>1 DEF KeptInv, VisibleRight
  <2> QED
    BY <1>1, <2>2, <2>3, SeenLonger DEF Key
<1>13. /\ \A id \in known : SeenShown(r.cap, id, r.now - VisibleTTL)
       /\ \A id \in r.ids \ (known \cup ask) : SeenHidden(r.cap, id, r.now - VisibleTTL)
  BY <1>12 DEF known, ask
<1>14. Rightly(s) /\ Rightly(u) /\ Replied(u)
  BY <1>4, <1>10, <1>11, <1>13 DEF Rightly, Replied
<1>15. (s.route = "asset" => OfItsTitle(s)) /\ (u.route = "asset" => OfItsTitle(u))
  BY <1>4, <1>10, <1>11 DEF OfItsTitle
<1>16. CASE s.ask = {}
  <2>1. s.since <= clock /\ s.now <= clock /\ s.batch = {}
    BY <1>4, <1>10
  <2>2. Right(Decided(s))
    BY <1>1, <1>7, <1>14, <1>15, <1>16, <2>1, DecidedRight
  <2>3. Move(p, Decided(s))
    BY <1>2, <1>3, <1>16
  <2> QED
    BY <1>7, <2>2, <2>3, DecidedTyped, MoveRight
<1>17. CASE s.ask # {}
  <2>1. Shaped(u) /\ Founded(u)
    BY <1>4, <1>11, <1>14, <1>15 DEF Shaped, Knows, Founded, DecidedFor
  <2>2. u.since <= clock /\ u.now <= clock
    BY <1>4, <1>11
  <2>3. Right(u)
    BY <2>1, <2>2 DEF Right
  <2>4. Move(p, u)
    BY <1>2, <1>3, <1>17 DEF u
  <2> QED
    BY <1>8, <2>3, <2>4, MoveRight
<1> QED
  BY <1>16, <1>17

LEMMA AskVisibleStep ==
  ASSUME KeptInv, NEW p \in Requests, NEW batch \in SUBSET Ids, AskVisible(p, batch) PROVE KeptInv'
<1> DEFINE r == req[p]
           reply == {id \in batch : Shown(catalog, r.cap, id)}
           ask == r.ask \ batch
           t == [r EXCEPT !.phase = "locking"]
           u == [t EXCEPT !.batch = batch]
           v == [u EXCEPT !.ask = ask]
           s == [v EXCEPT !.reply = reply]
<1>1. TypeOK /\ r \in Request /\ Right(r)
  BY DEF KeptInv, TypeOK
<1>2. /\ r.phase = "asking" /\ batch \subseteq r.ask
      /\ Move(p, [r EXCEPT !.phase = "locking", !.batch = batch, !.ask = @ \ batch, !.reply = reply])
  BY DEF AskVisible, Batches
<1>3. s = [r EXCEPT !.phase = "locking", !.batch = batch, !.ask = @ \ batch, !.reply = reply]
  BY Zenon
<1>4. /\ r.cap \in Caps /\ r.batch = {} /\ r.since <= clock /\ r.now <= clock /\ r.now \in Nat
      /\ (r.route = "asset" => OfItsTitle(r)) /\ Rightly(r) /\ ask \in SUBSET Ids
  BY <1>1, <1>2, FieldsTyped DEF Right, Shaped, Knows, Founded, Deciding
<1>5. \A id \in batch : IF id \in reply THEN SeenShown(r.cap, id, r.now - 1)
                        ELSE SeenHidden(r.cap, id, r.now - 1)
  BY <1>4, AskedNow
<1>6. reply \in SUBSET Ids
  OBVIOUS
<1> HIDE DEF reply
<1>7. t \in Request
  BY <1>1, SetPhase DEF Phases
<1>8. u \in Request
  BY <1>7, SetBatch
<1>9. v \in Request
  BY <1>4, <1>8, SetAsk
<1>10. s \in Request
  BY <1>6, <1>9, SetReply
<1>11. /\ t.asset = r.asset /\ t.cap = r.cap /\ t.since = r.since /\ t.phase = "locking"
       /\ t.now = r.now /\ t.route = r.route /\ t.ids = r.ids /\ t.known = r.known
  BY <1>1 DEF Request
<1>12. /\ u.asset = r.asset /\ u.cap = r.cap /\ u.since = r.since /\ u.phase = "locking"
       /\ u.now = r.now /\ u.route = r.route /\ u.ids = r.ids /\ u.known = r.known /\ u.batch = batch
  BY <1>7, <1>11 DEF Request
<1>13. /\ v.asset = r.asset /\ v.cap = r.cap /\ v.since = r.since /\ v.phase = "locking"
       /\ v.now = r.now /\ v.route = r.route /\ v.ids = r.ids /\ v.known = r.known /\ v.batch = batch
       /\ v.ask = ask
  BY <1>8, <1>12 DEF Request
<1>14. /\ s.asset = r.asset /\ s.cap = r.cap /\ s.since = r.since /\ s.phase = "locking"
       /\ s.now = r.now /\ s.route = r.route /\ s.ids = r.ids /\ s.known = r.known /\ s.batch = batch
       /\ s.ask = ask /\ s.reply = reply
  BY <1>9, <1>13 DEF Request
<1> HIDE DEF s
<1>15. Rightly(s)
  <2>1. r.ids \ (r.known \cup ask \cup batch) = r.ids \ (r.known \cup r.ask \cup r.batch)
    BY <1>2, <1>4
  <2> QED
    BY <1>4, <1>14, <2>1 DEF Rightly
<1>16. Replied(s) /\ (s.route = "asset" => OfItsTitle(s))
  BY <1>4, <1>5, <1>14 DEF Replied, OfItsTitle
<1>17. Shaped(s) /\ Founded(s)
  BY <1>4, <1>14, <1>15, <1>16 DEF Shaped, Knows, Founded, DecidedFor
<1>18. Right(s)
  BY <1>4, <1>14, <1>17 DEF Right
<1> QED
  BY <1>2, <1>3, <1>10, <1>18, MoveRight

LEMMA LockStep == ASSUME KeptInv, TypeOK', NEW p \in Requests, Lock(p) PROVE KeptInv'
<1> DEFINE r == req[p]
           s == [r EXCEPT !.phase = "keeping"]
<1>1. TypeOK /\ r \in Request /\ Right(r)
  BY DEF KeptInv, TypeOK
<1>2. /\ r.phase = "locking" /\ req' = [req EXCEPT ![p] = s]
      /\ UNCHANGED <<clock, catalog, visible, asset, past>>
  BY DEF Lock, Step
<1>3. /\ s.asset = r.asset /\ s.cap = r.cap /\ s.since = r.since /\ s.phase = "keeping"
      /\ s.now = r.now /\ s.route = r.route /\ s.ids = r.ids /\ s.known = r.known
      /\ s.batch = r.batch /\ s.ask = r.ask /\ s.reply = r.reply
  BY <1>1 DEF Request
<1> HIDE DEF s
<1>4. /\ r.cap \in Caps /\ r.since <= clock /\ r.now <= clock
      /\ (r.route = "asset" => OfItsTitle(r)) /\ Rightly(r) /\ Replied(r)
  BY <1>1, <1>2 DEF Right, Shaped, Knows, Founded, Deciding
<1>5. Rightly(s) /\ Replied(s) /\ (s.route = "asset" => OfItsTitle(s))
  BY <1>3, <1>4 DEF Rightly, Replied, OfItsTitle
<1>6. Shaped(s) /\ Founded(s)
  BY <1>3, <1>4, <1>5 DEF Shaped, Knows, Founded, DecidedFor
<1>7. Right(s)
  BY <1>3, <1>4, <1>6 DEF Right
<1>8. \A q \in Requests : Right(req'[q])
  BY <1>2, <1>7 DEF KeptInv, TypeOK
<1> QED
  BY <1>2, <1>8, RestRight

(* Whatever room is made, what stays in the table is as right as it was,   *)
(* and the new answer is katalog-api's.                                    *)
LEMMA KeepVisibleStep ==
  ASSUME KeptInv, TypeOK', NEW p \in Requests, NEW id \in Ids, KeepVisible(p, id) PROVE KeptInv'
<1> DEFINE r == req[p]
           batch == r.batch \ {id}
           known == r.known \cup ({id} \cap r.reply)
           t == [r EXCEPT !.batch = batch]
           s == [t EXCEPT !.known = known]
           u == [s EXCEPT !.phase = "asking"]
           k == <<r.cap, id>>
           a == [visible |-> id \in r.reply, until |-> Until(r, VisibleTTL)]
           next == IF s.batch # {} THEN s ELSE IF s.ask # {} THEN u ELSE Decided(s)
<1>1. TypeOK /\ r \in Request /\ Right(r)
  BY DEF KeptInv, TypeOK
<1>2. s = [r EXCEPT !.batch = @ \ {id}, !.known = @ \cup ({id} \cap r.reply)]
  BY Zenon
<1>3. /\ r.phase = "keeping" /\ id \in r.batch
      /\ visible' = Keep(visible, k, a, r.now)
      /\ Step(p, next) /\ asset' = asset
  BY <1>2 DEF KeepVisible, Key
<1>4. /\ r.cap \in Caps /\ r.since <= clock /\ r.now <= clock /\ r.now \in Nat
      /\ (r.route = "asset" => OfItsTitle(r)) /\ Rightly(r) /\ Replied(r)
  BY <1>1, <1>3, FieldsTyped DEF Right, Shaped, Knows, Founded, Deciding
<1>5. batch \in SUBSET Ids /\ known \in SUBSET Ids
  BY <1>1, FieldsTyped
<1>6. t \in Request
  BY <1>1, <1>5, SetBatch
<1>7. s \in Request
  BY <1>5, <1>6, SetKnown
<1>8. u \in Request
  BY <1>7, SetPhase DEF Phases
<1>9. /\ t.asset = r.asset /\ t.cap = r.cap /\ t.since = r.since /\ t.now = r.now
      /\ t.route = r.route /\ t.ids = r.ids /\ t.ask = r.ask /\ t.reply = r.reply
      /\ t.phase = "keeping" /\ t.batch = batch
  BY <1>1, <1>3 DEF Request
<1>10. /\ s.asset = r.asset /\ s.cap = r.cap /\ s.since = r.since /\ s.now = r.now
       /\ s.route = r.route /\ s.ids = r.ids /\ s.ask = r.ask /\ s.reply = r.reply
       /\ s.phase = "keeping" /\ s.batch = batch /\ s.known = known
  BY <1>6, <1>9 DEF Request
<1>11. /\ u.asset = r.asset /\ u.cap = r.cap /\ u.since = r.since /\ u.now = r.now
       /\ u.route = r.route /\ u.ids = r.ids /\ u.ask = r.ask /\ u.reply = r.reply
       /\ u.phase = "asking" /\ u.batch = batch /\ u.known = known
  BY <1>7, <1>10 DEF Request
<1> HIDE DEF s, u
<1>12. IF id \in r.reply THEN SeenShown(r.cap, id, r.now - 1) ELSE SeenHidden(r.cap, id, r.now - 1)
  BY <1>3, <1>4 DEF Replied
<1>13. IF id \in r.reply THEN SeenShown(r.cap, id, r.now - VisibleTTL)
       ELSE SeenHidden(r.cap, id, r.now - VisibleTTL)
  BY <1>1, <1>4, <1>12, SeenFresh
<1>14. Rightly(s) /\ Rightly(u)
  <2>1. \A i \in known : SeenShown(r.cap, i, r.now - VisibleTTL)
    BY <1>4, <1>13 DEF Rightly
  <2>2. \A i \in r.ids \ (known \cup r.ask \cup batch) : SeenHidden(r.cap, i, r.now - VisibleTTL)
    BY <1>4, <1>13 DEF Rightly
  <2> HIDE DEF known, batch
  <2> QED
    BY <1>10, <1>11, <2>1, <2>2 DEF Rightly
<1>15. Replied(s) /\ (s.route = "asset" => OfItsTitle(s)) /\ (u.route = "asset" => OfItsTitle(u))
  BY <1>4, <1>10, <1>11 DEF Replied, OfItsTitle
<1>16. Right(next)
  <2>1. CASE s.batch # {}
    <3>1. Shaped(s) /\ Founded(s)
      BY <1>4, <1>10, <1>14, <1>15 DEF Shaped, Knows, Founded, DecidedFor
    <3> QED
      BY <1>4, <1>10, <2>1, <3>1 DEF Right
  <2>2. CASE s.batch = {} /\ s.ask # {}
    <3>1. u.batch = {}
      BY <1>10, <1>11, <2>2
    <3>2. Shaped(u) /\ Founded(u)
      BY <1>4, <1>11, <1>14, <1>15, <3>1 DEF Shaped, Knows, Founded, DecidedFor, Replied
    <3> QED
      BY <1>4, <1>11, <2>2, <3>2 DEF Right
  <2>3. CASE s.batch = {} /\ s.ask = {}
    <3>1. s.since <= clock /\ s.now <= clock
      BY <1>4, <1>10
    <3>2. Right(Decided(s))
      BY <1>1, <1>7, <1>14, <1>15, <2>3, <3>1, DecidedRight
    <3> QED
      BY <2>3, <3>2
  <2> QED
    BY <2>1, <2>2, <2>3
<1> HIDE DEF next
<1>17. UNCHANGED <<clock, catalog, past, asset>> /\ req' = [req EXCEPT ![p] = next]
  BY <1>3 DEF Step
<1>18. \A q \in Requests : Right(req'[q])
  BY <1>16, <1>17 DEF KeptInv, TypeOK
<1>19. \A w : Since(w)' = Since(w)
  BY <1>17 DEF Since
<1>20. AssetRight'
  BY <1>17, <1>19 DEF KeptInv, AssetRight, SeenThere, SeenMissing
<1>21. a.until - VisibleTTL - 1 = r.now - 1 /\ a.visible = (id \in r.reply)
  BY <1>4 DEF Until
<1>22. VisibleRight'
  <2> SUFFICES ASSUME NEW j \in DOMAIN visible'
               PROVE  IF visible'[j].visible THEN SeenShown(j[1], j[2], visible'[j].until - VisibleTTL - 1)
                      ELSE SeenHidden(j[1], j[2], visible'[j].until - VisibleTTL - 1)
    BY <1>19 DEF VisibleRight, SeenShown, SeenHidden
  <2> DEFINE kept == Keep(visible, k, a, r.now)
  <2>1. j \in DOMAIN kept /\ visible' = kept
    BY <1>3
  <2>2. /\ j = k => kept[j] = a
        /\ j # k => j \in DOMAIN visible /\ kept[j] = visible[j]
    BY <2>1, KeepKnows
  <2>3. /\ j = k => visible'[j] = a
        /\ j # k => j \in DOMAIN visible /\ visible'[j] = visible[j]
    BY <2>1, <2>2
  <2> HIDE DEF kept, a
  <2>4. CASE j = k
    <3>1. k[1] = r.cap /\ k[2] = id
      OBVIOUS
    <3> QED
      BY <1>12, <1>21, <2>3, <2>4, <3>1
  <2>5. CASE j # k
    BY <2>3, <2>5 DEF KeptInv, VisibleRight
  <2> QED
    BY <2>4, <2>5
<1> QED
  BY <1>17, <1>18, <1>20, <1>22, RequestsRight DEF KeptInv

LEMMA CountAllStep == ASSUME KeptInv, NEW p \in Requests, CountAll(p) PROVE KeptInv'
<1> DEFINE r == req[p]
           shown == {id \in Ids : Shown(catalog, r.cap, id)}
           n == Titles(catalog, r.cap)
           a == Answered(r, 200)
           s == [a EXCEPT !.titles = n]
<1>1. TypeOK /\ r \in Request /\ Right(r)
  BY DEF KeptInv, TypeOK
<1>2. r.phase = "counting" /\ Move(p, s)
  BY DEF CountAll
<1>3. /\ r.since <= clock /\ r.now <= clock /\ r.batch = {} /\ r.ask = {} /\ Rightly(r)
      /\ (r.route = "asset" => OfItsTitle(r))
  BY <1>1, <1>2 DEF Right, Shaped, Founded, Deciding
<1>4. a \in Request /\ Right(a)
  BY <1>1, <1>3, AnsweredTyped, AnsweredRight DEF Codes
<1>5. n \in Nat
  BY FS_Subset, FS_CardinalityType, shown \subseteq Ids DEF Titles
<1> HIDE DEF a, n
<1>6. s \in Request
  BY <1>4, <1>5, SetTitles
<1>7. /\ s.phase = a.phase /\ s.route = a.route /\ s.cap = a.cap /\ s.asset = a.asset
      /\ s.item = a.item /\ s.ids = a.ids /\ s.since = a.since /\ s.now = a.now
      /\ s.known = a.known /\ s.ask = a.ask /\ s.batch = a.batch /\ s.reply = a.reply
      /\ s.code = a.code
  BY <1>4 DEF Request
<1>8. a.phase = "answered" /\ a.batch = {} /\ a.ask = {}
  BY <1>1, AnsweredFields DEF a
<1> HIDE DEF s
<1>9. Shaped(s)
  BY <1>7, <1>8 DEF Shaped, Knows
<1>10. (DecidedFor(s) <=> DecidedFor(a)) /\ (Deciding(s) <=> DecidedFor(a)) /\ (DecidedFor(a) => Deciding(a))
  BY <1>7, <1>8 DEF Deciding, DecidedFor
<1>11. DecidedFor(a) => Rightly(s) /\ Replied(s)
  BY <1>4, <1>7, <1>8, <1>10, RightlySame DEF Right, Founded, Replied
<1>12. DecidedFor(a) /\ s.route = "asset" => AsItsTitle(s)
  BY <1>4, <1>7 DEF Right, Founded, AsItsTitle
<1>13. Founded(s)
  BY <1>7, <1>8, <1>10, <1>11, <1>12 DEF Founded
<1>14. Right(s)
  BY <1>4, <1>7, <1>9, <1>13 DEF Right
<1> QED
  BY <1>2, <1>6, <1>14, MoveRight

LEMMA FailStep == ASSUME KeptInv, NEW p \in Requests, Fail(p) PROVE KeptInv'
<1> DEFINE r == req[p]
           s == [r EXCEPT !.known = {}]
<1>1. TypeOK /\ r \in Request /\ Right(r)
  BY DEF KeptInv, TypeOK
<1>2. Move(p, Answered(s, 502))
  BY DEF Fail
<1>3. s \in Request
  BY <1>1, SetKnown
<1>4. s.since = r.since /\ s.now = r.now /\ 502 \in Codes
  BY <1>1 DEF Request, Codes
<1> HIDE DEF s
<1>5. s.since <= clock /\ s.now <= clock
  BY <1>1, <1>4 DEF Right
<1>6. Right(Answered(s, 502))
  BY <1>1, <1>3, <1>4, <1>5, AnsweredRight
<1>7. Answered(s, 502) \in Request
  BY <1>3, <1>4, AnsweredTyped
<1> QED
  BY <1>2, <1>6, <1>7, MoveRight

(* Time goes on, or the catalog changes: what was seen stays seen, and     *)
(* what there is now is seen.                                              *)
LEMMA WorldStep ==
  ASSUME KeptInv, TypeOK', Tick \/ (\E w \in World : Becomes(w)) PROVE KeptInv'
<1>1. TypeOK /\ clock \in 0 .. MaxTime /\ past \in [0 .. MaxTime -> SUBSET World]
  BY DEF KeptInv, TypeOK
<1>2. \A t : Since(t) \subseteq Since(t)'
  BY <1>1, SeenStays
<1>3. UNCHANGED <<visible, asset, req>>
  BY DEF Tick, Becomes
<1>4. \A p \in Requests : Right(req[p])'
  BY <1>1, RightStays DEF KeptInv
<1>5. VisibleRight'
  BY <1>2, <1>3 DEF KeptInv, VisibleRight, SeenShown, SeenHidden
<1>6. AssetRight'
  BY <1>2, <1>3 DEF KeptInv, AssetRight, SeenThere, SeenMissing
<1>7. catalog' \in past'[clock']
  <2>1. CASE Tick
    <3>1. catalog' = catalog /\ clock' = clock + 1 /\ clock + 1 \in 0 .. MaxTime
      BY <1>1, <2>1 DEF Tick
    <3> QED
      BY <1>1, <2>1, <3>1 DEF Tick
  <2>2. ASSUME NEW w \in World, Becomes(w) PROVE catalog' \in past'[clock']
    BY <1>1, <2>2 DEF Becomes
  <2> QED
    BY <2>1, <2>2
<1> QED
  BY <1>4, <1>5, <1>6, <1>7 DEF KeptInv

LEMMA WorldSteps ==
  ASSUME KeptInv, TypeOK',
         \/ Tick \/ Reset \/ Imported
         \/ \E id \in Ids, rating \in Ratings \cup {NoTitle} : Rate(id, rating)
         \/ \E a \in Assets : AddAsset(a) \/ RemoveAsset(a)
  PROVE  KeptInv'
<1>1. \E w : w = catalog' /\ (Tick \/ Becomes(w))
  BY DEF Reset, Imported, Rate, AddAsset, RemoveAsset, Becomes
<1>2. catalog' \in World
  BY DEF TypeOK
<1> QED
  BY <1>1, <1>2, WorldStep

LEMMA KeptStep == KeptInv /\ [Next]_vars => KeptInv'
<1> SUFFICES ASSUME KeptInv, [Next]_vars PROVE KeptInv'
  OBVIOUS
<1>1. TypeOK /\ AssetKnown
  BY DEF KeptInv, AssetKnown, Right, Shaped
<1>2. TypeOK'
  BY <1>1, TypeStep
<1>3. CASE UNCHANGED vars
  <2>1. UNCHANGED <<clock, catalog, visible, asset, past>> /\ req' = req
    BY <1>3 DEF vars
  <2>2. \A q \in Requests : Right(req'[q])
    BY <2>1 DEF KeptInv
  <2> QED
    BY <1>2, <2>1, <2>2, RestRight
<1>4. ASSUME NEW p \in Requests,
             \/ \E id \in Ids : HoldOne(p, id) \/ KeepVisible(p, id)
             \/ \E batch \in SUBSET Ids : AskVisible(p, batch)
             \/ Find(p) \/ AskTitle(p) \/ KeepTitle(p) \/ Call(p)
             \/ Look(p) \/ Lock(p) \/ CountAll(p) \/ Fail(p)
      PROVE  KeptInv'
  BY <1>2, <1>4, HoldStep, KeepVisibleStep, AskVisibleStep, FindStep, AskTitleStep, KeepTitleStep,
     CallStep, LookStep, LockStep, CountAllStep, FailStep
<1> QED
  BY <1>2, <1>3, <1>4, BeginSteps, WorldSteps DEF Next

LEMMA KeptInit == Init => KeptInv
<1> SUFFICES ASSUME Init PROVE KeptInv
  OBVIOUS
<1>1. Idle \in Request
  BY DEF Idle, Request, Phases, Routes, Viewers, Codes
<1>2. catalog \in World
  BY CapsAssumption DEF Init
<1>3. past \in [0 .. MaxTime -> SUBSET World] /\ past[0] = {catalog} /\ clock = 0 /\ 0 \in 0 .. MaxTime
  BY <1>2 DEF Init
<1>4. DOMAIN visible = {} /\ DOMAIN asset = {}
  BY DEF Init
<1>10. req \in [Requests -> Request]
  BY <1>1 DEF Init
<1>11. /\ clock \in 0 .. MaxTime /\ changes \in 0 .. MaxChanges /\ begun \in 0 .. MaxRequests
       /\ mu \in Requests \cup {NoOne}
  BY DEF Init
<1>5. TypeOK
  BY <1>2, <1>3, <1>4, <1>10, <1>11 DEF TypeOK
<1>6. VisibleRight /\ AssetRight
  BY <1>4 DEF VisibleRight, AssetRight
<1>7. /\ Idle.phase = "idle" /\ Idle.route = "title" /\ Idle.since = 0 /\ Idle.now = 0
      /\ Idle.ask = {} /\ Idle.batch = {}
  BY DEF Idle
<1>8. Right(Idle)
  BY <1>3, <1>7 DEF Right, Shaped, Knows, Founded, Deciding, DecidedFor
<1>9. \A p \in Requests : req[p] = Idle
  BY DEF Init
<1> QED
  BY <1>3, <1>5, <1>6, <1>8, <1>9 DEF KeptInv

-----------------------------------------------------------------------------
(* The theorems.  Every behaviour keeps to the types, and the invariant    *)
(* with them: what is kept and what is known was katalog-api's own answer. *)
THEOREM Kept == Spec => []KeptInv
<1>1. Init => KeptInv
  BY KeptInit
<1>2. KeptInv /\ [Next]_vars => KeptInv'
  BY KeptStep
<1> QED
  BY <1>1, <1>2, PTL DEF Spec

(* Tables and requests keep to their types (ratings.go's answers).         *)
THEOREM TypeCorrect == Spec => []TypeOK
<1>1. KeptInv => TypeOK
  BY DEF KeptInv
<1> QED
  BY <1>1, Kept, PTL

(* What a viewer is served, its cap allowed less than visibleTTL before it *)
(* was looked up, or later, however many requests ask, keep and clear at   *)
(* once (Visible).                                                         *)
THEOREM ServedWithinTheLifetime == Spec => []ServedWasShown
<1>1. KeptInv => ServedWasShown
  BY DEF KeptInv, ServedWasShown, Right, Founded, Deciding, Rightly
<1> QED
  BY <1>1, Kept, PTL

(* And what it is not served, the cap did not allow then: no failure, and  *)
(* no answer lost from a full table, leaves a title out (Visible, held).   *)
THEOREM LeftOutForACause == Spec => []LeftOutWasHidden
<1>1. KeptInv => LeftOutWasHidden
  <2> SUFFICES ASSUME KeptInv, NEW p \in Requests, DecidedFor(req[p]), NEW id \in req[p].ids \ req[p].known
               PROVE  SeenHidden(req[p].cap, id, req[p].now - VisibleTTL)
    BY DEF LeftOutWasHidden
  <2>1. Right(req[p]) /\ req[p].phase = "answered"
    BY DEF KeptInv, DecidedFor
  <2>2. req[p].ask = {} /\ req[p].batch = {} /\ Rightly(req[p])
    BY <2>1 DEF Right, Shaped, Founded, Deciding
  <2> QED
    BY <2>2 DEF Rightly
<1> QED
  BY <1>1, Kept, PTL

(* An asset is served as the title it belongs to is, or was not there when *)
(* its title was asked for (owned, assetItem).                             *)
THEOREM AssetsServedAsTheirTitle == Spec => []AssetsAsTheirTitle
<1>1. KeptInv => AssetsAsTheirTitle
  BY DEF KeptInv, AssetsAsTheirTitle, Right, Founded
<1> QED
  BY <1>1, Kept, PTL

(* The tables stay within maxAnswers, whoever fills them (keep).           *)
Bounded ==
  /\ IsFiniteSet(DOMAIN visible) /\ IsFiniteSet(DOMAIN asset)
  /\ WithinMaxAnswers

THEOREM TablesBounded == Spec => []WithinMaxAnswers
<1>1. Init => Bounded
  <2>1. SUFFICES ASSUME Init PROVE Bounded
    OBVIOUS
  <2>2. DOMAIN visible = {} /\ DOMAIN asset = {}
    BY <2>1 DEF Init
  <2> QED
    BY <2>2, FS_EmptySet DEF Bounded, WithinMaxAnswers
<1>2. Bounded /\ [Next]_vars => Bounded'
  <2> SUFFICES ASSUME Bounded, [Next]_vars PROVE Bounded'
    OBVIOUS
  <2>1. ASSUME UNCHANGED <<visible, asset>> PROVE Bounded'
    BY <2>1 DEF Bounded, WithinMaxAnswers
  <2>2. ASSUME NEW p \in Requests, KeepTitle(p) PROVE Bounded'
    <3>1. \E k, a, now : asset' = Keep(asset, k, a, now)
      BY <2>2 DEF KeepTitle
    <3>2. visible' = visible
      BY <2>2 DEF KeepTitle
    <3> QED
      BY <3>1, <3>2, KeepBounded DEF Bounded, WithinMaxAnswers
  <2>3. ASSUME NEW p \in Requests, NEW id \in Ids, KeepVisible(p, id) PROVE Bounded'
    <3>1. \E k, a, now : visible' = Keep(visible, k, a, now)
      BY <2>3 DEF KeepVisible
    <3>2. asset' = asset
      BY <2>3 DEF KeepVisible
    <3> QED
      BY <3>1, <3>2, KeepBounded DEF Bounded, WithinMaxAnswers
  <2>4. ASSUME NEW p \in Requests, NEW r, Begin(p, r) \/ Move(p, r) PROVE Bounded'
    BY <2>1, <2>4 DEF Begin, Move
  <2>5. ASSUME NEW w, Becomes(w) PROVE Bounded'
    BY <2>1, <2>5 DEF Becomes
  <2>6. CASE \/ Tick \/ Reset \/ Imported
             \/ \E id \in Ids, rating \in Ratings \cup {NoTitle} : Rate(id, rating)
             \/ \E a \in Assets : AddAsset(a) \/ RemoveAsset(a)
    BY <2>1, <2>5, <2>6 DEF Tick, Reset, Imported, Rate, AddAsset, RemoveAsset
  <2>7. ASSUME NEW p \in Requests,
               \/ \E route \in Routes : \E want \in Wants[route] :
                    BeginUncapped(p, route, want) \/ \E cap \in Caps : BeginCapped(p, route, cap, want)
               \/ \E want \in Wants["available"] : BeginHeld(p, want)
               \/ \E cap \in Caps, a \in Assets : BeginAsset(p, cap, a)
        PROVE  Bounded'
    BY <2>4, <2>7 DEF BeginUncapped, BeginCapped, BeginHeld, BeginAsset
  <2>8. ASSUME NEW p \in Requests,
               \/ \E id \in Ids : HoldOne(p, id)
               \/ \E batch \in SUBSET Ids : AskVisible(p, batch)
               \/ Find(p) \/ AskTitle(p) \/ Call(p) \/ Look(p) \/ CountAll(p) \/ Fail(p)
        PROVE  Bounded'
    <3>1. ASSUME NEW id \in Ids, HoldOne(p, id) PROVE Bounded'
      BY <2>4, <3>1 DEF HoldOne
    <3>2. ASSUME Look(p) PROVE Bounded'
      BY <2>4, <3>2 DEF Look
    <3> QED
      BY <2>4, <2>8, <3>1, <3>2 DEF AskVisible, Find, AskTitle, Call, CountAll, Fail
  <2>9. ASSUME NEW p \in Requests, Lock(p) PROVE Bounded'
    BY <2>1, <2>9 DEF Lock
  <2>10. CASE UNCHANGED vars
    BY <2>1, <2>10 DEF vars
  <2> QED
    BY <2>2, <2>3, <2>6, <2>7, <2>8, <2>9, <2>10 DEF Next
<1>3. Bounded => WithinMaxAnswers
  BY DEF Bounded
<1> QED
  BY <1>1, <1>2, <1>3, PTL DEF Spec
=============================================================================
