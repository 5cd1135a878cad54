------------------------------ MODULE Answers ------------------------------
(***************************************************************************)
(* What a rating cap allows (internal/katalog/ratings.go, http/ratings.go, *)
(* http/available.go).  katalog-api decides it; chino-api asks before it   *)
(* serves a capped viewer a title, an asset of one (a sidecar subtitle, a  *)
(* font) or a list it keeps itself, and keeps the answers for a while, for *)
(* every request with the same cap.  The catalog changes meanwhile, asks   *)
(* take their time and fail, and a full table is cleared.                  *)
(***************************************************************************)
EXTENDS Table

CONSTANTS
  Requests,      \* the clients, one request each at a time
  Ids,           \* the titles
  Assets,        \* the sidecar subtitles (or the fonts: a table of its own)
  Home,          \* asset -> the title it belongs to: it never moves
  Caps,          \* the ages viewers are capped at
  Uncapped,      \* the viewer's token has no max_rating
  Ratings,       \* the ages titles are rated for
  NoTitle,       \* katalog-api has no title by that id; the item "" of assetItem
  NoAsset,       \* the request is for no asset
  NoOne,         \* answers.mu is free
  AtFirst,       \* katalog-api at first: one of these Worlds
  Wants,         \* route -> the lists of ids its requests are about
  VisibleTTL,    \* visibleTTL, in ticks of the clock
  AssetTTL,      \* subtitleTTL, in ticks
  VisibleBatch,  \* visibleBatch: that many ids in one ask
  MaxTime,       \* bound: the clock stops there
  MaxChanges,    \* bound: how often the catalog changes
  MaxRequests    \* bound: how many requests there are in all

Viewers == Caps \cup {Uncapped}

(* What katalog-api knows at a moment.  While it imports anew, it shows    *)
(* nothing to anybody.                                                     *)
World == [rating : [Ids -> Ratings \cup {NoTitle}], there : SUBSET Assets, importing : BOOLEAN]

Shown(w, cap, id) ==
  /\ ~w.importing
  /\ w.rating[id] # NoTitle
  /\ cap # Uncapped => w.rating[id] <= cap

HasAsset(w, a) == ~w.importing /\ a \in w.there

Titles(w, cap) == Cardinality({id \in Ids : Shown(w, cap, id)})

Routes == {"title", "asset", "list", "available"}
Codes  == {0, 200, 404, 502}  \* 0: not answered yet
Phases == {"idle", "finding", "asking title", "keeping title", "calling", "looking", "asking",
           "locking", "keeping", "holding", "counting", "answered"}

Request ==
  [phase : Phases, route : Routes, cap : Viewers, asset : Assets \cup {NoAsset},
   item : Ids \cup {NoTitle}, ids : SUBSET Ids, since : Nat, now : Nat, known : SUBSET Ids,
   ask : SUBSET Ids, batch : SUBSET Ids, reply : SUBSET Ids, code : Codes,
   titles : Nat]

Idle ==
  [phase |-> "idle", route |-> "title", cap |-> Uncapped, asset |-> NoAsset, item |-> NoTitle,
   ids |-> {}, since |-> 0, now |-> 0, known |-> {}, ask |-> {}, batch |-> {}, reply |-> {},
   code |-> 0, titles |-> 0]

ASSUME TitlesAssumption ==
  /\ IsFiniteSet(Ids)
  /\ Home \in [Assets -> Ids]
  /\ Wants \in [Routes -> SUBSET ((SUBSET Ids) \ {{}})]  \* nothing is asked about nothing
ASSUME CapsAssumption   ==
  Caps \subseteq Nat /\ Ratings \subseteq Nat /\ AtFirst \subseteq World
ASSUME NoneAssumption   ==
  Uncapped \notin Caps /\ NoTitle \notin Ids /\ NoAsset \notin Assets /\ NoOne \notin Requests
ASSUME BoundsAssumption ==
  /\ VisibleTTL \in Nat \ {0} /\ AssetTTL \in Nat \ {0}
  /\ VisibleBatch \in Nat \ {0} /\ MaxAnswers \in Nat \ {0}
  /\ MaxTime \in Nat /\ MaxChanges \in Nat /\ MaxRequests \in Nat

VARIABLES
  clock,
  catalog,  \* katalog-api's: the World now
  changes,  \* how often it changed
  visible,  \* answers.visible: <<cap, id>> -> answer
  asset,    \* answers.subtitle (or .font): asset -> answer
  mu,       \* answers.mu: the request that holds it over more than one step
  req,      \* request -> its record
  begun,    \* how many requests there were
  \* History variable: the properties read it, no guard does.
  past      \* tick -> the worlds there were in it

vars == <<clock, catalog, changes, visible, asset, mu, req, begun, past>>

Init ==
  /\ clock = 0
  /\ catalog \in AtFirst
  /\ changes = 0
  /\ visible = [k \in {} |-> 0]
  /\ asset = [k \in {} |-> 0]
  /\ mu = NoOne
  /\ req = [p \in Requests |-> Idle]
  /\ begun = 0
  /\ past = [t \in 0 .. MaxTime |-> IF t = 0 THEN {catalog} ELSE {}]

-----------------------------------------------------------------------------
(* The clock and katalog-api.                                              *)
Tick ==
  /\ clock < MaxTime
  /\ clock' = clock + 1
  /\ past' = [past EXCEPT ![clock + 1] = {catalog}]
  /\ UNCHANGED <<catalog, changes, visible, asset, mu, req, begun>>

Becomes(w) ==
  /\ changes < MaxChanges
  /\ changes' = changes + 1
  /\ catalog' = w
  /\ past' = [past EXCEPT ![clock] = @ \cup {w}]
  /\ UNCHANGED <<clock, visible, asset, mu, req, begun>>

(* An admin rates a title anew; it leaves the library, or comes back.      *)
Rate(id, rating) == Becomes([catalog EXCEPT !.rating[id] = rating])

AddAsset(a)    == a \notin catalog.there /\ Becomes([catalog EXCEPT !.there = @ \cup {a}])
RemoveAsset(a) == a \in catalog.there /\ Becomes([catalog EXCEPT !.there = @ \ {a}])

(* The catalog is reset, and imported anew.                                *)
Reset    == ~catalog.importing /\ Becomes([catalog EXCEPT !.importing = TRUE])
Imported == catalog.importing /\ Becomes([catalog EXCEPT !.importing = FALSE])

-----------------------------------------------------------------------------
(* The tables' keys, and how long an answer is kept.                       *)
(* Faults: one answer for all caps; the key's parts are swapped.           *)
KeyOfAnyCap(cap, id) == <<CHOOSE c \in Caps : TRUE, id>>

KeySwapped(cap, id) == <<id, cap>>

Key(cap, id) == <<cap, id>>

(* Fault: the answer's time begins when it is kept.                        *)
UntilFromNow(r, ttl) == clock + ttl

Until(r, ttl) == r.now + ttl

-----------------------------------------------------------------------------
(* The handlers.                                                           *)
Begin(p, r) ==
  /\ req[p].phase \in {"idle", "answered"}
  /\ begun < MaxRequests
  /\ begun' = begun + 1
  /\ req' = [req EXCEPT ![p] = r]
  /\ UNCHANGED <<clock, catalog, changes, visible, asset, mu, past>>

Step(p, r) == req' = [req EXCEPT ![p] = r] /\ UNCHANGED <<clock, catalog, changes, begun, past>>
Move(p, r) == Step(p, r) /\ UNCHANGED <<visible, asset, mu>>

Answered(r, code) ==
  [r EXCEPT !.phase = "answered", !.code = code, !.ask = {}, !.batch = {}, !.reply = {}]

(* What is allowed is known: gate.serve, visibleIDs' callers,              *)
(* postAvailable.                                                          *)
Decided(r) ==
  IF r.route = "available" /\ r.known = {} THEN [r EXCEPT !.phase = "counting"]
  ELSE IF r.route \in {"title", "asset"} /\ r.known = {} THEN Answered(r, 404)
  ELSE Answered(r, 200)

New(route, cap, want) ==
  [Idle EXCEPT !.route = route, !.cap = cap, !.ids = want, !.since = clock, !.now = clock]

(* Nothing is asked for a viewer without a cap, but by postAvailable.      *)
BeginUncapped(p, route, want) ==
  /\ route # "available"
  /\ Begin(p, Answered([Idle EXCEPT !.route = route, !.ids = want, !.known = want], 200))

(* postAvailable of such a viewer: held asks about each id, in any order.  *)
BeginHeld(p, want) ==
  Begin(p, [New("available", Uncapped, want) EXCEPT !.phase = "holding", !.ask = want])

HoldOne(p, id) ==
  LET r == req[p]
      known == IF Shown(catalog, Uncapped, id) THEN r.known \cup {id} ELSE r.known
      s == [r EXCEPT !.ask = @ \ {id}, !.known = known]
  IN
  /\ r.phase = "holding"
  /\ id \in r.ask
  /\ Move(p, IF s.ask = {} THEN Decided(s) ELSE s)

BeginCapped(p, route, cap, want) ==
  /\ route # "asset"
  /\ route = "title" => Cardinality(want) = 1
  /\ Begin(p, [New(route, cap, want) EXCEPT !.phase = "looking"])

BeginAsset(p, cap, a) ==
  Begin(p, [New("asset", cap, {}) EXCEPT !.phase = "finding", !.asset = a])

(* assetItem found the asset's title, "" for none.                         *)
Found(r, item) ==
  IF item = NoTitle THEN Answered([r EXCEPT !.item = item], 404)
  ELSE [r EXCEPT !.item = item, !.phase = "calling"]

Find(p) ==
  LET r == req[p]
  IN
  /\ r.phase = "finding"
  /\ mu = NoOne
  /\ Move(p, IF Fresh(asset, r.asset, r.now) THEN Found(r, asset[r.asset].item)
             ELSE [r EXCEPT !.phase = "asking title"])

(* Fault: any answer but 200 is taken for katalog-api's 404.               *)
AskTitleOrNone(p) ==
  LET a == req[p].asset
  IN
  /\ req[p].phase = "asking title"
  /\ \E item \in {NoTitle} \cup {Home[b] : b \in {a} \cap catalog.there} :
       Move(p, [req[p] EXCEPT !.phase = "keeping title", !.item = item])

AskTitle(p) ==
  LET a == req[p].asset
      item == IF HasAsset(catalog, a) THEN Home[a] ELSE NoTitle
  IN
  /\ req[p].phase = "asking title"
  /\ Move(p, [req[p] EXCEPT !.phase = "keeping title", !.item = item])

KeepTitle(p) ==
  LET r == req[p]
  IN
  /\ r.phase = "keeping title"
  /\ mu = NoOne
  /\ asset' = Keep(asset, r.asset, [item |-> r.item, until |-> Until(r, AssetTTL)], r.now)
  /\ Step(p, Found(r, r.item))
  /\ UNCHANGED <<visible, mu>>

(* VisibleOne of that title: Visible begins.                               *)
Call(p) ==
  /\ req[p].phase = "calling"
  /\ Move(p, [req[p] EXCEPT !.phase = "looking", !.ids = {req[p].item}, !.now = clock])

(* Visible looks up what is kept; the rest is asked.                       *)
Look(p) ==
  LET r == req[p]
      kept == {id \in r.ids : Fresh(visible, Key(r.cap, id), r.now)}
      s == [r EXCEPT !.known = {id \in kept : visible[Key(r.cap, id)].visible},
                     !.ask = r.ids \ kept]
  IN
  /\ r.phase = "looking"
  /\ mu = NoOne
  /\ Move(p, IF s.ask = {} THEN Decided(s) ELSE [s EXCEPT !.phase = "asking"])

(* askVisible of a batch, with no lock held.                               *)
Batches(ask) ==
  {b \in SUBSET ask : b # {} /\ Cardinality(b) <= VisibleBatch
                      /\ (Cardinality(b) = VisibleBatch \/ b = ask)}

AskVisible(p, batch) ==
  /\ req[p].phase = "asking"
  /\ batch \in Batches(req[p].ask)
  /\ Move(p, [req[p] EXCEPT !.phase = "locking", !.batch = batch, !.ask = @ \ batch,
                            !.reply = {id \in batch : Shown(catalog, req[p].cap, id)}])

(* The batch's answers are kept, one by one, under the lock.               *)
Lock(p) ==
  /\ req[p].phase = "locking"
  /\ mu = NoOne
  /\ mu' = p
  /\ Step(p, [req[p] EXCEPT !.phase = "keeping"])
  /\ UNCHANGED <<visible, asset>>

KeepVisible(p, id) ==
  LET r == req[p]
      s == [r EXCEPT !.batch = @ \ {id}, !.known = @ \cup ({id} \cap r.reply)]
  IN
  /\ r.phase = "keeping"
  /\ id \in r.batch
  /\ visible' = Keep(visible, Key(r.cap, id),
                     [visible |-> id \in r.reply, until |-> Until(r, VisibleTTL)], r.now)
  /\ mu' = IF s.batch = {} THEN NoOne ELSE p
  /\ Step(p, IF s.batch # {} THEN s
             ELSE IF s.ask # {} THEN [s EXCEPT !.phase = "asking"] ELSE Decided(s))
  /\ UNCHANGED asset

(* An answer that leaves out every id says how many titles there are.      *)
CountAll(p) ==
  /\ req[p].phase = "counting"
  /\ Move(p, [Answered(req[p], 200) EXCEPT !.titles = Titles(catalog, req[p].cap)])

Fails(r) == r.phase \in {"asking title", "asking", "holding", "counting"}

(* Fault: what was left to ask about is left out.                          *)
FailEmpty(p) == Fails(req[p]) /\ Move(p, Decided(req[p]))

(* katalog-api fails, or the client goes: 502, and nothing is served.      *)
Fail(p) ==
  /\ Fails(req[p])
  /\ Move(p, Answered([req[p] EXCEPT !.known = {}], 502))

Next ==
  \/ Tick \/ Reset \/ Imported
  \/ \E id \in Ids, rating \in Ratings \cup {NoTitle} : Rate(id, rating)
  \/ \E a \in Assets : AddAsset(a) \/ RemoveAsset(a)
  \/ \E p \in Requests :
       \/ \E route \in Routes : \E want \in Wants[route] :
            \/ BeginUncapped(p, route, want)
            \/ \E cap \in Caps : BeginCapped(p, route, cap, want)
       \/ \E want \in Wants["available"] : BeginHeld(p, want)
       \/ \E cap \in Caps, a \in Assets : BeginAsset(p, cap, a)
       \/ \E id \in Ids : HoldOne(p, id) \/ KeepVisible(p, id)
       \/ \E batch \in SUBSET Ids : AskVisible(p, batch)
       \/ Find(p) \/ AskTitle(p) \/ KeepTitle(p) \/ Call(p)
       \/ Look(p) \/ Lock(p) \/ CountAll(p) \/ Fail(p)

Spec == Init /\ [][Next]_vars

-----------------------------------------------------------------------------
(* Properties.                                                             *)
Visible == [visible : BOOLEAN, until : Nat]
Item    == [item : Ids \cup {NoTitle}, until : Nat]

(* The types: what is kept is kept by cap and title, or by asset.          *)
TypeOK ==
  /\ clock \in 0 .. MaxTime
  /\ catalog \in World
  /\ changes \in 0 .. MaxChanges
  /\ DOMAIN visible \subseteq Caps \X Ids
  /\ \A k \in DOMAIN visible : visible[k] \in Visible
  /\ DOMAIN asset \subseteq Assets
  /\ \A a \in DOMAIN asset : asset[a] \in Item
  /\ mu \in Requests \cup {NoOne}
  /\ req \in [Requests -> Request]
  /\ begun \in 0 .. MaxRequests
  /\ past \in [0 .. MaxTime -> SUBSET World]

(* The worlds there were after tick t.                                     *)
Since(t) == UNION {past[u] : u \in {v \in 0 .. clock : v > t}}

(* No table keeps more answers than maxAnswers, however many requests fill *)
(* it at once (keep, ratings.go).                                          *)
WithinMaxAnswers ==
  /\ Cardinality(DOMAIN visible) <= MaxAnswers
  /\ Cardinality(DOMAIN asset) <= MaxAnswers

(* The answers that were decided by what a cap allows.                     *)
DecidedFor(r) ==
  r.phase = "answered" /\ r.code # 502 /\ (r.cap # Uncapped \/ r.route = "available")

(* What was so after tick t.                                               *)
SeenShown(cap, id, t)  == \E w \in Since(t) : Shown(w, cap, id)
SeenHidden(cap, id, t) == \E w \in Since(t) : ~Shown(w, cap, id)
SeenThere(a, t)        == \E w \in Since(t) : HasAsset(w, a)
SeenMissing(a, t)      == \E w \in Since(t) : ~HasAsset(w, a)

(* What a viewer is served, its cap allowed less than visibleTTL before it *)
(* was looked up, or later (Visible): no answer for another cap, for       *)
(* another title, or kept too long lets a title through.                   *)
ServedWasShown ==
  \A p \in Requests : DecidedFor(req[p]) =>
    \A id \in req[p].known : SeenShown(req[p].cap, id, req[p].now - VisibleTTL)

(* And what it is not served, the cap did not allow: a failure leaves      *)
(* nothing out, it is an error of the whole list (Visible, held).          *)
LeftOutWasHidden ==
  \A p \in Requests : DecidedFor(req[p]) =>
    \A id \in req[p].ids \ req[p].known : SeenHidden(req[p].cap, id, req[p].now - VisibleTTL)

(* An asset is served as its own title is; one that is not found was not   *)
(* there less than subtitleTTL before it was asked for, or later (gate's   *)
(* owned, assetItem).                                                      *)
AsItsTitle(r) ==
  \/ r.ids = {Home[r.asset]} /\ SeenThere(r.asset, r.since - AssetTTL)
  \/ r.code = 404 /\ SeenMissing(r.asset, r.since - AssetTTL)

AssetsAsTheirTitle ==
  \A p \in Requests : DecidedFor(req[p]) /\ req[p].route = "asset" => AsItsTitle(req[p])

(* available.go: with titles above 0, an answer without an id is the       *)
(* library's word, and not a catalog reset or imported anew.  Violated: an *)
(* id is asked about while it is, and the titles are counted after.        *)
LibrarysWord ==
  \A p \in Requests : DecidedFor(req[p]) /\ req[p].known = {} /\ req[p].titles > 0 =>
    \E w \in Since(req[p].since - VisibleTTL) :
      ~w.importing /\ \A id \in req[p].ids : ~Shown(w, req[p].cap, id)
=============================================================================
