-------------------------- MODULE WatchlistsProofs --------------------------
(***************************************************************************)
(* The properties of Watchlists, for any number of users, clients, lists   *)
(* and titles, any names and any cap.                                      *)
(***************************************************************************)
EXTENDS Watchlists, FiniteSetTheorems, TLAPS

USE DefaultAssumption, NamesAssumption, BoundsAssumption, NoListAssumption

-----------------------------------------------------------------------------
(* A request moved to its next statement is a request at that statement.   *)
LEMMA GoTyped ==
  ASSUME TypeOK, NEW c \in Clients, NEW phase,
         req[c] # Idle,
         Go(c, phase) \/ Done(c),
         \/ req[c].op = "create" /\ phase \in {"count", "name", "insert"}
         \/ req[c].op = "rename" /\ phase \in {"name", "update"}
         \/ req[c].op = "delete" /\ phase = "erase"
         \/ req[c].op \in {"add", "remove"} /\ phase \in {"owns", "put"}
  PROVE  req' \in [Clients -> Request \cup {Idle}]
<1>1. req[c] \in Request
  BY DEF TypeOK
<1>2. [req[c] EXCEPT !.phase = phase] \in Request
  BY <1>1 DEF Request
<1> QED
  BY <1>2 DEF TypeOK, Go, Done

(* A request that ends leaves its client idle.                             *)
LEMMA DoneTyped ==
  ASSUME TypeOK, NEW c \in Clients, Done(c)
  PROVE  req' \in [Clients -> Request \cup {Idle}]
BY DEF TypeOK, Done

(* A request that comes in is a request.                                   *)
LEMMA StartTyped == Starts \subseteq Request
BY DEF Starts

(* Every variable keeps its type.                                          *)
THEOREM TypeCorrect == Spec => []TypeOK
<1>1. Init => TypeOK
  BY DEF Init, TypeOK
<1>2. TypeOK /\ [Next]_vars => TypeOK'
  <2> SUFFICES ASSUME TypeOK, [Next]_vars PROVE TypeOK'
    OBVIOUS
  <2>1. ASSUME NEW c \in Clients, NEW r \in Starts, Arrive(c, r)
        PROVE  TypeOK'
    <3>1. r \in Request
      BY StartTyped
    <3> QED
      BY <2>1, <3>1 DEF Arrive, TypeOK, There
  <2>2. ASSUME NEW c \in Clients, Ensure(c)
        PROVE  TypeOK'
    <3>1. req[c] \in Request /\ req[c] # Idle /\ req[c].user \in Users
      BY <2>2 DEF Ensure, TypeOK, Idle, Request
    <3>2. lists' \in [Lists -> Row \cup {NoList}] /\ \A l \in Lists : There(l) => There(l)'
      <4>1. [owner |-> req[c].user, name |-> DefaultName, default |-> TRUE] \in Row
        BY <3>1 DEF Row
      <4> QED
        BY <2>2, <3>1, <4>1 DEF Ensure, TypeOK, There
    <3>3. req' \in [Clients -> Request \cup {Idle}]
      BY <2>2, <3>1, GoTyped, DoneTyped DEF Ensure
    <3>4. raced' \subseteq Users \X Names /\ bereft' \subseteq Users
      BY <2>2, <3>1 DEF Ensure, MadeAnew, TypeOK
    <3> QED
      BY <2>2, <3>2, <3>3, <3>4 DEF Ensure, TypeOK
  <2>3. ASSUME NEW c \in Clients, Count(c)
        PROVE  TypeOK'
    <3>1. req[c] # Idle /\ req[c].op = "create"
      BY <2>3 DEF Count, TypeOK, Idle, Request
    <3>2. req' \in [Clients -> Request \cup {Idle}]
      BY <2>3, <3>1, GoTyped, DoneTyped DEF Count
    <3> QED
      BY <2>3, <3>2 DEF Count, TypeOK, There
  <2>4. ASSUME NEW c \in Clients, Get(c)
        PROVE  TypeOK'
    <3>1. req[c] # Idle /\ req[c].op \in {"rename", "delete"}
      BY <2>4 DEF Get, TypeOK, Idle, Request
    <3>2. req' \in [Clients -> Request \cup {Idle}]
      BY <2>4, <3>1, GoTyped, DoneTyped DEF Get
    <3> QED
      BY <2>4, <3>2 DEF Get, TypeOK, There
  <2>5. ASSUME NEW c \in Clients, CheckName(c)
        PROVE  TypeOK'
    <3>1. req[c] # Idle /\ req[c].op \in {"create", "rename"}
      BY <2>5 DEF CheckName, TypeOK, Idle, Request
    <3>2. req' \in [Clients -> Request \cup {Idle}]
      BY <2>5, <3>1, GoTyped, DoneTyped DEF CheckName
    <3>3. ASSUME NEW b \in Clients, Naming(req[b])
          PROVE  NameKey(req[b]) \in Users \X Names
      BY <3>3 DEF Naming, NameKey, TypeOK, Request, Idle
    <3>4. raced' \subseteq Users \X Names
      BY <2>5, <3>3 DEF CheckName, TypeOK
    <3> QED
      BY <2>5, <3>2, <3>4 DEF CheckName, TypeOK, There
  <2>6. ASSUME NEW c \in Clients, NEW l \in Lists, Insert(c, l)
        PROVE  TypeOK'
    <3>1. req[c].user \in Users /\ req[c].name \in Names
      BY <2>6 DEF Insert, TypeOK, Idle, Request
    <3>2. [owner |-> req[c].user, name |-> req[c].name, default |-> FALSE] \in Row
      BY <3>1 DEF Row
    <3>3. lists' \in [Lists -> Row \cup {NoList}] /\ \A k \in Lists : There(k) => There(k)'
      BY <2>6, <3>2 DEF Insert, TypeOK, There
    <3> QED
      BY <2>6, <3>3, DoneTyped DEF Insert, TypeOK
  <2>7. ASSUME NEW c \in Clients, Update(c)
        PROVE  TypeOK'
    <3>1. req[c].list \in Lists /\ req[c].name \in Names
      BY <2>7 DEF Update, TypeOK, Idle, Request
    <3>2. lists' \in [Lists -> Row \cup {NoList}] /\ \A l \in Lists : There(l) => There(l)'
      BY <2>7, <3>1 DEF Update, TypeOK, Row, Owns, There
    <3> QED
      BY <2>7, <3>2, DoneTyped DEF Update, TypeOK
  <2>8. ASSUME NEW c \in Clients, Erase(c)
        PROVE  TypeOK'
    BY <2>8, DoneTyped DEF Erase, TypeOK, There
  <2>9. ASSUME NEW c \in Clients, CheckOwner(c)
        PROVE  TypeOK'
    <3>1. req[c] # Idle /\ req[c].op \in {"add", "remove"}
      BY <2>9 DEF CheckOwner, TypeOK, Idle, Request
    <3>2. req' \in [Clients -> Request \cup {Idle}]
      BY <2>9, <3>1, GoTyped, DoneTyped DEF CheckOwner
    <3> QED
      BY <2>9, <3>2 DEF CheckOwner, TypeOK, There
  <2>10. ASSUME NEW c \in Clients, Put(c)
         PROVE  TypeOK'
    <3>1. req[c].list \in Lists /\ req[c].title \in Titles
      BY <2>10 DEF Put, TypeOK, Idle, Request
    <3> QED
      BY <2>10, <3>1, DoneTyped DEF Put, TypeOK, There
  <2>11. ASSUME NEW c \in Clients, Fail(c)
         PROVE  TypeOK'
    BY <2>11, DoneTyped DEF Fail, TypeOK, There
  <2>12. ASSUME NEW u \in Users, Doom(u) \/ Commit(u) \/ RollBack(u)
         PROVE  TypeOK'
    <3>1. CASE Doom(u)
      BY <3>1 DEF Doom, TypeOK, ListsOf, Owns, There
    <3>2. CASE Commit(u)
      BY <3>2 DEF Commit, TypeOK, There, Doomed
    <3>3. CASE RollBack(u)
      BY <3>3 DEF RollBack, TypeOK, There
    <3> QED
      BY <2>12, <3>1, <3>2, <3>3
  <2>13. CASE UNCHANGED vars
    BY <2>13 DEF vars, TypeOK, There
  <2> QED
    BY <2>1, <2>2, <2>3, <2>4, <2>5, <2>6, <2>7, <2>8, <2>9, <2>10, <2>11, <2>12, <2>13
    DEF Next, Handle
<1> QED
  BY <1>1, <1>2, PTL DEF Spec
-----------------------------------------------------------------------------
(* What the handlers' later statements rely on: an id is given once, the   *)
(* default lists are where they should be and stay there, and a list whose *)
(* owner was checked is still of that owner, if it is there at all.        *)
IdsGivenOnce == \A l \in Lists : There(l) => l \in minted

DefaultIds ==
  \A u \in Users : /\ DefaultOf[u] \in minted
                   /\ There(DefaultOf[u]) => lists[DefaultOf[u]].owner = u

DefaultFlags ==
  \A l \in Lists : There(l) =>
    /\ lists[l].default <=> l = DefaultOf[lists[l].owner]
    /\ There(DefaultOf[lists[l].owner]) \/ lists[l].owner \in bereft

IsDefaultId(l) == \E u \in Users : l = DefaultOf[u]

(* A request past the statement that makes the default, or finds a list.   *)
PastDefault(r)  == Creates(r, r.user)
OwnerChecked(r) ==
  \/ r.phase \in {"update", "erase", "put"}
  \/ r.phase = "name" /\ r.op = "rename"

Relied(r) ==
  /\ PastDefault(r) => There(DefaultOf[r.user]) \/ r.user \in bereft
  /\ OwnerChecked(r) =>
       /\ r.list \in minted
       /\ There(r.list) => lists[r.list].owner = r.user
       /\ IsDefaultId(r.list) => r.list = DefaultOf[r.user] /\ r.phase # "erase"

ListInv ==
  /\ TypeOK
  /\ IdsGivenOnce
  /\ DefaultIds
  /\ DefaultFlags
  /\ \A c \in Clients : Relied(req[c])

(* A step that leaves the lists alone keeps it, when the request it moves  *)
(* has what its next statement relies on.                                  *)
LEMMA SameLists ==
  ASSUME ListInv, TypeOK', lists' = lists, minted' = minted, bereft' = bereft,
         NEW c \in Clients, NEW r, req' = [req EXCEPT ![c] = r], Relied(r)
  PROVE  ListInv'
<1>1. \A b \in Clients : req'[b] = req[b] \/ req'[b] = r
  BY DEF ListInv, TypeOK
<1>2. IdsGivenOnce' /\ DefaultIds' /\ DefaultFlags'
  BY DEF ListInv, IdsGivenOnce, DefaultIds, DefaultFlags, There
<1>3. ASSUME NEW b \in Clients
      PROVE  Relied(req[b])'
  <2>1. Relied(req'[b])
    BY <1>1 DEF ListInv
  <2> QED
    BY <2>1 DEF Relied, There, PastDefault, Creates, OwnerChecked, IsDefaultId
<1> QED
  BY <1>2, <1>3 DEF ListInv

(* So does a request's end.                                                *)
LEMMA IdleRelies == Relied(Idle)
BY DEF Relied, PastDefault, Creates, OwnerChecked, Idle

(* Every step keeps it.                                                    *)
LEMMA ListInvStep ==
  ASSUME ListInv, TypeOK', [Next]_vars
  PROVE  ListInv'
<1> USE DEF PastDefault, Creates, OwnerChecked
<1>1. ASSUME NEW c \in Clients, NEW r \in Starts, Arrive(c, r)
      PROVE  ListInv'
  <2>1. Relied(r)
    BY DEF Relied, Starts
  <2> QED
    BY <1>1, <2>1, SameLists DEF Arrive
<1>2. ASSUME NEW c \in Clients, Ensure(c)
      PROVE  ListInv'
  <2> DEFINE u == req[c].user
             l == DefaultOf[u]
  <2>1. req[c] \in Request /\ u \in Users /\ l \in Lists
    BY <1>2 DEF Ensure, ListInv, TypeOK, Idle, Request
  <2>2. PICK r : /\ req' = [req EXCEPT ![c] = r]
                 /\ r.phase \in {"idle", "count", "owns"}
                 /\ r.phase = "count" => r.user = u
    <3>1. CASE req[c].op = "read"
      BY <1>2, <3>1 DEF Ensure, Done, Idle
    <3>2. CASE req[c].op = "create"
      <4> DEFINE s == [req[c] EXCEPT !.phase = "count"]
      <4>1. req' = [req EXCEPT ![c] = s] /\ s.phase = "count" /\ s.user = u
        BY <1>2, <2>1, <3>2 DEF Ensure, Go, Request
      <4> QED
        BY <4>1
    <3>3. CASE req[c].op \in {"add", "remove"}
      <4> DEFINE s == [req[c] EXCEPT !.phase = "owns"]
      <4>1. req' = [req EXCEPT ![c] = s] /\ s.phase = "owns"
        BY <1>2, <2>1, <3>3 DEF Ensure, Go, Request
      <4> QED
        BY <4>1
    <3>4. req[c].op \in {"read", "create", "add", "remove"}
      BY <1>2 DEF Ensure
    <3> QED
      BY <3>1, <3>2, <3>3, <3>4
  <2>3. CASE There(l)
    <3>1. Relied(r)
      BY <2>2, <2>3 DEF Relied
    <3> QED
      BY <1>2, <2>2, <2>3, <3>1, SameLists DEF Ensure
  <2>4. CASE ~There(l)
    <3>1. /\ lists'[l] = [owner |-> u, name |-> DefaultName, default |-> TRUE]
          /\ lists'[l] # NoList
          /\ \A k \in Lists \ {l} : lists'[k] = lists[k]
          /\ minted' = minted /\ bereft' = bereft \ {u}
      <4>1. [owner |-> u, name |-> DefaultName, default |-> TRUE] \in Row
        BY <2>1 DEF Row
      <4> QED
        BY <1>2, <2>1, <2>4, <4>1 DEF Ensure, MadeAnew, ListInv, TypeOK
    <3>2. IdsGivenOnce'
      BY <2>1, <3>1 DEF ListInv, IdsGivenOnce, DefaultIds, There
    <3>3. DefaultIds'
      BY <2>1, <3>1 DEF ListInv, DefaultIds, There
    <3>4. DefaultFlags'
      BY <2>1, <3>1 DEF ListInv, TypeOK, DefaultFlags, DefaultIds, There, Row
    <3>5. ASSUME NEW b \in Clients, b # c
          PROVE  Relied(req[b])'
      <4>1. req'[b] = req[b] /\ Relied(req[b])
        BY <2>2, <3>5 DEF ListInv, TypeOK
      <4>2. \A k \in Lists : There(k) => There(k)' /\ lists'[k] = lists[k]
        BY <2>4, <3>1 DEF There
      <4>4. /\ PastDefault(req[b]) => req[b].user \in Users /\ DefaultOf[req[b].user] \in Lists
            /\ OwnerChecked(req[b]) => req[b].user \in Users /\ req[b].list \in Lists
        BY DEF ListInv, TypeOK, Request, Idle
      <4>3. (OwnerChecked(req[b]) /\ req[b].list = l) => req[b].user = u
        BY <2>1, <4>1, <4>4 DEF Relied, IsDefaultId
      <4> QED
        BY <3>1, <4>1, <4>2, <4>3, <4>4 DEF Relied, There, IsDefaultId
    <3>6. Relied(req[c])'
      BY <2>1, <2>2, <3>1 DEF ListInv, TypeOK, Relied, There
    <3> QED
      BY <3>2, <3>3, <3>4, <3>5, <3>6 DEF ListInv
  <2> QED
    BY <2>3, <2>4
<1>3. ASSUME NEW c \in Clients, Count(c)
      PROVE  ListInv'
  <2>1. /\ req[c] \in Request /\ req[c].op = "create"
        /\ There(DefaultOf[req[c].user]) \/ req[c].user \in bereft
    BY <1>3 DEF Count, ListInv, TypeOK, Idle, Request, Relied
  <2>2. Relied([req[c] EXCEPT !.phase = "name"])
    BY <2>1 DEF Relied, Request
  <2> QED
    BY <1>3, <2>2, IdleRelies, SameLists DEF Count, Go, Done
<1>4. ASSUME NEW c \in Clients, Get(c)
      PROVE  ListInv'
  <2> DEFINE r == req[c]
  <2>1. r \in Request /\ r.op \in {"rename", "delete"} /\ r.user \in Users /\ r.list \in Lists
    BY <1>4 DEF Get, ListInv, TypeOK, Idle, Request
  <2>2. CASE Owns(r.user, r.list) /\ r.op = "rename"
    <3>1. Relied([r EXCEPT !.phase = "name"])
      BY <2>1, <2>2 DEF Relied, Request, Owns, ListInv, IdsGivenOnce, DefaultIds, IsDefaultId
    <3> QED
      BY <1>4, <2>2, <3>1, SameLists DEF Get, Go
  <2>3. CASE Owns(r.user, r.list) /\ r.op = "delete" /\ ~lists[r.list].default
    <3>1. ~IsDefaultId(r.list)
      BY <2>1, <2>3 DEF IsDefaultId, Owns, ListInv, DefaultFlags, DefaultIds
    <3>2. Relied([r EXCEPT !.phase = "erase"])
      BY <2>1, <2>3, <3>1 DEF Relied, Request, Owns, ListInv, IdsGivenOnce
    <3> QED
      BY <1>4, <2>3, <3>2, SameLists DEF Get, Go
  <2>4. CASE Done(c)
    BY <1>4, <2>4, IdleRelies, SameLists DEF Get, Done
  <2> QED
    BY <1>4, <2>1, <2>2, <2>3, <2>4 DEF Get
<1>5. ASSUME NEW c \in Clients, CheckName(c)
      PROVE  ListInv'
  <2> DEFINE r == req[c]
  <2>1. r \in Request /\ r.op \in {"create", "rename"} /\ Relied(r)
    BY <1>5 DEF CheckName, ListInv, TypeOK, Idle, Request
  <2>2. /\ r.op = "rename" => Relied([r EXCEPT !.phase = "update"])
        /\ r.op = "create" => Relied([r EXCEPT !.phase = "insert"])
    BY <1>5, <2>1 DEF CheckName, Relied, Request
  <2> QED
    BY <1>5, <2>1, <2>2, IdleRelies, SameLists DEF CheckName, Go, Done
<1>6. ASSUME NEW c \in Clients, NEW l \in Lists, Insert(c, l)
      PROVE  ListInv'
  <2>1. /\ req[c].user \in Users /\ req[c].name \in Names
        /\ There(DefaultOf[req[c].user]) \/ req[c].user \in bereft
        /\ ~There(l) /\ ~IsDefaultId(l)
    BY <1>6 DEF Insert, ListInv, TypeOK, Idle, Request, Relied, IdsGivenOnce,
                DefaultIds, IsDefaultId
  <2>2. /\ lists'[l] = [owner |-> req[c].user, name |-> req[c].name, default |-> FALSE]
        /\ lists'[l] # NoList
        /\ \A k \in Lists \ {l} : lists'[k] = lists[k]
        /\ minted' = minted \cup {l} /\ bereft' = bereft
    <3>1. [owner |-> req[c].user, name |-> req[c].name, default |-> FALSE] \in Row
      BY <2>1 DEF Row
    <3> QED
      BY <1>6, <2>1, <3>1 DEF Insert, ListInv, TypeOK
  <2>3. IdsGivenOnce' /\ DefaultIds'
    BY <2>1, <2>2 DEF ListInv, IdsGivenOnce, DefaultIds, There, IsDefaultId
  <2>4. DefaultFlags'
    BY <2>1, <2>2 DEF ListInv, TypeOK, DefaultFlags, There, IsDefaultId, Row
  <2>5. ASSUME NEW b \in Clients
        PROVE  Relied(req[b])'
    <3>1. req'[b] = Idle \/ req'[b] = req[b]
      BY <1>6 DEF Insert, Done, ListInv, TypeOK
    <3>2. Relied(req[b]) /\ (OwnerChecked(req[b]) => req[b].list # l)
      BY <1>6 DEF Insert, ListInv, Relied
    <3>3. \A k \in Lists : There(k) => There(k)'
      BY <2>2 DEF There
    <3>4. /\ PastDefault(req[b]) => DefaultOf[req[b].user] \in Lists
          /\ OwnerChecked(req[b]) => req[b].list \in Lists
      BY DEF ListInv, TypeOK, Request, Idle
    <3> QED
      BY <2>2, <3>1, <3>2, <3>3, <3>4 DEF Relied, There, Idle, IsDefaultId
  <2> QED
    BY <2>3, <2>4, <2>5 DEF ListInv
<1>7. ASSUME NEW c \in Clients, Update(c)
      PROVE  ListInv'
  <2> DEFINE r == req[c]
  <2>1. r.list \in Lists /\ r.name \in Names
    BY <1>7 DEF Update, ListInv, TypeOK, Idle, Request
  <2>2. /\ minted' = minted /\ bereft' = bereft
        /\ \A k \in Lists : /\ There(k)' <=> There(k)
                            /\ There(k) => /\ lists'[k].owner = lists[k].owner
                                           /\ lists'[k].default = lists[k].default
    BY <1>7, <2>1 DEF Update, Owns, There, ListInv, TypeOK, Row
  <2>3. IdsGivenOnce' /\ DefaultIds' /\ DefaultFlags'
    BY <2>2 DEF ListInv, TypeOK, IdsGivenOnce, DefaultIds, DefaultFlags, There, Row
  <2>4. ASSUME NEW b \in Clients
        PROVE  Relied(req[b])'
    <3>1. (req'[b] = Idle \/ req'[b] = req[b]) /\ Relied(req[b])
      BY <1>7 DEF Update, Done, ListInv, TypeOK
    <3>2. /\ PastDefault(req[b]) => DefaultOf[req[b].user] \in Lists
          /\ OwnerChecked(req[b]) => req[b].list \in Lists
      BY DEF ListInv, TypeOK, Request, Idle
    <3> QED
      BY <2>2, <3>1, <3>2 DEF Relied, Idle, IsDefaultId
  <2> QED
    BY <2>3, <2>4 DEF ListInv
<1>8. ASSUME NEW c \in Clients, Erase(c)
      PROVE  ListInv'
  <2> DEFINE r == req[c]
  <2>1. r.list \in Lists /\ ~IsDefaultId(r.list)
    BY <1>8 DEF Erase, ListInv, TypeOK, Idle, Request, Relied
  <2>2. /\ minted' = minted /\ bereft' = bereft
        /\ \A k \in Lists : /\ There(k)' => There(k) /\ lists'[k] = lists[k]
                            /\ IsDefaultId(k) => lists'[k] = lists[k]
    BY <1>8, <2>1 DEF Erase, There, ListInv, TypeOK
  <2>3. IdsGivenOnce' /\ DefaultIds' /\ DefaultFlags'
    BY <2>2 DEF ListInv, TypeOK, IdsGivenOnce, DefaultIds, DefaultFlags, There, Row,
                IsDefaultId
  <2>4. ASSUME NEW b \in Clients
        PROVE  Relied(req[b])'
    <3>1. (req'[b] = Idle \/ req'[b] = req[b]) /\ Relied(req[b])
      BY <1>8 DEF Erase, Done, ListInv, TypeOK
    <3>2. /\ PastDefault(req[b]) => req[b].user \in Users /\ DefaultOf[req[b].user] \in Lists
          /\ OwnerChecked(req[b]) => req[b].list \in Lists
      BY DEF ListInv, TypeOK, Request, Idle
    <3> QED
      BY <2>2, <3>1, <3>2 DEF Relied, Idle, IsDefaultId, There
  <2> QED
    BY <2>3, <2>4 DEF ListInv
<1>9. ASSUME NEW c \in Clients, CheckOwner(c)
      PROVE  ListInv'
  <2> DEFINE r == req[c]
  <2>1. r \in Request /\ r.list \in Lists /\ r.op \in {"add", "remove"}
    BY <1>9 DEF CheckOwner, ListInv, TypeOK, Idle, Request
  <2>2. Owns(r.user, r.list) => Relied([r EXCEPT !.phase = "put"])
    BY <2>1 DEF Owns, Relied, Request, ListInv, IdsGivenOnce, DefaultIds, IsDefaultId
  <2> QED
    BY <1>9, <2>2, IdleRelies, SameLists DEF CheckOwner, Go, Done
<1>10. ASSUME NEW c \in Clients, Put(c)
       PROVE  ListInv'
  BY <1>10, IdleRelies, SameLists DEF Put, Done
<1>11. ASSUME NEW c \in Clients, Fail(c)
       PROVE  ListInv'
  BY <1>11, IdleRelies, SameLists DEF Fail, Done
<1>12. ASSUME NEW u \in Users, Commit(u)
       PROVE  ListInv'
  <2>1. /\ minted' = minted /\ req' = req /\ bereft \subseteq bereft'
        /\ \A k \in Lists : There(k)' => There(k) /\ lists'[k] = lists[k]
        /\ \A k \in Lists : There(k) => There(k)' \/ (k \in doomed /\ lists[k].owner = u)
    BY <1>12 DEF Commit, Doomed, ListsOf, Owns, There, ListInv, TypeOK
  <2>2. IdsGivenOnce' /\ DefaultIds'
    BY <2>1 DEF ListInv, IdsGivenOnce, DefaultIds
  <2>3. ASSUME NEW v \in Users, There(DefaultOf[v]) \/ v \in bereft,
               \/ \E k \in Lists : There(k)' /\ lists'[k].owner = v
               \/ \E c \in Clients : Creates(req[c], v)
        PROVE  There(DefaultOf[v])' \/ v \in bereft'
    <3>1. CASE v # u
      BY <2>1, <2>3, <3>1 DEF ListInv, DefaultIds
    <3>2. CASE v = u /\ DefaultOf[u] \notin doomed
      BY <2>1, <2>3, <3>2
    <3>3. CASE v = u /\ DefaultOf[u] \in doomed
      <4>1. Outlives(u)
        BY <1>12, <2>3, <3>3 DEF Outlives, Commit, Doomed, ListsOf, Owns, There, ListInv, TypeOK
      <4> QED
        BY <1>12, <3>3, <4>1 DEF Commit
    <3> QED
      BY <3>1, <3>2, <3>3
  <2>4. DefaultFlags'
    BY <2>1, <2>3 DEF ListInv, DefaultFlags, TypeOK, Row, There
  <2>5. ASSUME NEW c \in Clients
        PROVE  Relied(req[c])'
    <3>1. /\ PastDefault(req[c]) => req[c].user \in Users
          /\ OwnerChecked(req[c]) => req[c].list \in Lists
      BY DEF ListInv, TypeOK, Request, Idle
    <3>2. PastDefault(req[c])
            => There(DefaultOf[req[c].user])' \/ req[c].user \in bereft'
      <4> SUFFICES ASSUME Creates(req[c], req[c].user)
                   PROVE  There(DefaultOf[req[c].user])' \/ req[c].user \in bereft'
        BY DEF PastDefault
      <4>1. PICK v \in Users : v = req[c].user
        BY <3>1 DEF PastDefault
      <4>2. There(DefaultOf[v]) \/ v \in bereft
        BY <4>1 DEF ListInv, Relied
      <4>3. Creates(req[c], v)
        BY <4>1
      <4>4. There(DefaultOf[v])' \/ v \in bereft'
        <5> HIDE DEF Creates
        <5> QED
          BY <2>3, <4>2, <4>3
      <4> QED
        BY <1>12, <4>1, <4>4 DEF Commit, There
    <3> QED
      BY <2>1, <3>1, <3>2 DEF ListInv, Relied, IsDefaultId
  <2> QED
    BY <2>2, <2>4, <2>5 DEF ListInv
<1>13. ASSUME NEW u \in Users, Doom(u) \/ RollBack(u)
       PROVE  ListInv'
  BY <1>13 DEF Doom, RollBack, ListInv, IdsGivenOnce, DefaultIds, DefaultFlags, Relied, There,
               IsDefaultId
<1>14. CASE UNCHANGED vars
  BY <1>14 DEF vars, ListInv, IdsGivenOnce, DefaultIds, DefaultFlags, Relied, There,
               IsDefaultId
<1> QED
  BY <1>1, <1>2, <1>3, <1>4, <1>5, <1>6, <1>7, <1>8, <1>9, <1>10, <1>11, <1>12, <1>13, <1>14
  DEF Next, Handle

(* It holds throughout.                                                    *)
LEMMA ListInvAlways == Spec => []ListInv
<1>1. Init => ListInv
  BY DEF Init, ListInv, TypeOK, IdsGivenOnce, DefaultIds, DefaultFlags, Relied, There,
         PastDefault, Creates, OwnerChecked, Idle
<1> QED
  BY <1>1, ListInvStep, TypeCorrect, PTL DEF Spec
-----------------------------------------------------------------------------
(* A user with a list has the default list, and no other that says it is - *)
(* but for creates that outlived the account's lists (CreateWatchlist      *)
(* ensures it first, DeleteWatchlist refuses it, DeleteUserData).          *)
THEOREM DefaultStays == Spec => []DefaultIsThere
<1>1. ListInv => DefaultIsThere
  <2> SUFFICES ASSUME ListInv, NEW u \in Users, ListsOf(u) # {}
               PROVE  /\ DefaultOf[u] \in ListsOf(u) \/ u \in bereft
                      /\ {l \in ListsOf(u) : lists[l].default} \subseteq {DefaultOf[u]}
    BY DEF DefaultIsThere
  <2>1. DefaultOf[u] \in ListsOf(u) \/ u \in bereft
    BY DEF ListInv, DefaultIds, DefaultFlags, ListsOf, Owns
  <2>2. \A l \in ListsOf(u) : lists[l].default <=> l = DefaultOf[u]
    BY DEF ListInv, DefaultFlags, ListsOf, Owns
  <2> QED
    BY <2>1, <2>2
<1> QED
  BY <1>1, ListInvAlways, PTL

(* No title outlives its list (the cascade), nor comes to one that is gone *)
(* (the foreign key), whatever was read of it before.                      *)
THEOREM NoTitleWithoutAList == Spec => []TitlesHaveAList
<1>1. Init => TitlesHaveAList
  BY DEF Init, TitlesHaveAList
<1>2. TitlesHaveAList /\ ListInv /\ [Next]_vars => TitlesHaveAList'
  <2> SUFFICES ASSUME TitlesHaveAList, ListInv, [Next]_vars,
                      NEW l \in Lists, titles'[l] # {}
               PROVE  There(l)'
    BY DEF TitlesHaveAList
  <2>1. CASE UNCHANGED vars
    BY <2>1 DEF vars, TitlesHaveAList, There
  <2>2. ASSUME NEW c \in Clients, lists' = lists, titles' = titles
        PROVE  There(l)'
    BY <2>2 DEF TitlesHaveAList, There
  <2>3. ASSUME NEW c \in Clients, Ensure(c)
        PROVE  There(l)'
    <3>1. req[c].user \in Users
      BY <2>3 DEF Ensure, ListInv, TypeOK, Idle, Request
    <3>2. [owner |-> req[c].user, name |-> DefaultName, default |-> TRUE] \in Row
      BY <3>1 DEF Row
    <3> QED
      BY <2>3, <3>2 DEF Ensure, TitlesHaveAList, There, ListInv, TypeOK
  <2>4. ASSUME NEW c \in Clients, NEW k \in Lists, Insert(c, k)
        PROVE  There(l)'
    <3>1. req[c].user \in Users /\ req[c].name \in Names
      BY <2>4 DEF Insert, ListInv, TypeOK, Idle, Request
    <3>2. [owner |-> req[c].user, name |-> req[c].name, default |-> FALSE] \in Row
      BY <3>1 DEF Row
    <3> QED
      BY <2>4, <3>2 DEF Insert, TitlesHaveAList, There, ListInv, TypeOK
  <2>5. ASSUME NEW c \in Clients, Update(c)
        PROVE  There(l)'
    <3>1. req[c].name \in Names
      BY <2>5 DEF Update, ListInv, TypeOK, Idle, Request
    <3> QED
      BY <2>5, <3>1 DEF Update, TitlesHaveAList, There, Owns, ListInv, TypeOK, Row
  <2>6. ASSUME NEW c \in Clients, Erase(c)
        PROVE  There(l)'
    BY <2>6 DEF Erase, TitlesHaveAList, There, ListInv, TypeOK
  <2>7. ASSUME NEW c \in Clients, Put(c)
        PROVE  There(l)'
    BY <2>7 DEF Put, TitlesHaveAList, There, ListInv, TypeOK
  <2>8. ASSUME NEW u \in Users, Doom(u) \/ Commit(u) \/ RollBack(u)
        PROVE  There(l)'
    BY <2>8 DEF Doom, Commit, RollBack, TitlesHaveAList, There, ListInv, TypeOK
  <2> QED
    BY <2>1, <2>2, <2>3, <2>4, <2>5, <2>6, <2>7, <2>8
    DEF Next, Handle, Arrive, Count, Get, CheckName, CheckOwner, Fail
<1> QED
  BY <1>1, <1>2, ListInvAlways, PTL DEF Spec
-----------------------------------------------------------------------------
(* A rename whose list is gone for good names nothing.                     *)
Able(r) == r.op = "rename" => There(r.list) \/ IsDefaultId(r.list)

(* A request about to give a name found no other list of it; where there   *)
(* is one by now, or another request about to give it, the name was raced. *)
NamesKnown ==
  \A c \in Clients : Naming(req[c]) =>
    /\ (Able(req[c]) /\ NameExists(req[c].user, req[c].name, Renamed(req[c])))
         => NameKey(req[c]) \in raced
    /\ \A b \in Clients \ {c} :
         (Naming(req[b]) /\ NameKey(req[b]) = NameKey(req[c])) => NameKey(req[c]) \in raced

NameInv == SameNameByRacesOnly /\ NamesKnown

(* A step that gives no list a name, and brings no request to the point of *)
(* giving one, keeps it.                                                   *)
LEMMA NoNewNames ==
  ASSUME ListInv, TypeOK', NameInv, raced' = raced,
         \A l \in Lists : There(l)' => There(l) /\ lists'[l] = lists[l],
         \A c \in Clients : Naming(req'[c]) => req'[c] = req[c]
  PROVE  NameInv'
<1>1. SameNameByRacesOnly'
  BY DEF NameInv, SameNameByRacesOnly, SameName
<1>2. ASSUME NEW c \in Clients, Naming(req'[c])
      PROVE  /\ NameExists(req[c].user, req[c].name, Renamed(req[c]))'
                 => NameExists(req[c].user, req[c].name, Renamed(req[c]))
             /\ Able(req[c])' => Able(req[c])
             /\ NameKey(req[c])' = NameKey(req[c])
  <2>1. req[c].op = "rename" => req[c].list \in Lists
    BY <1>2 DEF Naming, ListInv, TypeOK, Request, Idle
  <2> QED
    BY <1>2, <2>1 DEF NameExists, ListsOf, Owns, NameKey, Renamed, Able, IsDefaultId
<1>3. NamesKnown'
  BY <1>2 DEF NameInv, NamesKnown, Naming, NameKey
<1> QED
  BY <1>1, <1>3 DEF NameInv

(* Every step keeps it: a name is given by a request whose check still     *)
(* stands, or whose clash was noted.                                       *)
LEMMA NameInvStep ==
  ASSUME ListInv, TypeOK', NameInv, [Next]_vars
  PROVE  NameInv'
<1> USE DEF Naming
<1>1. ASSUME NEW c \in Clients, lists' = lists, raced' = raced,
             NEW r, req' = [req EXCEPT ![c] = r], r.phase \notin {"insert", "update"}
      PROVE  NameInv'
  <2>1. \A b \in Clients : Naming(req'[b]) => req'[b] = req[b]
    BY <1>1 DEF ListInv, TypeOK
  <2> QED
    BY <1>1, <2>1, NoNewNames DEF There
<1>2. ASSUME NEW c \in Clients, lists' = lists, raced' = raced, Done(c)
      PROVE  NameInv'
  BY <1>1, <1>2 DEF Done, Idle
<1>3. ASSUME NEW c \in Clients, NEW phase \in {"count", "name", "erase", "owns", "put"},
             lists' = lists, raced' = raced, Go(c, phase), req[c] \in Request
      PROVE  NameInv'
  <2> DEFINE r == [req[c] EXCEPT !.phase = phase]
  <2>1. r.phase = phase
    BY <1>3 DEF Request
  <2> QED
    BY <1>1, <1>3, <2>1 DEF Go
<1>4. ASSUME NEW c \in Clients, NEW r \in Starts, Arrive(c, r)
      PROVE  NameInv'
  BY <1>1, <1>4 DEF Arrive, Starts
<1>5. ASSUME NEW c \in Clients, Count(c)
      PROVE  NameInv'
  BY <1>2, <1>3, <1>5 DEF Count, ListInv, TypeOK, Idle
<1>6. ASSUME NEW c \in Clients, Get(c)
      PROVE  NameInv'
  BY <1>2, <1>3, <1>6 DEF Get, ListInv, TypeOK, Idle
<1>7. ASSUME NEW c \in Clients, CheckOwner(c)
      PROVE  NameInv'
  BY <1>2, <1>3, <1>7 DEF CheckOwner, ListInv, TypeOK, Idle
<1>8. ASSUME NEW c \in Clients, Put(c) \/ Fail(c)
      PROVE  NameInv'
  BY <1>2, <1>8 DEF Put, Fail
<1>9. ASSUME NEW c \in Clients, Erase(c)
      PROVE  NameInv'
  <2>1. \A b \in Clients : Naming(req'[b]) => req'[b] = req[b]
    BY <1>9 DEF Erase, Done, Idle, ListInv, TypeOK
  <2>2. \A l \in Lists : There(l)' => There(l) /\ lists'[l] = lists[l]
    BY <1>9 DEF Erase, There, ListInv, TypeOK
  <2> QED
    BY <1>9, <2>1, <2>2, NoNewNames DEF Erase
<1>10. ASSUME NEW c \in Clients, Ensure(c)
       PROVE  NameInv'
  <2> DEFINE u == req[c].user
             l == DefaultOf[u]
  <2>1. /\ req[c] \in Request /\ u \in Users /\ l \in Lists
        /\ \A b \in Clients : Naming(req'[b]) => req'[b] = req[b]
    BY <1>10 DEF Ensure, Go, Done, ListInv, TypeOK, Idle, Request
  <2>2. CASE There(l)
    BY <1>10, <2>1, <2>2, NoNewNames DEF Ensure, There
  <2>3. CASE ~There(l)
    \* u has no list and no create about to name one, or the name is noted
    <3>1. /\ [owner |-> u, name |-> DefaultName, default |-> TRUE] \in Row
          /\ raced \subseteq raced'
          /\ u \in bereft => <<u, Lower[DefaultName]>> \in raced'
      BY <1>10, <2>1, <2>3 DEF Ensure, MadeAnew, Row
    <3>2. u \notin bereft => /\ ListsOf(u) = {}
                             /\ \A b \in Clients : ~Creates(req[b], u)
      BY <2>1, <2>3 DEF ListsOf, Owns, ListInv, DefaultFlags, Relied, PastDefault, Creates
    <3>3. /\ lists'[l].owner = u /\ lists'[l].name = DefaultName
          /\ \A k \in Lists \ {l} : lists'[k] = lists[k]
      BY <1>10, <2>1, <2>3 DEF Ensure, ListInv, TypeOK
    <3>4. SameNameByRacesOnly'
      <4> SUFFICES ASSUME NEW a \in Lists, NEW b \in Lists, There(a)', There(b)', SameName(a, b)'
                   PROVE  <<lists'[a].owner, Lower[lists'[a].name]>> \in raced'
        BY DEF SameNameByRacesOnly
      <4>1. CASE a # l /\ b # l
        BY <3>1, <3>3, <4>1 DEF NameInv, SameNameByRacesOnly, SameName, There
      <4>2. CASE a = l \/ b = l
        <5>1. /\ lists'[a].owner = u /\ Lower[lists'[a].name] = Lower[DefaultName]
              /\ ListsOf(u) # {}
          BY <3>3, <4>2 DEF SameName, There, ListsOf, Owns
        <5> QED
          BY <3>1, <3>2, <5>1
      <4> QED
        BY <4>1, <4>2
    <3>5. ASSUME NEW b \in Clients, Naming(req'[b]), Able(req[b])',
                 NameExists(req[b].user, req[b].name, Renamed(req[b]))'
          PROVE  NameKey(req[b]) \in raced'
      <4>1. /\ req'[b] = req[b] /\ req[b] \in Request
            /\ req[b].op = "rename" => req[b].list \in Lists
        BY <2>1, <3>5 DEF ListInv, TypeOK, Idle, Request
      <4>2. Able(req[b])
        BY <2>1, <3>3, <3>5, <4>1 DEF Able, There, IsDefaultId
      <4>3. PICK k \in Lists : /\ There(k)' /\ lists'[k].owner = req[b].user
                               /\ k \notin Renamed(req[b])
                               /\ Lower[lists'[k].name] = Lower[req[b].name]
        BY <3>5, <4>1 DEF NameExists, ListsOf, Owns, Renamed
      <4>4. CASE k # l
        <5>1. NameExists(req[b].user, req[b].name, Renamed(req[b]))
          BY <3>3, <4>3, <4>4 DEF NameExists, ListsOf, Owns, There
        <5> QED
          BY <3>1, <3>5, <4>1, <4>2, <5>1 DEF NameInv, NamesKnown
      <4>5. CASE k = l
        <5>1. NameKey(req[b]) = <<u, Lower[DefaultName]>>
          BY <3>3, <4>3, <4>5 DEF NameKey
        <5>2. u \in bereft
          <6>1. CASE req[b].op = "create"
            BY <3>2, <3>3, <3>5, <4>1, <4>3, <4>5, <6>1 DEF Creates, Request
          <6>2. CASE req[b].op = "rename"
            <7>1. req[b].list # l
              BY <4>3, <4>5, <6>2 DEF Renamed
            <7>2. req[b].user = u /\ req[b].phase = "update" /\ Relied(req[b])
              BY <3>3, <3>5, <4>1, <4>3, <4>5, <6>2 DEF Request, ListInv
            <7>3. There(req[b].list)
              BY <4>2, <6>2, <7>1, <7>2 DEF Able, Relied, OwnerChecked
            <7>4. lists[req[b].list].owner = u
              BY <7>2, <7>3 DEF Relied, OwnerChecked
            <7> QED
              BY <3>2, <4>1, <6>2, <7>3, <7>4 DEF ListsOf, Owns
          <6> QED
            BY <3>5, <4>1, <6>1, <6>2 DEF Request
        <5> QED
          BY <3>1, <5>1, <5>2
      <4> QED
        BY <4>4, <4>5
    <3>6. NamesKnown'
      BY <2>1, <3>1, <3>5 DEF NameInv, NamesKnown, NameKey
    <3> QED
      BY <3>4, <3>6 DEF NameInv
  <2> QED
    BY <2>2, <2>3
<1>11. ASSUME NEW c \in Clients, CheckName(c)
       PROVE  NameInv'
  <2> DEFINE r == req[c]
  <2>1. r \in Request /\ r.op \in {"create", "rename"}
    BY <1>11 DEF CheckName, ListInv, TypeOK, Idle, Request
  <2>2. CASE NameExists(r.user, r.name, Renamed(r))
    BY <1>2, <1>11, <2>2 DEF CheckName
  <2>3. CASE ~NameExists(r.user, r.name, Renamed(r))
    <3>1. /\ req'[c].user = r.user /\ req'[c].name = r.name /\ req'[c].op = r.op
          /\ r.op = "rename" => req'[c].list = r.list
          /\ lists' = lists /\ raced \subseteq raced'
          /\ \A b \in Clients \ {c} : req'[b] = req[b]
      BY <1>11, <2>1, <2>3 DEF CheckName, Go, ListInv, TypeOK, Request
    <3>2. \A b \in Clients : (Naming(req[b]) /\ NameKey(req[b]) = NameKey(r))
                               => NameKey(r) \in raced'
      BY <1>11, <2>3 DEF CheckName
    <3>3. NameKey(req'[c]) = NameKey(r) /\ Renamed(req'[c]) = Renamed(r)
      BY <3>1 DEF NameKey, Renamed
    <3>4. \A v, n, e : NameExists(v, n, e)' <=> NameExists(v, n, e)
      BY <3>1 DEF NameExists, ListsOf, Owns, There
    <3>5. SameNameByRacesOnly'
      BY <3>1 DEF NameInv, SameNameByRacesOnly, SameName, There
    <3>7. \A b \in Clients \ {c} : Able(req[b])' <=> Able(req[b])
      BY <3>1 DEF Able, There, IsDefaultId
    <3>6. NamesKnown'
      BY <2>3, <3>1, <3>2, <3>3, <3>4, <3>7 DEF NameInv, NamesKnown
    <3> QED
      BY <3>5, <3>6 DEF NameInv
  <2> QED
    BY <2>2, <2>3
<1>12. ASSUME NEW c \in Clients, NEW l \in Lists, NEW u \in Users, NEW n \in Names,
              Naming(req[c]), Able(req[c]), Done(c), raced' = raced, u = req[c].user, n = req[c].name,
              There(l)', lists'[l].owner = u, lists'[l].name = n,
              \A b \in Clients : (Naming(req[b]) /\ ~Able(req[b])) => req[b].list # l,
              Renamed(req[c]) \subseteq {l}, \A k \in Lists \ {l} : lists'[k] = lists[k]
       PROVE  NameInv'
  \* the name given is the one checked: a list that has it, or a request
  \* about to give it, makes it raced
  <2>1. \A b \in Clients : Naming(req'[b]) => b # c /\ req'[b] = req[b]
    BY <1>12 DEF Done, Idle, ListInv, TypeOK
  <2>2. NameKey(req[c]) = <<u, Lower[n]>>
    BY <1>12 DEF NameKey
  <2>3. ASSUME NEW a \in Lists \ {l}, There(a), lists[a].owner = u, Lower[lists[a].name] = Lower[n]
        PROVE  <<u, Lower[n]>> \in raced
    <3>1. NameExists(u, n, Renamed(req[c]))
      BY <1>12, <2>3 DEF NameExists, ListsOf, Owns
    <3> QED
      BY <1>12, <2>2, <3>1 DEF NameInv, NamesKnown
  <2>4. SameNameByRacesOnly'
    <3> SUFFICES ASSUME NEW a \in Lists, NEW b \in Lists, There(a)', There(b)', SameName(a, b)'
                 PROVE  <<lists'[a].owner, Lower[lists'[a].name]>> \in raced
      BY <1>12 DEF SameNameByRacesOnly
    <3>1. CASE a = l
      BY <1>12, <2>3, <3>1 DEF SameName, There
    <3>2. CASE b = l
      BY <1>12, <2>3, <3>2 DEF SameName, There
    <3>3. CASE a # l /\ b # l
      BY <1>12, <3>3 DEF NameInv, SameNameByRacesOnly, SameName, There
    <3> QED
      BY <3>1, <3>2, <3>3
  <2>5. ASSUME NEW b \in Clients, Naming(req'[b]), Able(req[b])',
               NameExists(req[b].user, req[b].name, Renamed(req[b]))'
        PROVE  NameKey(req[b]) \in raced
    <3>0. Able(req[b])
      <4>1. req[b].op = "rename" => req[b].list \in Lists
        BY <2>1, <2>5 DEF ListInv, TypeOK, Request, Idle
      <4> QED
        BY <1>12, <2>1, <2>5, <4>1 DEF Able, There, IsDefaultId
    <3>1. PICK k \in Lists : /\ There(k)' /\ lists'[k].owner = req[b].user
                             /\ k \notin Renamed(req[b])
                             /\ Lower[lists'[k].name] = Lower[req[b].name]
      BY <2>1, <2>5 DEF NameExists, ListsOf, Owns, Renamed
    <3>2. CASE k = l
      <4>1. NameKey(req[b]) = NameKey(req[c])
        BY <1>12, <3>1, <3>2 DEF NameKey
      <4> QED
        BY <1>12, <2>1, <2>5, <4>1 DEF NameInv, NamesKnown
    <3>3. CASE k # l
      <4>1. NameExists(req[b].user, req[b].name, Renamed(req[b]))
        BY <1>12, <3>1, <3>3 DEF NameExists, ListsOf, Owns, There
      <4> QED
        BY <2>1, <2>5, <3>0, <4>1 DEF NameInv, NamesKnown
    <3> QED
      BY <3>2, <3>3
  <2>6. NamesKnown'
    BY <1>12, <2>1, <2>5 DEF NameInv, NamesKnown, NameKey
  <2> QED
    BY <2>4, <2>6 DEF NameInv
<1>13. ASSUME NEW c \in Clients, NEW l \in Lists, Insert(c, l)
       PROVE  NameInv'
  <2>1. req[c].user \in Users /\ req[c].name \in Names /\ req[c].op = "create"
    BY <1>13 DEF Insert, ListInv, TypeOK, Idle, Request
  <2>2. [owner |-> req[c].user, name |-> req[c].name, default |-> FALSE] \in Row
    BY <2>1 DEF Row
  <2>3. /\ There(l)' /\ lists'[l].owner = req[c].user /\ lists'[l].name = req[c].name
        /\ \A k \in Lists \ {l} : lists'[k] = lists[k]
    BY <1>13, <2>2 DEF Insert, There, ListInv, TypeOK
  <2>4. ASSUME NEW b \in Clients, Naming(req[b]), ~Able(req[b])
        PROVE  req[b].list # l
    <3>1. req[b].phase = "update" /\ Relied(req[b])
      BY <2>4 DEF Able, ListInv, TypeOK, Request, Idle
    <3> QED
      BY <1>13, <3>1 DEF Insert, Relied, OwnerChecked
  <2> QED
    BY <1>12, <1>13, <2>1, <2>3, <2>4 DEF Insert, Renamed, Able
<1>14. ASSUME NEW c \in Clients, Update(c)
       PROVE  NameInv'
  <2>0. req[c].user \in Users /\ req[c].name \in Names /\ req[c].list \in Lists
    BY <1>14 DEF Update, ListInv, TypeOK, Idle, Request
  <2>1. PICK l \in Lists : l = req[c].list
    BY <2>0
  <2>2. CASE Owns(req[c].user, l)
    <3>1. /\ There(l)' /\ lists'[l].owner = req[c].user /\ lists'[l].name = req[c].name
          /\ \A k \in Lists \ {l} : lists'[k] = lists[k]
      <4>1. lists[l] \in Row /\ lists[l].owner = req[c].user
        BY <2>1, <2>2 DEF Owns, There, ListInv, TypeOK
      <4>2. lists'[l] = [lists[l] EXCEPT !.name = req[c].name]
        BY <1>14, <2>1, <2>2 DEF Update, ListInv, TypeOK
      <4>3. lists'[l] \in Row /\ lists'[l].owner = req[c].user /\ lists'[l].name = req[c].name
        BY <2>0, <4>1, <4>2 DEF Row
      <4>4. \A k \in Lists \ {l} : lists'[k] = lists[k]
        BY <1>14, <2>1, <2>2 DEF Update, ListInv, TypeOK
      <4>5. lists'[l] # NoList
        BY <4>3
      <4> QED
        BY <4>3, <4>4, <4>5 DEF There
    <3>2. /\ Naming(req[c]) /\ Done(c) /\ raced' = raced
          /\ Renamed(req[c]) \subseteq {l} /\ Able(req[c])
          /\ \A b \in Clients : (Naming(req[b]) /\ ~Able(req[b])) => req[b].list # l
      BY <1>14, <2>1, <2>2 DEF Update, Renamed, Able, Owns
    <3> QED
      BY <1>12, <2>0, <2>1, <3>1, <3>2
  <2>3. CASE ~Owns(req[c].user, l)
    BY <1>2, <1>14, <2>1, <2>3 DEF Update
  <2> QED
    BY <2>2, <2>3
<1>15. ASSUME NEW u \in Users, Doom(u) \/ Commit(u) \/ RollBack(u)
       PROVE  NameInv'
  BY <1>15, NoNewNames DEF Doom, Commit, RollBack, There, ListInv, TypeOK
<1>16. CASE UNCHANGED vars
  BY <1>16, NoNewNames DEF vars, There
<1> QED
  BY <1>4, <1>5, <1>6, <1>7, <1>8, <1>9, <1>10, <1>11, <1>13, <1>14, <1>15, <1>16
  DEF Next, Handle

(* Two lists of a user's have one name only after two requests that were   *)
(* about to give it together, or the default's made anew beside lists that *)
(* outlived a deletion (CreateWatchlist, RenameWatchlist,                  *)
(* EnsureDefaultList).                                                     *)
THEOREM NamesClashByRacesOnly == Spec => []SameNameByRacesOnly
<1>1. Init => NameInv
  BY DEF Init, NameInv, SameNameByRacesOnly, NamesKnown, There, Naming, Idle
<1>2. NameInv => SameNameByRacesOnly
  BY DEF NameInv
<1> QED
  BY <1>1, <1>2, NameInvStep, TypeCorrect, ListInvAlways, PTL DEF Spec
-----------------------------------------------------------------------------
(* Those of u's creates that counted its lists and have not ended.         *)
Creating(u) ==
  {c \in Clients : /\ req[c].phase \in {"name", "insert"}
                   /\ req[c].op = "create"
                   /\ req[c].user = u}

(* Every create under way may still add a list; when the last of them      *)
(* counted, there was room for one and at most all clients were creating.  *)
RoomKept ==
  \A u \in Users : Cardinality(ListsOf(u)) + Cardinality(Creating(u))
                     <= MaxLists + Cardinality(Clients) - 1

(* A user's lists, and the creates past the count, can be counted.         *)
LEMMA FiniteLists ==
  ASSUME NEW u
  PROVE  /\ IsFiniteSet(ListsOf(u)) /\ IsFiniteSet(Creating(u))
         /\ Cardinality(ListsOf(u)) \in Nat /\ Cardinality(Creating(u)) \in Nat
         /\ Cardinality(Clients) \in Nat
         /\ Cardinality(Creating(u)) <= Cardinality(Clients)
BY UsersAssumption, FS_Subset, FS_CardinalityType DEF ListsOf, Creating

(* Those of u's creates past the default list's making, and the lists that *)
(* stay when an open deletion of all of them, the default too, commits.    *)
Past(u)  == {c \in Clients : Creates(req[c], u)}
Alone(u) == ~There(DefaultOf[u]) \/ DefaultOf[u] \in doomed
Stays(u) == IF DefaultOf[u] \in doomed THEN ListsOf(u) \ doomed ELSE ListsOf(u)

(* Without the default list there are no more lists and creates than       *)
(* clients: each had one create under way as the default went.             *)
FewAlone ==
  \A u \in Users : Alone(u) =>
    Cardinality(Stays(u)) + Cardinality(Past(u)) <= Cardinality(Clients)

(* They can be counted.                                                    *)
LEMMA FiniteStays ==
  ASSUME NEW u
  PROVE  /\ IsFiniteSet(Stays(u)) /\ IsFiniteSet(Past(u))
         /\ Cardinality(Stays(u)) \in Nat /\ Cardinality(Past(u)) \in Nat
         /\ Cardinality(Clients) \in Nat
         /\ Cardinality(Past(u)) <= Cardinality(Clients)
BY UsersAssumption, FS_Subset, FS_CardinalityType DEF Stays, ListsOf, Past

(* Fewer of them are still few.                                            *)
LEMMA NoMoreAlone ==
  ASSUME FewAlone, NEW u \in Users, Alone(u),
         Stays(u)' \subseteq Stays(u), Past(u)' \subseteq Past(u)
  PROVE  Cardinality(Stays(u)') + Cardinality(Past(u)') <= Cardinality(Clients)
<1>1. /\ Cardinality(Stays(u)') \in Nat /\ Cardinality(Stays(u)') <= Cardinality(Stays(u))
      /\ Cardinality(Past(u)') \in Nat /\ Cardinality(Past(u)') <= Cardinality(Past(u))
  BY FiniteStays, FS_Subset, FS_CardinalityType
<1> QED
  BY <1>1, FiniteStays DEF FewAlone

(* Every step keeps it: the default list is made before a create goes on,  *)
(* and goes only with every list that is not of a create under way.        *)
LEMMA FewAloneStep ==
  ASSUME ListInv, TypeOK', FewAlone, [Next]_vars
  PROVE  FewAlone'
<1> SUFFICES ASSUME NEW u \in Users, Alone(u)'
             PROVE  Cardinality(Stays(u)') + Cardinality(Past(u)') <= Cardinality(Clients)
  BY DEF FewAlone
<1> DefaultOf[u] \in Lists
  OBVIOUS
<1>1. ASSUME NEW c \in Clients, NEW r, req' = [req EXCEPT ![c] = r], doomed' = doomed,
             \A v \in Users : Creates(r, v) => Creates(req[c], v),
             \A l \in Lists : There(l)' => There(l) /\ lists'[l].owner = lists[l].owner,
             There(DefaultOf[u]) => There(DefaultOf[u])' \/ DefaultOf[u] \in doomed
      PROVE  Cardinality(Stays(u)') + Cardinality(Past(u)') <= Cardinality(Clients)
  <2>1. Alone(u)
    BY <1>1 DEF Alone
  <2>2. ListsOf(u)' \subseteq ListsOf(u)
    BY <1>1 DEF ListsOf, Owns
  <2>3. Stays(u)' \subseteq Stays(u)
    BY <1>1, <2>2 DEF Stays
  <2>4. Past(u)' \subseteq Past(u)
    BY <1>1 DEF Past, ListInv, TypeOK
  <2> QED
    BY <2>1, <2>3, <2>4, NoMoreAlone
<1>2. ASSUME NEW c \in Clients, Done(c), doomed' = doomed,
             \A l \in Lists : There(l)' => There(l) /\ lists'[l].owner = lists[l].owner,
             There(DefaultOf[u]) => There(DefaultOf[u])'
      PROVE  Cardinality(Stays(u)') + Cardinality(Past(u)') <= Cardinality(Clients)
  <2>1. \A v \in Users : ~Creates(Idle, v)
    BY DEF Idle, Creates
  <2> QED
    BY <1>1, <1>2, <2>1 DEF Done
<1>3. ASSUME NEW c \in Clients, NEW phase, Go(c, phase), req[c] \in Request, phase # "count",
             phase \in {"name", "insert"} => req[c].phase \in {"count", "name"} \/ req[c].op # "create",
             lists' = lists, doomed' = doomed
      PROVE  Cardinality(Stays(u)') + Cardinality(Past(u)') <= Cardinality(Clients)
  <2> DEFINE r == [req[c] EXCEPT !.phase = phase]
  <2>1. r.phase = phase /\ r.op = req[c].op /\ r.user = req[c].user
    BY <1>3 DEF Request
  <2>2. \A v \in Users : Creates(r, v) => Creates(req[c], v)
    BY <1>3, <2>1 DEF Creates
  <2> QED
    BY <1>1, <1>3, <2>2 DEF Go, There
<1>4. ASSUME NEW c \in Clients, NEW r \in Starts, Arrive(c, r)
      PROVE  Cardinality(Stays(u)') + Cardinality(Past(u)') <= Cardinality(Clients)
  BY <1>1, <1>4 DEF Arrive, Starts, Creates, There
<1>5. ASSUME NEW c \in Clients, Ensure(c)
      PROVE  Cardinality(Stays(u)') + Cardinality(Past(u)') <= Cardinality(Clients)
  <2> DEFINE v == req[c].user
  <2>1. req[c] \in Request /\ v \in Users /\ DefaultOf[v] \in Lists
    BY <1>5 DEF Ensure, ListInv, TypeOK, Idle, Request
  <2>2. u # v
    <3>1. lists'[DefaultOf[v]] # NoList
      <4>1. CASE There(DefaultOf[v])
        BY <1>5, <4>1 DEF Ensure, There
      <4>2. CASE ~There(DefaultOf[v])
        <5>1. [owner |-> v, name |-> DefaultName, default |-> TRUE] \in Row
          BY <2>1 DEF Row
        <5> QED
          BY <1>5, <2>1, <4>2, <5>1 DEF Ensure, There, ListInv, TypeOK
      <4> QED
        BY <4>1, <4>2
    <3>2. DefaultOf[v] \notin doomed'
      BY <1>5 DEF Ensure
    <3> QED
      BY <3>1, <3>2 DEF Alone, There
  <2>3. ListsOf(u)' = ListsOf(u) /\ There(DefaultOf[u])' = There(DefaultOf[u])
    BY <1>5, <2>1, <2>2 DEF Ensure, ListsOf, Owns, There, ListInv, TypeOK
  <2>4. Past(u)' \subseteq Past(u)
    BY <1>5, <2>1, <2>2 DEF Ensure, Go, Done, Past, Creates, Idle, ListInv, TypeOK, Request
  <2> QED
    BY <1>5, <2>3, <2>4, NoMoreAlone DEF Ensure, Alone, Stays
<1>6. ASSUME NEW c \in Clients, NEW l \in Lists, Insert(c, l)
      PROVE  Cardinality(Stays(u)') + Cardinality(Past(u)') <= Cardinality(Clients)
  <2>1. req[c] \in Request /\ req[c].op = "create" /\ req[c].user \in Users
    BY <1>6 DEF Insert, ListInv, TypeOK, Idle, Request
  <2>2. l # DefaultOf[u] /\ doomed' = doomed
    BY <1>6 DEF Insert, ListInv, DefaultIds
  <2>3. Alone(u)
    BY <1>6, <2>2 DEF Insert, Alone, There, ListInv, TypeOK
  <2>4. Past(u)' \subseteq Past(u) \ {c}
    BY <1>6 DEF Insert, Done, Past, Creates, Idle, ListInv, TypeOK
  <2>5. CASE req[c].user # u
    <3>1. ListsOf(u)' \subseteq ListsOf(u)
      BY <1>6, <2>5 DEF Insert, ListsOf, Owns, There, ListInv, TypeOK
    <3> QED
      BY <2>2, <2>3, <2>4, <3>1, NoMoreAlone DEF Stays
  <2>6. CASE req[c].user = u
    <3>1. ListsOf(u)' \subseteq ListsOf(u) \cup {l}
      BY <1>6 DEF Insert, ListsOf, Owns, There, ListInv, TypeOK
    <3>2. Stays(u)' \subseteq Stays(u) \cup {l}
      BY <2>2, <3>1 DEF Stays
    <3>3. Cardinality(Stays(u)') <= Cardinality(Stays(u)) + 1 /\ Cardinality(Stays(u)') \in Nat
      <4>1. IsFiniteSet(Stays(u)) /\ Cardinality(Stays(u)) \in Nat
        BY FiniteStays
      <4>2. /\ IsFiniteSet(Stays(u) \cup {l})
            /\ Cardinality(Stays(u) \cup {l}) =
                 IF l \in Stays(u) THEN Cardinality(Stays(u)) ELSE Cardinality(Stays(u)) + 1
        BY <4>1, FS_AddElement
      <4>3. /\ IsFiniteSet(Stays(u)')
            /\ Cardinality(Stays(u)') <= Cardinality(Stays(u) \cup {l})
        BY <3>2, <4>2, FS_Subset
      <4>4. Cardinality(Stays(u)') \in Nat
        BY <4>3, FS_CardinalityType
      <4> QED
        BY <4>1, <4>2, <4>3, <4>4
    <3>4. c \in Past(u)
      BY <1>6, <2>1, <2>6 DEF Insert, Past, Creates
    <3>5. Cardinality(Past(u)') <= Cardinality(Past(u)) - 1 /\ Cardinality(Past(u)') \in Nat
      BY <2>4, <3>4, FiniteStays, FS_RemoveElement, FS_Subset, FS_CardinalityType
    <3> QED
      BY <2>3, <3>3, <3>5, FiniteStays DEF FewAlone
  <2> QED
    BY <2>5, <2>6
<1>7. ASSUME NEW c \in Clients, Count(c) \/ Get(c) \/ CheckName(c) \/ CheckOwner(c)
      PROVE  Cardinality(Stays(u)') + Cardinality(Past(u)') <= Cardinality(Clients)
  <2>1. req[c] \in Request /\ lists' = lists /\ doomed' = doomed
    BY <1>7 DEF Count, Get, CheckName, CheckOwner, ListInv, TypeOK, Idle
  <2>2. \/ Done(c)
        \/ \E phase \in {"name", "update", "insert", "erase", "put"} :
             /\ Go(c, phase)
             /\ phase \in {"name", "insert"} =>
                  req[c].phase \in {"count", "name"} \/ req[c].op # "create"
    BY <1>7, <2>1 DEF Count, Get, CheckName, CheckOwner, Request
  <2>3. CASE Done(c)
    BY <1>2, <2>1, <2>3 DEF There
  <2> QED
    BY <1>3, <2>1, <2>2, <2>3
<1>8. ASSUME NEW c \in Clients, Update(c) \/ Erase(c) \/ Put(c) \/ Fail(c)
      PROVE  Cardinality(Stays(u)') + Cardinality(Past(u)') <= Cardinality(Clients)
  <2>1. Done(c) /\ doomed' = doomed
    BY <1>8 DEF Update, Erase, Put, Fail
  <2>2. \A l \in Lists : There(l)' => There(l) /\ lists'[l].owner = lists[l].owner
    BY <1>8 DEF Update, Erase, Put, Fail, Owns, There, ListInv, TypeOK, Row
  <2>3. There(DefaultOf[u]) => There(DefaultOf[u])'
    <3>1. CASE Erase(c)
      <4>1. req[c].list # DefaultOf[u]
        BY <3>1 DEF Erase, ListInv, Relied, OwnerChecked, IsDefaultId
      <4> QED
        BY <3>1, <4>1 DEF Erase, There, ListInv, TypeOK
    <3>2. CASE Update(c)
      <4>1. req[c].name \in Names
        BY <3>2 DEF Update, ListInv, TypeOK, Idle, Request
      <4> QED
        BY <3>2, <4>1 DEF Update, Owns, There, ListInv, TypeOK, Row
    <3> QED
      BY <1>8, <3>1, <3>2 DEF Put, Fail, There
  <2> QED
    BY <1>2, <2>1, <2>2, <2>3
<1>9. ASSUME NEW v \in Users, Doom(v)
      PROVE  Cardinality(Stays(u)') + Cardinality(Past(u)') <= Cardinality(Clients)
  <2>1. ListsOf(u)' = ListsOf(u) /\ There(DefaultOf[u])' = There(DefaultOf[u])
        /\ Past(u)' = Past(u)
    BY <1>9 DEF Doom, ListsOf, Owns, There, Past
  <2>2. CASE u = v /\ There(DefaultOf[u])
    <3>1. DefaultOf[u] \in doomed' /\ Stays(u)' = {}
      BY <1>9, <2>1, <2>2 DEF Doom, Stays, ListsOf, Owns, ListInv, DefaultIds
    <3>2. Cardinality(Stays(u)') = 0
      BY <3>1, FS_EmptySet
    <3> QED
      BY <2>1, <3>2, FiniteStays
  <2>3. CASE u # v \/ ~There(DefaultOf[u])
    <3>1. DefaultOf[u] \notin ListsOf(v) /\ (u # v => ListsOf(u) \cap ListsOf(v) = {})
      BY <2>3 DEF ListsOf, Owns, ListInv, DefaultIds
    <3>2. Alone(u)
      BY <1>9, <2>1, <3>1 DEF Doom, Alone
    <3>3. Stays(u)' = Stays(u)
      <4>1. CASE u # v
        BY <1>9, <2>1, <3>1, <4>1 DEF Doom, Stays
      <4>2. CASE ~There(DefaultOf[u])
        <5>1. DefaultOf[u] \notin doomed
          BY <4>2 DEF ListInv, TypeOK
        <5> QED
          BY <1>9, <2>1, <3>1, <5>1 DEF Doom, Stays
      <4> QED
        BY <2>3, <4>1, <4>2
    <3> QED
      BY <2>1, <3>2, <3>3, NoMoreAlone
  <2> QED
    BY <2>2, <2>3
<1>10. ASSUME NEW v \in Users, Commit(v)
       PROVE  Cardinality(Stays(u)') + Cardinality(Past(u)') <= Cardinality(Clients)
  <2>1. /\ ListsOf(u)' = IF u = v THEN ListsOf(u) \ doomed ELSE ListsOf(u)
        /\ Past(u)' = Past(u)
    BY <1>10 DEF Commit, Doomed, ListsOf, Owns, There, Past, ListInv, TypeOK
  <2>2. CASE u # v
    <3>1. /\ There(DefaultOf[u])' = There(DefaultOf[u])
          /\ DefaultOf[u] \in doomed' <=> DefaultOf[u] \in doomed
          /\ ListsOf(u) \cap doomed' = ListsOf(u) \cap doomed
      BY <1>10, <2>2 DEF Commit, Doomed, ListsOf, Owns, There, ListInv, DefaultIds, TypeOK
    <3>2. Stays(u)' \subseteq Stays(u)
      BY <2>1, <2>2, <3>1 DEF Stays
    <3> QED
      BY <2>1, <3>1, <3>2, NoMoreAlone DEF Alone
  <2>3. CASE u = v
    <3>1. /\ DefaultOf[u] \notin doomed'
          /\ DefaultOf[u] \notin doomed => There(DefaultOf[u])' = There(DefaultOf[u])
      BY <1>10, <2>3 DEF Commit, Doomed, ListsOf, Owns, There, ListInv, DefaultIds, TypeOK
    <3>2. Stays(u)' \subseteq Stays(u)
      BY <2>1, <2>3, <3>1 DEF Stays
    <3>3. Alone(u)
      BY <3>1 DEF Alone
    <3> QED
      BY <2>1, <3>2, <3>3, NoMoreAlone
  <2> QED
    BY <2>2, <2>3
<1>11. ASSUME NEW v \in Users, RollBack(v)
       PROVE  Cardinality(Stays(u)') + Cardinality(Past(u)') <= Cardinality(Clients)
  <2>1. ListsOf(u)' = ListsOf(u) /\ There(DefaultOf[u])' = There(DefaultOf[u])
        /\ Past(u)' = Past(u)
    BY <1>11 DEF RollBack, ListsOf, Owns, There, Past
  <2>2. Stays(u)' \subseteq Stays(u)
    <3>1. CASE u = v
      <4>1. DefaultOf[u] \notin doomed'
        BY <1>11, <3>1 DEF RollBack, Doomed, ListsOf, Owns, There, ListInv, DefaultIds, TypeOK
      <4>2. DefaultOf[u] \notin doomed
        BY <2>1, <4>1, <1>11, <3>1 DEF Alone, ListInv, TypeOK
      <4> QED
        BY <2>1, <4>1, <4>2 DEF Stays
    <3>2. CASE u # v
      <4>1. /\ DefaultOf[u] \in doomed' <=> DefaultOf[u] \in doomed
            /\ ListsOf(u) \cap doomed' = ListsOf(u) \cap doomed
        BY <1>11, <3>2 DEF RollBack, Doomed, ListsOf, Owns, There, ListInv, DefaultIds, TypeOK
      <4> QED
        BY <2>1, <4>1 DEF Stays
    <3> QED
      BY <3>1, <3>2
  <2>3. Alone(u)
    BY <1>11, <2>1 DEF RollBack, Alone
  <2> QED
    BY <2>1, <2>2, <2>3, NoMoreAlone
<1>12. CASE UNCHANGED vars
  <2>1. Stays(u)' = Stays(u) /\ Past(u)' = Past(u) /\ Alone(u)
    BY <1>12 DEF vars, Stays, ListsOf, Owns, There, Past, Alone
  <2> QED
    BY <2>1, NoMoreAlone
<1> QED
  BY <1>4, <1>5, <1>6, <1>7, <1>8, <1>9, <1>10, <1>11, <1>12 DEF Next, Handle

(* A step that adds neither a list nor a counted create keeps the room.    *)
LEMMA NoMoreLists ==
  ASSUME RoomKept, NEW u \in Users,
         ListsOf(u)' \subseteq ListsOf(u), Creating(u)' \subseteq Creating(u)
  PROVE  Cardinality(ListsOf(u)') + Cardinality(Creating(u)') <= MaxLists + Cardinality(Clients) - 1
<1>1. /\ Cardinality(ListsOf(u)') \in Nat /\ Cardinality(ListsOf(u)') <= Cardinality(ListsOf(u))
      /\ Cardinality(Creating(u)') \in Nat /\ Cardinality(Creating(u)') <= Cardinality(Creating(u))
  BY FiniteLists, FS_Subset, FS_CardinalityType
<1> QED
  BY <1>1, FiniteLists DEF RoomKept

(* Every step keeps the room: a create that counts finds a list less than  *)
(* the cap, and every insert ends one.                                     *)
LEMMA RoomKeptStep ==
  ASSUME ListInv, TypeOK', RoomKept, FewAlone, [Next]_vars
  PROVE  RoomKept'
<1> SUFFICES ASSUME NEW u \in Users
             PROVE  Cardinality(ListsOf(u)') + Cardinality(Creating(u)')
                      <= MaxLists + Cardinality(Clients) - 1
  BY DEF RoomKept
<1>1. CASE UNCHANGED vars
  <2>1. ListsOf(u)' = ListsOf(u) /\ Creating(u)' = Creating(u)
    BY <1>1 DEF vars, ListsOf, Owns, There, Creating
  <2> QED
    BY <2>1, NoMoreLists
<1>2. ASSUME NEW c \in Clients,
             \A l \in Lists : There(l)' => There(l) /\ lists'[l].owner = lists[l].owner,
             NEW r, req' = [req EXCEPT ![c] = r],
             r.phase \in {"name", "insert"} => (r.op = "create" => c \in Creating(r.user))
      PROVE  Cardinality(ListsOf(u)') + Cardinality(Creating(u)')
               <= MaxLists + Cardinality(Clients) - 1
  <2>1. ListsOf(u)' \subseteq ListsOf(u)
    BY <1>2 DEF ListsOf, Owns
  <2>2. Creating(u)' \subseteq Creating(u)
    BY <1>2 DEF Creating, ListInv, TypeOK
  <2> QED
    BY <2>1, <2>2, NoMoreLists
<1>3. ASSUME NEW c \in Clients, NEW r \in Starts, Arrive(c, r)
      PROVE  Cardinality(ListsOf(u)') + Cardinality(Creating(u)')
               <= MaxLists + Cardinality(Clients) - 1
  <2>1. r.phase \notin {"name", "insert"}
    BY DEF Starts
  <2> QED
    BY <1>2, <1>3, <2>1 DEF Arrive, There
<1>4. ASSUME NEW c \in Clients, Ensure(c)
      PROVE  Cardinality(ListsOf(u)') + Cardinality(Creating(u)')
               <= MaxLists + Cardinality(Clients) - 1
  <2> DEFINE v == req[c].user
             l == DefaultOf[v]
  <2>1. v \in Users /\ l \in Lists
    BY <1>4 DEF Ensure, ListInv, TypeOK, Idle, Request
  <2>2. Creating(u)' \subseteq Creating(u)
    BY <1>4 DEF Ensure, Go, Done, Creating, ListInv, TypeOK, Idle, Request
  <2>3. CASE There(l) \/ u # v
    <3>1. ListsOf(u)' \subseteq ListsOf(u)
      BY <1>4, <2>1, <2>3 DEF Ensure, ListsOf, Owns, There, ListInv, TypeOK
    <3> QED
      BY <2>2, <3>1, NoMoreLists
  <2>4. CASE ~There(l) /\ u = v
    \* u's default list: without it there were few others
    <3>1. Alone(u) /\ Stays(u) = ListsOf(u)
      BY <2>1, <2>4 DEF Alone, Stays, ListInv, TypeOK
    <3>2. ListsOf(u)' \subseteq ListsOf(u) \cup {l}
      BY <1>4, <2>1 DEF Ensure, ListsOf, Owns, There, ListInv, TypeOK
    <3>3. Cardinality(ListsOf(u)') <= Cardinality(ListsOf(u)) + 1 /\ Cardinality(ListsOf(u)') \in Nat
      <4>1. IsFiniteSet(ListsOf(u)) /\ Cardinality(ListsOf(u)) \in Nat
        BY FiniteLists
      <4>2. /\ IsFiniteSet(ListsOf(u) \cup {l})
            /\ Cardinality(ListsOf(u) \cup {l}) =
                 IF l \in ListsOf(u) THEN Cardinality(ListsOf(u)) ELSE Cardinality(ListsOf(u)) + 1
        BY <4>1, FS_AddElement
      <4>3. /\ IsFiniteSet(ListsOf(u)')
            /\ Cardinality(ListsOf(u)') <= Cardinality(ListsOf(u) \cup {l})
        BY <3>2, <4>2, FS_Subset
      <4>4. Cardinality(ListsOf(u)') \in Nat
        BY <4>3, FS_CardinalityType
      <4> QED
        BY <4>1, <4>2, <4>3, <4>4
    <3>4. Cardinality(Creating(u)') <= Cardinality(Past(u)) /\ Cardinality(Creating(u)') \in Nat
      <4>1. Creating(u)' \subseteq Past(u)
        BY <2>2 DEF Creating, Past, Creates
      <4> QED
        BY <4>1, FiniteStays, FS_Subset, FS_CardinalityType
    <3>5. Cardinality(ListsOf(u)) + Cardinality(Past(u)) <= Cardinality(Clients)
      BY <3>1 DEF FewAlone
    <3>6. MaxLists \in Nat /\ MaxLists >= 2
      OBVIOUS
    <3> QED
      BY <3>3, <3>4, <3>5, <3>6, FiniteLists, FiniteStays
  <2> QED
    BY <2>3, <2>4
<1>5. ASSUME NEW c \in Clients, Count(c)
      PROVE  Cardinality(ListsOf(u)') + Cardinality(Creating(u)')
               <= MaxLists + Cardinality(Clients) - 1
  <2>1. req[c] \in Request
    BY <1>5 DEF Count, ListInv, TypeOK, Idle
  <2>2. CASE Done(c)
    BY <1>2, <1>5, <2>2 DEF Count, Done, Idle, There
  <2>3. CASE Go(c, "name") /\ Cardinality(ListsOf(req[c].user)) < MaxLists
    <3>1. ListsOf(u)' = ListsOf(u)
      BY <1>5 DEF Count, ListsOf, Owns, There
    <3>2. CASE req[c].user = u
      <4>1. Cardinality(Creating(u)') \in Nat /\ Cardinality(Creating(u)') <= Cardinality(Clients)
        BY UsersAssumption, FS_Subset, FS_CardinalityType DEF Creating
      <4> QED
        BY <2>3, <3>1, <3>2, <4>1, FiniteLists
    <3>3. CASE req[c].user # u
      <4>1. Creating(u)' \subseteq Creating(u)
        BY <2>1, <2>3, <3>3 DEF Creating, Go, ListInv, TypeOK, Request
      <4> QED
        BY <3>1, <4>1, NoMoreLists
    <3> QED
      BY <3>2, <3>3
  <2> QED
    BY <1>5, <2>2, <2>3, FiniteLists DEF Count
<1>6. ASSUME NEW c \in Clients, Get(c)
      PROVE  Cardinality(ListsOf(u)') + Cardinality(Creating(u)')
               <= MaxLists + Cardinality(Clients) - 1
  <2>1. ListsOf(u)' = ListsOf(u)
    BY <1>6 DEF Get, ListsOf, Owns, There
  <2>2. Creating(u)' \subseteq Creating(u)
    BY <1>6 DEF Get, Go, Done, Creating, ListInv, TypeOK, Idle, Request
  <2> QED
    BY <2>1, <2>2, NoMoreLists
<1>7. ASSUME NEW c \in Clients, CheckName(c)
      PROVE  Cardinality(ListsOf(u)') + Cardinality(Creating(u)')
               <= MaxLists + Cardinality(Clients) - 1
  <2>1. ListsOf(u)' = ListsOf(u)
    BY <1>7 DEF CheckName, ListsOf, Owns, There
  <2>2. Creating(u)' \subseteq Creating(u)
    BY <1>7 DEF CheckName, Go, Done, Creating, ListInv, TypeOK, Idle, Request
  <2> QED
    BY <2>1, <2>2, NoMoreLists
<1>8. ASSUME NEW c \in Clients, NEW l \in Lists, Insert(c, l)
      PROVE  Cardinality(ListsOf(u)') + Cardinality(Creating(u)')
               <= MaxLists + Cardinality(Clients) - 1
  <2>1. req[c] \in Request /\ req[c].op = "create"
    BY <1>8 DEF Insert, ListInv, TypeOK, Idle, Request
  <2>2. CASE req[c].user = u
    <3>1. ListsOf(u)' \subseteq ListsOf(u) \cup {l}
      BY <1>8 DEF Insert, ListsOf, Owns, There, ListInv, TypeOK
    <3>2. Cardinality(ListsOf(u)') <= Cardinality(ListsOf(u)) + 1
          /\ Cardinality(ListsOf(u)') \in Nat
      <4>1. /\ IsFiniteSet(ListsOf(u) \cup {l})
            /\ Cardinality(ListsOf(u) \cup {l}) <= Cardinality(ListsOf(u)) + 1
        <5>1. IsFiniteSet(ListsOf(u)) /\ Cardinality(ListsOf(u)) \in Nat
          BY FiniteLists
        <5>2. /\ IsFiniteSet(ListsOf(u) \cup {l})
              /\ Cardinality(ListsOf(u) \cup {l}) =
                   IF l \in ListsOf(u) THEN Cardinality(ListsOf(u))
                   ELSE Cardinality(ListsOf(u)) + 1
          BY <5>1, FS_AddElement
        <5> QED
          BY <5>1, <5>2
      <4>2. /\ IsFiniteSet(ListsOf(u)')
            /\ Cardinality(ListsOf(u)') <= Cardinality(ListsOf(u) \cup {l})
        BY <3>1, <4>1, FS_Subset
      <4>3. /\ Cardinality(ListsOf(u)') \in Nat /\ Cardinality(ListsOf(u)) \in Nat
            /\ Cardinality(ListsOf(u) \cup {l}) \in Nat
        BY <4>1, <4>2, FiniteLists, FS_CardinalityType
      <4> QED
        BY <4>1, <4>2, <4>3
    <3>3. c \in Creating(u) /\ Creating(u)' \subseteq Creating(u) \ {c}
      BY <1>8, <2>1, <2>2 DEF Insert, Done, Creating, Idle, ListInv, TypeOK
    <3>4. Cardinality(Creating(u)') <= Cardinality(Creating(u)) - 1
          /\ Cardinality(Creating(u)') \in Nat
      BY <3>3, FiniteLists, FS_RemoveElement, FS_Subset, FS_CardinalityType
    <3> QED
      BY <3>2, <3>4, FiniteLists DEF RoomKept
  <2>3. CASE req[c].user # u
    <3>1. ListsOf(u)' \subseteq ListsOf(u)
      BY <1>8, <2>3 DEF Insert, ListsOf, Owns, There, ListInv, TypeOK
    <3>2. Creating(u)' \subseteq Creating(u)
      BY <1>8 DEF Insert, Done, Creating, Idle, ListInv, TypeOK
    <3> QED
      BY <3>1, <3>2, NoMoreLists
  <2> QED
    BY <2>2, <2>3
<1>9. ASSUME NEW c \in Clients, Update(c) \/ Erase(c)
      PROVE  Cardinality(ListsOf(u)') + Cardinality(Creating(u)')
               <= MaxLists + Cardinality(Clients) - 1
  <2>1. Done(c)
    BY <1>9 DEF Update, Erase
  <2>2. \A l \in Lists : There(l)' => There(l) /\ lists'[l].owner = lists[l].owner
    BY <1>9 DEF Update, Erase, Owns, There, ListInv, TypeOK, Row
  <2> QED
    BY <1>2, <2>1, <2>2 DEF Done, Idle
<1>10. ASSUME NEW c \in Clients, CheckOwner(c)
       PROVE  Cardinality(ListsOf(u)') + Cardinality(Creating(u)')
                <= MaxLists + Cardinality(Clients) - 1
  <2>1. ListsOf(u)' = ListsOf(u)
    BY <1>10 DEF CheckOwner, ListsOf, Owns, There
  <2>2. Creating(u)' \subseteq Creating(u)
    BY <1>10 DEF CheckOwner, Go, Done, Creating, ListInv, TypeOK, Idle, Request
  <2> QED
    BY <2>1, <2>2, NoMoreLists
<1>11. ASSUME NEW c \in Clients, Put(c) \/ Fail(c)
       PROVE  Cardinality(ListsOf(u)') + Cardinality(Creating(u)')
                <= MaxLists + Cardinality(Clients) - 1
  BY <1>2, <1>11 DEF Put, Fail, Done, Idle, There
<1>12. ASSUME NEW v \in Users, Doom(v) \/ Commit(v) \/ RollBack(v)
       PROVE  Cardinality(ListsOf(u)') + Cardinality(Creating(u)')
                <= MaxLists + Cardinality(Clients) - 1
  <2>1. ListsOf(u)' \subseteq ListsOf(u) /\ Creating(u)' = Creating(u)
    BY <1>12 DEF Doom, Commit, RollBack, ListsOf, Owns, There, Creating, ListInv, TypeOK
  <2> QED
    BY <2>1, NoMoreLists
<1> QED
  BY <1>1, <1>3, <1>4, <1>5, <1>6, <1>7, <1>8, <1>9, <1>10, <1>11, <1>12 DEF Next, Handle

(* However many creates race, and deletions of the account with them, the  *)
(* lists of a user pass the cap by one less than there are clients at most *)
(* (CreateWatchlist counts, then inserts).                                 *)
THEOREM CapPassedByRacesOnly == Spec => []PastTheCapByRacesOnly
<1>1. Init => RoomKept /\ FewAlone
  <2> SUFFICES ASSUME Init, NEW u \in Users
               PROVE  /\ Cardinality(ListsOf(u)) + Cardinality(Creating(u))
                           <= MaxLists + Cardinality(Clients) - 1
                      /\ Cardinality(Stays(u)) + Cardinality(Past(u)) <= Cardinality(Clients)
    BY DEF RoomKept, FewAlone
  <2>1. ListsOf(u) = {} /\ Creating(u) = {} /\ Stays(u) = {} /\ Past(u) = {}
    BY DEF Init, ListsOf, Owns, There, Creating, Stays, Past, Creates, Idle
  <2> QED
    BY <2>1, FS_EmptySet, FiniteLists
<1>2. RoomKept => PastTheCapByRacesOnly
  BY FiniteLists DEF RoomKept, PastTheCapByRacesOnly
<1> QED
  BY <1>1, <1>2, RoomKeptStep, FewAloneStep, TypeCorrect, ListInvAlways, PTL DEF Spec
=============================================================================
