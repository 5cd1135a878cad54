----------------------------- MODULE Watchlists -----------------------------
(***************************************************************************)
(* The named watchlists - the tables watchlists and watchlist_items - and  *)
(* the handlers that write them.  No handler of theirs opens a             *)
(* transaction: each of its statements is an action, and what an earlier   *)
(* statement read may be stale by the time a later one writes.  Beside     *)
(* them DELETE /me takes all of a user's lists in a transaction, whose row *)
(* locks make the others' writes wait until it commits or rolls back.      *)
(***************************************************************************)
EXTENDS Naturals, FiniteSets

CONSTANTS
  Users,
  Clients,      \* the apps asking, for any user, one request each at a time
  Lists,        \* list ids
  DefaultOf,    \* user -> the id of its default list
  Titles,
  Names,
  Lower,        \* a name in lower case
  DefaultName,  \* "Watchlist"
  MaxLists,     \* maxListsPerUser
  MaxRequests,  \* bound: how many requests the clients send in all
  NoList        \* no row of this id

Row == [owner : Users, name : Names, default : BOOLEAN]

ASSUME UsersAssumption == IsFiniteSet(Clients) /\ IsFiniteSet(Lists)
ASSUME DefaultAssumption ==
  /\ DefaultOf \in [Users -> Lists]
  /\ \A u, v \in Users : DefaultOf[u] = DefaultOf[v] => u = v
ASSUME NamesAssumption  == Lower \in [Names -> Names] /\ DefaultName \in Names
ASSUME BoundsAssumption == MaxLists \in Nat \ {0, 1} /\ MaxRequests \in Nat
ASSUME NoListAssumption == NoList \notin Row

(* GET watchlists (or the default list), POST, PATCH and DELETE a list, PUT *)
(* and DELETE a title of it: a request, and the statement it is at.        *)
Request ==
  [phase : {"ensure"}, op : {"read"}, user : Users]
  \cup [phase : {"ensure", "count", "name", "insert"}, op : {"create"},
        user : Users, name : Names]
  \cup [phase : {"get", "name", "update"}, op : {"rename"},
        user : Users, list : Lists, name : Names]
  \cup [phase : {"get", "erase"}, op : {"delete"}, user : Users, list : Lists]
  \cup [phase : {"ensure", "owns", "put"}, op : {"add", "remove"},
        user : Users, list : Lists, title : Titles]

(* A request at its first statement; a title is added and removed by its   *)
(* list, or by the older route of the default list.                        *)
Starts ==
  {r \in Request :
     \/ r.op \in {"read", "create"} /\ r.phase = "ensure"
     \/ r.op \in {"rename", "delete"} /\ r.phase = "get"
     \/ r.op \in {"add", "remove"} /\ r.phase = "owns"
     \/ r.op \in {"add", "remove"} /\ r.phase = "ensure" /\ r.list = DefaultOf[r.user]}

Idle == [phase |-> "idle"]

VARIABLES
  lists,    \* watchlists: id -> row
  titles,   \* watchlist_items: list id -> titles
  req,      \* client -> its request under way
  sent,     \* how many requests were sent
  minted,   \* the ids given out: a random one is never given twice
  doomed,   \* lists an open deletion of their owner's account deleted
  \* History variables: the properties read them, no guard does.
  raced,    \* <<user, name>> given to two lists by requests that raced
  bereft    \* users whose default list went while a create was under way

vars == <<lists, titles, req, sent, minted, doomed, raced, bereft>>

Init ==
  /\ lists = [l \in Lists |-> NoList]
  /\ titles = [l \in Lists |-> {}]
  /\ req = [c \in Clients |-> Idle]
  /\ sent = 0
  /\ minted = {DefaultOf[u] : u \in Users}
  /\ doomed = {}
  /\ raced = {}
  /\ bereft = {}

-----------------------------------------------------------------------------
There(l)    == lists[l] # NoList
Owns(u, l)  == There(l) /\ lists[l].owner = u
ListsOf(u)  == {l \in Lists : Owns(u, l)}

(* Fault: names compared as they are written.                              *)
NameExistsAsWritten(u, name, except) ==
  \E l \in ListsOf(u) \ except : lists[l].name = name

(* nameExists: another list of u's has the name, whatever the case.        *)
NameExists(u, name, except) ==
  \E l \in ListsOf(u) \ except : Lower[lists[l].name] = Lower[name]

(* A create that made sure of the default list, and has yet to insert.     *)
Creates(r, u) == r.phase \in {"count", "name", "insert"} /\ r.op = "create" /\ r.user = u

Renamed(r) == IF r.op = "rename" THEN {r.list} ELSE {}

(* A request whose name was checked and is about to be given.              *)
Naming(r)  == r.phase \in {"insert", "update"}
NameKey(r) == <<r.user, Lower[r.name]>>

Go(c, phase) == req' = [req EXCEPT ![c].phase = phase]
Done(c)      == req' = [req EXCEPT ![c] = Idle]

-----------------------------------------------------------------------------
Arrive(c, r) ==
  /\ req[c] = Idle
  /\ sent < MaxRequests
  /\ sent' = sent + 1
  /\ req' = [req EXCEPT ![c] = r]
  /\ UNCHANGED <<lists, titles, minted, doomed, raced, bereft>>

(* The default list made anew beside lists that outlived a deletion takes  *)
(* its name without asking for it.                                         *)
MadeAnew(u) ==
  /\ bereft' = bereft \ {u}
  /\ raced' = IF u \in bereft THEN raced \cup {<<u, Lower[DefaultName]>>} ELSE raced

(* EnsureDefaultList, by id: a list that is there stays as it is.  One     *)
(* being deleted makes it wait.                                            *)
Ensure(c) ==
  LET r == req[c]
      l == DefaultOf[r.user]
  IN
  /\ r.phase = "ensure"
  /\ l \notin doomed
  /\ IF There(l)
     THEN UNCHANGED <<lists, raced, bereft>>
     ELSE /\ lists' = [lists EXCEPT ![l] =
                         [owner |-> r.user, name |-> DefaultName, default |-> TRUE]]
          /\ MadeAnew(r.user)
  /\ \/ r.op = "read" /\ Done(c)
     \/ r.op = "create" /\ Go(c, "count")
     \/ r.op \in {"add", "remove"} /\ Go(c, "owns")
  /\ UNCHANGED <<titles, sent, minted, doomed>>

(* Fault: one list too many is let through.                                *)
CountTooFar(c) ==
  /\ req[c].phase = "count"
  /\ IF Cardinality(ListsOf(req[c].user)) > MaxLists THEN Done(c) ELSE Go(c, "name")
  /\ UNCHANGED <<lists, titles, sent, minted, doomed, raced, bereft>>

(* CreateWatchlist's cap: 409 "too many lists".                            *)
Count(c) ==
  /\ req[c].phase = "count"
  /\ IF Cardinality(ListsOf(req[c].user)) >= MaxLists THEN Done(c) ELSE Go(c, "name")
  /\ UNCHANGED <<lists, titles, sent, minted, doomed, raced, bereft>>

(* Fault: the default list is deleted as any other.                        *)
GetAnyList(c) ==
  LET r == req[c] IN
  /\ r.phase = "get"
  /\ IF ~Owns(r.user, r.list) THEN Done(c)
     ELSE IF r.op = "rename" THEN Go(c, "name")
     ELSE Go(c, "erase")
  /\ UNCHANGED <<lists, titles, sent, minted, doomed, raced, bereft>>

(* GetWatchlist, as RenameWatchlist and DeleteWatchlist begin: 404 when    *)
(* the list is not the caller's, 409 to delete the default.                *)
Get(c) ==
  LET r == req[c] IN
  /\ r.phase = "get"
  /\ IF ~Owns(r.user, r.list) THEN Done(c)
     ELSE IF r.op = "rename" THEN Go(c, "name")
     ELSE IF lists[r.list].default THEN Done(c)
     ELSE Go(c, "erase")
  /\ UNCHANGED <<lists, titles, sent, minted, doomed, raced, bereft>>

(* nameExists: 409 "name exists"; a rename leaves its own list out.        *)
CheckName(c) ==
  LET r == req[c] IN
  /\ r.phase = "name"
  /\ IF NameExists(r.user, r.name, Renamed(r))
     THEN Done(c) /\ raced' = raced
     ELSE /\ Go(c, IF r.op = "rename" THEN "update" ELSE "insert")
          /\ raced' = raced \cup
               {NameKey(req[b]) : b \in {x \in Clients : /\ Naming(req[x])
                                                         /\ NameKey(req[x]) = NameKey(r)}}
  /\ UNCHANGED <<lists, titles, sent, minted, doomed, bereft>>

(* CreateWatchlist's INSERT, under an id of its own.                       *)
Insert(c, l) ==
  LET r == req[c] IN
  /\ r.phase = "insert"
  /\ l \notin minted
  /\ minted' = minted \cup {l}
  /\ lists' = [lists EXCEPT ![l] = [owner |-> r.user, name |-> r.name, default |-> FALSE]]
  /\ Done(c)
  /\ UNCHANGED <<titles, sent, doomed, raced, bereft>>

(* RenameWatchlist's UPDATE: of no row when the list is gone meanwhile.    *)
Update(c) ==
  LET r == req[c] IN
  /\ r.phase = "update"
  /\ r.list \notin doomed
  /\ lists' = IF Owns(r.user, r.list) THEN [lists EXCEPT ![r.list].name = r.name] ELSE lists
  /\ Done(c)
  /\ UNCHANGED <<titles, sent, minted, doomed, raced, bereft>>

(* Fault: a list an open deletion holds is deleted under it.               *)
EraseUnlocked(c) ==
  LET r == req[c] IN
  /\ r.phase = "erase"
  /\ IF Owns(r.user, r.list)
     THEN /\ lists' = [lists EXCEPT ![r.list] = NoList]
          /\ titles' = [titles EXCEPT ![r.list] = {}]
     ELSE UNCHANGED <<lists, titles>>
  /\ Done(c)
  /\ UNCHANGED <<sent, minted, doomed, raced, bereft>>

(* DeleteWatchlist's DELETE, the list's titles with it.                    *)
Erase(c) ==
  LET r == req[c] IN
  /\ r.phase = "erase"
  /\ r.list \notin doomed
  /\ IF Owns(r.user, r.list)
     THEN /\ lists' = [lists EXCEPT ![r.list] = NoList]
          /\ titles' = [titles EXCEPT ![r.list] = {}]
     ELSE UNCHANGED <<lists, titles>>
  /\ Done(c)
  /\ UNCHANGED <<sent, minted, doomed, raced, bereft>>

(* ownsList, as AddWatchlistItem and RemoveWatchlistItem begin.            *)
CheckOwner(c) ==
  /\ req[c].phase = "owns"
  /\ IF Owns(req[c].user, req[c].list) THEN Go(c, "put") ELSE Done(c)
  /\ UNCHANGED <<lists, titles, sent, minted, doomed, raced, bereft>>

(* Fault: a title is not held to the list it refers to while that goes.    *)
PutUnheld(c) ==
  LET r == req[c] IN
  /\ r.phase = "put"
  /\ titles' = IF r.op = "remove" THEN [titles EXCEPT ![r.list] = @ \ {r.title}]
               ELSE [titles EXCEPT ![r.list] = @ \cup {r.title}]
  /\ Done(c)
  /\ UNCHANGED <<lists, sent, minted, doomed, raced, bereft>>

(* Their statement names the list alone.  The foreign key makes a title of *)
(* a list being deleted wait, and refuses one of a list that is gone; a    *)
(* title waits to go with it.                                              *)
Put(c) ==
  LET r == req[c] IN
  /\ r.phase = "put"
  /\ r.list \in doomed => r.op = "remove" /\ r.title \notin titles[r.list]
  /\ titles' = IF r.op = "remove" THEN [titles EXCEPT ![r.list] = @ \ {r.title}]
               ELSE IF There(r.list) THEN [titles EXCEPT ![r.list] = @ \cup {r.title}]
               ELSE titles
  /\ Done(c)
  /\ UNCHANGED <<lists, sent, minted, doomed, raced, bereft>>

-----------------------------------------------------------------------------
(* DeleteUserData's DELETE of a user's lists and their titles; another     *)
(* deletion's makes it wait.                                               *)
Doom(u) ==
  /\ sent < MaxRequests
  /\ sent' = sent + 1
  /\ ListsOf(u) # {} /\ ListsOf(u) \cap doomed = {}
  /\ doomed' = doomed \cup ListsOf(u)
  /\ UNCHANGED <<lists, titles, req, minted, raced, bereft>>

Doomed(u) == ListsOf(u) \cap doomed

(* A list inserted since the DELETE, or about to be.                       *)
Outlives(u) == ListsOf(u) \ doomed # {} \/ \E c \in Clients : Creates(req[c], u)

(* The deletion commits: lists that creates under way inserted since, or   *)
(* will, are left without the default.                                     *)
Commit(u) ==
  /\ Doomed(u) # {}
  /\ lists' = [l \in Lists |-> IF l \in Doomed(u) THEN NoList ELSE lists[l]]
  /\ titles' = [l \in Lists |-> IF l \in Doomed(u) THEN {} ELSE titles[l]]
  /\ bereft' = IF DefaultOf[u] \in doomed /\ Outlives(u) THEN bereft \cup {u} ELSE bereft
  /\ doomed' = doomed \ Doomed(u)
  /\ UNCHANGED <<req, sent, minted, raced>>

(* ... or is rolled back.                                                  *)
RollBack(u) ==
  /\ Doomed(u) # {}
  /\ doomed' = doomed \ Doomed(u)
  /\ UNCHANGED <<lists, titles, req, sent, minted, raced, bereft>>

(* The database fails, the client hangs up, the server restarts.           *)
Fail(c) ==
  /\ req[c] # Idle
  /\ Done(c)
  /\ UNCHANGED <<lists, titles, sent, minted, doomed, raced, bereft>>

Handle(c) ==
  \/ \E r \in Starts : Arrive(c, r)
  \/ Ensure(c) \/ Count(c) \/ Get(c) \/ CheckName(c)
  \/ \E l \in Lists : Insert(c, l)
  \/ Update(c) \/ Erase(c) \/ CheckOwner(c) \/ Put(c)
  \/ Fail(c)

Next ==
  \/ \E c \in Clients : Handle(c)
  \/ \E u \in Users : Doom(u) \/ Commit(u) \/ RollBack(u)

Spec == Init /\ [][Next]_vars

-----------------------------------------------------------------------------
(* Every variable has its type.                                            *)
TypeOK ==
  /\ lists \in [Lists -> Row \cup {NoList}]
  /\ titles \in [Lists -> SUBSET Titles]
  /\ req \in [Clients -> Request \cup {Idle}]
  /\ sent \in 0 .. MaxRequests
  /\ minted \subseteq Lists
  /\ doomed \subseteq {l \in Lists : There(l)}
  /\ raced \subseteq Users \X Names
  /\ bereft \subseteq Users

(* A user who has a list has the default one: it is made before any other, *)
(* counts toward the cap, and no request deletes it, renamed or not - but  *)
(* for creates that were past making it as their account's lists went, and *)
(* only until the user's next request of the default list or create        *)
(* (CreateWatchlist, DeleteWatchlist, DeleteUserData).                     *)
DefaultIsThere ==
  \A u \in Users : ListsOf(u) # {} =>
    /\ DefaultOf[u] \in ListsOf(u) \/ u \in bereft
    /\ {l \in ListsOf(u) : lists[l].default} \subseteq {DefaultOf[u]}

(* "maxListsPerUser caps how many lists a single subject may own": requests *)
(* that count at once go past the cap together, by one list less           *)
(* than there are clients and never further, however long they go on.      *)
PastTheCapByRacesOnly ==
  \A u \in Users : Cardinality(ListsOf(u)) <= MaxLists + Cardinality(Clients) - 1

SameName(a, b) ==
  /\ a # b
  /\ lists[a].owner = lists[b].owner
  /\ Lower[lists[a].name] = Lower[lists[b].name]

(* Two lists of a user's share a name only after two requests that were    *)
(* about to give it at the same time, or the default's, made anew after a  *)
(* deletion that creates outlived: no other interleaving of creates,       *)
(* renames and deletes makes one (CreateWatchlist, RenameWatchlist).       *)
SameNameByRacesOnly ==
  \A a, b \in Lists : (There(a) /\ There(b) /\ SameName(a, b)) =>
    <<lists[a].owner, Lower[lists[a].name]>> \in raced

(* Titles are kept of lists that are there, also when a list goes between  *)
(* a request's check of its owner and its write, or the whole account      *)
(* does while a device adds one (AddWatchlistItem, DeleteUserData).        *)
TitlesHaveAList == \A l \in Lists : titles[l] # {} => There(l)
=============================================================================
