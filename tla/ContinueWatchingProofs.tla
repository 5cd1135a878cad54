----------------------- MODULE ContinueWatchingProofs -----------------------
(***************************************************************************)
(* Proofs about ContinueWatching: the type invariant with its two limits,  *)
(* one card a file, that what follows a finished episode is new, that what *)
(* is in progress is shown and series go on, and where the next episode is.*)
(***************************************************************************)
EXTENDS ContinueWatching, FiniteSetTheorems, WellFoundedInduction, TLAPS

(* A set of numbers has a least.                                           *)
LEMMA LeastOf ==
  ASSUME NEW S, S \subseteq Nat, S # {}
  PROVE  \E m \in S : \A k \in S : m <= k
<1>1. PICK m \in S : \A y \in S : ~ (<<y, m>> \in OpToRel(<, Nat))
  BY NatLessThanWellFounded, WFMin
<1>2. ASSUME NEW k \in S PROVE m <= k
  <2>1. ~ (<<k, m>> \in OpToRel(<, Nat))
    BY <1>1
  <2>2. ~ (k < m)
    BY <2>1 DEF OpToRel
  <2> QED
    BY <2>2
<1> QED
  BY <1>2

(* A bounded one has a greatest.                                           *)
LEMMA GreatestOf ==
  ASSUME NEW n \in Nat, NEW S, S \subseteq 0 .. n, S # {}
  PROVE  \E m \in S : \A k \in S : k <= m
<1> DEFINE T == {n - k : k \in S}
<1>1. T \subseteq Nat /\ T # {}
  <2>1. ASSUME NEW k \in S PROVE n - k \in Nat
    BY k \in 0 .. n
  <2> QED
    BY <2>1
<1>2. PICK t \in T : \A k \in T : t <= k
  BY <1>1, LeastOf
<1>3. PICK m \in S : t = n - m
  OBVIOUS
<1>4. ASSUME NEW k \in S PROVE k <= m
  <2>1. t <= n - k
    BY <1>2
  <2> QED
    BY <2>1, <1>3
<1> QED
  BY <1>4

(* FirstIn is the least.                                                   *)
LEMMA FirstInIs ==
  ASSUME NEW S, S \subseteq Nat, S # {}
  PROVE  FirstIn(S) \in S /\ \A k \in S : FirstIn(S) <= k
BY LeastOf DEF FirstIn

(* fileEnd is the last episode of the file.                                *)
LEMMA FileEndIs ==
  ASSUME NEW l \in Seq(Items), NEW n \in 1 .. Len(l)
  PROVE  /\ FileEnd(l, n) \in n .. Len(l)
         /\ SameFile(l, FileEnd(l, n), n)
         /\ \A k \in FileEnd(l, n) + 1 .. Len(l) : ~SameFile(l, k, n)
<1> DEFINE S == {m \in n .. Len(l) : SameFile(l, m, n)}
<1>1. S \subseteq 0 .. Len(l) /\ n \in S /\ Len(l) \in Nat
  BY DEF SameFile
<1>2. PICK m \in S : \A k \in S : k <= m
  <2> HIDE DEF S
  <2> QED
    BY <1>1, GreatestOf
<1>3. ASSUME NEW k \in m + 1 .. Len(l) PROVE ~SameFile(l, k, n)
  <2>1. k \in n .. Len(l) /\ ~ (k <= m)
    BY <1>1
  <2> QED
    BY <2>1, <1>2
<1> QED
  BY <1>2, <1>3 DEF FileEnd

(* A card past the limit is none.                                          *)
LEMMA UpToBound ==
  ASSUME NEW n \in Nat, NEW ks \in SUBSET (1 .. n)
  PROVE  /\ UpTo(ks) \subseteq ks
         /\ Cardinality(UpTo(ks)) <= CardLimit
<1> DEFINE U == UpTo(ks)
<1>a. IsFiniteSet(1 .. n)
  BY FS_Interval
<1>b. U \subseteq ks
  BY DEF UpTo
<1>c. IsFiniteSet(ks)
  BY <1>a, FS_Subset
<1>1. U \subseteq ks /\ IsFiniteSet(ks) /\ IsFiniteSet(U) /\ CardLimit \in Nat
  <2> HIDE DEF U
  <2> QED
    BY <1>b, <1>c, FS_Subset, BoundsAssumption
<1>2. CASE U = {}
  BY <1>1, <1>2, FS_EmptySet
<1>3. CASE U # {}
  <2>1. PICK m \in U : \A k \in U : k <= m
    <3> HIDE DEF U
    <3>1. U \subseteq 0 .. n
      BY <1>1
    <3> QED
      BY <3>1, <1>3, GreatestOf
  <2> DEFINE B == {j \in ks : j < m}
  <2>2. Cardinality(B) < CardLimit
    BY <2>1 DEF UpTo
  <2>3. U \ {m} \subseteq B
    <3>1. ASSUME NEW j \in U \ {m} PROVE j \in ks /\ j < m
      <4> HIDE DEF U
      <4>1. j <= m /\ j # m /\ j \in 1 .. n /\ m \in 1 .. n
        BY <1>1, <2>1
      <4> QED
        BY <4>1, <1>1
    <3> QED
      BY <3>1
  <2>4. IsFiniteSet(B)
    BY <1>1, FS_Subset
  <2> HIDE DEF B, U
  <2>5. Cardinality(U \ {m}) <= Cardinality(B)
    BY <2>3, <2>4, FS_Subset
  <2>6. Cardinality(U \ {m}) = Cardinality(U) - 1
    BY <1>1, <2>1, FS_RemoveElement
  <2>7. Cardinality(B) \in Nat /\ Cardinality(U) \in Nat
    BY <1>1, <2>4, FS_CardinalityType
  <2>8. Cardinality(U) <= CardLimit
    BY <1>1, <2>2, <2>5, <2>6, <2>7
  <2> QED
    BY <1>1, <2>8 DEF U
<1> QED
  BY <1>2, <1>3

(* What follows an episode: past its file, none of its file's episodes in  *)
(* w, and some episode in w of every file between.                         *)
LEMMA FreshIsNew ==
  ASSUME NEW s \in Series, NEW a \in DOMAIN Listing[s], NEW w,
         Fresh(Listing[s], a, w) # {}
  PROVE  LET l == Listing[s]
             c == FirstIn(Fresh(l, a, w))
         IN  /\ c \in DOMAIN l /\ a < c
             /\ Holder[l[a]] # Holder[l[c]]
             /\ \A j \in File(l[c]) \cap RangeOf(l) : j \notin w
             /\ \A m \in a .. c : Holder[l[m]] \notin {Holder[l[a]], Holder[l[c]]} =>
                  \E j \in File(l[m]) : j \in w
<1> DEFINE l == Listing[s]
           F == Fresh(l, a, w)
           c == FirstIn(F)
           e == FileEnd(l, a)
<1>1. l \in Seq(Items) /\ a \in 1 .. Len(l) /\ DOMAIN l = 1 .. Len(l) /\ Len(l) \in Nat
  BY SeriesAssumption
<1>2. e \in a .. Len(l) /\ SameFile(l, e, a) /\ \A k \in e + 1 .. Len(l) : ~SameFile(l, k, a)
  <2> HIDE DEF l
  <2> QED
    BY <1>1, FileEndIs
<1>3. F \subseteq Nat /\ F # {}
  BY <1>1, <1>2 DEF Fresh
<1>4. c \in F /\ \A k \in F : c <= k
  <2> HIDE DEF F
  <2> QED
    BY <1>3, FirstInIs
<1>5. /\ c \in e + 1 .. Len(l) /\ FirstOfFile(l, c) /\ ~WatchedFile(l, c, w)
      /\ \A k \in e + 1 .. c - 1 : FirstOfFile(l, k) => WatchedFile(l, k, w)
  <2> HIDE DEF e, l, c
  <2>1. F = {m \in e + 1 .. Len(l) : FirstOfFile(l, m) /\ ~WatchedFile(l, m, w)}
    BY DEF Fresh, e
  <2>2. c \in e + 1 .. Len(l) /\ FirstOfFile(l, c) /\ ~WatchedFile(l, c, w)
    BY <2>1, <1>4
  <2>3. ASSUME NEW k \in e + 1 .. c - 1, FirstOfFile(l, k) PROVE WatchedFile(l, k, w)
    <3>1. k \in e + 1 .. Len(l) /\ ~ (c <= k)
      BY <1>1, <1>2, <2>2
    <3> QED
      BY <3>1, <2>1, <1>4, <2>3
  <2> QED
    BY <2>2, <2>3
<1>6. c \in DOMAIN l /\ a < c /\ c \in 1 .. Len(l)
  BY <1>1, <1>2, <1>5
<1>7. Holder[l[a]] # Holder[l[c]]
  BY <1>2, <1>5 DEF SameFile
<1>8. ASSUME NEW j \in File(l[c]) \cap RangeOf(l) PROVE j \notin w
  <2> SUFFICES ASSUME j \in w PROVE FALSE
    OBVIOUS
  <2> HIDE DEF l, c
  <2>1. PICK k \in 1 .. Len(l) : j = l[k]
    BY <1>1 DEF RangeOf
  <2>2. SameFile(l, k, c)
    BY <2>1 DEF File, SameFile
  <2>3. k >= c
    BY <2>1, <2>2, <1>5, <1>6 DEF FirstOfFile
  <2>4. FileEnd(l, c) \in c .. Len(l) /\ \A m \in FileEnd(l, c) + 1 .. Len(l) : ~SameFile(l, m, c)
    BY <1>1, <1>6, FileEndIs
  <2>5. k \in c .. FileEnd(l, c)
    BY <2>1, <2>2, <2>3, <2>4
  <2> QED
    BY <2>1, <2>2, <2>5, <1>5 DEF WatchedFile
<1>9. ASSUME NEW m \in a .. c, Holder[l[m]] \notin {Holder[l[a]], Holder[l[c]]}
      PROVE  \E j \in File(l[m]) : j \in w
  <2> DEFINE S == {k \in 1 .. Len(l) : SameFile(l, k, m)}
             f == FirstIn(S)
  <2>1. m \in 1 .. Len(l) /\ m < c
    <3>1. m \in Nat /\ a <= m /\ m <= c /\ m # c
      BY <1>9, <1>1, <1>6
    <3> QED
      BY <3>1, <1>1, <1>6
  <2>2. f \in S /\ \A k \in S : f <= k
    <3>1. S \subseteq Nat /\ S # {}
      BY <2>1, <1>1 DEF SameFile
    <3> HIDE DEF S
    <3> QED
      BY <3>1, FirstInIs
  <2> HIDE DEF l, f, c, e
  <2>3. f \in 1 .. Len(l) /\ SameFile(l, f, m) /\ f <= m
    BY <2>1, <2>2 DEF SameFile
  <2>4. FirstOfFile(l, f)
    <3> SUFFICES ASSUME NEW k \in 1 .. f - 1, SameFile(l, k, f) PROVE FALSE
      BY DEF FirstOfFile
    <3>1. k \in S
      BY <2>1, <2>3 DEF SameFile
    <3> QED
      BY <3>1, <2>2, <2>3
  <2>5. Holder[l[e]] = Holder[l[a]] /\ Holder[l[f]] = Holder[l[m]]
    BY <1>2, <2>3 DEF SameFile
  <2>6. f > e
    <3> SUFFICES ASSUME f <= e PROVE FALSE
      BY <1>1, <1>2, <2>3
    <3>1. ASSUME e <= m PROVE FALSE
      <4>1. Holder[l[e]] = Holder[l[f]]
        BY FilesAssumption, <1>1, <1>2, <2>1, <2>3, <2>5, <3>1 DEF l
      <4> QED
        BY <4>1, <2>5, <1>9
    <3>2. ASSUME m < e PROVE FALSE
      <4>1. Holder[l[m]] = Holder[l[a]]
        BY FilesAssumption, <1>1, <1>2, <2>1, <2>5, <3>2 DEF l
      <4> QED
        BY <4>1, <1>9
    <3> QED
      BY <3>1, <3>2, <1>1, <1>2, <2>1
  <2>7. f \in e + 1 .. c - 1
    BY <1>1, <1>2, <1>6, <2>1, <2>3, <2>6
  <2>8. WatchedFile(l, f, w)
    BY <2>4, <2>7, <1>5
  <2>9. PICK k \in f .. FileEnd(l, f) : SameFile(l, k, f) /\ l[k] \in w
    BY <2>8 DEF WatchedFile
  <2>10. k \in 1 .. Len(l) /\ l[k] \in Items
    <3>1. FileEnd(l, f) \in f .. Len(l)
      BY <1>1, <2>3, FileEndIs
    <3>2. k \in 1 .. Len(l)
      BY <3>1, <2>3, <2>9
    <3> QED
      BY <3>2, <1>1
  <2> QED
    BY <2>9, <2>10, <2>5 DEF File, SameFile
<1> QED
  BY <1>6, <1>7, <1>8, <1>9

-----------------------------------------------------------------------------
(* What the marks are now has been seen.                                   *)
SeenNow ==
  phase = "reading" => watched \subseteq seen.watched /\ Items \ watched \subseteq seen.unwatched

CardsAreShown == phase = "answered" => \A k \in cards : entries[k].stage = "card"

Follows(e) == e.finished /\ e.stage \in {"picked", "card"}

PickedAreNew ==
  phase \in {"reading", "answered"} /\ ~failed =>
    \A k \in DOMAIN entries : Follows(entries[k]) => IsNew(entries[k])

(* The cards of an answer stay; each step of a request keeps the rest.     *)
RequestInv == RequestOK /\ OneCardPerFile /\ CardsAreShown /\ PickedAreNew

IInv == WritingOK /\ SeenOK /\ SeenNow /\ RequestInv

(* An answer without cards is fine.                                        *)
LEMMA NoCards ==
  /\ Cardinality({}) = 0 /\ <<>> \in Seq(Entry) /\ Len(<<>>) = 0 /\ DOMAIN <<>> = {}
  /\ 0 <= CardLimit /\ 0 <= RowLimit /\ Nowhere \in [anchor : Items \cup {NoItem}, next : Items \cup {NoItem}]
BY FS_EmptySet, BoundsAssumption DEF Nowhere

(* What was seen stays seen, so what was new stays new.                    *)
LEMMA NewStaysNew ==
  ASSUME NEW k, IsNew(entries[k]), entries'[k] = entries[k],
         seen.watched \subseteq seen.watched', seen.unwatched \subseteq seen.unwatched'
  PROVE  IsNew(entries[k])'
<1> DEFINE l == Listing[SeriesOf[entries[k].from]]
<1>1. PICK a \in DOMAIN l, c \in DOMAIN l :
        /\ l[a] = entries[k].from /\ l[c] = entries[k].item
        /\ a < c /\ Holder[l[a]] # Holder[l[c]]
        /\ File(l[c]) \cap RangeOf(l) \subseteq seen.unwatched
        /\ \A m \in a .. c : Holder[l[m]] \notin {Holder[l[a]], Holder[l[c]]} =>
             \E j \in File(l[m]) : j \in seen.watched
  BY DEF IsNew
<1>2. File(l[c]) \cap RangeOf(l) \subseteq seen.unwatched'
  BY <1>1
<1>3. \A m \in a .. c : Holder[l[m]] \notin {Holder[l[a]], Holder[l[c]]} =>
        \E j \in File(l[m]) : j \in seen.watched'
  BY <1>1
<1>4. entries'[k] = entries[k]
  OBVIOUS
<1>5. Listing[SeriesOf[entries'[k].from]] = l
  BY <1>4
<1> HIDE DEF l
<1>6. \E a_1 \in DOMAIN l, c_1 \in DOMAIN l :
        /\ l[a_1] = entries'[k].from /\ l[c_1] = entries'[k].item
        /\ a_1 < c_1 /\ Holder[l[a_1]] # Holder[l[c_1]]
        /\ File(l[c_1]) \cap RangeOf(l) \subseteq seen.unwatched'
        /\ \A m \in a_1 .. c_1 : Holder[l[m]] \notin {Holder[l[a_1]], Holder[l[c_1]]} =>
             \E j \in File(l[m]) : j \in seen.watched'
  BY <1>1, <1>2, <1>3, <1>4
<1> QED
  BY <1>5, <1>6 DEF IsNew

LEMMA InitInv == Init => IInv
<1> SUFFICES ASSUME Init PROVE IInv
  OBVIOUS
<1>1. WritingOK
  BY BoundsAssumption DEF Init, WritingOK
<1>2. SeenOK /\ SeenNow
  BY DEF Init, SeenOK, SeenNow, NothingSeen
<1>3. RequestInv
  BY NoCards DEF Init, RequestInv, RequestOK, OneCardPerFile, CardsAreShown, PickedAreNew
<1> QED
  BY <1>1, <1>2, <1>3 DEF IInv

(* A write: a request under way sees it, an answer is forgotten.           *)
LEMMA WatchingKeeps ==
  ASSUME IInv, Watching, WritingOK', off' \subseteq Items
  PROVE  IInv'
<1> USE DEF IInv, RequestInv
<1>1. CASE phase = "reading"
  <2>1. /\ seen' = [watched |-> seen.watched \cup watched',
                    unwatched |-> seen.unwatched \cup (Items \ watched'),
                    left |-> seen.left \cup {i \in Items : ~Underway(i)'},
                    apart |-> seen.apart \cup apart']
        /\ UNCHANGED reads
    BY <1>1 DEF Watching
  <2>2. SeenOK' /\ SeenNow'
    BY <2>1 DEF SeenOK, SeenNow, WritingOK
  <2>3. RequestOK' /\ OneCardPerFile' /\ CardsAreShown'
    BY <2>1, <1>1 DEF reads, RequestOK, OneCardPerFile, CardsAreShown
  <2>4. PickedAreNew'
    <3> SUFFICES ASSUME ~failed, NEW k \in DOMAIN entries, Follows(entries[k])
                 PROVE  IsNew(entries[k])'
      BY <2>1 DEF reads, PickedAreNew, Follows
    <3>1. IsNew(entries[k])
      BY <1>1 DEF PickedAreNew
    <3>2. entries' = entries
      BY <2>1 DEF reads
    <3>3. seen.watched \subseteq seen.watched' /\ seen.unwatched \subseteq seen.unwatched'
      BY <2>1
    <3> QED
      BY <3>1, <3>2, <3>3, NewStaysNew
  <2> QED
    BY <2>2, <2>3, <2>4
<1>2. CASE phase # "reading"
  <2>1. /\ phase' = "idle" /\ entries' = <<>> /\ cards' = {} /\ failed' = FALSE
        /\ next' = Nowhere
        /\ seen' = NothingSeen
    BY <1>2 DEF Watching
  <2> QED
    BY <2>1, NoCards
    DEF SeenOK, SeenNow, NothingSeen, RequestOK, OneCardPerFile, CardsAreShown, PickedAreNew
<1> QED
  BY <1>1, <1>2

LEMMA SaveInv ==
  ASSUME IInv, NEW i \in Items, NEW pos \in Positions \cup {Length},
         NEW whole \in BOOLEAN, NEW dismiss \in BOOLEAN, Save(i, pos, whole, dismiss)
  PROVE  IInv'
<1> DEFINE ids == IF whole THEN File(i) ELSE {i}
<1>1. ids \subseteq Items
  BY DEF File
<1>2. /\ Write /\ Watching
      /\ rows' = [j \in Items |-> IF j \in ids THEN [pos |-> pos, at |-> writes'] ELSE rows[j]]
      /\ pending' \in {ids, {}}
      /\ apart' \in {apart \ ids, apart \cup File(i)}
      /\ dismissed' \in {dismissed \cup ids, dismissed \ ids}
      /\ off' \in {off \ ids, {}}
      /\ watched' = watched
  BY DEF Save
<1> HIDE DEF ids
<1>3. pos \in Nat
  BY BoundsAssumption
<1>4. writes' \in 0 .. MaxWrites
  BY <1>2, BoundsAssumption DEF Write, IInv, WritingOK
<1>5. rows' \in [Items -> Row \cup {NoRow}]
  BY <1>2, <1>3, <1>4, BoundsAssumption DEF IInv, WritingOK, Row
<1>6. WritingOK' /\ off' \subseteq Items
  BY <1>1, <1>2, <1>4, <1>5 DEF IInv, WritingOK, SeenOK, File
<1> QED
  BY <1>2, <1>6, WatchingKeeps

LEMMA MarkInv ==
  ASSUME IInv, Mark \/ MarkFails
  PROVE  IInv'
<1>1. WritingOK' /\ off' \subseteq Items
  BY DEF Mark, MarkFails, IInv, WritingOK, SeenOK
<1> QED
  BY <1>1, WatchingKeeps DEF Mark, MarkFails

LEMMA ToggleInv ==
  ASSUME IInv, NEW i \in Items, NEW whole \in BOOLEAN, NEW mark \in BOOLEAN,
         Toggle(i, whole, mark)
  PROVE  IInv'
<1>1. WritingOK' /\ off' \subseteq Items
  BY BoundsAssumption DEF Toggle, Write, IInv, WritingOK, SeenOK, File
<1> QED
  BY <1>1, WatchingKeeps DEF Toggle

-----------------------------------------------------------------------------
(* Begin's rows are rows that are listed, RowLimit of them at most.        *)
LEMMA NewestIs ==
  ASSUME IInv, NEW q \in Newest
  PROVE  /\ q \in Seq(Items) /\ Len(q) <= RowLimit
         /\ \A k \in DOMAIN q : rows[q[k]] \in Row
<1> DEFINE rs == {i \in Items : Listed(i)}
           n == IF Cardinality(rs) < RowLimit THEN Cardinality(rs) ELSE RowLimit
<1>1. Cardinality(rs) \in Nat
  BY ItemsAssumption, FS_Subset, FS_CardinalityType
<1>2. n \in Nat /\ n <= RowLimit
  BY <1>1, BoundsAssumption
<1>3. q \in [1 .. n -> rs]
  BY DEF Newest
<1>4. \A i \in rs : i \in Items /\ rows[i] \in Row
  BY DEF Listed, IInv, WritingOK
<1> HIDE DEF rs, n
<1> QED
  BY <1>2, <1>3, <1>4

LEMMA BeginInv ==
  ASSUME IInv, NEW q \in Newest, Begin(q)
  PROVE  IInv'
<1>1. /\ q \in Seq(Items) /\ Len(q) <= RowLimit /\ DOMAIN q = 1 .. Len(q)
      /\ \A k \in DOMAIN q : q[k] \in Items /\ rows[q[k]] \in Row
  BY NewestIs
<1>2. \A k \in DOMAIN q : rows[q[k]].pos \in Nat /\ Done(q[k]) \in BOOLEAN
  BY <1>1 DEF Row, Done, AtEnd, Finished
<1> DEFINE E(k) == [stage |-> "todo", from |-> q[k], finished |-> Done(q[k]),
                    item |-> q[k], pos |-> rows[q[k]].pos, upNext |-> FALSE]
<1>3. \A k \in DOMAIN q : E(k) \in Entry
  BY <1>1, <1>2 DEF Entry, Stage
<1>4. \A k \in DOMAIN q : E(k).stage = "todo"
  OBVIOUS
<1>5. /\ phase' = "reading" /\ entries' = [k \in DOMAIN q |-> E(k)]
      /\ cards' = {} /\ failed' = FALSE /\ next' = Nowhere
      /\ off' = dismissed /\ seen' = Seen /\ UNCHANGED writing
  BY DEF Begin
<1> HIDE DEF E
<1>6. entries' \in Seq(Entry) /\ Len(entries') = Len(q) /\ DOMAIN entries' = DOMAIN q
  BY <1>1, <1>3, <1>5
<1>7. RequestOK'
  BY <1>1, <1>5, <1>6, NoCards DEF RequestOK
<1>8. OneCardPerFile' /\ CardsAreShown'
  BY <1>5 DEF OneCardPerFile, CardsAreShown
<1>9. PickedAreNew'
  BY <1>4, <1>5, <1>6 DEF PickedAreNew, Follows
<1>10. WritingOK' /\ SeenOK' /\ SeenNow'
  BY <1>5 DEF writing, IInv, WritingOK, SeenOK, SeenNow, Seen
<1> QED
  BY <1>7, <1>8, <1>9, <1>10 DEF IInv, RequestInv

(* A row on its way becomes another: of its item, whose next, if it is     *)
(* one, is new.                                                            *)
LEMMA BecomesInv ==
  ASSUME IInv, NEW k \in DOMAIN entries, NEW e \in Entry, phase = "reading", Becomes(k, e),
         failed' \in BOOLEAN, ~failed' => ~failed,
         ~failed' /\ Follows(e) => IsNew(e)
  PROVE  IInv'
<1>1. /\ entries' = [entries EXCEPT ![k] = e]
      /\ phase' = phase /\ cards' = cards /\ next' = next /\ UNCHANGED <<writing, history>>
  BY DEF Becomes
<1>2. entries' \in Seq(Entry) /\ DOMAIN entries' = DOMAIN entries /\ Len(entries') = Len(entries)
  BY <1>1 DEF IInv, RequestInv, RequestOK
<1>3. RequestOK'
  BY <1>1, <1>2 DEF IInv, RequestInv, RequestOK
<1>4. OneCardPerFile' /\ CardsAreShown'
  BY <1>1 DEF OneCardPerFile, CardsAreShown
<1>5. PickedAreNew'
  <2> SUFFICES ASSUME ~failed', NEW j \in DOMAIN entries', Follows(entries'[j])
               PROVE  IsNew(entries[j])'
    BY DEF PickedAreNew, Follows
  <2>1. seen' = seen
    BY <1>1 DEF history
  <2>2. CASE j = k
    <3>1. entries'[j] = e
      BY <1>1, <1>2, <2>2
    <3>2. IsNew(e)
      BY <3>1
    <3> QED
      BY <3>1, <3>2, <2>1 DEF IsNew
  <2>3. CASE j # k
    <3>1. entries'[j] = entries[j] /\ j \in DOMAIN entries
      BY <1>1, <1>2, <2>3
    <3>2. IsNew(entries[j])
      BY <3>1 DEF IInv, RequestInv, PickedAreNew
    <3> QED
      BY <3>1, <3>2, <2>1, NewStaysNew
  <2> QED
    BY <2>2, <2>3
<1>6. WritingOK' /\ SeenOK' /\ SeenNow'
  BY <1>1 DEF writing, history, IInv, WritingOK, SeenOK, SeenNow
<1> QED
  BY <1>3, <1>4, <1>5, <1>6 DEF IInv, RequestInv

LEMMA EntryIs ==
  ASSUME IInv, NEW k \in DOMAIN entries
  PROVE  entries[k] \in Entry
BY DEF IInv, RequestInv, RequestOK

LEMMA DropInv ==
  ASSUME IInv, NEW k \in DOMAIN entries, Drop(k)
  PROVE  IInv'
<1> DEFINE e == [entries[k] EXCEPT !.stage = "dropped"]
<1>1. e \in Entry /\ ~Follows(e)
  BY EntryIs DEF Entry, Stage, Follows
<1>2. phase = "reading" /\ Becomes(k, e) /\ failed' = TRUE
  BY DEF Drop
<1> HIDE DEF e
<1> QED
  BY <1>1, <1>2, BecomesInv

LEMMA ShowInv ==
  ASSUME IInv, NEW k \in DOMAIN entries, NEW i \in Items, Show(k, i)
  PROVE  IInv'
<1> DEFINE e == [entries[k] EXCEPT !.stage = "card", !.item = i]
<1>1. e \in Entry /\ ~Follows(e)
  BY EntryIs DEF Entry, Stage, Follows, Show
<1>2. phase = "reading" /\ Becomes(k, e) /\ failed' = failed /\ failed \in BOOLEAN
  BY DEF Show, IInv, RequestInv, RequestOK
<1> HIDE DEF e
<1> QED
  BY <1>1, <1>2, BecomesInv

LEMMA PickInv ==
  ASSUME IInv, NEW k \in DOMAIN entries, NEW w \in SUBSET watched, Pick(k, w)
  PROVE  IInv'
<1> DEFINE x == entries[k]
           l == Listing[SeriesOf[x.from]]
           at == IndexOf(l, x.from)
           fresh == Fresh(l, at, w)
           c == FirstIn(fresh)
           gone == [x EXCEPT !.stage = "dropped"]
           e == [x EXCEPT !.stage = "picked", !.item = l[c], !.pos = 0, !.upNext = TRUE]
<1>1. /\ phase = "reading" /\ x.finished /\ failed' = (failed \/ w # watched)
      /\ x \in Entry /\ failed \in BOOLEAN
  BY EntryIs DEF Pick, IInv, RequestInv, RequestOK
<1>2. CASE Becomes(k, gone)
  <2>1. gone \in Entry /\ ~Follows(gone)
    BY <1>1 DEF Entry, Stage, Follows
  <2> HIDE DEF gone
  <2> QED
    BY <1>1, <1>2, <2>1, BecomesInv
<1>3. CASE Becomes(k, e) /\ SeriesOf[x.from] # NoSeries /\ x.from \in RangeOf(l) /\ fresh # {}
  <2> DEFINE s == SeriesOf[x.from]
  <2>1. x.from \in Items /\ s \in Series
    BY <1>1, <1>3, SeriesAssumption DEF Entry
  <2>2. l \in Seq(Items) /\ at \in DOMAIN l /\ l[at] = x.from
    BY <1>3, <2>1, SeriesAssumption DEF RangeOf, IndexOf
  <2>3. /\ c \in DOMAIN l /\ at < c
        /\ Holder[l[at]] # Holder[l[c]]
        /\ \A j \in File(l[c]) \cap RangeOf(l) : j \notin w
        /\ \A m \in at .. c : Holder[l[m]] \notin {Holder[l[at]], Holder[l[c]]} =>
             \E j \in File(l[m]) : j \in w
    <3> HIDE DEF at, s
    <3> QED
      BY <1>3, <2>1, <2>2, FreshIsNew DEF s
  <2> HIDE DEF c, at
  <2>4. l[c] \in Items
    BY <2>2, <2>3
  <2>5. e \in Entry
    BY <1>1, <2>4 DEF Entry, Stage
  <2>6. ASSUME ~failed' PROVE IsNew(e)
    <3>1. w = watched
      BY <1>1, <2>6
    <3>2. File(l[c]) \cap RangeOf(l) \subseteq seen.unwatched
      BY <1>1, <2>3, <3>1 DEF IInv, SeenNow, File
    <3>3. \A m \in at .. c : Holder[l[m]] \notin {Holder[l[at]], Holder[l[c]]} =>
            \E j \in File(l[m]) : j \in seen.watched
      BY <1>1, <2>3, <3>1 DEF IInv, SeenNow
    <3>4. e.from = x.from /\ e.item = l[c]
      BY <1>1 DEF Entry
    <3> HIDE DEF e
    <3> QED
      BY <2>2, <2>3, <3>2, <3>3, <3>4 DEF IsNew
  <2> HIDE DEF e
  <2> QED
    BY <1>1, <1>3, <2>5, <2>6, BecomesInv
<1> QED
  BY <1>2, <1>3 DEF Pick

LEMMA ResumeInv ==
  ASSUME IInv, NEW k \in DOMAIN entries, NEW pos, Resume(k, pos)
  PROVE  IInv'
<1> DEFINE x == entries[k]
           e == IF pos > MinResumeSec THEN [x EXCEPT !.stage = "card", !.pos = pos, !.upNext = FALSE]
                ELSE [x EXCEPT !.stage = "card"]
<1>1. /\ phase = "reading" /\ x.stage = "picked" /\ Becomes(k, e)
      /\ pos \in {ResumeOf(x.item), 0}
      /\ failed' = (failed \/ pos # ResumeOf(x.item))
      /\ x \in Entry /\ failed \in BOOLEAN
  BY EntryIs DEF Resume, IInv, RequestInv, RequestOK
<1>2. pos \in Nat
  <2>1. rows[x.item] \in Row \cup {NoRow}
    BY <1>1 DEF Entry, IInv, WritingOK
  <2> QED
    BY <1>1, <2>1 DEF ResumeOf, Row
<1>3. e \in Entry /\ e.finished = x.finished /\ e.from = x.from /\ e.item = x.item
  BY <1>1, <1>2 DEF Entry, Stage
<1>4. ASSUME ~failed', Follows(e) PROVE IsNew(e)
  <2>1. IsNew(x)
    BY <1>1, <1>3, <1>4 DEF IInv, RequestInv, PickedAreNew, Follows
  <2> HIDE DEF e
  <2> QED
    BY <2>1, <1>3 DEF IsNew
<1> HIDE DEF e
<1> QED
  BY <1>1, <1>3, <1>4, BecomesInv

(* The answer: one card a file, CardLimit at most.                         *)
LEMMA AnswerInv ==
  ASSUME IInv, Answer
  PROVE  IInv'
<1>1. /\ phase = "reading" /\ phase' = "answered" /\ cards' = UpTo(FirstCards)
      /\ UNCHANGED <<entries, next, failed, writing, history>>
  BY DEF Answer
<1>2. DOMAIN entries = 1 .. Len(entries) /\ Len(entries) \in Nat
  BY DEF IInv, RequestInv, RequestOK
<1>3. FirstCards \in SUBSET (1 .. Len(entries))
  BY <1>2 DEF FirstCards
<1>4. cards' \subseteq FirstCards /\ Cardinality(cards') <= CardLimit
  BY <1>1, <1>2, <1>3, UpToBound
<1>5. RequestOK'
  BY <1>1, <1>2, <1>3, <1>4 DEF IInv, RequestInv, RequestOK
<1>6. OneCardPerFile'
  <2> SUFFICES ASSUME NEW a \in cards', NEW b \in cards', a # b
               PROVE  Holder[entries[a].item] # Holder[entries[b].item]
    BY <1>1 DEF OneCardPerFile
  <2>1. a \in FirstCards /\ b \in FirstCards /\ (a < b \/ b < a)
    BY <1>2, <1>3, <1>4
  <2> QED
    BY <2>1 DEF FirstCards, SameCard
<1>7. CardsAreShown'
  BY <1>1, <1>4 DEF CardsAreShown, FirstCards
<1>8. PickedAreNew'
  <2> SUFFICES ASSUME ~failed, NEW k \in DOMAIN entries, Follows(entries[k])
               PROVE  IsNew(entries[k])'
    BY <1>1 DEF PickedAreNew, Follows
  <2>1. IsNew(entries[k])
    BY <1>1 DEF IInv, RequestInv, PickedAreNew
  <2> QED
    BY <2>1, <1>1, NewStaysNew DEF history
<1>9. WritingOK' /\ SeenOK' /\ SeenNow'
  BY <1>1 DEF writing, history, IInv, WritingOK, SeenOK, SeenNow
<1> QED
  BY <1>5, <1>6, <1>7, <1>8, <1>9 DEF IInv, RequestInv

LEMMA NextEpisodeInv ==
  ASSUME IInv, NEW s \in Series, NEW after \in Items \cup {NoItem}, NextEpisode(s, after)
  PROVE  IInv'
<1> DEFINE l == Listing[s]
<1>1. l \in Seq(Items) /\ l # <<>> /\ DOMAIN l = 1 .. Len(l) /\ Len(l) \in Nat \ {0}
  BY SeriesAssumption DEF NextEpisode
<1> HIDE DEF l
<1>2. FirstEpisode(l) \in DOMAIN l
  <2> DEFINE R == {n \in DOMAIN l : l[n] \notin Specials}
  <2>1. R \subseteq Nat
    BY <1>1
  <2>2. CASE R # {}
    <3> HIDE DEF R
    <3>1. FirstIn(R) \in R
      BY <2>1, <2>2, FirstInIs
    <3> QED
      BY <3>1, <2>2 DEF FirstEpisode, R
  <2>3. CASE R = {}
    BY <1>1, <2>3 DEF FirstEpisode
  <2> QED
    BY <2>2, <2>3
<1>3. ASSUME NEW n \in DOMAIN l PROVE EpisodeAfter(l, n) \in {0} \cup DOMAIN l
  <2> DEFINE A == {m \in n + 1 .. Len(l) : l[n] \in Specials \/ l[m] \notin Specials}
  <2>1. A \subseteq Nat /\ A \subseteq DOMAIN l
    BY <1>1
  <2>2. CASE A # {}
    <3> HIDE DEF A
    <3>1. FirstIn(A) \in A
      BY <2>1, <2>2, FirstInIs
    <3>2. EpisodeAfter(l, n) = FirstIn(A)
      BY <2>2 DEF EpisodeAfter, A
    <3> QED
      BY <3>1, <3>2, <2>1
  <2>3. CASE A = {}
    BY <2>3 DEF EpisodeAfter
  <2> QED
    BY <2>2, <2>3
<1> DEFINE Following(i) == EpisodeAfter(l, FileEnd(l, IndexOf(l, i)))
<1>4. ASSUME NEW i \in RangeOf(l) PROVE Following(i) \in {0} \cup DOMAIN l
  <2>1. IndexOf(l, i) \in 1 .. Len(l)
    BY <1>1 DEF RangeOf, IndexOf
  <2>2. FileEnd(l, IndexOf(l, i)) \in DOMAIN l
    BY <1>1, <2>1, FileEndIs
  <2> QED
    BY <2>2, <1>3
<1>5. PICK i \in Anchors(l, after) :
        /\ next' = [anchor |-> i,
                    next |-> IF i = NoItem THEN l[FirstEpisode(l)]
                             ELSE IF Following(i) = 0 THEN NoItem ELSE l[Following(i)]]
        /\ failed' = (i = NoItem /\ Latest(l) # {})
  BY DEF NextEpisode, l
<1>6. i \in RangeOf(l) \cup {NoItem} /\ RangeOf(l) \subseteq Items
  BY <1>1 DEF Anchors, Latest, RangeOf
<1>7. next' \in [anchor : Items \cup {NoItem}, next : Items \cup {NoItem}] /\ failed' \in BOOLEAN
  <2> HIDE DEF Following
  <2> QED
    BY <1>1, <1>2, <1>4, <1>5, <1>6
<1>8. /\ phase' = "next" /\ entries' = <<>> /\ cards' = {}
      /\ off' = {} /\ seen' = NothingSeen /\ UNCHANGED writing
  BY DEF NextEpisode
<1>9. RequestOK' /\ OneCardPerFile' /\ CardsAreShown' /\ PickedAreNew'
  BY <1>7, <1>8, NoCards DEF RequestOK, OneCardPerFile, CardsAreShown, PickedAreNew
<1>10. WritingOK' /\ SeenOK' /\ SeenNow'
  BY <1>8 DEF writing, IInv, WritingOK, SeenOK, SeenNow, NothingSeen
<1> QED
  BY <1>9, <1>10 DEF IInv, RequestInv

LEMMA StutterInv ==
  ASSUME IInv, UNCHANGED vars
  PROVE  IInv'
<1>1. UNCHANGED <<rows, watched, pending, writes, phase, entries, cards, next, failed, apart, dismissed, off, seen>>
  BY DEF vars, reads, writing, history
<1>2. WritingOK' /\ SeenOK' /\ SeenNow'
  BY <1>1 DEF IInv, WritingOK, SeenOK, SeenNow
<1>3. RequestOK' /\ OneCardPerFile' /\ CardsAreShown'
  BY <1>1 DEF IInv, RequestInv, RequestOK, OneCardPerFile, CardsAreShown
<1>4. PickedAreNew'
  <2> SUFFICES ASSUME phase \in {"reading", "answered"}, ~failed, NEW k \in DOMAIN entries, Follows(entries[k])
               PROVE  IsNew(entries[k])'
    BY <1>1 DEF PickedAreNew, Follows
  <2>1. IsNew(entries[k])
    BY DEF IInv, RequestInv, PickedAreNew
  <2> QED
    BY <2>1, <1>1, NewStaysNew
<1> QED
  BY <1>2, <1>3, <1>4 DEF IInv, RequestInv

LEMMA NextInv ==
  ASSUME IInv, [Next]_vars
  PROVE  IInv'
<1>1. CASE \E i \in Items, whole \in BOOLEAN :
             \/ \E pos \in Positions : Save(i, pos, whole, FALSE)
             \/ i \in Dismissed /\ Save(i, Length, whole, TRUE)
             \/ \E mark \in BOOLEAN : Toggle(i, whole, mark)
  BY <1>1, SaveInv, ToggleInv
<1>2. CASE Mark \/ MarkFails
  BY <1>2, MarkInv
<1>3. CASE phase # "reading" /\ \E q \in Newest : Begin(q)
  BY <1>3, BeginInv
<1>4. CASE \E k \in 1 .. RowLimit :
             \/ Drop(k)
             \/ \E i \in Items : Show(k, i)
             \/ \E w \in SUBSET watched : Pick(k, w)
             \/ \E pos \in Positions \cup {0, Length} : Resume(k, pos)
  <2>1. PICK k \in 1 .. RowLimit :
          \/ Drop(k)
          \/ \E i \in Items : Show(k, i)
          \/ \E w \in SUBSET watched : Pick(k, w)
          \/ \E pos \in Positions \cup {0, Length} : Resume(k, pos)
    BY <1>4
  <2>2. k \in DOMAIN entries
    BY <2>1 DEF Drop, Show, Pick, Resume
  <2> QED
    BY <2>1, <2>2, DropInv, ShowInv, PickInv, ResumeInv
<1>5. CASE Answer
  BY <1>5, AnswerInv
<1>6. CASE \E s \in Series, after \in Items \cup {NoItem} : NextEpisode(s, after)
  BY <1>6, NextEpisodeInv
<1>7. CASE UNCHANGED vars
  BY <1>7, StutterInv
<1> QED
  BY <1>1, <1>2, <1>3, <1>4, <1>5, <1>6, <1>7 DEF Next

LEMMA Invariance == Spec => []IInv
<1>1. IInv /\ [Next]_vars => IInv'
  BY NextInv
<1> QED
  BY InitInv, <1>1, PTL DEF Spec

-----------------------------------------------------------------------------
(* Every variable has its type: no more than RowLimit rows are looked at   *)
(* and no more than CardLimit cards are shown, whatever the devices write. *)
THEOREM TypeCorrect == Spec => []TypeOK
<1>1. IInv => TypeOK
  BY DEF IInv, TypeOK, RequestInv
<1> QED
  BY <1>1, Invariance, PTL

(* An answer of Continue Watching has no two cards of one file.            *)
THEOREM OneCardAFile == Spec => []OneCardPerFile
<1>1. IInv => OneCardPerFile
  BY DEF IInv, RequestInv
<1> QED
  BY <1>1, Invariance, PTL

(* The card that follows a finished episode is past its file, of a file    *)
(* none of whose episodes was marked at some time of the request, and no   *)
(* other such file was passed over.                                        *)
THEOREM NextIsNew == Spec => []UpNextIsNew
<1>1. IInv => UpNextIsNew
  <2> SUFFICES ASSUME IInv, phase = "answered", ~failed, NEW k \in cards, entries[k].finished
               PROVE  IsNew(entries[k])
    BY DEF UpNextIsNew
  <2>1. k \in DOMAIN entries /\ entries[k].stage = "card"
    BY DEF IInv, RequestInv, RequestOK, CardsAreShown
  <2> QED
    BY <2>1 DEF IInv, RequestInv, PickedAreNew, Follows
<1> QED
  BY <1>1, Invariance, PTL

-----------------------------------------------------------------------------
(* What the limit leaves out, it leaves out for CardLimit others.          *)
LEMMA LeftOutIsCrowded ==
  ASSUME NEW n \in Nat, NEW ks \in SUBSET (1 .. n), NEW j \in ks, j \notin UpTo(ks)
  PROVE  Cardinality({i \in UpTo(ks) : i < j}) = CardLimit
<1> DEFINE U == UpTo(ks)
           S == {i \in ks : i < j}
           T == {i \in U : i < j}
<1>a. IsFiniteSet(1 .. n)
  BY FS_Interval
<1>1. U \subseteq ks /\ Cardinality(U) <= CardLimit
  BY UpToBound
<1>2. Cardinality(S) >= CardLimit
  <2>1. ~ (Cardinality(S) < CardLimit)
    BY DEF UpTo
  <2>2. IsFiniteSet(S)
    <3>1. S \subseteq 1 .. n
      OBVIOUS
    <3> HIDE DEF S
    <3> QED
      BY <1>a, <3>1, FS_Subset
  <2> HIDE DEF S
  <2> QED
    BY <2>1, <2>2, FS_CardinalityType, BoundsAssumption
<1>3. /\ IsFiniteSet(U) /\ IsFiniteSet(S) /\ IsFiniteSet(T) /\ T \subseteq S /\ T \subseteq U
      /\ S \subseteq 1 .. n
  <2>1. U \subseteq 1 .. n /\ S \subseteq 1 .. n /\ T \subseteq 1 .. n
    BY <1>1
  <2>2. T \subseteq S /\ T \subseteq U
    BY <1>1
  <2> HIDE DEF U, S, T
  <2> QED
    BY <1>a, <2>1, <2>2, FS_Subset
<1>4. ~ (Cardinality(T) < CardLimit)
  <2> SUFFICES ASSUME Cardinality(T) < CardLimit PROVE FALSE
    OBVIOUS
  <2>1. S \ T # {}
    <3> SUFFICES ASSUME S \ T = {} PROVE FALSE
      OBVIOUS
    <3> HIDE DEF S, T
    <3>1. S = T
      BY <1>3
    <3> QED
      BY <1>2, <1>3, <3>1, FS_CardinalityType, BoundsAssumption
  <2>2. PICK g \in S \ T : \A i \in S \ T : g <= i
    <3> HIDE DEF S, T
    <3>1. S \ T \subseteq Nat
      BY <1>3
    <3> QED
      BY <2>1, <3>1, LeastOf
  <2>3. {i \in ks : i < g} \subseteq T
    <3> SUFFICES ASSUME NEW i \in ks, i < g, i \notin T PROVE FALSE
      OBVIOUS
    <3>1. i \in 1 .. n /\ g \in 1 .. n /\ j \in 1 .. n /\ g < j
      BY <2>2
    <3>2. i \in S
      BY <3>1
    <3>3. g <= i
      BY <2>2, <3>2
    <3> QED
      BY <3>1, <3>3
  <2>4. Cardinality({i \in ks : i < g}) < CardLimit
    <3> DEFINE R == {i \in ks : i < g}
    <3>1. R \subseteq T
      BY <2>3
    <3> HIDE DEF R, T
    <3>2. Cardinality(R) <= Cardinality(T) /\ IsFiniteSet(R)
      BY <3>1, <1>3, FS_Subset
    <3>3. Cardinality(R) \in Nat /\ Cardinality(T) \in Nat
      BY <3>2, <1>3, FS_CardinalityType
    <3>4. Cardinality(R) < CardLimit
      BY <3>2, <3>3, BoundsAssumption
    <3> QED
      BY <3>4 DEF R
  <2>5. g \in U
    BY <2>2, <2>4 DEF UpTo
  <2> QED
    BY <2>2, <2>5
<1>5. Cardinality(T) = CardLimit
  <2> HIDE DEF U, T
  <2>1. Cardinality(T) <= Cardinality(U)
    BY <1>3, FS_Subset
  <2>2. Cardinality(T) \in Nat /\ Cardinality(U) \in Nat
    BY <1>3, FS_CardinalityType
  <2> QED
    BY <1>1, <1>4, <2>1, <2>2, BoundsAssumption
<1> QED
  BY <1>5

(* When every file past l[a]'s has an episode in w, and only then, there   *)
(* is nothing new to go on with.                                           *)
Later(l, a) == {m \in a .. Len(l) : Holder[l[m]] # Holder[l[a]]}

LEMMA LaterIsPastTheFile ==
  ASSUME NEW s \in Series, NEW a \in DOMAIN Listing[s]
  PROVE  LET l == Listing[s]
         IN  Later(l, a) = FileEnd(l, a) + 1 .. Len(l)
<1> DEFINE l == Listing[s]
           e == FileEnd(l, a)
<1>1. l \in Seq(Items) /\ a \in 1 .. Len(l) /\ DOMAIN l = 1 .. Len(l) /\ Len(l) \in Nat
  BY SeriesAssumption
<1>2. e \in a .. Len(l) /\ Holder[l[e]] = Holder[l[a]] /\ \A k \in e + 1 .. Len(l) : Holder[l[k]] # Holder[l[a]]
  <2> HIDE DEF l
  <2> QED
    BY <1>1, FileEndIs DEF SameFile
<1> HIDE DEF e
<1>3. \A m \in a .. e : Holder[l[m]] = Holder[l[a]]
  BY <1>1, <1>2, FilesAssumption
<1> HIDE DEF l
<1>4. ASSUME NEW m \in a .. Len(l), Holder[l[m]] # Holder[l[a]] PROVE m \in e + 1 .. Len(l)
  <2>1. m \notin a .. e
    BY <1>3, <1>4
  <2> QED
    BY <1>1, <1>2, <2>1
<1>5. ASSUME NEW m \in e + 1 .. Len(l) PROVE m \in Later(l, a)
  BY <1>1, <1>2 DEF Later
<1>6. Later(l, a) = e + 1 .. Len(l)
  BY <1>4, <1>5 DEF Later
<1> QED
  BY <1>6 DEF l, e

LEMMA FreshUnlessSeen ==
  ASSUME NEW s \in Series, NEW a \in DOMAIN Listing[s], NEW w, Fresh(Listing[s], a, w) = {},
         NEW m \in Later(Listing[s], a)
  PROVE  File(Listing[s][m]) \cap w # {}
<1> DEFINE l == Listing[s]
           e == FileEnd(l, a)
           S == {k \in 1 .. Len(l) : SameFile(l, k, m)}
           f == FirstIn(S)
<1>1. l \in Seq(Items) /\ a \in 1 .. Len(l) /\ DOMAIN l = 1 .. Len(l) /\ Len(l) \in Nat
  BY SeriesAssumption
<1>2. m \in e + 1 .. Len(l) /\ Holder[l[m]] # Holder[l[a]]
  BY LaterIsPastTheFile DEF Later
<1>3. e \in a .. Len(l) /\ SameFile(l, e, a)
  <2> HIDE DEF l
  <2> QED
    BY <1>1, FileEndIs
<1>4. m \in 1 .. Len(l)
  BY <1>1, <1>2, <1>3
<1>5. f \in S /\ \A k \in S : f <= k
  <2>1. S \subseteq Nat /\ S # {}
    BY <1>1, <1>4 DEF SameFile
  <2> HIDE DEF S
  <2> QED
    BY <2>1, FirstInIs
<1>6. f \in 1 .. Len(l) /\ Holder[l[f]] = Holder[l[m]] /\ f <= m
  <2> HIDE DEF f
  <2>1. f \in 1 .. Len(l) /\ SameFile(l, f, m) /\ m \in S
    BY <1>4, <1>5 DEF SameFile
  <2> QED
    BY <2>1, <1>5 DEF SameFile
<1> HIDE DEF f, e
<1>7. FirstOfFile(l, f)
  <2> SUFFICES ASSUME NEW k \in 1 .. f - 1, SameFile(l, k, f) PROVE FALSE
    BY DEF FirstOfFile
  <2>1. k \in S
    BY <1>1, <1>6 DEF SameFile
  <2> QED
    BY <2>1, <1>5, <1>6
<1>8. f > e
  <2> SUFFICES ASSUME f <= e PROVE FALSE
    BY <1>1, <1>3, <1>6
  <2>1. Holder[l[e]] = Holder[l[m]]
    BY FilesAssumption, <1>1, <1>2, <1>3, <1>4, <1>6
  <2> QED
    BY <2>1, <1>2, <1>3 DEF SameFile
<1>9. WatchedFile(l, f, w)
  <2>1. f \in e + 1 .. Len(l)
    BY <1>1, <1>3, <1>6, <1>8
  <2> QED
    BY <2>1, <1>7 DEF Fresh, e
<1>10. PICK k \in f .. FileEnd(l, f) : SameFile(l, k, f) /\ l[k] \in w
  BY <1>9 DEF WatchedFile
<1>11. k \in 1 .. Len(l)
  <2> HIDE DEF l
  <2>1. FileEnd(l, f) \in f .. Len(l)
    BY <1>1, <1>6, FileEndIs
  <2> QED
    BY <2>1, <1>1, <1>6, <1>10
<1>12. l[k] \in Items /\ l[k] \in w /\ Holder[l[k]] = Holder[l[m]]
  BY <1>1, <1>6, <1>10, <1>11 DEF SameFile
<1> QED
  BY <1>12 DEF File

-----------------------------------------------------------------------------
(* The rows of a file agree, unless it was last written one episode alone. *)
FilesAgree == \A i \in Items \ apart : \A j \in File(i) : rows[j] = rows[i]

LeftNow ==
  phase = "reading" => {i \in Items : ~Underway(i)} \subseteq seen.left /\ apart \subseteq seen.apart

Resumes(e) == ~e.upNext /\ e.pos > MinResumeSec

(* What became of a row, as long as no call failed: an unfinished one      *)
(* resumes its file, a finished one was not in progress; a card that does  *)
(* not resume its title is of one that was left, or apart; and without a   *)
(* card every file after it was watched.                                   *)
Unfinished(e) ==
  ~e.finished => Resumes(e) /\ Holder[e.item] = Holder[e.from] /\ e.stage \in {"todo", "card"}

FinishedIsLeft(e) == e.finished => e.from \in seen.left

StartsOver(e) ==
  e.stage = "card" => Resumes(e) \/ \A j \in File(e.item) : j \in seen.left \cup seen.apart

DroppedAtTheEnd(e) ==
  LET l == Listing[SeriesOf[e.from]]
  IN  e.stage = "dropped" /\ SeriesOf[e.from] # NoSeries =>
        \A a \in DOMAIN l : l[a] = e.from =>
          \A m \in Later(l, a) : File(l[m]) \cap seen.watched # {}

Right(e) == Unfinished(e) /\ FinishedIsLeft(e) /\ StartsOver(e) /\ DroppedAtTheEnd(e)

EntriesRight ==
  phase \in {"reading", "answered"} /\ ~failed => \A k \in DOMAIN entries : Right(entries[k])

AnsweredFromEntries ==
  phase = "answered" =>
    /\ cards = UpTo(FirstCards)
    /\ \A k \in DOMAIN entries : entries[k].stage \in {"card", "dropped"}

FeedInv == FilesAgree /\ LeftNow /\ EntriesRight /\ AnsweredFromEntries

(* What was seen stays seen, so what became of a row stays right.          *)
LEMMA RightStays ==
  ASSUME NEW k, Right(entries[k]), entries'[k] = entries[k],
         seen.watched \subseteq seen.watched', seen.left \subseteq seen.left', seen.apart \subseteq seen.apart'
  PROVE  Right(entries[k])'
<1>1. Unfinished(entries[k])' /\ FinishedIsLeft(entries[k])' /\ StartsOver(entries[k])'
  BY DEF Right, Unfinished, FinishedIsLeft, StartsOver, Resumes
<1>2. DroppedAtTheEnd(entries[k])'
  <2> DEFINE l == Listing[SeriesOf[entries[k].from]]
  <2>1. entries[k].stage = "dropped" /\ SeriesOf[entries[k].from] # NoSeries =>
          \A a \in DOMAIN l : l[a] = entries[k].from =>
            \A m \in Later(l, a) : File(l[m]) \cap seen.watched' # {}
    BY DEF Right, DroppedAtTheEnd
  <2> QED
    BY <2>1 DEF DroppedAtTheEnd
<1> QED
  BY <1>1, <1>2 DEF Right

LEMMA WatchingFeed ==
  ASSUME IInv, FeedInv, Watching, FilesAgree'
  PROVE  FeedInv'
<1>1. CASE phase = "reading"
  <2>1. /\ seen' = [watched |-> seen.watched \cup watched',
                    unwatched |-> seen.unwatched \cup (Items \ watched'),
                    left |-> seen.left \cup {i \in Items : ~Underway(i)'},
                    apart |-> seen.apart \cup apart']
        /\ phase' = phase /\ entries' = entries /\ cards' = cards /\ failed' = failed
    BY <1>1 DEF Watching, reads
  <2>2. LeftNow'
    BY <2>1 DEF LeftNow
  <2>3. EntriesRight'
    <3> SUFFICES ASSUME ~failed, NEW k \in DOMAIN entries
                 PROVE  Right(entries[k])'
      BY <2>1 DEF EntriesRight
    <3>1. Right(entries[k])
      BY <1>1 DEF FeedInv, EntriesRight
    <3>2. /\ seen.watched \subseteq seen.watched' /\ seen.left \subseteq seen.left'
          /\ seen.apart \subseteq seen.apart'
      BY <2>1
    <3> QED
      BY <2>1, <3>1, <3>2, RightStays
  <2> QED
    BY <1>1, <2>1, <2>2, <2>3 DEF FeedInv, AnsweredFromEntries
<1>2. CASE phase # "reading"
  BY <1>2 DEF Watching, FeedInv, LeftNow, EntriesRight, AnsweredFromEntries
<1> QED
  BY <1>1, <1>2

(* A write for a whole file makes its rows one; a write for one episode    *)
(* puts its file apart.                                                    *)
LEMMA SaveFeed ==
  ASSUME IInv, FeedInv, NEW i \in Items, NEW pos, NEW whole \in BOOLEAN, NEW dismiss \in BOOLEAN,
         Save(i, pos, whole, dismiss)
  PROVE  FeedInv'
<1> DEFINE ids == IF whole THEN File(i) ELSE {i}
<1>1. /\ Watching
      /\ rows' = [j \in Items |-> IF j \in ids THEN [pos |-> pos, at |-> writes'] ELSE rows[j]]
      /\ apart' = IF ids = File(i) THEN apart \ ids ELSE apart \cup File(i)
  BY DEF Save
<1>2. FilesAgree'
  <2> SUFFICES ASSUME NEW k \in Items, k \notin apart', NEW j \in File(k)
               PROVE  rows'[j] = rows'[k]
    BY DEF FilesAgree
  <2>1. j \in Items /\ Holder[j] = Holder[k]
    BY DEF File
  <2>2. CASE ids = File(i)
    <3>1. j \in ids <=> k \in ids
      BY <2>1, <2>2 DEF File
    <3>2. CASE k \in ids
      BY <1>1, <2>1, <3>1, <3>2
    <3>3. CASE k \notin ids
      <4>1. k \notin apart
        BY <1>1, <2>2, <3>3
      <4>2. rows[j] = rows[k]
        BY <4>1 DEF FeedInv, FilesAgree
      <4> QED
        BY <1>1, <2>1, <3>1, <3>3, <4>2
    <3> QED
      BY <3>2, <3>3
  <2>3. CASE ids # File(i)
    <3>1. ids \subseteq File(i) /\ k \notin apart /\ k \notin File(i)
      BY <1>1, <2>3 DEF File
    <3>2. j \notin File(i)
      BY <2>1, <3>1 DEF File
    <3>3. rows[j] = rows[k]
      BY <3>1 DEF FeedInv, FilesAgree
    <3> QED
      BY <1>1, <2>1, <3>1, <3>2, <3>3
  <2> QED
    BY <2>2, <2>3
<1> QED
  BY <1>1, <1>2, WatchingFeed

LEMMA MarksFeed ==
  ASSUME IInv, FeedInv,
         \/ Mark \/ MarkFails
         \/ \E i \in Items, whole \in BOOLEAN, mark \in BOOLEAN : Toggle(i, whole, mark)
  PROVE  FeedInv'
<1>1. Watching /\ rows' = rows /\ apart \subseteq apart'
  BY DEF Mark, MarkFails, Toggle
<1>2. FilesAgree'
  BY <1>1 DEF FeedInv, FilesAgree
<1> QED
  BY <1>1, <1>2, WatchingFeed

(* The rows a request begins with are listed: an unfinished one is in      *)
(* progress, a finished one is not.                                        *)
LEMMA BeginFeed ==
  ASSUME IInv, FeedInv, NEW q \in Newest, Begin(q)
  PROVE  FeedInv'
<1>1. \A k \in DOMAIN q : q[k] \in Items /\ Listed(q[k])
  <2> DEFINE rs == {i \in Items : Listed(i)}
             n == IF Cardinality(rs) < RowLimit THEN Cardinality(rs) ELSE RowLimit
  <2>1. q \in [1 .. n -> rs]
    BY DEF Newest
  <2> HIDE DEF n
  <2> QED
    BY <2>1
<1> DEFINE E(k) == [stage |-> "todo", from |-> q[k], finished |-> Done(q[k]),
                    item |-> q[k], pos |-> rows[q[k]].pos, upNext |-> FALSE]
<1>2. /\ phase' = "reading" /\ entries' = [k \in DOMAIN q |-> E(k)]
      /\ seen' = Seen /\ UNCHANGED <<rows, watched, apart>>
  BY DEF Begin, writing
<1>3. FilesAgree'
  BY <1>2 DEF FeedInv, FilesAgree
<1>4. LeftNow'
  BY <1>2 DEF LeftNow, Seen, Underway, Listed, Done
<1>5. EntriesRight'
  <2> SUFFICES ASSUME NEW k \in DOMAIN q PROVE Right(entries[k])'
    BY <1>2 DEF EntriesRight
  <2>1. entries'[k] = E(k)
    BY <1>2
  <2>2. Unfinished(entries[k])'
    BY <1>1, <2>1 DEF Unfinished, Resumes, Listed
  <2>3. FinishedIsLeft(entries[k])'
    BY <1>1, <1>2, <2>1 DEF FinishedIsLeft, Seen, Underway
  <2>4. StartsOver(entries[k])' /\ DroppedAtTheEnd(entries[k])'
    BY <2>1 DEF StartsOver, DroppedAtTheEnd
  <2> QED
    BY <2>2, <2>3, <2>4 DEF Right
<1> QED
  BY <1>2, <1>3, <1>4, <1>5 DEF FeedInv, AnsweredFromEntries

LEMMA BecomesFeed ==
  ASSUME IInv, FeedInv, NEW k \in DOMAIN entries, NEW e, phase = "reading", Becomes(k, e),
         ~failed' => ~failed /\ Right(e)
  PROVE  FeedInv'
<1>1. /\ entries' = [entries EXCEPT ![k] = e] /\ DOMAIN entries' = DOMAIN entries
      /\ phase' = "reading" /\ seen' = seen /\ UNCHANGED <<rows, watched, apart>>
  BY DEF Becomes, history, writing
<1>2. EntriesRight'
  <2> SUFFICES ASSUME ~failed', NEW j \in DOMAIN entries
               PROVE  Right(entries[j])'
    BY <1>1 DEF EntriesRight
  <2>1. CASE j = k
    <3>1. entries'[j] = e /\ Right(e)
      BY <1>1, <2>1
    <3> QED
      BY <1>1, <3>1 DEF Right, Unfinished, FinishedIsLeft, StartsOver, DroppedAtTheEnd, Resumes
  <2>2. CASE j # k
    <3>1. entries'[j] = entries[j] /\ Right(entries[j])
      BY <1>1, <2>2 DEF FeedInv, EntriesRight
    <3> QED
      BY <1>1, <3>1, RightStays
  <2> QED
    BY <2>1, <2>2
<1>3. FilesAgree' /\ LeftNow' /\ AnsweredFromEntries'
  BY <1>1 DEF FeedInv, FilesAgree, LeftNow, Underway, Listed, Done, AnsweredFromEntries
<1> QED
  BY <1>2, <1>3 DEF FeedInv

LEMMA RightIs ==
  ASSUME FeedInv, phase = "reading", ~failed, NEW k \in DOMAIN entries
  PROVE  Right(entries[k])
BY DEF FeedInv, EntriesRight

LEMMA ShowFeed ==
  ASSUME IInv, FeedInv, NEW k \in DOMAIN entries,
         Drop(k) \/ \E i \in Items : Show(k, i)
  PROVE  FeedInv'
<1>1. CASE Drop(k)
  BY <1>1, BecomesFeed DEF Drop
<1>2. ASSUME NEW i \in Items, Show(k, i) PROVE FeedInv'
  <2> DEFINE x == entries[k]
             e == [x EXCEPT !.stage = "card", !.item = i]
  <2>1. /\ phase = "reading" /\ Becomes(k, e) /\ failed' = failed
        /\ x.stage = "todo" /\ ~x.finished /\ i \in {Holder[x.from], x.from} /\ x \in Entry
    BY <1>2, EntryIs DEF Show
  <2>2. Holder[i] = Holder[x.from]
    BY <2>1, HolderAssumption DEF Entry
  <2>3. /\ e.finished = x.finished /\ e.from = x.from /\ e.item = i /\ e.stage = "card"
        /\ e.upNext = x.upNext /\ e.pos = x.pos
    BY <2>1 DEF Entry
  <2>4. ASSUME ~failed PROVE Right(e)
    <3>1. Unfinished(x)
      BY <2>1, <2>4, RightIs DEF Right
    <3> HIDE DEF e
    <3> QED
      BY <2>1, <2>2, <2>3, <3>1
      DEF Right, Unfinished, FinishedIsLeft, StartsOver, DroppedAtTheEnd, Resumes
  <2> HIDE DEF e
  <2> QED
    BY <2>1, <2>4, BecomesFeed
<1> QED
  BY <1>1, <1>2

(* A finished row without a card has only watched files after it.          *)
LEMMA PickFeed ==
  ASSUME IInv, FeedInv, NEW k \in DOMAIN entries, NEW w \in SUBSET watched, Pick(k, w)
  PROVE  FeedInv'
<1> DEFINE x == entries[k]
           l == Listing[SeriesOf[x.from]]
           fresh == Fresh(l, IndexOf(l, x.from), w)
           gone == [x EXCEPT !.stage = "dropped"]
           e == [x EXCEPT !.stage = "picked", !.item = l[FirstIn(fresh)], !.pos = 0, !.upNext = TRUE]
<1>1. /\ phase = "reading" /\ x.finished /\ failed' = (failed \/ w # watched) /\ x \in Entry
  BY EntryIs DEF Pick
<1>2. ASSUME ~failed PROVE FinishedIsLeft(x)
  BY <1>1, <1>2, RightIs DEF Right
<1>3. CASE /\ Becomes(k, gone)
           /\ SeriesOf[x.from] = NoSeries \/ x.from \notin RangeOf(l) \/ fresh = {}
  <2>1. gone.finished /\ gone.from = x.from /\ gone.stage = "dropped"
    BY <1>1 DEF Entry
  <2>2. ASSUME ~failed' PROVE DroppedAtTheEnd(gone)
    <3> HIDE DEF gone
    <3> SUFFICES ASSUME SeriesOf[x.from] # NoSeries, NEW a \in DOMAIN l, l[a] = x.from,
                        NEW m \in Later(l, a)
                 PROVE  File(l[m]) \cap seen.watched # {}
      BY <2>1 DEF DroppedAtTheEnd
    <3> DEFINE s == SeriesOf[x.from]
    <3>1. s \in Series
      BY <1>1, SeriesAssumption DEF Entry
    <3>2. IndexOf(l, x.from) = a
      BY <3>1, SeriesAssumption DEF IndexOf
    <3>3. Fresh(l, a, w) = {}
      BY <1>3, <3>2 DEF RangeOf
    <3>4. File(l[m]) \cap w # {}
      <4> HIDE DEF s
      <4> QED
        BY <3>1, <3>3, FreshUnlessSeen DEF s
    <3>5. w \subseteq seen.watched
      BY <1>1 DEF IInv, SeenNow
    <3> QED
      BY <3>4, <3>5
  <2>3. ASSUME ~failed' PROVE ~failed /\ Right(gone)
    <3> HIDE DEF gone
    <3> QED
      BY <1>1, <1>2, <2>1, <2>2, <2>3 DEF Right, Unfinished, FinishedIsLeft, StartsOver
  <2> HIDE DEF gone
  <2> QED
    BY <1>1, <1>3, <2>3, BecomesFeed
<1>4. CASE Becomes(k, e)
  <2>1. e.finished /\ e.from = x.from /\ e.stage = "picked"
    BY <1>1 DEF Entry
  <2> HIDE DEF e
  <2>2. ASSUME ~failed' PROVE ~failed /\ Right(e)
    BY <1>1, <1>2, <2>1, <2>2 DEF Right, Unfinished, FinishedIsLeft, StartsOver, DroppedAtTheEnd
  <2> QED
    BY <1>1, <1>4, <2>2, BecomesFeed
<1> QED
  BY <1>3, <1>4 DEF Pick

(* Where the next one is in progress and its file's rows agree, its card   *)
(* resumes it.                                                             *)
LEMMA ResumeFeed ==
  ASSUME IInv, FeedInv, NEW k \in DOMAIN entries, NEW pos, Resume(k, pos)
  PROVE  FeedInv'
<1> DEFINE x == entries[k]
           on == [x EXCEPT !.stage = "card", !.pos = pos, !.upNext = FALSE]
           over == [x EXCEPT !.stage = "card"]
<1>1. /\ phase = "reading" /\ x.stage = "picked" /\ x \in Entry
      /\ failed' = (failed \/ pos # ResumeOf(x.item))
      /\ Becomes(k, IF pos > MinResumeSec THEN on ELSE over)
  BY EntryIs DEF Resume
<1>2. ASSUME ~failed PROVE FinishedIsLeft(x) /\ x.finished
  BY <1>1, <1>2, RightIs DEF Right, Unfinished
<1>3. CASE pos > MinResumeSec
  <2>1. on.finished = x.finished /\ on.from = x.from /\ on.stage = "card" /\ Resumes(on)
    BY <1>1, <1>3 DEF Entry, Resumes
  <2>2. Becomes(k, on)
    BY <1>1, <1>3
  <2> HIDE DEF on
  <2>3. ASSUME ~failed' PROVE ~failed /\ Right(on)
    BY <1>1, <1>2, <2>1, <2>3 DEF Right, Unfinished, FinishedIsLeft, StartsOver, DroppedAtTheEnd
  <2> QED
    BY <1>1, <2>2, <2>3, BecomesFeed
<1>4. CASE ~ (pos > MinResumeSec)
  <2>1. over.finished = x.finished /\ over.from = x.from /\ over.item = x.item /\ over.stage = "card"
    BY <1>1 DEF Entry
  <2>2. Becomes(k, over)
    BY <1>1, <1>4
  <2> HIDE DEF over
  <2>3. ASSUME ~failed', NEW j \in File(x.item), j \notin seen.left \cup seen.apart PROVE FALSE
    <3>1. j \in Items \ apart /\ x.item \in File(j) /\ Underway(j)
      BY <1>1, <2>3 DEF FeedInv, LeftNow, File, Entry
    <3>2. rows[x.item] = rows[j]
      BY <3>1 DEF FeedInv, FilesAgree
    <3>3. rows[j] # NoRow /\ rows[j].pos > MinResumeSec /\ ~AtEnd(rows[j].pos)
      BY <3>1 DEF Underway, Listed, Done
    <3>4. ResumeOf(x.item) = rows[j].pos
      BY <3>2, <3>3 DEF ResumeOf
    <3> QED
      BY <1>1, <1>4, <2>3, <3>3, <3>4
  <2>4. ASSUME ~failed' PROVE ~failed /\ Right(over)
    BY <1>1, <1>2, <2>1, <2>3, <2>4 DEF Right, Unfinished, FinishedIsLeft, StartsOver, DroppedAtTheEnd
  <2> QED
    BY <1>1, <2>2, <2>4, BecomesFeed
<1> QED
  BY <1>3, <1>4

LEMMA AnswerFeed ==
  ASSUME IInv, FeedInv, Answer
  PROVE  FeedInv'
<1>1. /\ phase = "reading" /\ phase' = "answered" /\ cards' = UpTo(FirstCards)
      /\ \A k \in DOMAIN entries : entries[k].stage \in {"card", "dropped"}
      /\ entries' = entries /\ failed' = failed /\ seen' = seen /\ UNCHANGED <<rows, watched, apart>>
  BY DEF Answer, writing, history
<1>2. FilesAgree' /\ LeftNow'
  BY <1>1 DEF FeedInv, FilesAgree, LeftNow
<1>3. EntriesRight'
  <2> SUFFICES ASSUME ~failed, NEW k \in DOMAIN entries PROVE Right(entries[k])'
    BY <1>1 DEF EntriesRight
  <2> QED
    BY <1>1, RightIs, RightStays
<1>4. AnsweredFromEntries'
  <2>1. FirstCards' = FirstCards
    BY <1>1 DEF FirstCards, SameCard
  <2>2. UpTo(FirstCards)' = UpTo(FirstCards)
    BY <2>1 DEF UpTo
  <2> QED
    BY <1>1, <2>2 DEF AnsweredFromEntries
<1> QED
  BY <1>2, <1>3, <1>4 DEF FeedInv

LEMMA StillFeed ==
  ASSUME IInv, FeedInv,
         UNCHANGED vars \/ \E s \in Series, after \in Items \cup {NoItem} : NextEpisode(s, after)
  PROVE  FeedInv'
<1>1. CASE UNCHANGED vars
  <2>1. UNCHANGED <<rows, watched, phase, entries, cards, failed, apart, seen>>
    BY <1>1 DEF vars, reads, writing, history
  <2>2. FilesAgree' /\ LeftNow'
    BY <2>1 DEF FeedInv, FilesAgree, LeftNow, Underway, Listed, Done
  <2>3. AnsweredFromEntries'
    <3>1. FirstCards' = FirstCards
      BY <2>1 DEF FirstCards, SameCard
    <3> QED
      BY <2>1, <3>1 DEF FeedInv, AnsweredFromEntries, UpTo
  <2>4. EntriesRight'
    <3> SUFFICES ASSUME phase \in {"reading", "answered"}, ~failed, NEW k \in DOMAIN entries
                 PROVE  Right(entries[k])'
      BY <2>1 DEF EntriesRight
    <3>1. Right(entries[k])
      BY DEF FeedInv, EntriesRight
    <3> QED
      BY <2>1, <3>1, RightStays
  <2> QED
    BY <2>2, <2>3, <2>4 DEF FeedInv
<1>2. ASSUME NEW s \in Series, NEW after, NextEpisode(s, after) PROVE FeedInv'
  BY <1>2 DEF NextEpisode, writing, FeedInv, FilesAgree, LeftNow, EntriesRight, AnsweredFromEntries
<1> QED
  BY <1>1, <1>2

LEMMA FeedInvariance == Spec => [](IInv /\ FeedInv)
<1>1. Init => FeedInv
  BY DEF Init, FeedInv, FilesAgree, LeftNow, EntriesRight, AnsweredFromEntries, File
<1>2. IInv /\ FeedInv /\ [Next]_vars => FeedInv'
  <2> SUFFICES ASSUME IInv, FeedInv, [Next]_vars PROVE FeedInv'
    OBVIOUS
  <2>1. CASE \E i \in Items, whole \in BOOLEAN :
               \/ \E pos \in Positions : Save(i, pos, whole, FALSE)
               \/ i \in Dismissed /\ Save(i, Length, whole, TRUE)
    BY <2>1, SaveFeed
  <2>2. CASE \/ Mark \/ MarkFails
             \/ \E i \in Items, whole \in BOOLEAN, mark \in BOOLEAN : Toggle(i, whole, mark)
    BY <2>2, MarksFeed
  <2>3. CASE \E q \in Newest : Begin(q)
    BY <2>3, BeginFeed
  <2>4. ASSUME NEW k \in 1 .. RowLimit,
               \/ Drop(k)
               \/ \E i \in Items : Show(k, i)
               \/ \E w \in SUBSET watched : Pick(k, w)
               \/ \E pos \in Positions \cup {0, Length} : Resume(k, pos)
        PROVE  FeedInv'
    <3>1. k \in DOMAIN entries
      BY <2>4 DEF Drop, Show, Pick, Resume
    <3> QED
      BY <2>4, <3>1, ShowFeed, PickFeed, ResumeFeed
  <2>5. CASE Answer
    BY <2>5, AnswerFeed
  <2>6. CASE UNCHANGED vars \/ \E s \in Series, after \in Items \cup {NoItem} : NextEpisode(s, after)
    BY <2>6, StillFeed
  <2> QED
    BY <2>1, <2>2, <2>3, <2>4, <2>5, <2>6 DEF Next
<1> QED
  BY Invariance, <1>1, <1>2, PTL DEF Spec

(* A row with a card has its file's card shown, or the feed is full of     *)
(* newer ones.                                                             *)
LEMMA ShownOrCrowded ==
  ASSUME IInv, FeedInv, phase = "answered", NEW k \in DOMAIN entries, entries[k].stage = "card",
         ~Crowded(k)
  PROVE  \E c \in cards : SameCard(c, k)
<1> DEFINE n == Len(entries)
           like == {j \in 1 .. n : entries[j].stage = "card" /\ SameCard(j, k)}
<1>1. DOMAIN entries = 1 .. n /\ n \in Nat
  BY DEF IInv, RequestInv, RequestOK
<1>2. PICK j \in like : \A i \in like : j <= i
  <2>1. like \subseteq Nat /\ k \in like
    BY <1>1 DEF SameCard
  <2> HIDE DEF like
  <2> QED
    BY <2>1, LeastOf
<1>3. j <= k /\ j \in 1 .. n /\ SameCard(j, k)
  BY <1>1, <1>2 DEF SameCard
<1>4. j \in FirstCards
  <2>1. ASSUME NEW i \in DOMAIN entries, entries[i].stage = "card", i < j, SameCard(i, j) PROVE FALSE
    <3>1. i \in like
      BY <1>1, <1>3, <2>1 DEF SameCard
    <3> QED
      BY <1>1, <1>2, <2>1, <3>1
  <2> QED
    BY <1>1, <1>2, <2>1 DEF FirstCards
<1>5. FirstCards \in SUBSET (1 .. n) /\ cards = UpTo(FirstCards)
  BY <1>1 DEF FirstCards, FeedInv, AnsweredFromEntries
<1>6. CASE j \in cards
  BY <1>3, <1>6
<1>7. CASE j \notin cards
  <2> DEFINE T == {i \in cards : i < j}
             R == {c \in cards : c < k}
  <2>1. Cardinality(T) = CardLimit
    <3> HIDE DEF n
    <3> QED
      BY <1>1, <1>4, <1>5, <1>7, LeftOutIsCrowded
  <2>2. cards \subseteq 1 .. n /\ Cardinality(cards) <= CardLimit
    BY <1>1 DEF IInv, RequestInv, RequestOK
  <2>3. T \subseteq R /\ R \subseteq cards
    <3> SUFFICES ASSUME NEW i \in cards, i < j PROVE i < k
      OBVIOUS
    <3> HIDE DEF n
    <3>1. i \in 1 .. n /\ j \in 1 .. n /\ k \in 1 .. n /\ j <= k /\ n \in Nat
      BY <1>1, <1>3, <2>2
    <3> QED
      BY <3>1
  <2>4. IsFiniteSet(1 .. n)
    BY <1>1, FS_Interval
  <2> HIDE DEF T, R
  <2>5. IsFiniteSet(cards) /\ IsFiniteSet(R)
    BY <2>2, <2>3, <2>4, FS_Subset
  <2>6. Cardinality(T) <= Cardinality(R) /\ Cardinality(R) <= Cardinality(cards)
    BY <2>3, <2>5, FS_Subset
  <2>7. Cardinality(R) \in Nat /\ Cardinality(cards) \in Nat
    BY <2>5, FS_CardinalityType
  <2>8. Cardinality(R) = CardLimit
    BY <2>1, <2>2, <2>6, <2>7, BoundsAssumption
  <2> QED
    BY <2>8 DEF Crowded, R
<1> QED
  BY <1>6, <1>7

(* What is in progress throughout a request is on its feed, where it was   *)
(* left, or newer cards fill it: for any series, files, limits and writes. *)
THEOREM ProgressIsThere == Spec => []ResumesAreThere
<1>1. IInv /\ FeedInv => ResumesAreThere
  <2> SUFFICES ASSUME IInv, FeedInv, phase = "answered", ~failed, NEW k \in DOMAIN entries,
                      entries[k].from \notin seen.left \cup seen.apart, ~Crowded(k)
               PROVE  \E c \in cards :
                        /\ Holder[entries[c].item] = Holder[entries[k].from]
                        /\ ~entries[c].upNext /\ entries[c].pos > MinResumeSec
    BY DEF ResumesAreThere
  <2>1. Right(entries[k]) /\ entries[k].stage \in {"card", "dropped"} /\ entries[k] \in Entry
    BY EntryIs DEF FeedInv, EntriesRight, AnsweredFromEntries
  <2>2. entries[k].stage = "card" /\ Holder[entries[k].item] = Holder[entries[k].from]
    BY <2>1 DEF Right, Unfinished, FinishedIsLeft
  <2>3. PICK c \in cards : SameCard(c, k)
    BY <2>2, ShownOrCrowded
  <2>4. c \in DOMAIN entries /\ entries[c].stage = "card"
    BY DEF IInv, RequestInv, RequestOK, CardsAreShown
  <2>5. Right(entries[c])
    BY <2>4 DEF FeedInv, EntriesRight
  <2>6. entries[k].from \in File(entries[c].item)
    BY <2>1, <2>2, <2>3 DEF SameCard, File, Entry
  <2>7. Resumes(entries[c])
    BY <2>4, <2>5, <2>6 DEF Right, StartsOver
  <2> QED
    BY <2>2, <2>3, <2>7 DEF SameCard, Resumes
<1> QED
  BY <1>1, FeedInvariance, PTL

(* A finished episode's series goes on as long as a later file of it is    *)
(* unwatched, or newer cards fill the feed.                                *)
THEOREM SeriesAreContinued == Spec => []SeriesGoesOn
<1>1. IInv /\ FeedInv => SeriesGoesOn
  <2> SUFFICES ASSUME IInv, FeedInv, phase = "answered", ~failed, NEW k \in DOMAIN entries,
                      entries[k].finished, SeriesOf[entries[k].from] # NoSeries, ~Crowded(k),
                      NEW a \in DOMAIN Listing[SeriesOf[entries[k].from]],
                      Listing[SeriesOf[entries[k].from]][a] = entries[k].from,
                      NEW b \in Later(Listing[SeriesOf[entries[k].from]], a),
                      File(Listing[SeriesOf[entries[k].from]][b]) \cap seen.watched = {}
               PROVE  \E c \in cards, m \in Later(Listing[SeriesOf[entries[k].from]], a) :
                        Holder[entries[c].item] = Holder[Listing[SeriesOf[entries[k].from]][m]]
    BY DEF SeriesGoesOn, Later
  <2> DEFINE l == Listing[SeriesOf[entries[k].from]]
  <2>1. Right(entries[k]) /\ entries[k].stage \in {"card", "dropped"} /\ entries[k] \in Entry
    BY EntryIs DEF FeedInv, EntriesRight, AnsweredFromEntries
  <2>2. entries[k].stage = "card"
    BY <2>1 DEF Right, DroppedAtTheEnd
  <2>3. IsNew(entries[k])
    BY <2>2 DEF IInv, RequestInv, PickedAreNew, Follows
  <2>4. PICK d \in DOMAIN l, m \in DOMAIN l :
          l[d] = entries[k].from /\ l[m] = entries[k].item /\ d < m /\ Holder[l[d]] # Holder[l[m]]
    BY <2>3 DEF IsNew
  <2>5. SeriesOf[entries[k].from] \in Series
    BY <2>1, SeriesAssumption DEF Entry
  <2>6. d = a /\ m \in Later(l, a)
    <3>1. d = a /\ DOMAIN l = 1 .. Len(l) /\ Len(l) \in Nat
      BY <2>4, <2>5, SeriesAssumption
    <3> QED
      BY <2>4, <3>1 DEF Later
  <2>7. PICK c \in cards : SameCard(c, k)
    BY <2>2, ShownOrCrowded
  <2> QED
    BY <2>4, <2>6, <2>7 DEF SameCard
<1> QED
  BY <1>1, FeedInvariance, PTL
-----------------------------------------------------------------------------
(* What episodeAfter returns.                                              *)
LEMMA EpisodeAfterIs ==
  ASSUME NEW l \in Seq(Items), NEW e \in 1 .. Len(l)
  PROVE  LET after == {m \in e + 1 .. Len(l) : l[e] \in Specials \/ l[m] \notin Specials}
         IN  \/ EpisodeAfter(l, e) = 0 /\ after = {}
             \/ EpisodeAfter(l, e) \in after /\ \A m \in after : EpisodeAfter(l, e) <= m
<1> DEFINE after == {m \in e + 1 .. Len(l) : l[e] \in Specials \/ l[m] \notin Specials}
<1>1. CASE after = {}
  BY <1>1 DEF EpisodeAfter
<1>2. CASE after # {}
  <2>1. after \subseteq Nat
    OBVIOUS
  <2>2. EpisodeAfter(l, e) = FirstIn(after)
    BY <1>2 DEF EpisodeAfter
  <2> HIDE DEF after
  <2>3. FirstIn(after) \in after /\ \A m \in after : FirstIn(after) <= m
    BY <1>2, <2>1, FirstInIs
  <2> QED
    BY <2>2, <2>3 DEF after
<1> QED
  BY <1>1, <1>2

(* The answer of the anchor l[a].                                          *)
AfterTheFile(l, a, answer) ==
  LET regular(m) == l[m] \notin Specials
      later == Later(l, a)
  IN
  /\ answer = NoItem => \A m \in later : ~regular(m)
  /\ answer # NoItem => \E n \in later :
       /\ l[n] = answer
       /\ \A m \in later : m < n => ~regular(m)
       /\ (\A m \in (a .. Len(l)) \ later : regular(m)) => regular(n)

LEMMA FollowingIsAfter ==
  ASSUME NEW s \in Series, NEW a \in DOMAIN Listing[s]
  PROVE  LET l == Listing[s]
             n == EpisodeAfter(l, FileEnd(l, a))
         IN  AfterTheFile(l, a, IF n = 0 THEN NoItem ELSE l[n])
<1> DEFINE l == Listing[s]
           e == FileEnd(l, a)
           n == EpisodeAfter(l, e)
           after == {m \in e + 1 .. Len(l) : l[e] \in Specials \/ l[m] \notin Specials}
<1>1. l \in Seq(Items) /\ a \in 1 .. Len(l) /\ DOMAIN l = 1 .. Len(l) /\ Len(l) \in Nat
  BY SeriesAssumption
<1>2. e \in a .. Len(l) /\ SameFile(l, e, a)
  <2> HIDE DEF l
  <2> QED
    BY <1>1, FileEndIs
<1>3. Later(l, a) = e + 1 .. Len(l)
  BY LaterIsPastTheFile
<1> HIDE DEF l, e
<1>4. e \in 1 .. Len(l)
  BY <1>1, <1>2
<1>5. \/ n = 0 /\ after = {}
      \/ n \in after /\ \A m \in after : n <= m
  BY <1>1, <1>4, EpisodeAfterIs
<1>6. e \in (a .. Len(l)) \ Later(l, a)
  BY <1>1, <1>2, <1>4 DEF Later, SameFile
<1> HIDE DEF n
<1>7. CASE n = 0 /\ after = {}
  <2>1. \A m \in Later(l, a) : l[m] \in Specials
    BY <1>3, <1>7
  <2> QED
    BY <1>7, <2>1 DEF AfterTheFile, l, e, n
<1>8. CASE n \in after /\ \A m \in after : n <= m
  <2>1. n \in e + 1 .. Len(l) /\ n # 0 /\ (l[e] \in Specials \/ l[n] \notin Specials)
    BY <1>1, <1>4, <1>8
  <2>2. l[n] # NoItem
    <3>1. n \in 1 .. Len(l)
      BY <1>1, <1>4, <2>1
    <3> QED
      BY <1>1, <3>1, NoneAssumption
  <2>3. n \in Later(l, a)
    BY <1>3, <2>1
  <2>4. ASSUME NEW m \in Later(l, a), m < n PROVE l[m] \in Specials
    <3>1. m \in e + 1 .. Len(l)
      BY <1>3
    <3>2. m \notin after
      BY <1>1, <1>4, <1>8, <2>1, <2>4, <3>1
    <3> QED
      BY <3>1, <3>2
  <2>5. (\A m \in (a .. Len(l)) \ Later(l, a) : l[m] \notin Specials) => l[n] \notin Specials
    BY <1>6, <2>1
  <2>6. AfterTheFile(l, a, l[n])
    BY <2>2, <2>3, <2>4, <2>5 DEF AfterTheFile
  <2> QED
    BY <2>1, <2>6 DEF l, e, n
<1> QED
  BY <1>5, <1>7, <1>8

LEMMA NextEpisodeIsAfter ==
  ASSUME NEW s \in Series, NEW after \in Items \cup {NoItem}, NextEpisode(s, after)
  PROVE  NextIsAfterTheFile'
<1> DEFINE l == Listing[s]
           i == next'.anchor
           n == EpisodeAfter(l, FileEnd(l, IndexOf(l, i)))
<1>1. l \in Seq(Items) /\ DOMAIN l = 1 .. Len(l)
  BY SeriesAssumption
<1>2. i \in Anchors(l, after) /\ (i # NoItem => next'.next = IF n = 0 THEN NoItem ELSE l[n])
  BY DEF NextEpisode
<1> SUFFICES ASSUME i # NoItem, NEW a \in DOMAIN Listing[SeriesOf[i]], Listing[SeriesOf[i]][a] = i
             PROVE  AfterTheFile(Listing[SeriesOf[i]], a, next'.next)
  BY DEF NextIsAfterTheFile, AfterTheFile, Later
<1>3. i \in RangeOf(l)
  BY <1>2 DEF Anchors, Latest
<1>4. PICK b \in DOMAIN l : l[b] = i
  BY <1>3 DEF RangeOf
<1>5. SeriesOf[i] = s
  BY <1>4, SeriesAssumption
<1>6. a = IndexOf(l, i)
  <2>1. IndexOf(l, i) \in DOMAIN l /\ l[IndexOf(l, i)] = i
    BY <1>4 DEF IndexOf
  <2> HIDE DEF i
  <2> QED
    BY <1>5, <2>1, SeriesAssumption
<1>7. AfterTheFile(l, a, IF n = 0 THEN NoItem ELSE l[n])
  BY <1>5, <1>6, FollowingIsAfter
<1> QED
  BY <1>2, <1>5, <1>7

(* next-episode's answer is the episode that follows the anchor's file, of *)
(* any list and any files, however many of its episodes are special.       *)
THEOREM NextFollowsTheFile == Spec => []NextIsAfterTheFile
<1>1. Init => NextIsAfterTheFile
  BY DEF Init, NextIsAfterTheFile
<1>2. NextIsAfterTheFile /\ [Next]_vars => NextIsAfterTheFile'
  <2> SUFFICES ASSUME NextIsAfterTheFile, [Next]_vars PROVE NextIsAfterTheFile'
    OBVIOUS
  <2>1. CASE \E s \in Series, after \in Items \cup {NoItem} : NextEpisode(s, after)
    BY <2>1, NextEpisodeIsAfter
  <2>2. CASE phase' # "next"
    BY <2>2 DEF NextIsAfterTheFile
  <2>3. CASE UNCHANGED <<phase, next>>
    BY <2>3 DEF NextIsAfterTheFile
  <2>4. CASE \E i \in Items, whole \in BOOLEAN :
               \/ \E pos \in Positions : Save(i, pos, whole, FALSE)
               \/ i \in Dismissed /\ Save(i, Length, whole, TRUE)
               \/ \E mark \in BOOLEAN : Toggle(i, whole, mark)
    BY <2>2, <2>3, <2>4 DEF Save, Toggle, Watching, reads
  <2>5. CASE Mark \/ MarkFails
    BY <2>2, <2>3, <2>5 DEF Mark, MarkFails, Watching, reads
  <2>6. CASE (\E q \in Newest : Begin(q)) \/ Answer
    BY <2>2, <2>6 DEF Begin, Answer
  <2>7. ASSUME NEW k, NEW e, Becomes(k, e) PROVE UNCHANGED <<phase, next>>
    BY <2>7 DEF Becomes
  <2>8. CASE \E k \in 1 .. RowLimit :
               \/ Drop(k)
               \/ \E i \in Items : Show(k, i)
               \/ \E w \in SUBSET watched : Pick(k, w)
               \/ \E pos \in Positions \cup {0, Length} : Resume(k, pos)
    BY <2>3, <2>7, <2>8 DEF Drop, Show, Pick, Resume
  <2>9. CASE UNCHANGED vars
    BY <2>3, <2>9 DEF vars, reads
  <2> QED
    BY <2>1, <2>4, <2>5, <2>6, <2>8, <2>9 DEF Next
<1> QED
  BY <1>1, <1>2, PTL DEF Spec
=============================================================================
