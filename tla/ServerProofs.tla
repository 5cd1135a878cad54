----------------------------- MODULE ServerProofs -----------------------------
(***************************************************************************)
(* What a server keeps in its memory, and how it comes to serve: the       *)
(* properties of Kept, for any number of clients, settings, episodes and   *)
(* caps, any lifetimes and any size of the table; then the safety          *)
(* properties of Startup, for any number of servers, crashes, migrations   *)
(* and titles.  The two share no variable and no constant.                 *)
(***************************************************************************)
EXTENDS Kept, Startup, WellFoundedInduction, TLAPS

(* The setting was x after tick t.                                         *)
Said(x, t) == \E w \in Since(t) : w.setting = x

MaxAge(s) == IF s.late THEN StaleFor ELSE FreshFor

(* The kept languages were the setting at some time since they were asked  *)
(* for.                                                                    *)
LastRight ==
  last # None => last.asked \in 0 .. clock /\ Said(last.said, last.asked - 1)

(* No request has seen, or was served, what was asked for later than the   *)
(* kept answer; its own ask is no older than what was served before it.    *)
ScreenRight(s) ==
  /\ s.asked <= clock
  /\ s.floor <= last.asked /\ s.served.asked <= last.asked
  /\ s.phase \in {"asking", "keeping"} => s.floor <= s.asked
  /\ s.phase = "failed" => s.late
  /\ s.phase = "keeping" => Said(s.served.said, s.asked - 1)
  /\ s.phase = "answered" =>
       s.floor <= s.served.asked /\ Said(s.served.said, s.at - MaxAge(s))

(* In the worlds ws, ids are of the item's file; and they are the whole of *)
(* it, as the cap sees it, where it is the same in all of them.            *)
Only(ws, ids, item) ==
  \A i \in ids \ {item} : \E w1, w2 \in ws :
    i \in {w1.holder[item]} \cup Covers(w2, w1.holder[item])

Whole(ws, ids, item, cap) ==
  item \in Served[cap] =>
    \A h \in Items : (\A w \in ws : w.holder[item] = h) =>
      /\ h \in ids
      /\ h \in Served[cap] => \A i \in Items : (\A w \in ws : i \in Covers(w, h)) => i \in ids

TheFile(ws, ids, item, cap) == Only(ws, ids, item) /\ Whole(ws, ids, item, cap)

PlayerRight(r) ==
  /\ r.now <= clock
  /\ r.phase # "idle" => r.item \in Items /\ r.cap \in Caps
  /\ r.phase = "asking holder" =>
       /\ r.item \in Served[r.cap]
       /\ \E w \in Since(r.now - 1) : r.holder = w.holder[r.item]
  /\ r.phase = "keeping" => TheFile(Since(r.now - 1), r.ids, r.item, r.cap)
  /\ r.phase = "answered" => TheFile(Since(r.now - FileTTL), r.ids, r.item, r.cap)

FileRight ==
  \A k \in DOMAIN file : TheFile(Since(file[k].until - FileTTL - 1), file[k].ids, k[2], k[1])

WorldInv == world \in past[clock]

LanguagesInv == LastRight /\ \A p \in Screens : ScreenRight(screen[p])

FilesInv == FileRight /\ \A p \in Players : PlayerRight(player[p])

IInv == TypeOK /\ WorldInv /\ LanguagesInv /\ FilesInv

USE WorldAssumption, KeptBoundsAssumption

-----------------------------------------------------------------------------
(* Since.                                                                  *)
LEMMA SinceLonger ==
  ASSUME TypeOK, NEW s \in Int, NEW t \in Int, t <= s
  PROVE  Since(s) \subseteq Since(t)
<1>1. \A v \in 0 .. clock : v > s => v > t
  BY DEF TypeOK
<1> QED
  BY <1>1 DEF Since

LEMMA NowIsSince ==
  ASSUME TypeOK, WorldInv, NEW t \in Int, t < clock
  PROVE  world \in Since(t)
<1>1. clock \in 0 .. clock /\ clock > t
  BY DEF TypeOK
<1> QED
  BY <1>1 DEF Since, WorldInv

LEMMA SinceWorlds ==
  ASSUME TypeOK, NEW t
  PROVE  Since(t) \subseteq World
<1>1. \A u \in 0 .. clock : past[u] \subseteq World
  BY DEF TypeOK
<1> QED
  BY <1>1 DEF Since

(* What was stays, while time goes on and the world changes.               *)
LEMMA SinceStays ==
  ASSUME TypeOK, Tick \/ (\E w \in World : Becomes(w)), NEW t
  PROVE  Since(t) \subseteq Since(t)'
<1> clock \in 0 .. MaxTime /\ DOMAIN past = 0 .. MaxTime
  BY DEF TypeOK
<1>1. clock <= clock' /\ clock' \in Nat /\ \A u \in 0 .. clock : past[u] \subseteq past'[u]
  <2>1. CASE Tick
    BY <2>1 DEF Tick
  <2>2. CASE \E w \in World : Becomes(w)
    BY <2>2 DEF Becomes
  <2> QED
    BY <2>1, <2>2
<1>2. \A u \in 0 .. clock : u \in 0 .. clock'
  BY <1>1
<1> QED
  BY <1>1, <1>2 DEF Since

(* What is right in some worlds is right in more of them.                  *)
LEMMA MoreWorlds ==
  ASSUME NEW vs, NEW ws, vs \subseteq ws, NEW ids, NEW item, NEW cap, TheFile(vs, ids, item, cap)
  PROVE  TheFile(ws, ids, item, cap)
<1>1. Only(ws, ids, item)
  BY DEF TheFile, Only
<1>2. Whole(ws, ids, item, cap)
  BY DEF TheFile, Whole
<1> QED
  BY <1>1, <1>2 DEF TheFile

(* What a player has stays right, while what was stays.                    *)
LEMMA PlayerStays ==
  ASSUME NEW r \in Player, PlayerRight(r), clock \in Nat, clock' \in Nat, clock <= clock',
         \A t \in Int : Since(t) \subseteq Since(t)'
  PROVE  PlayerRight(r)'
<1>1. r.now \in Nat /\ r.now - 1 \in Int /\ r.now - FileTTL \in Int
  <2>1. r.now \in Nat
    BY DEF Player
  <2> QED
    BY ONLY <2>1, KeptBoundsAssumption
<1>2. /\ Since(r.now - 1) \subseteq Since(r.now - 1)'
      /\ Since(r.now - FileTTL) \subseteq Since(r.now - FileTTL)'
  BY <1>1
<1>3. r.now <= clock'
  <2>1. r.now <= clock
    BY DEF PlayerRight
  <2> QED
    BY ONLY <1>1, <2>1, clock \in Nat, clock' \in Nat, clock <= clock'
<1>4. r.phase # "idle" => r.item \in Items /\ r.cap \in Caps
  BY DEF PlayerRight
<1>5. r.phase = "asking holder" =>
        /\ r.item \in Served[r.cap]
        /\ \E w \in Since(r.now - 1)' : r.holder = w.holder[r.item]
  BY <1>2 DEF PlayerRight
<1>6. r.phase = "keeping" => TheFile(Since(r.now - 1)', r.ids, r.item, r.cap)
  BY <1>2, MoreWorlds DEF PlayerRight
<1>7. r.phase = "answered" => TheFile(Since(r.now - FileTTL)', r.ids, r.item, r.cap)
  BY <1>2, MoreWorlds DEF PlayerRight
<1> QED
  BY <1>3, <1>4, <1>5, <1>6, <1>7 DEF PlayerRight

LEMMA FileStays ==
  ASSUME TypeOK, FileRight, UNCHANGED file, \A t \in Int : Since(t) \subseteq Since(t)'
  PROVE  FileRight'
<1> SUFFICES ASSUME NEW k \in DOMAIN file
             PROVE  TheFile(Since(file[k].until - FileTTL - 1)', file[k].ids, k[2], k[1])
  BY DEF FileRight
<1>1. file[k].until - FileTTL - 1 \in Int
  BY DEF TypeOK
<1>2. TheFile(Since(file[k].until - FileTTL - 1), file[k].ids, k[2], k[1])
  BY DEF FileRight
<1> QED
  BY <1>1, <1>2, MoreWorlds

-----------------------------------------------------------------------------
(* The clock and the world.                                                *)
LEMMA WorldStep ==
  ASSUME IInv, Tick \/ (\E w \in World : Becomes(w))
  PROVE  IInv'
<1> USE DEF IInv
<1>1. /\ clock' \in 0 .. MaxTime /\ clock <= clock' /\ clock \in Nat
      /\ UNCHANGED <<last, file, screen, player, begun>>
  BY DEF Tick, Becomes, TypeOK
<1>2. TypeOK' /\ WorldInv'
  <2>1. CASE Tick
    BY <2>1 DEF Tick, TypeOK, WorldInv
  <2>2. ASSUME NEW w \in World, Becomes(w) PROVE TypeOK' /\ WorldInv'
    BY <2>2 DEF Becomes, TypeOK, WorldInv
  <2> QED
    BY <2>1, <2>2
<1>3. ASSUME NEW x, NEW t, Said(x, t) PROVE Said(x, t)'
  BY <1>3, SinceStays DEF Said
<1>4. LastRight'
  BY <1>1, <1>3 DEF LanguagesInv, LastRight
<1>5. ASSUME NEW p \in Screens PROVE ScreenRight(screen[p])'
  <2>1. ScreenRight(screen[p]) /\ screen[p] \in Screen
    BY DEF LanguagesInv, TypeOK
  <2>2. screen[p].asked <= clock'
    BY <1>1, <2>1 DEF ScreenRight, Screen
  <2> QED
    BY <1>1, <1>3, <2>1, <2>2 DEF ScreenRight, MaxAge
<1>6. \A t \in Int : Since(t) \subseteq Since(t)'
  BY SinceStays
<1>7. FileRight'
  BY <1>1, <1>6, FileStays DEF FilesInv
<1>8. ASSUME NEW p \in Players PROVE PlayerRight(player[p])'
  <2>1. PlayerRight(player[p]) /\ player[p] \in Player /\ clock' \in Nat
    BY <1>1 DEF FilesInv, TypeOK
  <2> DEFINE r == player[p]
  <2>2. player'[p] = r
    BY <1>1
  <2>3. r \in Player /\ PlayerRight(r)
    BY <2>1
  <2> HIDE DEF r
  <2>4. \A q : q = r => PlayerRight(q)'
    BY <1>1, <1>6, <2>1, <2>3, PlayerStays
  <2> QED
    BY <2>2, <2>4 DEF r
<1> QED
  BY <1>2, <1>4, <1>5, <1>7, <1>8 DEF LanguagesInv, FilesInv

LEMMA WorldSteps ==
  ASSUME IInv,
         \/ Tick
         \/ \E s \in Settings : ChangeSetting(s)
         \/ \E i, h \in Items : Link(i, h)
  PROVE  IInv'
<1>1. world \in World
  BY DEF IInv, TypeOK
<1>2. ASSUME NEW s \in Settings, ChangeSetting(s) PROVE \E w \in World : Becomes(w)
  <2>1. [world EXCEPT !.setting = s] \in World
    BY <1>1 DEF World
  <2> QED
    BY <1>2, <2>1 DEF ChangeSetting
<1>3. ASSUME NEW i \in Items, NEW h \in Items, Link(i, h) PROVE \E w \in World : Becomes(w)
  <2>1. [world EXCEPT !.holder[i] = h] \in World
    BY <1>1 DEF World
  <2> QED
    BY <1>3, <2>1 DEF Link
<1> QED
  BY <1>2, <1>3, WorldStep

-----------------------------------------------------------------------------
(* The languages.                                                          *)

(* A set of integers that is bounded above has a greatest.                 *)
LEMMA GreatestOf ==
  ASSUME NEW n \in Int, NEW S \in SUBSET Int, S # {}, \A a \in S : a <= n
  PROVE  \E a \in S : \A b \in S : b <= a
<1> DEFINE T == {n - a : a \in S}
<1>1. T \in SUBSET Nat /\ T # {}
  <2>1. ASSUME NEW a \in S PROVE n - a \in Nat
    BY a \in Int, a <= n
  <2>2. T \in SUBSET Nat
    BY ONLY <2>1
  <2>3. T # {}
    OBVIOUS
  <2> QED
    BY <2>2, <2>3
<1>2. PICK t \in T : \A y \in T : ~ (<<y, t>> \in OpToRel(<, Nat))
  <2> HIDE DEF T
  <2> QED
    BY <1>1, NatLessThanWellFounded, WFMin
<1>3. PICK a \in S : t = n - a
  OBVIOUS
<1>4. ASSUME NEW b \in S PROVE b <= a
  <2>1. ~ (n - b < n - a) /\ n - b \in Nat /\ n - a \in Nat
    BY <1>1, <1>2, <1>3 DEF OpToRel
  <2> QED
    BY <2>1, a \in Int, b \in Int
<1> QED
  BY <1>4

(* Newest is the newest, and no newer than what is kept.                   *)
LEMMA NewestIs ==
  ASSUME IInv, NEW p \in Screens
  PROVE  Newest \in Int /\ Newest <= last.asked
<1> DEFINE A == {screen[q].served.asked : q \in Screens} \cup {screen[q].floor : q \in Screens}
<1>1. \A q \in Screens : screen[q].served.asked \in Int /\ screen[q].floor \in Int
  BY DEF IInv, TypeOK, Screen, Answer
<1>2. last.asked \in Int
  BY DEF IInv, TypeOK, Answer
<1>3. \A a \in A : a \in Int /\ a <= last.asked
  BY <1>1 DEF IInv, LanguagesInv, ScreenRight
<1>4. A \in SUBSET Int /\ A # {}
  BY <1>3
<1>5. Newest = CHOOSE a \in A : \A b \in A : b <= a
  BY DEF Newest
<1> HIDE DEF A
<1>6. \E a \in A : \A b \in A : b <= a
  BY <1>2, <1>3, <1>4, GreatestOf
<1>7. Newest \in A
  BY <1>5, <1>6
<1> QED
  BY <1>3, <1>7

(* What a step of one request must show.                                   *)
LEMMA ScreenStep ==
  ASSUME IInv, NEW p \in Screens, NEW s \in Screen,
         screen' = [screen EXCEPT ![p] = s],
         UNCHANGED <<clock, world, changes, file, player, past>>,
         begun' \in 0 .. MaxRequests,
         s.phase = "answered" <=> s.served.asked >= 0,
         last' \in Answer, last.asked <= last'.asked,
         LastRight', ScreenRight(s)'
  PROVE  IInv'
<1> USE DEF IInv
<1>1. TypeOK'
  BY DEF TypeOK
<1>2. \A t : Since(t)' = Since(t)
  BY DEF Since
<1>3. WorldInv' /\ FilesInv'
  BY <1>2 DEF WorldInv, FilesInv, FileRight, PlayerRight
<1>4. ASSUME NEW q \in Screens PROVE ScreenRight(screen[q])'
  <2>1. CASE q = p
    BY <2>1 DEF TypeOK
  <2>2. CASE q # p
    <3>1. screen'[q] = screen[q] /\ screen[q] \in Screen /\ ScreenRight(screen[q])
      BY <2>2 DEF TypeOK, LanguagesInv
    <3>2. screen[q].floor <= last'.asked /\ screen[q].served.asked <= last'.asked
      BY <3>1 DEF ScreenRight, Screen, Answer, TypeOK
    <3> QED
      BY <1>2, <3>1, <3>2 DEF ScreenRight, Said, MaxAge
  <2> QED
    BY <2>1, <2>2
<1> QED
  BY <1>1, <1>3, <1>4 DEF LanguagesInv

(* What such a step keeps when nothing is kept anew.                       *)
LEMMA AsksStep ==
  ASSUME IInv, NEW p \in Screens, NEW s \in Screen,
         Screening(p, s), UNCHANGED last, begun' \in 0 .. MaxRequests,
         s.phase = "answered" <=> s.served.asked >= 0,
         ScreenRight(s)
  PROVE  IInv'
<1>1. \A t : Since(t)' = Since(t)
  BY DEF Screening, Since
<1>2. LastRight'
  BY <1>1 DEF Screening, IInv, LanguagesInv, LastRight, Said
<1>3. ScreenRight(s)'
  BY <1>1 DEF Screening, ScreenRight, Said, MaxAge
<1>4. last \in Answer /\ last.asked <= last.asked
  BY DEF IInv, TypeOK, Answer
<1> QED
  BY <1>2, <1>3, <1>4, ScreenStep DEF Screening

(* A request that serves what is kept, while it is younger than its age.   *)
LEMMA ServesLast ==
  ASSUME IInv, NEW s \in Screen, Younger(MaxAge(s)), s.asked <= clock, s.floor <= last.asked
  PROVE  LET t == Serve(s, last, clock)
         IN  /\ t \in Screen /\ ScreenRight(t)
             /\ t.phase = "answered" /\ t.served.asked >= 0
<1> DEFINE t == Serve(s, last, clock)
<1>1. last \in Answer /\ last # None /\ clock \in Nat /\ MaxAge(s) \in Nat
  BY DEF IInv, TypeOK, Younger, MaxAge
<1>2. t \in Screen
  BY <1>1 DEF Serve, Screen
<1>3. /\ t.phase = "answered" /\ t.served = last /\ t.at = clock
      /\ t.asked = s.asked /\ t.floor = s.floor /\ t.late = s.late
  BY DEF Serve, Screen
<1>4. last.asked \in 0 .. clock /\ Said(last.said, last.asked - 1)
  BY <1>1 DEF IInv, LanguagesInv, LastRight
<1>5. clock - MaxAge(s) <= last.asked - 1
  BY <1>1, <1>4 DEF Younger
<1>6. Said(last.said, clock - MaxAge(s))
  BY <1>1, <1>4, <1>5, SinceLonger DEF Said, IInv
<1> HIDE DEF t
<1>7. ScreenRight(t)
  BY <1>3, <1>4, <1>6 DEF ScreenRight, MaxAge
<1> QED
  BY <1>2, <1>3, <1>4, <1>7 DEF t

(* The requests at first.                                                  *)
LEMMA IdleScreenIs ==
  /\ IdleScreen \in Screen
  /\ IdleScreen.phase = "idle" /\ IdleScreen.asked = 0 /\ IdleScreen.served.asked = -1
  /\ IdleScreen.floor = -1 /\ IdleScreen.late = FALSE
<1>1. None \in Answer /\ None.asked = -1
  BY DEF None, Answer
<1> QED
  BY <1>1 DEF IdleScreen, Screen

LEMMA LanguagesStep ==
  ASSUME IInv, NEW p \in Screens, Languages(p)
  PROVE  IInv'
<1>1. Newest \in Int /\ Newest <= last.asked
  BY NewestIs
<1> DEFINE s == [IdleScreen EXCEPT !.phase = "looked", !.floor = Newest]
<1>2. s \in Screen
  BY <1>1, IdleScreenIs DEF Screen
<1>8. /\ s.phase = "looked" /\ s.asked = 0 /\ s.served.asked = -1
      /\ s.floor = Newest /\ s.late = FALSE
  BY IdleScreenIs DEF Screen
<1>3. begun' \in 0 .. MaxRequests
  BY DEF Languages, IInv, TypeOK
<1>4. clock \in Nat /\ last \in Answer
  BY DEF IInv, TypeOK
<1>5. -1 <= last.asked
  BY DEF IInv, LanguagesInv, LastRight, None, TypeOK
<1>6. CASE Younger(FreshFor)
  <2>1. Screening(p, Serve(s, last, clock)) /\ UNCHANGED last
    BY <1>6 DEF Languages
  <2>2. MaxAge(s) = FreshFor /\ s.asked <= clock /\ s.floor <= last.asked
    <3> HIDE DEF s
    <3> QED
      BY <1>1, <1>4, <1>8 DEF MaxAge
  <2> HIDE DEF s
  <2> QED
    BY <1>2, <1>3, <1>6, <2>1, <2>2, ServesLast, AsksStep
<1>7. CASE ~Younger(FreshFor)
  <2>1. Screening(p, s) /\ UNCHANGED last
    BY <1>7 DEF Languages
  <2>2. ScreenRight(s) /\ ~(s.phase = "answered") /\ ~(s.served.asked >= 0)
    <3> HIDE DEF s
    <3> QED
      BY <1>1, <1>4, <1>5, <1>8 DEF ScreenRight
  <2> HIDE DEF s
  <2> QED
    BY <1>2, <1>3, <2>1, <2>2, AsksStep
<1> QED
  BY <1>6, <1>7

LEMMA AskStep ==
  ASSUME IInv, NEW p \in Screens, AskManager(p)
  PROVE  IInv'
<1> DEFINE s == [screen[p] EXCEPT !.phase = "asking", !.asked = clock]
<1>1. /\ screen[p] \in Screen /\ ScreenRight(screen[p]) /\ clock \in Nat
      /\ screen[p].phase = "looked" /\ ~(screen[p].served.asked >= 0)
      /\ begun \in 0 .. MaxRequests /\ last \in Answer
  BY DEF IInv, TypeOK, LanguagesInv, AskManager
<1>2. s \in Screen
  BY <1>1 DEF Screen
<1>3. /\ s.phase = "asking" /\ s.asked = clock
      /\ s.floor = screen[p].floor /\ s.served = screen[p].served
  BY <1>1 DEF Screen
<1>4. last.asked <= clock
  BY <1>1 DEF IInv, LanguagesInv, LastRight, None
<1>5. s.floor \in Int /\ last.asked \in Int
  BY <1>1, <1>2 DEF Screen, Answer
<1> HIDE DEF s
<1>6. ScreenRight(s)
  BY <1>1, <1>3, <1>4, <1>5 DEF ScreenRight
<1>7. Screening(p, s) /\ UNCHANGED <<last, begun>>
  BY DEF AskManager, Asks, s
<1> QED
  BY <1>1, <1>2, <1>3, <1>6, <1>7, AsksStep

LEMMA AnswersStep ==
  ASSUME IInv, NEW p \in Screens, ManagerAnswers(p)
  PROVE  IInv'
<1> DEFINE s == [screen[p] EXCEPT !.phase = "keeping", !.served.said = world.setting]
<1>1. /\ screen[p] \in Screen /\ ScreenRight(screen[p]) /\ clock \in Nat
      /\ screen[p].phase = "asking" /\ ~(screen[p].served.asked >= 0)
      /\ begun \in 0 .. MaxRequests /\ world \in World
  BY DEF IInv, TypeOK, LanguagesInv, ManagerAnswers
<1>2. screen[p].served \in Answer /\ world.setting \in Settings
  BY <1>1 DEF Screen, World
<1>3. [screen[p].served EXCEPT !.said = world.setting] \in Answer
  BY <1>2 DEF Answer
<1>4. s \in Screen
  BY <1>1, <1>3 DEF Screen
<1>5. /\ s.phase = "keeping" /\ s.asked = screen[p].asked /\ s.floor = screen[p].floor
      /\ s.served.asked = screen[p].served.asked /\ s.served.said = world.setting
  BY <1>1, <1>2 DEF Screen, Answer
<1>6. Said(world.setting, s.asked - 1)
  <2>1. s.asked \in Int /\ s.asked - 1 < clock
    BY <1>1, <1>5 DEF Screen, ScreenRight
  <2> QED
    BY <2>1, NowIsSince DEF Said, IInv
<1> HIDE DEF s
<1>7. ScreenRight(s)
  BY <1>1, <1>5, <1>6 DEF ScreenRight
<1>8. Screening(p, s) /\ UNCHANGED <<last, begun>>
  BY DEF ManagerAnswers, Asks, s
<1> QED
  BY <1>1, <1>4, <1>5, <1>7, <1>8, AsksStep

LEMMA FailsStep ==
  ASSUME IInv, NEW p \in Screens, ManagerFails(p)
  PROVE  IInv'
<1> DEFINE s == [screen[p] EXCEPT !.phase = "failed", !.late = TRUE]
<1>1. /\ screen[p] \in Screen /\ ScreenRight(screen[p])
      /\ screen[p].phase = "asking" /\ ~(screen[p].served.asked >= 0)
      /\ begun \in 0 .. MaxRequests
  BY DEF IInv, TypeOK, LanguagesInv, ManagerFails
<1>2. s \in Screen
  BY <1>1 DEF Screen
<1>3. /\ s.phase = "failed" /\ s.late = TRUE /\ s.asked = screen[p].asked
      /\ s.floor = screen[p].floor /\ s.served = screen[p].served
  BY <1>1 DEF Screen
<1> HIDE DEF s
<1>4. ScreenRight(s)
  BY <1>1, <1>3 DEF ScreenRight
<1>5. Screening(p, s) /\ UNCHANGED <<last, begun>>
  BY DEF ManagerFails, Asks, s
<1> QED
  BY <1>1, <1>2, <1>3, <1>4, <1>5, AsksStep

(* The kept answer is the later one; the request serves its own, which is  *)
(* no older than what was served before it asked.                          *)
LEMMA KeepsStep ==
  ASSUME IInv, NEW p \in Screens, KeepLanguages(p)
  PROVE  IInv'
<1>1. PICK r \in Screen : r = screen[p]
  BY DEF IInv, TypeOK
<1>2. PICK own : own = [r.served EXCEPT !.asked = r.asked]
  OBVIOUS
<1>3. PICK s : s = Serve(r, own, r.asked)
  OBVIOUS
<1>4. ScreenRight(r) /\ r.phase = "keeping" /\ clock \in Nat /\ last \in Answer
  BY <1>1 DEF IInv, TypeOK, LanguagesInv, KeepLanguages
<1>5. /\ r.served \in Answer /\ r.asked \in 0 .. clock /\ r.floor \in Int /\ r.late \in BOOLEAN
      /\ r.floor <= r.asked /\ Said(r.served.said, r.asked - 1)
  BY <1>4 DEF Screen, ScreenRight
<1>6. own \in Answer /\ own.asked = r.asked /\ own.said = r.served.said
  BY <1>2, <1>5 DEF Answer
<1>7. /\ s \in Screen
      /\ s.phase = "answered" /\ s.served = own /\ s.at = r.asked
      /\ s.asked = r.asked /\ s.floor = r.floor /\ s.late = r.late
  BY <1>3, <1>5, <1>6 DEF Serve, Screen
<1>8. last' = Later(own) /\ Screening(p, s) /\ UNCHANGED begun
  BY <1>1, <1>2, <1>3 DEF KeepLanguages
<1>9. screen' = [screen EXCEPT ![p] = s] /\ UNCHANGED <<clock, world, changes, file, player, past>>
  BY <1>8 DEF Screening
<1>10. \A t : Since(t)' = Since(t)
  BY <1>9 DEF Since
<1>11. last' \in Answer /\ last.asked <= last'.asked /\ own.asked <= last'.asked
  BY <1>4, <1>6, <1>8 DEF Later, Answer
<1>12. LastRight'
  <2>1. CASE last' = last
    BY <1>9, <1>10, <2>1 DEF IInv, LanguagesInv, LastRight, Said
  <2>2. CASE last' = own
    BY <1>5, <1>6, <1>9, <1>10, <2>2 DEF LastRight, Said
  <2> QED
    BY <1>8, <2>1, <2>2 DEF Later
<1>13. ScreenRight(s)'
  <2>1. s.asked <= clock'
    BY <1>4, <1>5, <1>7, <1>9
  <2>2. s.floor <= last'.asked /\ s.served.asked <= last'.asked /\ s.floor <= s.served.asked
    BY <1>4, <1>5, <1>6, <1>7, <1>11 DEF Answer
  <2>3. Said(s.served.said, s.at - MaxAge(s))'
    <3>1. MaxAge(s) \in Nat \ {0} /\ MaxAge(s)' = MaxAge(s)
      BY DEF MaxAge
    <3>2. Said(s.served.said, s.at - 1) /\ s.at \in Nat
      BY <1>4, <1>5, <1>6, <1>7
    <3>3. s.at - MaxAge(s) <= s.at - 1 /\ s.at - MaxAge(s) \in Int /\ s.at - 1 \in Int
      BY <3>1, <3>2
    <3>4. Since(s.at - 1) \subseteq Since(s.at - MaxAge(s))
      BY <3>3, SinceLonger DEF IInv
    <3> QED
      BY <1>10, <3>1, <3>2, <3>4 DEF Said
  <2> QED
    BY <1>7, <2>1, <2>2, <2>3 DEF ScreenRight
<1>14. s.phase = "answered" /\ s.served.asked >= 0 /\ begun' \in 0 .. MaxRequests
  BY <1>4, <1>5, <1>6, <1>7, <1>8 DEF IInv, TypeOK
<1> QED
  BY <1>7, <1>9, <1>11, <1>12, <1>13, <1>14, ScreenStep

LEMMA FallsBackStep ==
  ASSUME IInv, NEW p \in Screens, FallBack(p)
  PROVE  IInv'
<1> DEFINE r == screen[p]
           s == [r EXCEPT !.phase = "refused"]
<1>1. /\ r \in Screen /\ ScreenRight(r) /\ r.phase = "failed" /\ ~(r.served.asked >= 0)
      /\ begun \in 0 .. MaxRequests
  BY DEF IInv, TypeOK, LanguagesInv, FallBack
<1>2. UNCHANGED <<last, begun>>
  BY DEF FallBack, Asks
<1>3. CASE Younger(StaleFor)
  <2>1. Screening(p, Serve(r, last, clock))
    BY <1>3 DEF FallBack, Asks
  <2>2. MaxAge(r) = StaleFor /\ r.asked <= clock /\ r.floor <= last.asked
    BY <1>1 DEF MaxAge, ScreenRight
  <2> HIDE DEF r
  <2> QED
    BY <1>1, <1>2, <1>3, <2>1, <2>2, ServesLast, AsksStep
<1>4. CASE ~Younger(StaleFor)
  <2>1. Screening(p, s)
    BY <1>4 DEF FallBack, Asks
  <2>2. s \in Screen
    BY <1>1 DEF Screen
  <2>3. /\ s.phase = "refused" /\ s.asked = r.asked /\ s.floor = r.floor /\ s.served = r.served
    BY <1>1 DEF Screen
  <2> HIDE DEF s, r
  <2>4. ScreenRight(s)
    BY <1>1, <2>3 DEF ScreenRight
  <2> QED
    BY <1>1, <1>2, <2>1, <2>2, <2>3, <2>4, AsksStep
<1> QED
  BY <1>3, <1>4
-----------------------------------------------------------------------------
(* The files.                                                              *)

(* What a table knows after an answer was kept in it, it knew before, or   *)
(* was just told.                                                          *)
LEMMA KeptOrKnown ==
  ASSUME NEW m, NEW j, NEW a, NEW now
  PROVE  \A k \in DOMAIN Keep(m, j, a, now) :
           \/ k = j /\ Keep(m, j, a, now)[k] = a
           \/ k \in DOMAIN m /\ Keep(m, j, a, now)[k] = m[k]
<1>1. \A k \in DOMAIN Room(m, now) : k \in DOMAIN m /\ Room(m, now)[k] = m[k]
  <2> DEFINE live == {k \in DOMAIN m : now < m[k].until}
             rest == [k \in live |-> m[k]]
             none == [k \in {} |-> 0]
  <2>1. Room(m, now) = m \/ Room(m, now) = none \/ Room(m, now) = rest
    BY DEF Room
  <2>2. DOMAIN none = {}
    OBVIOUS
  <2>3. DOMAIN rest \subseteq DOMAIN m /\ \A k \in DOMAIN rest : rest[k] = m[k]
    OBVIOUS
  <2> HIDE DEF live, rest, none
  <2> QED
    BY <2>1, <2>2, <2>3
<1> QED
  BY <1>1 DEF Keep

(* What a step of one request must show.                                   *)
LEMMA PlayerStep ==
  ASSUME IInv, NEW p \in Players, NEW r \in Player, Playing(p, r),
         begun' \in 0 .. MaxRequests,
         DOMAIN file' \subseteq Caps \X Items,
         \A k \in DOMAIN file' : file'[k] \in [ids : SUBSET Items, until : Nat],
         FileRight', PlayerRight(r)
  PROVE  IInv'
<1>1. TypeOK'
  BY DEF IInv, TypeOK, Playing
<1>2. UNCHANGED <<clock, world, last, screen, past>> /\ player' = [player EXCEPT ![p] = r]
  BY DEF Playing
<1>3. \A t : Since(t)' = Since(t)
  BY <1>2 DEF Since
<1>4. WorldInv'
  BY <1>2 DEF IInv, WorldInv
<1>5. LanguagesInv'
  BY <1>2, <1>3 DEF IInv, LanguagesInv, LastRight, ScreenRight, Said, MaxAge
<1>6. ASSUME NEW q \in Player, PlayerRight(q) PROVE PlayerRight(q)'
  BY <1>2, <1>3, <1>6 DEF PlayerRight
<1>7. ASSUME NEW q \in Players PROVE PlayerRight(player[q])'
  <2>1. player'[q] = IF q = p THEN r ELSE player[q]
    BY <1>2 DEF IInv, TypeOK
  <2>2. PICK s \in Player : s = player'[q]
    BY <2>1 DEF IInv, TypeOK
  <2>3. PlayerRight(s)
    BY <2>1, <2>2 DEF IInv, FilesInv
  <2>4. PlayerRight(s)'
    BY <1>6, <2>3
  <2> QED
    BY <2>2, <2>4
<1> QED
  BY <1>1, <1>4, <1>5, <1>7 DEF IInv, FilesInv

(* What such a step keeps when no file is kept anew.                       *)
LEMMA PlaysStep ==
  ASSUME IInv, NEW p \in Players, NEW r \in Player, Playing(p, r), UNCHANGED file,
         begun' \in 0 .. MaxRequests, PlayerRight(r)
  PROVE  IInv'
<1>1. \A t : Since(t)' = Since(t)
  BY DEF Playing, Since
<1>2. FileRight'
  BY <1>1, FileStays DEF IInv, FilesInv
<1>3. /\ DOMAIN file' \subseteq Caps \X Items
      /\ \A k \in DOMAIN file' : file'[k] \in [ids : SUBSET Items, until : Nat]
  BY DEF IInv, TypeOK
<1> QED
  BY <1>2, <1>3, PlayerStep

LEMMA IdlePlayerIs ==
  /\ IdlePlayer \in Player
  /\ IdlePlayer.phase = "idle" /\ IdlePlayer.now = 0
<1> QED
  BY DEF IdlePlayer, Player

(* A file that is kept and fresh was asked about less than its time ago.   *)
LEMMA FileEpisodesStep ==
  ASSUME IInv, NEW p \in Players, NEW i \in Items, NEW cap \in Caps, FileEpisodes(p, i, cap)
  PROVE  IInv'
<1>1. clock \in Nat /\ begun' \in 0 .. MaxRequests /\ UNCHANGED file
  BY DEF IInv, TypeOK, FileEpisodes
<1>2. PICK q : q = [IdlePlayer EXCEPT !.phase = "asking", !.item = i, !.cap = cap, !.now = clock]
  OBVIOUS
<1>3. /\ q \in Player
      /\ q.phase = "asking" /\ q.item = i /\ q.cap = cap /\ q.now = clock
  BY <1>1, <1>2, IdlePlayerIs DEF Player
<1>4. CASE Fresh(file, <<cap, i>>, clock)
  <2>1. PICK k : k = <<cap, i>>
    OBVIOUS
  <2>2. k \in DOMAIN file /\ clock < file[k].until /\ file[k] \in [ids : SUBSET Items, until : Nat]
    BY <1>4, <2>1 DEF Fresh, IInv, TypeOK
  <2>3. PICK ids \in SUBSET Items : ids = file[k].ids
    BY <2>2
  <2>4. PICK r : r = [q EXCEPT !.phase = "answered", !.ids = ids]
    OBVIOUS
  <2>5. /\ r \in Player
        /\ r.phase = "answered" /\ r.item = i /\ r.cap = cap /\ r.now = clock /\ r.ids = ids
    BY <1>3, <2>3, <2>4 DEF Player
  <2>6. TheFile(Since(file[k].until - FileTTL - 1), ids, i, cap)
    BY <2>1, <2>2, <2>3 DEF IInv, FilesInv, FileRight
  <2>7. /\ clock - FileTTL \in Int /\ file[k].until - FileTTL - 1 \in Int
        /\ clock - FileTTL <= file[k].until - FileTTL - 1
    BY <1>1, <2>2
  <2>8. Since(file[k].until - FileTTL - 1) \subseteq Since(clock - FileTTL)
    BY <2>7, SinceLonger DEF IInv
  <2>9. TheFile(Since(r.now - FileTTL), r.ids, r.item, r.cap)
    BY <2>5, <2>6, <2>8, MoreWorlds
  <2>10. PlayerRight(r)
    BY <1>1, <2>5, <2>9 DEF PlayerRight
  <2>11. Playing(p, r)
    BY <1>2, <1>4, <2>1, <2>3, <2>4 DEF FileEpisodes
  <2> QED
    BY <1>1, <2>5, <2>10, <2>11, PlaysStep
<1>5. CASE ~Fresh(file, <<cap, i>>, clock)
  <2>1. Playing(p, q)
    BY <1>2, <1>5 DEF FileEpisodes
  <2>2. PlayerRight(q)
    BY <1>1, <1>3 DEF PlayerRight
  <2> QED
    BY <1>1, <1>3, <2>1, <2>2, PlaysStep
<1> QED
  BY <1>4, <1>5

(* Of one world among ws: what katalog-api answers of an item.             *)
LEMMA AskItemStep ==
  ASSUME IInv, NEW p \in Players, AskItem(p)
  PROVE  IInv'
<1>1. PICK r \in Player : r = player[p]
  BY DEF IInv, TypeOK
<1>2. /\ r.phase = "asking" /\ PlayerRight(r) /\ clock \in Nat /\ world \in World
      /\ begun' \in 0 .. MaxRequests /\ UNCHANGED file
  BY <1>1 DEF IInv, TypeOK, FilesInv, AskItem, Writes
<1>3. /\ r.now \in Nat /\ r.now <= clock /\ r.item \in Items /\ r.cap \in Caps
  BY <1>2 DEF Player, PlayerRight
<1>4. PICK h \in Items : h = world.holder[r.item]
  BY <1>2, <1>3 DEF World
<1>5. PICK ws : ws = Since(r.now - 1)
  OBVIOUS
<1>6. world \in ws
  BY <1>2, <1>3, <1>5, NowIsSince DEF IInv
<1>7. ASSUME NEW ids \in SUBSET Items, TheFile(ws, ids, r.item, r.cap),
             Playing(p, [r EXCEPT !.phase = "keeping", !.ids = ids])
      PROVE  IInv'
  <2>1. PICK q : q = [r EXCEPT !.phase = "keeping", !.ids = ids]
    OBVIOUS
  <2>2. /\ q \in Player /\ q.phase = "keeping" /\ q.ids = ids
        /\ q.item = r.item /\ q.cap = r.cap /\ q.now = r.now
    BY <2>1 DEF Player
  <2>3. PlayerRight(q)
    BY <1>3, <1>5, <1>7, <2>2 DEF PlayerRight
  <2> QED
    BY <1>2, <1>7, <2>1, <2>2, <2>3, PlaysStep
<1>8. CASE GetItem(r.cap, r.item) = {}
  <2>1. r.item \notin Served[r.cap]
    BY <1>8 DEF GetItem
  <2>2. TheFile(ws, {r.item}, r.item, r.cap)
    BY <2>1 DEF TheFile, Only, Whole
  <2>3. Playing(p, [r EXCEPT !.phase = "keeping", !.ids = {r.item}])
    BY <1>1, <1>8 DEF AskItem, Writes
  <2>4. {r.item} \in SUBSET Items
    BY <1>3
  <2> QED
    BY <1>7, <2>2, <2>3, <2>4
<1>9. CASE GetItem(r.cap, r.item) # {} /\ h = r.item
  <2> DEFINE ids == {h} \cup Covers(world, h)
  <2>1. ids \in SUBSET Items
    BY DEF Covers
  <2>2. Only(ws, ids, r.item)
    BY <1>4, <1>6, <1>9 DEF Only
  <2>3. Whole(ws, ids, r.item, r.cap)
    BY <1>4, <1>6 DEF Whole
  <2>4. Playing(p, [r EXCEPT !.phase = "keeping", !.ids = ids])
    BY <1>1, <1>4, <1>9 DEF AskItem, Writes
  <2> HIDE DEF ids
  <2> QED
    BY <1>7, <2>1, <2>2, <2>3, <2>4 DEF TheFile
<1>10. CASE GetItem(r.cap, r.item) # {} /\ h # r.item
  <2>1. PICK q : q = [r EXCEPT !.phase = "asking holder", !.holder = h]
    OBVIOUS
  <2>2. /\ q \in Player /\ q.phase = "asking holder" /\ q.holder = h
        /\ q.item = r.item /\ q.cap = r.cap /\ q.now = r.now
    BY <2>1 DEF Player
  <2>3. r.item \in Served[r.cap]
    BY <1>10 DEF GetItem
  <2>4. PlayerRight(q)
    BY <1>3, <1>4, <1>5, <1>6, <2>2, <2>3 DEF PlayerRight
  <2>5. Playing(p, q)
    BY <1>1, <1>4, <1>10, <2>1 DEF AskItem, Writes
  <2> QED
    BY <1>2, <2>2, <2>4, <2>5, PlaysStep
<1> QED
  BY <1>8, <1>9, <1>10

(* Of two worlds among ws: the holder is of the one, its covers of the     *)
(* other.                                                                  *)
LEMMA AskHolderStep ==
  ASSUME IInv, NEW p \in Players, AskHolder(p)
  PROVE  IInv'
<1>1. PICK r \in Player : r = player[p]
  BY DEF IInv, TypeOK
<1>2. /\ r.phase = "asking holder" /\ PlayerRight(r) /\ clock \in Nat
      /\ begun' \in 0 .. MaxRequests /\ UNCHANGED file
  <2>1. clock \in Nat /\ begun \in 0 .. MaxRequests
    BY DEF IInv, TypeOK
  <2>2. PlayerRight(r)
    BY <1>1 DEF IInv, FilesInv
  <2>3. r.phase = "asking holder" /\ UNCHANGED <<file, begun>>
    BY <1>1 DEF AskHolder, Writes
  <2> QED
    BY <2>1, <2>2, <2>3
<1>3. PICK ws : ws = Since(r.now - 1)
  OBVIOUS
<1>4. /\ r.now \in Nat /\ r.now <= clock /\ r.item \in Items /\ r.cap \in Caps
      /\ r.item \in Served[r.cap] /\ \E w \in ws : r.holder = w.holder[r.item]
  BY <1>2, <1>3 DEF Player, PlayerRight
<1>5. PICK v \in ws : r.holder = v.holder[r.item]
  BY <1>4
<1>6. world \in ws /\ ws \subseteq World
  <2>0. r.now \in Nat /\ r.now <= clock /\ clock \in Nat
    BY <1>2, <1>4
  <2>1. r.now - 1 \in Int /\ r.now - 1 < clock
    BY ONLY <2>0
  <2>2. world \in ws
    BY <1>3, <2>1, NowIsSince DEF IInv
  <2>3. ws \subseteq World
    BY <1>3, SinceWorlds DEF IInv
  <2> QED
    BY <2>2, <2>3
<1>7. r.holder \in Items
  BY <1>4, <1>5, <1>6 DEF World
<1>8. PICK covers : covers = UNION {Covers(world, h) : h \in GetItem(r.cap, r.holder)}
  OBVIOUS
<1>9. /\ covers \subseteq Covers(world, r.holder)
      /\ r.holder \in Served[r.cap] => covers = Covers(world, r.holder)
  BY <1>8 DEF GetItem
<1>10. PICK ids : ids = {r.holder} \cup covers \cup {r.item}
  OBVIOUS
<1>11. ids \in SUBSET Items
  BY <1>4, <1>7, <1>9, <1>10 DEF Covers
<1>12. Only(ws, ids, r.item)
  <2> SUFFICES ASSUME NEW i \in ids \ {r.item}
               PROVE  i \in {v.holder[r.item]} \cup Covers(world, v.holder[r.item])
    BY <1>5, <1>6 DEF Only
  <2> QED
    BY <1>5, <1>9, <1>10
<1>13. Whole(ws, ids, r.item, r.cap)
  <2> SUFFICES ASSUME NEW h \in Items, \A w \in ws : w.holder[r.item] = h
               PROVE  /\ h \in ids
                      /\ h \in Served[r.cap] =>
                           \A i \in Items : (\A w \in ws : i \in Covers(w, h)) => i \in ids
    BY DEF Whole
  <2>1. h = r.holder
    BY <1>5
  <2> QED
    BY <1>6, <1>9, <1>10, <2>1
<1>14. PICK q : q = [r EXCEPT !.phase = "keeping", !.ids = ids]
  OBVIOUS
<1>15. /\ q \in Player /\ q.phase = "keeping" /\ q.ids = ids
       /\ q.item = r.item /\ q.cap = r.cap /\ q.now = r.now
  BY <1>11, <1>14 DEF Player
<1>16. PlayerRight(q)
  BY <1>3, <1>4, <1>12, <1>13, <1>15 DEF PlayerRight, TheFile
<1>17. Playing(p, q)
  BY <1>1, <1>8, <1>10, <1>14 DEF AskHolder, Writes
<1> QED
  BY <1>2, <1>15, <1>16, <1>17, PlaysStep

(* What is kept is what was asked since the request began.                 *)
LEMMA KeepFileStep ==
  ASSUME IInv, NEW p \in Players, KeepFile(p)
  PROVE  IInv'
<1>1. PICK r \in Player : r = player[p]
  BY DEF IInv, TypeOK
<1>2. /\ r.phase = "keeping" /\ PlayerRight(r) /\ clock \in Nat /\ begun' \in 0 .. MaxRequests
  BY <1>1 DEF IInv, TypeOK, FilesInv, KeepFile
<1>3. PICK k : k = <<r.cap, r.item>>
  OBVIOUS
<1>4. PICK a : a = [ids |-> r.ids, until |-> r.now + FileTTL]
  OBVIOUS
<1>5. PICK q : q = [r EXCEPT !.phase = "answered"]
  OBVIOUS
<1>6. file' = Keep(file, k, a, r.now) /\ Playing(p, q)
  BY <1>1, <1>3, <1>4, <1>5 DEF KeepFile
<1>7. /\ r.now \in Nat /\ r.now <= clock /\ r.item \in Items /\ r.cap \in Caps
      /\ r.ids \in SUBSET Items /\ TheFile(Since(r.now - 1), r.ids, r.item, r.cap)
  BY <1>2 DEF Player, PlayerRight
<1>8. /\ q \in Player /\ q.phase = "answered"
      /\ q.ids = r.ids /\ q.item = r.item /\ q.cap = r.cap /\ q.now = r.now
  BY <1>5 DEF Player
<1>9. r.now - FileTTL <= r.now - 1 /\ r.now - FileTTL \in Int /\ r.now - 1 \in Int
  BY <1>7
<1>10. Since(r.now - 1) \subseteq Since(r.now - FileTTL)
  BY <1>9, SinceLonger DEF IInv
<1>11. PlayerRight(q)
  BY <1>7, <1>8, <1>10, MoreWorlds DEF PlayerRight
<1>12. k \in Caps \X Items /\ k[1] = r.cap /\ k[2] = r.item
  BY <1>3, <1>7
<1>13. a \in [ids : SUBSET Items, until : Nat] /\ a.ids = r.ids /\ a.until = r.now + FileTTL
  BY <1>4, <1>7
<1>14. a.until - FileTTL - 1 = r.now - 1
  BY <1>7, <1>13
<1>15. \A j \in DOMAIN file' : (j = k /\ file'[j] = a) \/ (j \in DOMAIN file /\ file'[j] = file[j])
  BY <1>6, KeptOrKnown
<1>16. /\ DOMAIN file' \subseteq Caps \X Items
       /\ \A j \in DOMAIN file' : file'[j] \in [ids : SUBSET Items, until : Nat]
  BY <1>12, <1>13, <1>15 DEF IInv, TypeOK
<1>17. \A t : Since(t)' = Since(t)
  BY <1>6 DEF Playing, Since
<1>18. ASSUME NEW j \in DOMAIN file'
       PROVE  TheFile(Since(file'[j].until - FileTTL - 1), file'[j].ids, j[2], j[1])
  <2>1. CASE j = k /\ file'[j] = a
    BY <1>7, <1>12, <1>13, <1>14, <2>1
  <2>2. CASE j \in DOMAIN file /\ file'[j] = file[j]
    BY <2>2 DEF IInv, FilesInv, FileRight
  <2> QED
    BY <1>15, <2>1, <2>2
<1>19. FileRight'
  BY <1>17, <1>18 DEF FileRight
<1> QED
  BY <1>2, <1>6, <1>8, <1>11, <1>16, <1>19, PlayerStep

LEMMA FileFailsStep ==
  ASSUME IInv, NEW p \in Players, FileFails(p)
  PROVE  IInv'
<1>1. PICK r \in Player : r = player[p]
  BY DEF IInv, TypeOK
<1>2. /\ r.phase \in {"asking", "asking holder"} /\ PlayerRight(r)
      /\ begun' \in 0 .. MaxRequests /\ UNCHANGED file
  BY <1>1 DEF IInv, TypeOK, FilesInv, FileFails, Writes
<1>3. r.now <= clock /\ r.item \in Items /\ r.cap \in Caps
  BY <1>2 DEF PlayerRight
<1>4. PICK q : q = [r EXCEPT !.phase = "alone", !.ids = {r.item}]
  OBVIOUS
<1>5. /\ q \in Player /\ q.phase = "alone"
      /\ q.item = r.item /\ q.cap = r.cap /\ q.now = r.now
  BY <1>3, <1>4 DEF Player
<1>6. PlayerRight(q)
  BY <1>3, <1>5 DEF PlayerRight
<1>7. Playing(p, q)
  BY <1>1, <1>4 DEF FileFails, Writes
<1> QED
  BY <1>2, <1>5, <1>6, <1>7, PlaysStep

-----------------------------------------------------------------------------
(* Every step keeps it; it holds at first.                                 *)
LEMMA Step == IInv /\ [Next]_vars => IInv'
<1> SUFFICES ASSUME IInv, [Next]_vars PROVE IInv'
  OBVIOUS
<1>1. CASE Tick \/ (\E s \in Settings : ChangeSetting(s)) \/ (\E i, h \in Items : Link(i, h))
  BY <1>1, WorldSteps
<1>2. ASSUME NEW p \in Screens,
             \/ Languages(p) \/ AskManager(p) \/ ManagerAnswers(p) \/ ManagerFails(p)
             \/ KeepLanguages(p) \/ FallBack(p)
      PROVE  IInv'
  BY <1>2, LanguagesStep, AskStep, AnswersStep, FailsStep, KeepsStep, FallsBackStep
<1>3. ASSUME NEW p \in Players,
             \/ \E i \in Items, cap \in Caps : FileEpisodes(p, i, cap)
             \/ AskItem(p) \/ AskHolder(p) \/ KeepFile(p) \/ FileFails(p)
      PROVE  IInv'
  BY <1>3, FileEpisodesStep, AskItemStep, AskHolderStep, KeepFileStep, FileFailsStep
<1>4. CASE UNCHANGED vars
  <2>1. UNCHANGED <<clock, world, changes, last, file, screen, player, begun, past>>
    BY <1>4 DEF vars
  <2>2. \A t : Since(t)' = Since(t)
    BY <2>1 DEF Since
  <2>3. TypeOK'
    BY <2>1 DEF IInv, TypeOK
  <2>4. WorldInv' /\ LanguagesInv'
    BY <2>1, <2>2 DEF IInv, WorldInv, LanguagesInv, LastRight, ScreenRight, Said, MaxAge
  <2>5. FilesInv'
    BY <2>1, <2>2 DEF IInv, FilesInv, FileRight, PlayerRight
  <2> QED
    BY <2>3, <2>4, <2>5 DEF IInv
<1> QED
  BY <1>1, <1>2, <1>3, <1>4 DEF Next

LEMMA Starts == Init => IInv
<1> SUFFICES ASSUME Init PROVE IInv
  OBVIOUS
<1>1. None \in Answer /\ None.asked = -1
  BY DEF None, Answer
<1>2. past \in [0 .. MaxTime -> SUBSET World] /\ past[0] = {First}
  BY DEF Init
<1>3. TypeOK
  BY <1>1, <1>2, IdleScreenIs, IdlePlayerIs DEF Init, TypeOK
<1>4. WorldInv
  BY <1>2 DEF Init, WorldInv
<1>5. LanguagesInv
  BY <1>1, IdleScreenIs DEF Init, LanguagesInv, LastRight, ScreenRight
<1>6. FilesInv
  <2>1. DOMAIN file = {}
    BY DEF Init
  <2>2. FileRight
    BY <2>1 DEF FileRight
  <2>3. PlayerRight(IdlePlayer)
    BY IdlePlayerIs DEF Init, PlayerRight
  <2>4. \A p \in Players : player[p] = IdlePlayer
    BY DEF Init
  <2> QED
    BY <2>2, <2>3, <2>4 DEF FilesInv
<1> QED
  BY <1>3, <1>4, <1>5, <1>6 DEF IInv

LEMMA Invariance == Spec => []IInv
  BY Starts, Step, PTL DEF Spec

(* Every variable keeps its type.                                          *)
THEOREM TypeCorrect == Spec => []TypeOK
<1>1. IInv => TypeOK
  BY DEF IInv
<1> QED
  BY <1>1, Invariance, PTL

(* The languages never go back, whichever request came in first and        *)
(* whichever ask failed: a request's own ask, or the kept answer, is no    *)
(* older than what had been served when it began (languages, keep).        *)
THEOREM LanguagesNeverGoBack == Spec => []ServedInOrder
<1>1. IInv => ServedInOrder
  <2> SUFFICES ASSUME IInv, NEW p \in Screens, screen[p].phase = "answered"
               PROVE  screen[p].served.asked >= screen[p].floor
    BY DEF ServedInOrder
  <2>1. PICK s \in Screen : s = screen[p]
    BY DEF IInv, TypeOK
  <2>2. s.served.asked \in Int /\ s.floor \in Int
    BY DEF Screen, Answer
  <2>3. s.floor <= s.served.asked
    BY <2>1 DEF IInv, LanguagesInv, ScreenRight
  <2> QED
    BY <2>1, <2>2, <2>3
<1> QED
  BY <1>1, Invariance, PTL

(* An admin's change reaches every client within languagesFresh, and       *)
(* within languagesStale one whose own ask failed (languages, kept).       *)
THEOREM ChangesReachTheClients == Spec => []LanguagesOfTheirTime
<1>1. IInv => LanguagesOfTheirTime
  <2> SUFFICES ASSUME IInv, NEW p \in Screens, screen[p].phase = "answered"
               PROVE  \E w \in Since(screen[p].at - MaxAge(screen[p])) :
                        w.setting = screen[p].served.said
    BY DEF LanguagesOfTheirTime, MaxAge
  <2> QED
    BY DEF IInv, LanguagesInv, ScreenRight, Said
<1> QED
  BY <1>1, Invariance, PTL

(* A position is written with the whole of its file and nothing of         *)
(* another's, whatever is scanned between the two asks, whichever asks     *)
(* failed and however old the kept answer is (FileEpisodes, fileEpisodes). *)
THEOREM PositionsOfOneFile == Spec => []FilesOfTheirTime
<1>1. IInv => FilesOfTheirTime
  <2> SUFFICES ASSUME IInv, NEW p \in Players, player[p].phase = "answered"
               PROVE  OnlyTheFile(player[p]) /\ AllOfTheFile(player[p])
    BY DEF FilesOfTheirTime
  <2>1. PICK r \in Player : r = player[p]
    BY DEF IInv, TypeOK
  <2>2. /\ TheFile(Seen(r), r.ids, r.item, r.cap) /\ r.item \in Items
    BY <2>1 DEF IInv, FilesInv, PlayerRight, Seen
  <2>3. Seen(r) \subseteq World
    BY SinceWorlds DEF IInv, Seen
  <2>4. OnlyTheFile(r)
    BY <2>2 DEF TheFile, Only, OnlyTheFile
  <2>5. {w.holder[r.item] : w \in Seen(r)} \subseteq Items
    BY <2>2, <2>3 DEF World
  <2>6. AllOfTheFile(r)
    BY <2>2, <2>5 DEF TheFile, Whole, AllOfTheFile
  <2> QED
    BY <2>1, <2>4, <2>6
<1> QED
  BY <1>1, Invariance, PTL

-----------------------------------------------------------------------------
(* Startup.                                                                *)
USE StartupAssumption

(* A server that exits keeps the types.                                    *)
LEMMA ExitType ==
  ASSUME StartupTypeOK, NEW s \in Servers, Exit(s)
  PROVE  /\ phase' \in [Servers -> Phases]
         /\ verifier' \in [Servers -> {"unmade", "made", "failed"}]
         /\ overtaken' \subseteq Servers
BY DEF StartupTypeOK, Exit, Go, Phases

(* Every step keeps the types.                                             *)
LEMMA StartupTypeStep == StartupTypeOK /\ [StartupNext]_startupVars => StartupTypeOK'
<1> SUFFICES ASSUME StartupTypeOK, [StartupNext]_startupVars PROVE StartupTypeOK'
  OBVIOUS
<1> USE DEF StartupTypeOK, database, shelf, identity
<1>1. ASSUME NEW s \in Servers, Start(s) PROVE StartupTypeOK'
  BY <1>1 DEF Start, Go, At, Phases
<1>2. ASSUME NEW s \in Servers, Create(s) PROVE StartupTypeOK'
  BY <1>2 DEF Create, Go, At, Phases
<1>3. ASSUME NEW s \in Servers, Check(s) PROVE StartupTypeOK'
  <2>1. next' \in [Servers -> 1 .. Last + 1]
    BY <1>3 DEF Check
  <2>2. phase' \in [Servers -> Phases]
    BY <1>3 DEF Check, Go, Phases
  <2>3. \A b \in Servers : phase'[b] \in {"applying", "recording"} => next'[b] # Last + 1
    BY <1>3 DEF Check, Go, At
  <2> QED
    BY <1>3, <2>1, <2>2, <2>3 DEF Check
<1>4. ASSUME NEW s \in Servers, Apply(s) PROVE StartupTypeOK'
  <2>1. applied' \subseteq 1 .. Last
    <3>1. phase[s] = "applying" /\ applied' = applied \cup {next[s]}
      BY <1>4 DEF Apply, At
    <3>2. next[s] \in 1 .. Last
      BY <3>1
    <3> QED
      BY <3>1, <3>2
  <2>2. list' \subseteq Titles /\ late' \subseteq Titles /\ hasList' \in BOOLEAN
    BY <1>4 DEF Apply, Moved
  <2>3. phase' \in [Servers -> Phases]
    BY <1>4 DEF Apply, Go, Phases
  <2>4. \A b \in Servers : phase'[b] \in {"applying", "recording"} => next'[b] # Last + 1
    BY <1>4 DEF Apply, Go, At
  <2> QED
    BY <1>4, <2>1, <2>2, <2>3, <2>4 DEF Apply
<1>5. ASSUME NEW s \in Servers, Record(s) PROVE StartupTypeOK'
  <2>1. CASE Exit(s) /\ next' = next /\ recorded' = recorded
    BY <1>5, <2>1, ExitType DEF Record, Exit, Go
  <2>2. CASE next' = [next EXCEPT ![s] = @ + 1] /\ Go(s, "checking") /\ verifier' = verifier
    <3>1. next' \in [Servers -> 1 .. Last + 1]
      BY <1>5, <2>2 DEF Record, At
    <3>2. phase' \in [Servers -> Phases]
      BY <2>2 DEF Go, Phases
    <3>3. \A b \in Servers : phase'[b] \in {"applying", "recording"} => next'[b] # Last + 1
      BY <2>2 DEF Go
    <3>4. phase[s] = "recording" /\ next[s] \in 1 .. Last
      BY <1>5 DEF Record, At
    <3>5. recorded' \subseteq 1 .. Last
      BY <1>5, <3>4 DEF Record
    <3>6. overtaken' \subseteq Servers
      BY <1>5 DEF Record, Exit
    <3> QED
      BY <1>5, <2>2, <3>1, <3>2, <3>3, <3>5, <3>6 DEF Record
  <2> QED
    BY <1>5, <2>1, <2>2 DEF Record
<1>6. ASSUME NEW s \in Servers, Crash(s) PROVE StartupTypeOK'
  <2>1. crashes' \in 0 .. MaxCrashes
    BY <1>6 DEF Crash
  <2>2. \A b \in Servers : phase'[b] \in {"applying", "recording"} => next'[b] # Last + 1
    BY <1>6 DEF Crash, Exit, Go
  <2> QED
    BY <1>6, <2>1, <2>2, ExitType DEF Crash
<1>7. ASSUME NEW s \in Servers, NEW made \in BOOLEAN, Bearer(s, made) PROVE StartupTypeOK'
  BY <1>7 DEF Bearer
<1>8. ASSUME NEW t \in Titles, Add(t) \/ Remove(t) \/ OldAdd(t) \/ OldRemove(t) PROVE StartupTypeOK'
  BY <1>8 DEF Add, Remove, OldAdd, OldRemove
<1>9. CASE DeleteData \/ OldStops \/ OldStarts \/ IssuerTurns
  BY <1>9 DEF DeleteData, OldStops, OldStarts, IssuerTurns
<1>10. CASE UNCHANGED startupVars
  BY <1>10 DEF startupVars
<1> QED
  BY <1>1, <1>2, <1>3, <1>4, <1>5, <1>6, <1>7, <1>8, <1>9, <1>10 DEF StartupNext, ServerStep, Asked

(* Every variable keeps its type.                                          *)
THEOREM StartupTypeCorrect == StartupSpec => []StartupTypeOK
<1>1. StartupInit => StartupTypeOK
  <2> SUFFICES ASSUME StartupInit PROVE StartupTypeOK
    OBVIOUS
  <2>1. PICK k \in 0 .. Move - 1 : applied = 1 .. k
    BY DEF StartupInit
  <2>2. applied \subseteq 1 .. Last
    BY <2>1
  <2>3. recorded \subseteq 1 .. Last
    BY <2>2 DEF StartupInit
  <2>4. /\ phase \in [Servers -> Phases]
        /\ next \in [Servers -> 1 .. Last + 1]
        /\ \A s \in Servers : phase[s] \notin {"applying", "recording"}
        /\ verifier \in [Servers -> {"unmade", "made", "failed"}]
    BY DEF StartupInit, Phases
  <2>5. /\ table \in BOOLEAN /\ old \in BOOLEAN
        /\ hasList \in BOOLEAN /\ issuer \in BOOLEAN
    BY DEF StartupInit
  <2>6. crashes \in 0 .. MaxCrashes
    BY DEF StartupInit
  <2>7. /\ legacy \subseteq Titles /\ list \subseteq Titles /\ removed \subseteq Titles
        /\ late \subseteq Titles /\ overtaken \subseteq Servers
    BY DEF StartupInit
  <2> QED
    BY <2>2, <2>3, <2>4, <2>5, <2>6, <2>7 DEF StartupTypeOK
<1> QED
  BY <1>1, StartupTypeStep, PTL DEF StartupSpec

-----------------------------------------------------------------------------
(* Migrations are applied in order and recorded once applied, and a server *)
(* that is past one found it recorded; who is at a recorded one was        *)
(* overtaken at it.                                                        *)
MigrateInv ==
  /\ \A n \in applied : 1 .. n \subseteq applied
  /\ recorded \subseteq applied
  /\ \A s \in Servers :
       /\ phase[s] \in {"checking", "applying", "recording"} =>
            1 .. next[s] - 1 \subseteq recorded
       /\ phase[s] = "creating" => next[s] = 1
       /\ phase[s] = "recording" => next[s] \in applied
       /\ phase[s] = "applying" /\ next[s] \in recorded => s \in overtaken
       /\ phase[s] = "serving" => recorded = 1 .. Last
  /\ removed # {} => Move \in recorded

(* Every step keeps it.                                                    *)
LEMMA MigrateStep == StartupTypeOK /\ MigrateInv /\ [StartupNext]_startupVars => MigrateInv'
<1> SUFFICES ASSUME StartupTypeOK, MigrateInv, [StartupNext]_startupVars PROVE MigrateInv'
  OBVIOUS
<1> USE DEF StartupTypeOK, MigrateInv, database, shelf, identity
<1>1. ASSUME NEW s \in Servers, Start(s) \/ Create(s) PROVE MigrateInv'
  <2>1. CASE Start(s)
    BY <2>1 DEF Start, Go, At
  <2>2. CASE Create(s)
    BY <2>2 DEF Create, Go, At
  <2> QED
    BY <1>1, <2>1, <2>2
<1>2. ASSUME NEW s \in Servers, Check(s) PROVE MigrateInv'
  <2>1. CASE next[s] > Last
    <3>1. recorded = 1 .. Last
      <4>0. phase[s] = "checking" /\ next[s] \in 1 .. Last + 1
        BY <1>2 DEF Check, At
      <4>1. phase[s] = "checking" /\ next[s] = Last + 1
        BY ONLY <2>1, <4>0, StartupAssumption DEF StartupAssumption
      <4>2. 1 .. (Last + 1) - 1 \subseteq recorded
        BY <4>1
      <4>3. (Last + 1) - 1 = Last
        OBVIOUS
      <4> QED
        BY <4>2, <4>3
    <3> QED
      BY <1>2, <2>1, <3>1 DEF Check, Go, At
  <2>2. CASE next[s] \in recorded /\ next[s] <= Last
    <3>1. 1 .. (next[s] + 1) - 1 \subseteq recorded
      BY <1>2, <2>2 DEF Check, At
    <3>2. /\ next' = [next EXCEPT ![s] = next[s] + 1] /\ phase[s] = "checking"
          /\ UNCHANGED <<phase, recorded, applied, removed, overtaken>>
      BY <1>2, <2>2 DEF Check, At
    <3>3. next'[s] = next[s] + 1 /\ \A b \in Servers \ {s} : next'[b] = next[b]
      BY <3>2
    <3>4. 1 .. next'[s] - 1 \subseteq recorded
      BY <3>1, <3>3
    <3> QED
      BY <3>2, <3>3, <3>4
  <2>3. CASE next[s] \notin recorded /\ next[s] <= Last
    BY <1>2, <2>3 DEF Check, Go, At
  <2> QED
    BY <2>1, <2>2, <2>3
<1>3. ASSUME NEW s \in Servers, Apply(s) PROVE MigrateInv'
  <2>1. /\ applied' = applied \cup {next[s]} /\ 1 .. next[s] - 1 \subseteq applied
        /\ phase' = [phase EXCEPT ![s] = "recording"]
        /\ UNCHANGED <<next, table, recorded, removed, overtaken>>
    BY <1>3 DEF Apply, Go, At
  <2>2. next[s] \in Nat /\ 1 .. next[s] = 1 .. next[s] - 1 \cup {next[s]}
    OBVIOUS
  <2>3. \A n \in applied : 1 .. n \subseteq applied
    OBVIOUS
  <2>4. \A n \in applied' : 1 .. n \subseteq applied'
    BY ONLY <2>1, <2>2, <2>3
  <2> QED
    BY <1>3, <2>1, <2>4 DEF Apply, At
<1>4. ASSUME NEW s \in Servers, Record(s) PROVE MigrateInv'
  <2>1. CASE next[s] \in recorded
    BY <1>4, <2>1 DEF Record, Exit, Go, At
  <2>2. CASE next[s] \notin recorded
    <3>1. /\ recorded' = recorded \cup {next[s]}
          /\ next' = [next EXCEPT ![s] = @ + 1]
          /\ phase' = [phase EXCEPT ![s] = "checking"]
          /\ overtaken' = overtaken \cup
               {b \in Servers \ {s} : phase[b] = "applying" /\ next[b] = next[s]}
          /\ UNCHANGED <<table, applied, removed>>
          /\ phase[s] = "recording"
      BY <1>4, <2>2 DEF Record, Go, At
    <3>2. 1 .. next'[s] - 1 \subseteq recorded'
      BY <3>1
    <3>3. \A b \in Servers : phase[b] # "serving"
      BY <2>2, <3>1
    <3> QED
      BY <3>1, <3>2, <3>3
  <2> QED
    BY <2>1, <2>2
<1>5. ASSUME NEW s \in Servers, Crash(s) PROVE MigrateInv'
  BY <1>5 DEF Crash, Exit, Go
<1>6. ASSUME NEW s \in Servers, NEW made \in BOOLEAN, Bearer(s, made) PROVE MigrateInv'
  BY <1>6 DEF Bearer
<1>7. ASSUME NEW t \in Titles, Add(t) \/ Remove(t) PROVE MigrateInv'
  BY <1>7 DEF Add, Remove, Serving, At
<1>8. ASSUME NEW t \in Titles, OldAdd(t) \/ OldRemove(t) PROVE MigrateInv'
  BY <1>8 DEF OldAdd, OldRemove
<1>9. CASE DeleteData
  BY <1>9 DEF DeleteData, Serving, At
<1>10. CASE OldStops \/ OldStarts \/ IssuerTurns
  BY <1>10 DEF OldStops, OldStarts, IssuerTurns
<1>11. CASE UNCHANGED startupVars
  BY <1>11 DEF startupVars
<1> QED
  BY <1>1, <1>2, <1>3, <1>4, <1>5, <1>6, <1>7, <1>8, <1>9, <1>10, <1>11
  DEF StartupNext, ServerStep, Asked

(* It holds at first: an earlier version left a beginning of the           *)
(* migrations, all of them recorded or none.                               *)
LEMMA MigrateInit == StartupInit => MigrateInv
<1> SUFFICES ASSUME StartupInit PROVE MigrateInv
  OBVIOUS
<1>1. PICK k \in 0 .. Move - 1 : applied = 1 .. k
  BY DEF StartupInit
<1>2. \A n \in applied : 1 .. n \subseteq applied
  BY <1>1
<1> QED
  BY <1>2 DEF StartupInit, MigrateInv

(* No server serves before each migration was applied, nor is one applied  *)
(* before those it builds on, wherever servers crash and however many      *)
(* start at once (Migrate).                                                *)
THEOREM MigratedBeforeServing == StartupSpec => []ServesMigrated
<1>1. StartupTypeOK /\ MigrateInv => ServesMigrated
  BY DEF StartupTypeOK, MigrateInv, ServesMigrated, Serving, At
<1> QED
  BY <1>1, MigrateInit, MigrateStep, StartupTypeCorrect, PTL DEF StartupSpec

-----------------------------------------------------------------------------
(* A legacy title is on the list once 005 is through, or was taken off it  *)
(* - or was written after the copy: restarts that run 005 again lose no    *)
(* other (005_named_watchlists.sql).                                       *)
THEOREM OnlyLateTitlesAreLost == StartupSpec => []OnlyLateOnesAreLost
<1>1. StartupInit => OnlyLateOnesAreLost
  <2> SUFFICES ASSUME StartupInit PROVE Move \notin applied
    BY DEF OnlyLateOnesAreLost
  <2>1. PICK k \in 0 .. Move - 1 : applied = 1 .. k
    BY DEF StartupInit
  <2> QED
    BY <2>1
<1>2. StartupTypeOK /\ OnlyLateOnesAreLost /\ [StartupNext]_startupVars => OnlyLateOnesAreLost'
  <2> SUFFICES ASSUME StartupTypeOK, OnlyLateOnesAreLost, [StartupNext]_startupVars
               PROVE  OnlyLateOnesAreLost'
    OBVIOUS
  <2> USE DEF OnlyLateOnesAreLost, database, shelf, identity
  <2>1. ASSUME NEW s \in Servers, Apply(s) PROVE OnlyLateOnesAreLost'
    BY <2>1 DEF Apply, Moved
  <2>2. ASSUME NEW s \in Servers,
               Start(s) \/ Create(s) \/ Check(s) \/ Record(s) \/ Crash(s) \/ Asked(s)
        PROVE  OnlyLateOnesAreLost'
    BY <2>2 DEF Start, Create, Check, Record, Crash, Asked, Bearer
  <2>3. ASSUME NEW t \in Titles, Add(t) \/ Remove(t) \/ OldAdd(t) \/ OldRemove(t)
        PROVE  OnlyLateOnesAreLost'
    BY <2>3 DEF Add, Remove, OldAdd, OldRemove
  <2>4. CASE DeleteData \/ OldStops \/ OldStarts \/ IssuerTurns
    BY <2>4 DEF DeleteData, OldStops, OldStarts, IssuerTurns
  <2>5. CASE UNCHANGED startupVars
    BY <2>5 DEF startupVars
  <2> QED
    BY <2>1, <2>2, <2>3, <2>4, <2>5 DEF StartupNext, ServerStep
<1> QED
  BY <1>1, <1>2, StartupTypeCorrect, PTL DEF StartupSpec

(* A title taken off the list comes back only by a server at 005 that      *)
(* another one overtook: never by a restart of one that was not (Migrate). *)
THEOREM BackByTheOvertaken == StartupSpec => BackByOvertakenOnly
<1>1. StartupTypeOK /\ MigrateInv /\ [StartupNext]_startupVars => [ByAnOvertaken]_startupVars
  <2> SUFFICES ASSUME StartupTypeOK, MigrateInv, StartupNext, ComesBack
               PROVE  \E s \in overtaken : At(s, "applying") /\ phase'[s] = "recording"
    BY DEF ByAnOvertaken
  <2> USE DEF database, shelf, identity
  <2>1. PICK t \in removed \cap removed' : t \notin list /\ t \in list'
    BY DEF ComesBack
  <2>2. PICK s \in Servers : Apply(s)
    BY <2>1 DEF StartupNext, ServerStep, Start, Create, Check, Record, Crash, Asked, Bearer,
                Add, Remove, OldAdd, OldRemove, DeleteData, OldStops, OldStarts, IssuerTurns
  <2>3. next[s] = Move
    BY <2>1, <2>2 DEF Apply
  <2>4. s \in overtaken
    BY <2>1, <2>2, <2>3 DEF MigrateInv, Apply, At
  <2> QED
    BY <2>2, <2>4 DEF Apply, Go, At, StartupTypeOK
<1> QED
  BY <1>1, MigrateInit, MigrateStep, StartupTypeCorrect, PTL DEF StartupSpec, BackByOvertakenOnly
=============================================================================
