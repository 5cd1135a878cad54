-------------------------------- MODULE Kept --------------------------------
(***************************************************************************)
(* Two answers of the catalog services that chino-api keeps for everyone:  *)
(* the instance's subtitle languages, katalog-manager's                    *)
(* (internal/http/subtitle_languages.go), and the episodes of one file,    *)
(* katalog-api's (internal/katalog/files.go), which every write of a       *)
(* position goes to (internal/http/files.go).  Requests read a fresh       *)
(* answer, or ask and keep; they overlap, and asks are slow, late, or fail. *)
(* The languages are one answer, kept past its time for when an ask fails; *)
(* a file takes up to two asks, and its answers are a table's.             *)
(***************************************************************************)
EXTENDS Table

CONSTANTS
  Screens,       \* clients that ask for the languages, a request each at a time
  Players,       \* clients that write a position, a request each at a time
  Settings,      \* the lists of languages
  Items,         \* the episodes
  Caps,          \* the caps of the viewers, "no cap" one of them
  Served,        \* cap -> the items katalog-api serves it
  Nothing,       \* no answer; no item
  First,         \* the setting, and item -> its file's holder, at first
  FreshFor,      \* languagesFresh, in ticks
  StaleFor,      \* languagesStale, in ticks
  FileTTL,       \* fileTTL, in ticks
  Timeout,       \* languagesTimeout and fileAskTimeout, in ticks
  MaxTime,       \* bound: the clock stops there
  MaxChanges,    \* bound: how often the settings or the files change
  MaxRequests    \* bound: how many requests there are in all

(* The setting, and who holds each episode's file: an episode with a file  *)
(* of its own holds it.                                                    *)
World == [setting : Settings, holder : [Items -> Items]]

Answer == [said : Settings \cup {Nothing}, asked : Int]

Screen == [phase : {"idle", "looked", "asking", "keeping", "failed", "answered", "refused"},
           asked : Nat, at : Nat, served : Answer, floor : Int, late : BOOLEAN]

Player == [phase : {"idle", "asking", "asking holder", "keeping", "answered", "alone"},
           item : Items \cup {Nothing}, cap : Caps \cup {Nothing}, now : Nat,
           holder : Items \cup {Nothing}, ids : SUBSET Items]

None == [said |-> Nothing, asked |-> -1]

IdleScreen == [phase |-> "idle", asked |-> 0, at |-> 0, served |-> None, floor |-> -1,
               late |-> FALSE]
IdlePlayer == [phase |-> "idle", item |-> Nothing, cap |-> Nothing, now |-> 0,
               holder |-> Nothing, ids |-> {}]

ASSUME WorldAssumption ==
  /\ First \in World /\ Served \in [Caps -> SUBSET Items]
  /\ Nothing \notin Settings \cup Items \cup Caps
ASSUME KeptBoundsAssumption ==
  /\ FreshFor \in Nat \ {0} /\ StaleFor \in Nat /\ StaleFor > FreshFor
  /\ FileTTL \in Nat \ {0} /\ Timeout \in Nat /\ MaxAnswers \in Nat \ {0}
  /\ MaxTime \in Nat /\ MaxChanges \in Nat /\ MaxRequests \in Nat

VARIABLES
  clock,
  world,    \* the catalog services': the World now
  changes,  \* how often it changed
  last,     \* subtitleLanguages.langs and .asked: the last answer
  file,     \* answers.file: <<cap, item>> -> the file's episodes, and until when
  screen,   \* screen -> its request
  player,   \* player -> its request
  begun,    \* how many requests there were
  \* History variable: the properties read it, no guard does.
  past      \* tick -> the worlds there were in it

vars == <<clock, world, changes, last, file, screen, player, begun, past>>

Init ==
  /\ clock = 0
  /\ world = First
  /\ changes = 0
  /\ last = None
  /\ file = [k \in {} |-> 0]
  /\ screen = [p \in Screens |-> IdleScreen]
  /\ player = [p \in Players |-> IdlePlayer]
  /\ begun = 0
  /\ past = [t \in 0 .. MaxTime |-> IF t = 0 THEN {First} ELSE {}]

-----------------------------------------------------------------------------
(* The clock, the admin and the scans.                                     *)
Tick ==
  /\ clock < MaxTime
  /\ clock' = clock + 1
  /\ past' = [past EXCEPT ![clock + 1] = {world}]
  /\ UNCHANGED <<world, changes, last, file, screen, player, begun>>

Becomes(w) ==
  /\ changes < MaxChanges
  /\ changes' = changes + 1
  /\ world' = w
  /\ past' = [past EXCEPT ![clock] = @ \cup {w}]
  /\ UNCHANGED <<clock, last, file, screen, player, begun>>

ChangeSetting(s) == s # world.setting /\ Becomes([world EXCEPT !.setting = s])

Covers(w, h) == {i \in Items \ {h} : w.holder[i] = h}

(* A scan links an episode that covers none to another's file, or unlinks  *)
(* it.                                                                     *)
Link(i, h) ==
  /\ world.holder[i] # h
  /\ Covers(world, i) = {}
  /\ h # i => world.holder[h] = h
  /\ Becomes([world EXCEPT !.holder[i] = h])

-----------------------------------------------------------------------------
(* The subtitle languages.                                                 *)
Screening(p, s) ==
  screen' = [screen EXCEPT ![p] = s] /\ UNCHANGED <<clock, world, changes, file, player, past>>

Asks(p, s) == Screening(p, s) /\ UNCHANGED <<last, begun>>

(* kept: the last answer, when it was asked for less than maxAge ago.      *)
Younger(maxAge) == last # None /\ clock - last.asked < maxAge

Serve(s, a, at) == [s EXCEPT !.phase = "answered", !.served = a, !.at = at]

(* The newest answer that was served by now.                               *)
Newest ==
  LET served == {screen[p].served.asked : p \in Screens} \cup {screen[p].floor : p \in Screens}
  IN  CHOOSE a \in served : \A b \in served : b <= a

Languages(p) ==
  LET s == [IdleScreen EXCEPT !.phase = "looked", !.floor = Newest]
  IN
  /\ screen[p].phase \in {"idle", "answered", "refused"}
  /\ begun < MaxRequests
  /\ begun' = begun + 1
  /\ Screening(p, IF Younger(FreshFor) THEN Serve(s, last, clock) ELSE s)
  /\ UNCHANGED last

AskManager(p) ==
  /\ screen[p].phase = "looked"
  /\ Asks(p, [screen[p] EXCEPT !.phase = "asking", !.asked = clock])

ManagerAnswers(p) ==
  /\ screen[p].phase = "asking"
  /\ clock <= screen[p].asked + Timeout
  /\ Asks(p, [screen[p] EXCEPT !.phase = "keeping", !.served.said = world.setting])

(* No katalog-manager, a timeout, a status that is not 2xx, another body.  *)
ManagerFails(p) ==
  /\ screen[p].phase = "asking"
  /\ Asks(p, [screen[p] EXCEPT !.phase = "failed", !.late = TRUE])

(* Faults: the last to come is kept; its age begins when it comes.         *)
KeptInAnyOrder(a) == a

KeptFromNow(a) == IF a.asked < last.asked THEN last ELSE [a EXCEPT !.asked = clock]

(* keep: unless the last answer was asked for later.                       *)
Later(a) == IF a.asked < last.asked THEN last ELSE a

(* The request serves its own answer, whichever is kept.                   *)
KeepLanguages(p) ==
  LET s == screen[p]
      own == [s.served EXCEPT !.asked = s.asked]
  IN
  /\ s.phase = "keeping"
  /\ last' = Later(own)
  /\ Screening(p, Serve(s, own, s.asked))
  /\ UNCHANGED begun

(* Fault: an answer without languages is served where there is none.       *)
FallBackEmpty(p) ==
  /\ screen[p].phase = "failed"
  /\ Asks(p, Serve(screen[p], IF Younger(StaleFor) THEN last ELSE None, clock))

(* The last answer is served while it is not stale, else 502.              *)
FallBack(p) ==
  /\ screen[p].phase = "failed"
  /\ Asks(p, IF Younger(StaleFor) THEN Serve(screen[p], last, clock)
             ELSE [screen[p] EXCEPT !.phase = "refused"])

-----------------------------------------------------------------------------
(* The episodes of one file.                                               *)
Playing(p, r) ==
  player' = [player EXCEPT ![p] = r] /\ UNCHANGED <<clock, world, changes, last, screen, past>>

Writes(p, r) == Playing(p, r) /\ UNCHANGED <<file, begun>>

(* FileEpisodes: what is kept, while it is fresh.                          *)
FileEpisodes(p, i, cap) ==
  LET r == [IdlePlayer EXCEPT !.phase = "asking", !.item = i, !.cap = cap, !.now = clock]
  IN
  /\ player[p].phase \in {"idle", "answered", "alone"}
  /\ begun < MaxRequests
  /\ begun' = begun + 1
  /\ Playing(p, IF Fresh(file, <<cap, i>>, clock)
                THEN [r EXCEPT !.phase = "answered", !.ids = file[<<cap, i>>].ids] ELSE r)
  /\ UNCHANGED file

InTime(r) == clock <= r.now + Timeout

(* GetItem: an item the viewer is not served is none, and no error.        *)
GetItem(cap, i) == {i} \cap Served[cap]

(* fileEpisodes: an item that is not served is alone, a holder has its     *)
(* covers, and a covered episode's holder is asked.                        *)
AskItem(p) ==
  LET r == player[p]
      h == world.holder[r.item]
  IN
  /\ r.phase = "asking"
  /\ InTime(r)
  /\ Writes(p, IF GetItem(r.cap, r.item) = {} THEN [r EXCEPT !.phase = "keeping", !.ids = {r.item}]
               ELSE IF h = r.item
               THEN [r EXCEPT !.phase = "keeping", !.ids = {h} \cup Covers(world, h)]
               ELSE [r EXCEPT !.phase = "asking holder", !.holder = h])

(* A holder that is not served is the file's all the same, without covers. *)
AskHolder(p) ==
  LET r == player[p]
      covers == UNION {Covers(world, h) : h \in GetItem(r.cap, r.holder)}
  IN
  /\ r.phase = "asking holder"
  /\ InTime(r)
  /\ Writes(p, [r EXCEPT !.phase = "keeping", !.ids = {r.holder} \cup covers \cup {r.item}])

KeepFile(p) ==
  LET r == player[p]
  IN
  /\ r.phase = "keeping"
  /\ file' = Keep(file, <<r.cap, r.item>>, [ids |-> r.ids, until |-> r.now + FileTTL], r.now)
  /\ Playing(p, [r EXCEPT !.phase = "answered"])
  /\ UNCHANGED begun

(* Fault: a holder that could not be asked is one that is not served.      *)
FailHolderAlone(p) ==
  /\ player[p].phase = "asking holder"
  /\ Writes(p, [player[p] EXCEPT !.phase = "keeping", !.ids = {player[p].holder, player[p].item}])

(* fileOf: katalog-api failed, or was late: the item is written alone, and *)
(* nothing is kept.                                                        *)
FileFails(p) ==
  /\ player[p].phase \in {"asking", "asking holder"}
  /\ Writes(p, [player[p] EXCEPT !.phase = "alone", !.ids = {player[p].item}])

Next ==
  \/ Tick
  \/ \E s \in Settings : ChangeSetting(s)
  \/ \E i, h \in Items : Link(i, h)
  \/ \E p \in Screens :
       \/ Languages(p) \/ AskManager(p) \/ ManagerAnswers(p) \/ ManagerFails(p)
       \/ KeepLanguages(p) \/ FallBack(p)
  \/ \E p \in Players :
       \/ \E i \in Items, cap \in Caps : FileEpisodes(p, i, cap)
       \/ AskItem(p) \/ AskHolder(p) \/ KeepFile(p) \/ FileFails(p)

Spec == Init /\ [][Next]_vars

-----------------------------------------------------------------------------
(* Properties.                                                             *)

(* The types: the files are kept by cap and item; an answer that was       *)
(* served has languages, and one that was refused has none.                *)
TypeOK ==
  /\ clock \in 0 .. MaxTime
  /\ world \in World
  /\ changes \in 0 .. MaxChanges
  /\ last \in Answer
  /\ DOMAIN file \subseteq Caps \X Items
  /\ \A k \in DOMAIN file : file[k] \in [ids : SUBSET Items, until : Nat]
  /\ screen \in [Screens -> Screen]
  /\ \A p \in Screens : screen[p].phase = "answered" <=> screen[p].served.asked >= 0
  /\ player \in [Players -> Player]
  /\ begun \in 0 .. MaxRequests
  /\ past \in [0 .. MaxTime -> SUBSET World]

(* The worlds there were after tick t.                                     *)
Since(t) == UNION {past[u] : u \in {v \in 0 .. clock : v > t}}

(* The languages never go back: a request serves no answer that was asked  *)
(* for before one which was served by the time it began, whichever came in *)
(* first and whichever asks failed (languages, keep).                      *)
ServedInOrder ==
  \A p \in Screens : screen[p].phase = "answered" => screen[p].served.asked >= screen[p].floor

(* An admin's change reaches the clients within languagesFresh, and within *)
(* languagesStale those whose own ask failed: what is served was the       *)
(* setting less than that before it was looked up or asked for, or later   *)
(* (languages, kept).                                                      *)
LanguagesOfTheirTime ==
  \A p \in Screens : screen[p].phase = "answered" =>
    LET maxAge == IF screen[p].late THEN StaleFor ELSE FreshFor
    IN  \E w \in Since(screen[p].at - maxAge) : w.setting = screen[p].served.said

(* The worlds in which an answered player's file may have been asked       *)
(* about: none that ended fileTTL or more before it began.                 *)
Seen(r) == Since(r.now - FileTTL)

(* Nobody else's file: every episode written was of one file with the item *)
(* or with the holder it had, at the time.                                 *)
OnlyTheFile(r) ==
  \A i \in r.ids \ {r.item} : \E w1, w2 \in Seen(r) :
    i \in {w1.holder[r.item]} \cup Covers(w2, w1.holder[r.item])

(* The whole of it: what the cap sees of a file that stayed as it was.     *)
AllOfTheFile(r) ==
  \A h \in {w.holder[r.item] : w \in Seen(r)} :
    (r.item \in Served[r.cap] /\ \A w \in Seen(r) : w.holder[r.item] = h) =>
      /\ h \in r.ids
      /\ h \in Served[r.cap] => \A i \in Items :
           (\A w \in Seen(r) : i \in Covers(w, h)) => i \in r.ids

(* A position is written with the whole of its file and nothing of         *)
(* another's, whatever is scanned between the two asks, and a failed ask   *)
(* leaves no half of a file behind (FileEpisodes, fileEpisodes, fileOf).   *)
FilesOfTheirTime ==
  \A p \in Players : player[p].phase = "answered" =>
    OnlyTheFile(player[p]) /\ AllOfTheFile(player[p])
=============================================================================
