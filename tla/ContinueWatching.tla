-------------------------- MODULE ContinueWatching --------------------------
(***************************************************************************)
(* What a viewer goes on with: Continue Watching (continue_watching.go)    *)
(* and the next episode of a series (series.go).  The feed is read in      *)
(* several queries - the rows first, then for each row what katalog-api    *)
(* says of it, which episodes are watched, where the next one was left -   *)
(* while the viewer's devices write.  What the handlers share is only      *)
(* read, so one request at a time shows what any number would.             *)
(***************************************************************************)
EXTENDS Finished, Sequences, FiniteSets

CONSTANTS
  Items,      \* films and episodes
  Series,
  SeriesOf,   \* item -> its series, or NoSeries for a film
  Listing,    \* series -> its episodes, in order, as katalog-api lists them
  Specials,   \* the episodes of season 0
  Holder,     \* item -> the item whose file it plays (coveredBy), or itself
  Length,     \* how long each title is, in seconds
  Positions,  \* the positions devices save
  RowLimit,   \* so many rows are looked at (40)
  CardLimit,  \* so many cards are shown (20)
  MaxWrites,  \* bound: how often the devices write
  Dismissed,  \* bound: the titles the viewer may dismiss
  NoSeries, NoRow, NoItem

MinResumeSec == 30

Row   == [pos : Nat, at : Nat]
Stage == {"todo", "picked", "card", "dropped"}

(* A row on its way to a card: from is its item, item the card's.          *)
Entry == [stage : Stage, from : Items, finished : BOOLEAN, item : Items, pos : Nat, upNext : BOOLEAN]

RangeOf(l) == {l[n] : n \in DOMAIN l}
File(i)    == {j \in Items : Holder[j] = Holder[i]}

ASSUME ItemsAssumption == IsFiniteSet(Items)
ASSUME SeriesAssumption ==
  /\ SeriesOf \in [Items -> Series \cup {NoSeries}] /\ NoSeries \notin Series
  /\ Listing \in [Series -> Seq(Items)] /\ Specials \subseteq Items
  /\ \A s \in Series : \A m, n \in DOMAIN Listing[s] :
       /\ SeriesOf[Listing[s][n]] = s
       /\ m # n => Listing[s][m] # Listing[s][n]
ASSUME HolderAssumption ==
  /\ Holder \in [Items -> Items]
  /\ \A i \in Items : Holder[Holder[i]] = Holder[i] /\ SeriesOf[Holder[i]] = SeriesOf[i]
  /\ \A i \in Items : SeriesOf[i] = NoSeries => Holder[i] = i
(* The episodes of one file follow each other in the list.                 *)
ASSUME FilesAssumption ==
  \A s \in Series : \A k, m, n \in DOMAIN Listing[s] :
    k <= m /\ m <= n /\ Holder[Listing[s][k]] = Holder[Listing[s][n]] =>
      Holder[Listing[s][m]] = Holder[Listing[s][n]]
ASSUME BoundsAssumption ==
  /\ Length \in Nat /\ Positions \subseteq Nat
  /\ RowLimit \in Nat \ {0} /\ CardLimit \in Nat \ {0} /\ MaxWrites \in Nat
  /\ Dismissed \subseteq Items
ASSUME NoneAssumption == NoRow \notin Row /\ NoItem \notin Items

VARIABLES
  rows,      \* playback_progress: item -> row
  watched,   \* watched_history: the items marked
  pending,   \* the items a finishing save is about to mark
  writes,    \* how often the devices wrote
  phase,     \* the request: "idle", "reading", "answered", or "next"
  entries,   \* Continue Watching's rows, newest first, and what became of them
  cards,     \* the indices of entries that are shown
  next,      \* next-episode's answer: the anchor, and the episode after it
  \* History variables: the properties read them, no guard does.
  failed,    \* a call of the request failed, and it went on without
  apart,     \* items whose file was last written one episode alone
  dismissed, \* items taken off Continue Watching, and not written since
  off,       \* ... before the request began
  seen       \* what was so at some time since the request began

reads   == <<phase, entries, cards, next, failed>>
writing == <<rows, watched, pending, writes, apart, dismissed>>
history == <<off, seen>>
vars    == <<reads, writing, history>>

AtEnd(pos)  == Finished(pos, Length)
Listed(i)   == rows[i] # NoRow /\ rows[i].pos > MinResumeSec
Done(i)     == AtEnd(rows[i].pos) \/ i \in watched
Underway(i) == Listed(i) /\ ~Done(i)

Seen == [watched |-> watched, unwatched |-> Items \ watched,
         left |-> {i \in Items : ~Underway(i)}, apart |-> apart]

NothingSeen == [watched |-> {}, unwatched |-> {}, left |-> {}, apart |-> {}]

Nowhere == [anchor |-> NoItem, next |-> NoItem]

Init ==
  /\ rows = [i \in Items |-> NoRow]
  /\ watched = {} /\ pending = {} /\ writes = 0
  /\ apart = {} /\ dismissed = {} /\ off = {}
  /\ seen = NothingSeen
  /\ phase = "idle" /\ entries = <<>> /\ cards = {} /\ failed = FALSE
  /\ next = Nowhere

-----------------------------------------------------------------------------
(* The devices' writes, one at a time (Playback models them in full).  An  *)
(* answer is forgotten with the next of them.                              *)
Watching ==
  IF phase = "reading"
  THEN /\ seen' = [watched |-> seen.watched \cup watched',
                   unwatched |-> seen.unwatched \cup (Items \ watched'),
                   left |-> seen.left \cup {i \in Items : ~Underway(i)'},
                   apart |-> seen.apart \cup apart']
       /\ UNCHANGED reads
  ELSE /\ phase' = "idle" /\ entries' = <<>> /\ cards' = {} /\ failed' = FALSE
       /\ next' = Nowhere
       /\ seen' = NothingSeen

Write ==
  /\ writes < MaxWrites
  /\ writes' = writes + 1

(* A position is saved for every episode of the file (whole), or for the   *)
(* item alone, as katalog-api did not answer; a finishing one is then      *)
(* marked, but for a dismiss.                                              *)
Save(i, pos, whole, dismiss) ==
  LET ids == IF whole THEN File(i) ELSE {i}
  IN
  /\ pending = {}
  /\ Write
  /\ rows' = [j \in Items |-> IF j \in ids THEN [pos |-> pos, at |-> writes'] ELSE rows[j]]
  /\ pending' = IF AtEnd(pos) /\ ~dismiss THEN ids ELSE {}
  /\ apart' = IF ids = File(i) THEN apart \ ids ELSE apart \cup File(i)
  /\ dismissed' = IF dismiss THEN dismissed \cup ids ELSE dismissed \ ids
  /\ off' = IF phase = "reading" THEN off \ ids ELSE {}
  /\ UNCHANGED watched
  /\ Watching

Mark ==
  /\ pending # {}
  /\ watched' = watched \cup pending
  /\ pending' = {}
  /\ off' = IF phase = "reading" THEN off ELSE {}
  /\ UNCHANGED <<rows, writes, apart, dismissed>>
  /\ Watching

MarkFails ==
  /\ pending # {}
  /\ pending' = {}
  /\ off' = IF phase = "reading" THEN off ELSE {}
  /\ UNCHANGED <<rows, watched, writes, apart, dismissed>>
  /\ Watching

(* The viewer marks a title, or takes the mark back.                       *)
Toggle(i, whole, mark) ==
  LET ids == IF whole THEN File(i) ELSE {i}
  IN
  /\ Write
  /\ watched' = IF mark THEN watched \cup ids ELSE watched \ ids
  /\ apart' = IF ids = File(i) THEN apart ELSE apart \cup File(i)
  /\ off' = IF phase = "reading" THEN off ELSE {}
  /\ UNCHANGED <<rows, pending, dismissed>>
  /\ Watching

-----------------------------------------------------------------------------
(* The episodes of a series.                                               *)
IndexOf(l, i) == CHOOSE n \in DOMAIN l : l[n] = i
SameFile(l, m, n) == Holder[l[m]] = Holder[l[n]]

(* Fault: the episode after, of the same file or not.                      *)
FileEndOfOne(l, n) == n

(* fileEnd: the last episode listed of the file l[n] plays.                *)
FileEnd(l, n) ==
  CHOOSE m \in n .. Len(l) : SameFile(l, m, n) /\ \A k \in m + 1 .. Len(l) : ~SameFile(l, k, n)

(* Fault: a file's first episode stands for it.                            *)
WatchedFirst(l, n, w) == l[n] \in w

(* watchedFile: one of the file's episodes is.                             *)
WatchedFile(l, n, w) == \E m \in n .. FileEnd(l, n) : SameFile(l, m, n) /\ l[m] \in w

(* Fault: the neighbour, or none.                                          *)
FreshNeighbour(l, n, w) ==
  {m \in {FileEnd(l, n) + 1} : m <= Len(l) /\ ~WatchedFile(l, m, w)}

(* The files after l[n]'s of which nothing is watched, by their first      *)
(* episodes: the walk of buildCWEntry ends at the first of them.           *)
FirstOfFile(l, n) == \A m \in 1 .. n - 1 : ~SameFile(l, m, n)

Fresh(l, n, w) ==
  {m \in FileEnd(l, n) + 1 .. Len(l) : FirstOfFile(l, m) /\ ~WatchedFile(l, m, w)}

FirstIn(s) == CHOOSE m \in s : \A k \in s : m <= k

(* firstEpisode and episodeAfter; 0 at the end of the series.              *)
FirstEpisode(l) ==
  LET regular == {n \in DOMAIN l : l[n] \notin Specials}
  IN  IF regular = {} THEN 1 ELSE FirstIn(regular)

EpisodeAfter(l, n) ==
  LET after == {m \in n + 1 .. Len(l) : l[n] \in Specials \/ l[m] \notin Specials}
  IN  IF after = {} THEN 0 ELSE FirstIn(after)

-----------------------------------------------------------------------------
(* Continue Watching.                                                      *)

(* Newest first, ties in any order; the oldest past the limit are left out.*)
Newest ==
  LET rs == {i \in Items : Listed(i)}
      n  == IF Cardinality(rs) < RowLimit THEN Cardinality(rs) ELSE RowLimit
  IN  {q \in [1 .. n -> rs] :
         /\ \A a, b \in 1 .. n : a < b => q[a] # q[b] /\ rows[q[a]].at >= rows[q[b]].at
         /\ \A a \in 1 .. n, j \in rs \ RangeOf(q) : rows[q[a]].at >= rows[j].at}

(* ListContinueWatching: the request's first query.                        *)
Begin(q) ==
  /\ phase # "reading"
  /\ q \in Newest
  /\ phase' = "reading"
  /\ entries' = [k \in DOMAIN q |->
       [stage |-> "todo", from |-> q[k], finished |-> Done(q[k]),
        item |-> q[k], pos |-> rows[q[k]].pos, upNext |-> FALSE]]
  /\ cards' = {} /\ failed' = FALSE
  /\ next' = Nowhere
  /\ off' = dismissed
  /\ seen' = Seen
  /\ UNCHANGED writing

Becomes(k, e) ==
  /\ entries' = [entries EXCEPT ![k] = e]
  /\ UNCHANGED <<phase, cards, next, writing, history>>

(* katalog-api does not answer for the row's item, or knows none, or its   *)
(* series' episodes are not to be had: no card.                            *)
Drop(k) ==
  /\ phase = "reading" /\ k \in DOMAIN entries
  /\ entries[k].stage = "todo"
  /\ Becomes(k, [entries[k] EXCEPT !.stage = "dropped"])
  /\ failed' = TRUE

(* An unfinished row: its file's card, by the holder; its own where the    *)
(* holder is not to be had.                                                *)
Show(k, i) ==
  /\ phase = "reading" /\ k \in DOMAIN entries
  /\ entries[k].stage = "todo" /\ ~entries[k].finished
  /\ i \in {Holder[entries[k].from], entries[k].from}
  /\ Becomes(k, [entries[k] EXCEPT !.stage = "card", !.item = i])
  /\ UNCHANGED failed

(* A finished one: the first file after its own of which nothing is        *)
(* watched, as the marks are now; unread ones, where the query fails or is *)
(* cut off, are none.                                                      *)
Pick(k, w) ==
  LET e     == entries[k]
      l     == Listing[SeriesOf[e.from]]
      fresh == Fresh(l, IndexOf(l, e.from), w)
  IN
  /\ phase = "reading" /\ k \in DOMAIN entries
  /\ e.stage = "todo" /\ e.finished
  /\ w \subseteq watched
  /\ IF SeriesOf[e.from] = NoSeries THEN Becomes(k, [e EXCEPT !.stage = "dropped"])
     ELSE IF e.from \notin RangeOf(l) THEN Becomes(k, [e EXCEPT !.stage = "dropped"])
     ELSE IF fresh = {} THEN Becomes(k, [e EXCEPT !.stage = "dropped"])
     ELSE Becomes(k, [e EXCEPT !.stage = "picked", !.item = l[FirstIn(fresh)], !.pos = 0, !.upNext = TRUE])
  /\ failed' = (failed \/ w # watched)

(* GetResume: the row's position, none of a finished title.                *)
ResumeOf(i) == IF rows[i] = NoRow \/ AtEnd(rows[i].pos) THEN 0 ELSE rows[i].pos

(* Fault: the next one always starts over.                                 *)
ResumeAtStart(k, pos) ==
  /\ phase = "reading" /\ k \in DOMAIN entries
  /\ entries[k].stage = "picked"
  /\ pos = ResumeOf(entries[k].item)
  /\ Becomes(k, [entries[k] EXCEPT !.stage = "card"])
  /\ UNCHANGED failed

(* Where the next one was left, as the rows are now.                       *)
Resume(k, pos) ==
  LET e == entries[k]
  IN
  /\ phase = "reading" /\ k \in DOMAIN entries
  /\ e.stage = "picked"
  /\ pos \in {ResumeOf(e.item), 0}
  /\ Becomes(k, IF pos > MinResumeSec THEN [e EXCEPT !.stage = "card", !.pos = pos, !.upNext = FALSE]
                ELSE [e EXCEPT !.stage = "card"])
  /\ failed' = (failed \/ pos # ResumeOf(e.item))

(* Fault: cards of one title are one, of one file two.                     *)
SameTitle(a, b) == entries[a].item = entries[b].item

SameCard(a, b) == Holder[entries[a].item] = Holder[entries[b].item]

(* One card a file, the newest row's.                                      *)
FirstCards ==
  LET shown == {k \in DOMAIN entries : entries[k].stage = "card"}
  IN  {k \in shown : \A j \in shown : j < k => ~SameCard(j, k)}

(* Fault: the limit is looked at a card late.                              *)
UpToPast(ks) == {k \in ks : Cardinality({j \in ks : j < k}) <= CardLimit}

UpTo(ks) == {k \in ks : Cardinality({j \in ks : j < k}) < CardLimit}

Answer ==
  /\ phase = "reading"
  /\ \A k \in DOMAIN entries : entries[k].stage \in {"card", "dropped"}
  /\ phase' = "answered"
  /\ cards' = UpTo(FirstCards)
  /\ UNCHANGED <<entries, next, failed, writing, history>>

(* The next episode after one the client names, or else after the one the  *)
(* viewer was last at (LastWatchedEpisode), or the first: where there is   *)
(* none, or it cannot be read.                                             *)
Latest(l) ==
  LET at == {i \in RangeOf(l) : rows[i] # NoRow}
  IN  {i \in at : \A j \in at : rows[j].at <= rows[i].at}

Anchors(l, after) == IF after \in RangeOf(l) THEN {after} ELSE Latest(l) \cup {NoItem}

NextEpisode(s, after) ==
  LET l == Listing[s]
      Following(i) == EpisodeAfter(l, FileEnd(l, IndexOf(l, i)))
  IN
  /\ phase # "reading"
  /\ l # <<>>
  /\ phase' = "next"
  /\ \E i \in Anchors(l, after) :
       /\ next' = [anchor |-> i,
                   next |-> IF i = NoItem THEN l[FirstEpisode(l)]
                            ELSE IF Following(i) = 0 THEN NoItem ELSE l[Following(i)]]
       /\ failed' = (i = NoItem /\ Latest(l) # {})
  /\ entries' = <<>> /\ cards' = {}
  /\ off' = {} /\ seen' = NothingSeen
  /\ UNCHANGED writing

Next ==
  \/ \E i \in Items, whole \in BOOLEAN :
       \/ \E pos \in Positions : Save(i, pos, whole, FALSE)
       \/ i \in Dismissed /\ Save(i, Length, whole, TRUE)
       \/ \E mark \in BOOLEAN : Toggle(i, whole, mark)
  \/ Mark \/ MarkFails
  \/ phase # "reading" /\ \E q \in Newest : Begin(q)
  \/ \E k \in 1 .. RowLimit :
       \/ Drop(k)
       \/ \E i \in Items : Show(k, i)
       \/ \E w \in SUBSET watched : Pick(k, w)
       \/ \E pos \in Positions \cup {0, Length} : Resume(k, pos)
  \/ Answer
  \/ \E s \in Series, after \in Items \cup {NoItem} : NextEpisode(s, after)

Spec == Init /\ [][Next]_vars

-----------------------------------------------------------------------------
WritingOK ==
  /\ rows \in [Items -> Row \cup {NoRow}]
  /\ watched \subseteq Items /\ pending \subseteq Items
  /\ writes \in 0 .. MaxWrites
  /\ apart \subseteq Items /\ dismissed \subseteq Items

RequestOK ==
  /\ phase \in {"idle", "reading", "answered", "next"}
  /\ entries \in Seq(Entry) /\ Len(entries) <= RowLimit
  /\ cards \subseteq DOMAIN entries /\ Cardinality(cards) <= CardLimit
  /\ next \in [anchor : Items \cup {NoItem}, next : Items \cup {NoItem}]
  /\ failed \in BOOLEAN

SeenOK ==
  /\ off \subseteq Items
  /\ seen \in [watched : SUBSET Items, unwatched : SUBSET Items,
               left : SUBSET Items, apart : SUBSET Items]

TypeOK == WritingOK /\ RequestOK /\ SeenOK

(* However rows, files and next episodes collide, a file is one card: the  *)
(* episode after a finished one may be in progress itself, two rows of one *)
(* series may have the same next, a file of several episodes has a row     *)
(* each.                                                                   *)
OneCardPerFile ==
  phase = "answered" =>
    \A a, b \in cards : a # b => Holder[entries[a].item] # Holder[entries[b].item]

(* Past the file it follows, none of its file's episodes marked, and some  *)
(* episode marked of every file in between.                                *)
IsNew(e) ==
  LET l == Listing[SeriesOf[e.from]]
  IN  \E a, c \in DOMAIN l :
        /\ l[a] = e.from /\ l[c] = e.item
        /\ a < c /\ Holder[l[a]] # Holder[l[c]]
        /\ File(l[c]) \cap RangeOf(l) \subseteq seen.unwatched
        /\ \A m \in a .. c : Holder[l[m]] \notin {Holder[l[a]], Holder[l[c]]} =>
             \E j \in File(l[m]) : j \in seen.watched

(* The card that follows a finished episode is past its file and new: at   *)
(* some time of the request, no episode of its file was marked, and every  *)
(* file in between had one that was.                                       *)
UpNextIsNew ==
  phase = "answered" /\ ~failed =>
    \A k \in cards : entries[k].finished => IsNew(entries[k])

Crowded(k) == Cardinality({c \in cards : c < k}) = CardLimit

(* A title that is in progress throughout the request, among the rows      *)
(* looked at, has a card that resumes it, unless newer ones fill the feed: *)
(* not one that starts it over as another row's next.  (Its file's rows    *)
(* must agree: katalog-api answered when it was last written.)             *)
ResumesAreThere ==
  phase = "answered" /\ ~failed =>
    \A k \in DOMAIN entries :
      \/ entries[k].from \in seen.left \cup seen.apart
      \/ Crowded(k)
      \/ \E c \in cards :
           /\ Holder[entries[c].item] = Holder[entries[k].from]
           /\ ~entries[c].upNext /\ entries[c].pos > MinResumeSec

(* A finished episode's series goes on: if a later file is unwatched       *)
(* throughout, some card is of a later file, unless newer ones fill the    *)
(* feed.                                                                   *)
SeriesGoesOn ==
  phase = "answered" /\ ~failed =>
    \A k \in DOMAIN entries :
      LET l == Listing[SeriesOf[entries[k].from]]
          later(a) == {m \in a .. Len(l) : Holder[l[m]] # Holder[l[a]]}
      IN
      entries[k].finished /\ SeriesOf[entries[k].from] # NoSeries /\ ~Crowded(k) =>
        \A a \in DOMAIN l :
          /\ l[a] = entries[k].from
          /\ \E m \in later(a) : File(l[m]) \cap seen.watched = {}
          => \E c \in cards, m \in later(a) : Holder[entries[c].item] = Holder[l[m]]

(* The next episode is of another file, skips no regular one, and is       *)
(* regular if the anchor's file is from there on.                          *)
NextIsAfterTheFile ==
  phase = "next" /\ next.anchor # NoItem =>
    LET l == Listing[SeriesOf[next.anchor]]
        regular(m) == l[m] \notin Specials
    IN
    \A a \in DOMAIN l : l[a] = next.anchor =>
      LET later == {m \in a .. Len(l) : Holder[l[m]] # Holder[l[a]]}
      IN
      /\ next.next = NoItem => \A m \in later : ~regular(m)
      /\ next.next # NoItem => \E n \in later :
           /\ l[n] = next.next
           /\ \A m \in later : m < n => ~regular(m)
           /\ (\A m \in (a .. Len(l)) \ later : regular(m)) => regular(n)

(* What a viewer took off Continue Watching, and has not played since, is  *)
(* not on it (progress.go's Dismiss), its file's rows being of one mind.   *)
DismissedIsOff ==
  phase = "answered" /\ ~failed => \A k \in cards : entries[k].item \notin off \ seen.apart
=============================================================================
