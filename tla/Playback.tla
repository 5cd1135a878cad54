------------------------------ MODULE Playback ------------------------------
(***************************************************************************)
(* One viewer's playback state - playback_progress and watched_history -   *)
(* and the handlers that write it: POST progress, POST watched and DELETE  *)
(* watched, sent by several devices at once.  A handler is several steps:  *)
(* it asks katalog-api which episodes the file holds (AskTimeout at most), *)
(* runs a statement, and after a finishing position a second one.  A       *)
(* statement is two steps: Postgres fixes its now() as it begins, and it   *)
(* takes effect later (a row lock may hold it up), on all its rows at once.*)
(***************************************************************************)
EXTENDS Finished

CONSTANTS
  Devices,      \* the viewer's devices, one request each at a time
  Items,        \* titles and episodes
  FileOf,       \* item -> the episodes of the file it plays, itself one
  Bodies,       \* what the devices send to each route
  AskTimeout,   \* fileAskTimeout, in ticks of the clock
  DurationSpan, \* the ages a time.Duration holds are below it, in ticks
  MaxTime,      \* bound: the clock stops there
  MaxRequests,  \* bound: how many requests the devices send in all
  NoRow,        \* no playback_progress row
  NoMark        \* no watched_history row

Ops    == {"progress", "mark", "unmark"}
Phases == {"asking", "saving", "marking", "unmarking"}
Body   == [pos : Int, dur : Int, dismiss : BOOLEAN, live : BOOLEAN, age : Int]
Row    == [pos : Nat, dur : Int, at : Int]

Request == [phase : Phases, op : Ops, item : Items, body : Body,
            arrived : Int, ids : SUBSET Items, stamp : Int]
Idle    == [phase |-> "idle"]

ASSUME FileOfAssumption ==
  /\ FileOf \in [Items -> SUBSET Items]
  /\ \A i \in Items : i \in FileOf[i]
  /\ \A i \in Items : \A j \in FileOf[i] : FileOf[j] = FileOf[i]
ASSUME BodiesAssumption == Bodies \in [Ops -> SUBSET Body]
ASSUME TimeAssumption   ==
  /\ AskTimeout \in Nat /\ MaxTime \in Nat /\ MaxRequests \in Nat
  /\ DurationSpan \in Nat \ {0}
ASSUME NoneAssumption   == NoRow \notin Row /\ NoMark \notin Int

VARIABLES
  clock,        \* the database's clock
  progress,     \* playback_progress: item -> row
  watched,      \* watched_history: item -> watched_at
  req,          \* device -> its request under way
  sent,         \* how many requests were sent
  seen,         \* device -> the marks its DELETE began with, not gone since
  \* History variables: the properties read them, no guard does.
  src,          \* item -> where its row comes from
  excused,      \* items unmarked, or whose mark failed, since their last save
  posApart,     \* items whose file was last written one episode alone
  markApart     \* the same of the watched marks

history == <<src, excused, posApart, markApart>>
vars    == <<clock, progress, watched, req, sent, seen, history>>

(* A row's source: when the viewer was at the position, whether a Duration *)
(* holds how long ago that was, and what was sent.                         *)
Source   == [played : Int, held : BOOLEAN, live : BOOLEAN, dismiss : BOOLEAN, dur : Int]
NoSource == [played |-> 0, held |-> TRUE, live |-> TRUE, dismiss |-> FALSE, dur |-> 0]

Init ==
  /\ clock = 0
  /\ progress = [i \in Items |-> NoRow]
  /\ watched = [i \in Items |-> NoMark]
  /\ req = [d \in Devices |-> Idle]
  /\ sent = 0
  /\ seen = [d \in Devices |-> {}]
  /\ src = [i \in Items |-> NoSource]
  /\ excused = {}
  /\ posApart = {}
  /\ markApart = {}

-----------------------------------------------------------------------------
(* How long before the request it was played: played_ms_ago, an age below  *)
(* zero counting as now's; 0 without one.                                  *)
Age(body) == IF body.live THEN 0 ELSE Greatest(body.age, 0)

(* The same as a time.Duration: an age past what it holds comes round to   *)
(* another one, or to one below zero, which the statement takes as now's.  *)
Wrapped(age) == ((age + DurationSpan) % (2 * DurationSpan)) - DurationSpan

Ago(body) == Greatest(Wrapped(Age(body)), 0)

(* Fault: positions kept by a phone never finish a title.                  *)
FinishesLiveOnly(body) ==
  /\ body.live
  /\ ~body.dismiss
  /\ Finished(body.pos, body.dur)

(* A position marks the title watched: it is in the finished end, and not  *)
(* of a dismiss from Continue Watching.                                    *)
Finishes(body) == ~body.dismiss /\ Finished(body.pos, body.dur)

(* Faults: the played save without its WHERE; a live save of the item      *)
(* asked for, not of its file.                                             *)
WonWhateverIsThere(r) == r.ids

WonByTheItem(r) ==
  IF r.body.live
  THEN r.ids \cap {r.item}
  ELSE {i \in r.ids : progress[i] = NoRow \/ progress[i].at < r.stamp}

(* The items of ids a save begun at stamp writes: all of them for a live   *)
(* position, the ones whose row is older for a position of some time ago.  *)
Won(r) ==
  IF r.body.live
  THEN r.ids
  ELSE {i \in r.ids : progress[i] = NoRow \/ progress[i].at < r.stamp}

SavedRow(r, i) ==
  [pos |-> ClampedPos(r.body.pos),
   dur |-> IF progress[i] = NoRow THEN r.body.dur
           ELSE KeptDur(r.body.dur, progress[i].dur),
   at  |-> r.stamp]

SourceOf(r) ==
  [played |-> r.arrived - Age(r.body), held |-> Age(r.body) < DurationSpan,
   live |-> r.body.live, dismiss |-> r.body.dismiss, dur |-> r.body.dur]

(* The items apart from their file once ids are written, all of them or    *)
(* (whole = FALSE) only where they won.                                    *)
Apart(apart, r, whole) ==
  IF r.ids # FileOf[r.item] THEN apart \cup FileOf[r.item]
  ELSE IF whole THEN apart \ FileOf[r.item]
  ELSE apart

(* The same once a DELETE took the marks it saw: a mark of the file made   *)
(* meanwhile stays, apart from those it took.                              *)
Parted(apart, r, took) ==
  IF r.ids # FileOf[r.item] THEN apart \cup FileOf[r.item]
  ELSE IF \A i \in r.ids \ took : watched[i] = NoMark THEN apart \ FileOf[r.item]
  ELSE IF took = {} THEN apart
  ELSE apart \cup FileOf[r.item]

-----------------------------------------------------------------------------
(* Time passes, but no ask of katalog-api outlives its timeout.            *)
Tick ==
  /\ clock < MaxTime
  /\ \A d \in Devices :
       req[d].phase = "asking" => clock < req[d].arrived + AskTimeout
  /\ clock' = clock + 1
  /\ UNCHANGED <<progress, watched, req, sent, seen, history>>

(* A request comes in and asks for the file (fileOf).                      *)
Arrive(d, op, i, body) ==
  /\ req[d] = Idle
  /\ sent < MaxRequests
  /\ sent' = sent + 1
  /\ req' = [req EXCEPT ![d] =
       [phase |-> "asking", op |-> op, item |-> i, body |-> body,
        arrived |-> clock, ids |-> {}, stamp |-> 0]]
  /\ UNCHANGED <<clock, progress, watched, seen, history>>

(* katalog-api names the file's episodes, or does not answer (the write is *)
(* the item's alone); the first statement begins.                          *)
FirstPhase(op) ==
  CASE op = "progress" -> "saving"
    [] op = "mark"     -> "marking"
    [] op = "unmark"   -> "unmarking"

Answer(d, ids) ==
  /\ req[d].phase = "asking"
  /\ ids \in {FileOf[req[d].item], {req[d].item}}
  /\ req' = [req EXCEPT ![d].phase = FirstPhase(req[d].op),
                        ![d].ids = ids,
                        ![d].stamp = clock - Ago(req[d].body)]
  /\ seen' = [seen EXCEPT ![d] =
       IF req[d].op = "unmark" THEN {i \in ids : watched[i] # NoMark} ELSE {}]
  /\ UNCHANGED <<clock, progress, watched, sent, history>>

(* SaveProgress or SaveProgressPlayed takes effect; of a finishing         *)
(* position the second statement begins, to mark what the first wrote.     *)
Save(d) ==
  LET r   == req[d]
      won == Won(r)
  IN
  /\ r.phase = "saving"
  /\ progress' = [i \in Items |-> IF i \in won THEN SavedRow(r, i) ELSE progress[i]]
  /\ req' = [req EXCEPT ![d] =
       IF Finishes(r.body) /\ won # {}
       THEN [r EXCEPT !.phase = "marking", !.ids = won, !.stamp = clock - Ago(r.body)]
       ELSE Idle]
  /\ src' = [i \in Items |-> IF i \in won THEN SourceOf(r) ELSE src[i]]
  /\ excused' = excused \ won
  /\ posApart' = Apart(posApart, r, r.body.live)
  /\ UNCHANGED <<clock, sent, seen, watched, markApart>>

(* MarkWatched (now's, over any mark) or MarkWatchedPlayed (never over a   *)
(* later one) takes effect.                                                *)
Mark(d) ==
  LET r == req[d] IN
  /\ r.phase = "marking"
  /\ watched' = [i \in Items |->
       IF i \notin r.ids THEN watched[i]
       ELSE IF r.body.live \/ watched[i] = NoMark THEN r.stamp
       ELSE Greatest(watched[i], r.stamp)]
  /\ req' = [req EXCEPT ![d] = Idle]
  /\ markApart' = Apart(markApart, r, r.body.live)
  /\ UNCHANGED <<clock, sent, seen, progress, src, excused, posApart>>

(* Fault: the item alone is unmarked, not its file.                        *)
UnmarkItem(d) ==
  LET r == req[d] IN
  /\ r.phase = "unmarking"
  /\ watched' = [watched EXCEPT ![r.item] = NoMark]
  /\ seen' = [e \in Devices |-> seen[e] \ seen[d]]
  /\ req' = [req EXCEPT ![d] = Idle]
  /\ excused' = excused \cup seen[d]
  /\ markApart' = Parted(markApart, r, seen[d])
  /\ UNCHANGED <<clock, sent, progress, src, posApart>>

(* UnmarkWatched takes effect: the marks its DELETE saw as it began go,    *)
(* also when they were renewed meanwhile; one made meanwhile stays.        *)
Unmark(d) ==
  LET r == req[d] IN
  /\ r.phase = "unmarking"
  /\ watched' = [i \in Items |-> IF i \in seen[d] THEN NoMark ELSE watched[i]]
  /\ seen' = [e \in Devices |-> seen[e] \ seen[d]]
  /\ req' = [req EXCEPT ![d] = Idle]
  /\ excused' = excused \cup seen[d]
  /\ markApart' = Parted(markApart, r, seen[d])
  /\ UNCHANGED <<clock, sent, progress, src, posApart>>

(* A position of d's was saved that finishes i, which is yet to be marked. *)
MarkPending(d, i) ==
  /\ req[d].phase = "marking"
  /\ req[d].op = "progress"
  /\ i \in req[d].ids

(* A request ends before its next statement takes effect: the database     *)
(* fails, the device hangs up, the server restarts.                        *)
Fail(d) ==
  /\ req[d] # Idle
  /\ req' = [req EXCEPT ![d] = Idle]
  /\ seen' = [seen EXCEPT ![d] = {}]
  /\ excused' = excused \cup {i \in Items : MarkPending(d, i)}
  /\ UNCHANGED <<clock, sent, progress, watched, src, posApart, markApart>>

Handle(d) ==
  \/ \E op \in Ops, i \in Items : \E body \in Bodies[op] : Arrive(d, op, i, body)
  \/ \E ids \in SUBSET Items : Answer(d, ids)
  \/ Save(d) \/ Mark(d) \/ Unmark(d)
  \/ Fail(d)

Next == Tick \/ \E d \in Devices : Handle(d)

Spec == Init /\ [][Next]_vars

-----------------------------------------------------------------------------
(* Every variable has its type, and no saved position is below zero.       *)
TypeOK ==
  /\ clock \in 0 .. MaxTime
  /\ progress \in [Items -> Row \cup {NoRow}]
  /\ watched \in [Items -> Int \cup {NoMark}]
  /\ req \in [Devices -> Request \cup {Idle}]
  /\ sent \in 0 .. MaxRequests
  /\ seen \in [Devices -> SUBSET Items]
  /\ src \in [Items -> Source]
  /\ excused \subseteq Items
  /\ posApart \subseteq Items
  /\ markApart \subseteq Items

Written(i)     == progress[i] # NoRow
RowFinished(i) == Written(i) /\ Finished(progress[i].pos, progress[i].dur)

(* A position a device kept while it had no connection replaces one played *)
(* later only by less than an ask of katalog-api takes: its age is counted *)
(* from when its statement begins, not from when it came in                *)
(* (store.SaveProgressPlayed, postProgress).  An age that no Duration      *)
(* holds is taken for another, and its position may replace any.           *)
LateReplacesEarlier ==
  \A i \in Items :
    (src'[i] # src[i] /\ ~src'[i].live /\ src'[i].held /\ Written(i))
      => src[i].played < src'[i].played + AskTimeout

NewerPositionStays == [][LateReplacesEarlier]_vars

(* The episodes of one file have one position, saved at one time, however  *)
(* the devices' requests interleave - but after a write katalog-api could  *)
(* not name the file for, until a live one of the whole file (fileOf).     *)
FileSharesPosition ==
  \A i \in Items \ posApart : \A j \in FileOf[i] :
    \/ ~Written(i) /\ ~Written(j)
    \/ /\ Written(i) /\ Written(j)
       /\ progress[i].pos = progress[j].pos
       /\ progress[i].at = progress[j].at

(* ... and one watched state, but for a mark that came while an unmark's   *)
(* DELETE of a part of the file was under way, until the next of the whole *)
(* file (UnmarkWatched).                                                   *)
FileSharesWatched ==
  \A i \in Items \ markApart : \A j \in FileOf[i] : watched[i] = watched[j]

(* A title whose saved position is in its finished end counts as watched   *)
(* (or its mark is under way), unless it was dismissed, unmarked since, or *)
(* the mark's statement failed.                                            *)
CountsAsWatched(i) ==
  \/ watched[i] # NoMark
  \/ src[i].dismiss
  \/ i \in excused
  \/ \E d \in Devices : MarkPending(d, i)

(* So it is where the position came with the title's length: postProgress  *)
(* decides on the body, the reads on the row, which keeps the longer one.  *)
(* Without a length it need not be, whatever internal/store/finished.go    *)
(* says.                                                                   *)
FinishedWithLengthIsWatched ==
  \A i \in Items : (RowFinished(i) /\ src[i].dur > 0) => CountsAsWatched(i)
=============================================================================
