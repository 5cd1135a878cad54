--------------------------- MODULE PlaybackProofs ---------------------------
(***************************************************************************)
(* What the finished rule does for every position and length, and the      *)
(* properties of Playback, for any number of devices, items, files,        *)
(* positions and ages, and any bound of the clock.                         *)
(***************************************************************************)
EXTENDS Playback, TLAPS

(* The end that finishes a title is at most its second half.               *)
LEMMA TailBounds ==
  ASSUME NEW d \in Nat
  PROVE  FinishedTail(d) \in 0 .. (d \div 2)
BY DEF FinishedTail, Least, Greatest, TailPercent, TailMinSec

(* A title is never finished at its first second, however short, nor at a  *)
(* position below zero, nor where its length is not known (finished.go).   *)
THEOREM NotFinishedAtTheStart ==
  ASSUME NEW d \in Int, NEW p \in Int, p <= 0 \/ d <= 0
  PROVE  ~Finished(p, d)
BY TailBounds DEF Finished

(* A title of a known length is finished at its end: a dismiss, saved      *)
(* there, always takes it off Continue Watching.                           *)
LEMMA FinishedAtTheEnd ==
  ASSUME NEW d \in Int, d > 0
  PROVE  Finished(d, d)
BY TailBounds DEF Finished

(* A position that finishes a title finishes it against any shorter length *)
(* that is known: the end starts no later in a shorter title.              *)
LEMMA FinishedOfAShorter ==
  ASSUME NEW d \in Int, NEW e \in Int, NEW p \in Int,
         d > 0, d <= e, Finished(p, e)
  PROVE  Finished(p, d)
BY DEF Finished, FinishedTail, Least, Greatest, TailPercent, TailMinSec

(* The reads decide on the row, postProgress on the body: of a body with a *)
(* length, a finished row is always a finished body.                       *)
LEMMA FinishedRowFinishedBody ==
  ASSUME NEW p \in Int, NEW d \in Int, NEW e \in Int, d > 0, d <= e,
         Finished(ClampedPos(p), e)
  PROVE  Finished(p, d)
<1>1. ClampedPos(p) \in Int
  BY DEF ClampedPos, Greatest
<1>2. ClampedPos(p) # 0 \/ p = 0
  BY NotFinishedAtTheStart, <1>1
<1>3. ClampedPos(p) = p
  BY <1>2 DEF ClampedPos, Greatest
<1> QED
  BY <1>3, FinishedOfAShorter

(* The rule in SQL is the rule in Go, wherever the database's INTEGER can  *)
(* compute it (finishedSQL).                                               *)
THEOREM SQLIsFinished ==
  ASSUME NEW p \in Int, NEW d \in Int, ~SQLOverflows(d)
  PROVE  FinishedSQL(p, d) = IF Finished(p, d) THEN "yes" ELSE "no"
BY DEF FinishedSQL, Finished, FinishedTail

-----------------------------------------------------------------------------
USE FileOfAssumption, BodiesAssumption, TimeAssumption, NoneAssumption

-----------------------------------------------------------------------------
(* An age is never below zero, whatever a device sends.                    *)
LEMMA AgoType ==
  ASSUME NEW body \in Body
  PROVE  /\ Age(body) \in Nat /\ Ago(body) \in Nat
         /\ Ago(body) <= Age(body)
         /\ Age(body) < DurationSpan => Ago(body) = Age(body)
<1> DEFINE a == Age(body)
           s == DurationSpan
           w == (a + s) % (2 * s)
<1>1. a \in Nat /\ s \in Nat \ {0}
  BY DEF Age, Body, Greatest
<1>2. Ago(body) = Greatest(w - s, 0)
  BY DEF Ago, Wrapped
<1> HIDE DEF a, s
<1>3. w \in Nat /\ w <= a + s /\ (a < s => w = a + s)
  BY ONLY <1>1
<1> HIDE DEF w
<1>4. Greatest(w - s, 0) \in Nat /\ Greatest(w - s, 0) <= a /\ (a < s => Greatest(w - s, 0) = a)
  BY ONLY <1>1, <1>3 DEF Greatest
<1> QED
  BY <1>1, <1>2, <1>4 DEF a, s

(* A save writes a row, its position not below zero.                       *)
LEMMA SavedRowType ==
  ASSUME TypeOK, NEW r \in Request, NEW i \in Items
  PROVE  SavedRow(r, i) \in Row
<1>1. r.body \in Body /\ r.stamp \in Int
  BY DEF Request
<1>2. ClampedPos(r.body.pos) \in Nat
  BY <1>1 DEF Body, ClampedPos, Greatest
<1>3. ASSUME progress[i] # NoRow
      PROVE  KeptDur(r.body.dur, progress[i].dur) \in Int
  BY <1>1, <1>3 DEF TypeOK, Row, Body, KeptDur, Greatest
<1> QED
  BY <1>1, <1>2, <1>3 DEF SavedRow, Row, Body

(* The items written apart from their file are items.                      *)
LEMMA ApartType ==
  ASSUME NEW apart \in SUBSET Items, NEW r \in Request, NEW whole
  PROVE  Apart(apart, r, whole) \in SUBSET Items
BY DEF Apart, Request

(* ... also once a DELETE took a part of it.                               *)
LEMMA PartedType ==
  ASSUME NEW apart \in SUBSET Items, NEW r \in Request, NEW took
  PROVE  Parted(apart, r, took) \in SUBSET Items
BY DEF Parted, Request

(* Every variable keeps its type.                                          *)
THEOREM TypeCorrect == Spec => []TypeOK
<1>1. Init => TypeOK
  BY DEF Init, TypeOK, NoSource, Source, Idle
<1>2. TypeOK /\ [Next]_vars => TypeOK'
  <2> SUFFICES ASSUME TypeOK, [Next]_vars PROVE TypeOK'
    OBVIOUS
  <2>1. CASE Tick
    BY <2>1 DEF Tick, TypeOK, history
  <2>2. ASSUME NEW d \in Devices, NEW op \in Ops, NEW i \in Items,
               NEW body \in Bodies[op], Arrive(d, op, i, body)
        PROVE  TypeOK'
    <3>1. [phase |-> "asking", op |-> op, item |-> i, body |-> body,
           arrived |-> clock, ids |-> {}, stamp |-> 0] \in Request
      BY DEF Request, Phases, TypeOK
    <3> QED
      BY <2>2, <3>1 DEF Arrive, TypeOK, history
  <2>3. ASSUME NEW d \in Devices, NEW ids, Answer(d, ids)
        PROVE  TypeOK'
    <3>1. req[d] \in Request
      BY <2>3 DEF Answer, TypeOK, Idle
    <3>2. ids \subseteq Items
      BY <2>3, <3>1 DEF Answer, Request
    <3>3. clock - Ago(req[d].body) \in Int
      BY <3>1, AgoType DEF TypeOK, Request
    <3>4. req'[d] \in Request
      BY <2>3, <3>1, <3>2, <3>3 DEF Answer, Request, FirstPhase, Phases, Ops, TypeOK
    <3>5. seen' \in [Devices -> SUBSET Items]
      BY <2>3, <3>2 DEF Answer, TypeOK
    <3> QED
      BY <2>3, <3>4, <3>5 DEF Answer, TypeOK, history
  <2>4. ASSUME NEW d \in Devices, Save(d)
        PROVE  TypeOK'
    <3>1. req[d] \in Request
      BY <2>4 DEF Save, TypeOK, Idle
    <3>2. Won(req[d]) \subseteq Items
      BY <3>1 DEF Won, Request
    <3>3. clock - Ago(req[d].body) \in Int /\ SourceOf(req[d]) \in Source
      BY <3>1, AgoType DEF TypeOK, Request, Source, SourceOf, Body
    <3>4. progress' \in [Items -> Row \cup {NoRow}]
      BY <2>4, <3>1, SavedRowType DEF Save, TypeOK
    <3>5. [req[d] EXCEPT !.phase = "marking", !.ids = Won(req[d]),
                         !.stamp = clock - Ago(req[d].body)] \in Request
      BY <3>1, <3>2, <3>3 DEF Request, Phases
    <3>6. req' \in [Devices -> Request \cup {Idle}]
      BY <2>4, <3>5 DEF Save, TypeOK
    <3>7. src' \in [Items -> Source]
      BY <2>4, <3>3 DEF Save, TypeOK
    <3>8. posApart' \subseteq Items
      BY <2>4, <3>1, ApartType DEF Save, TypeOK
    <3> QED
      BY <2>4, <3>4, <3>6, <3>7, <3>8 DEF Save, TypeOK
  <2>5. ASSUME NEW d \in Devices, Mark(d)
        PROVE  TypeOK'
    <3>1. req[d] \in Request
      BY <2>5 DEF Mark, TypeOK, Idle
    <3>2. watched' \in [Items -> Int \cup {NoMark}]
      BY <2>5, <3>1 DEF Mark, TypeOK, Request, Greatest
    <3>3. markApart' \subseteq Items
      BY <2>5, <3>1, ApartType DEF Mark, TypeOK
    <3> QED
      BY <2>5, <3>2, <3>3 DEF Mark, TypeOK
  <2>6. ASSUME NEW d \in Devices, Unmark(d)
        PROVE  TypeOK'
    <3>1. req[d] \in Request
      BY <2>6 DEF Unmark, TypeOK, Idle
    <3>2. markApart' \subseteq Items /\ excused' \subseteq Items
      BY <2>6, <3>1, PartedType DEF Unmark, TypeOK, Request
    <3>3. watched' \in [Items -> Int \cup {NoMark}] /\ seen' \in [Devices -> SUBSET Items]
      BY <2>6 DEF Unmark, TypeOK
    <3> QED
      BY <2>6, <3>2, <3>3 DEF Unmark, TypeOK
  <2>7. ASSUME NEW d \in Devices, Fail(d)
        PROVE  TypeOK'
    BY <2>7 DEF Fail, TypeOK
  <2>8. CASE UNCHANGED vars
    BY <2>8 DEF vars, history, TypeOK
  <2> QED
    BY <2>1, <2>2, <2>3, <2>4, <2>5, <2>6, <2>7, <2>8 DEF Next, Handle
<1> QED
  BY <1>1, <1>2, PTL DEF Spec

-----------------------------------------------------------------------------
(* A statement under way writes episodes of one file only, and a position  *)
(* only when one was sent.                                                 *)
OneFile ==
  \A d \in Devices :
    req[d].phase \in {"saving", "marking", "unmarking"}
      => /\ req[d].ids \subseteq FileOf[req[d].item]
         /\ req[d].phase = "saving" => req[d].op = "progress"

(* A device that is not idle has a request.                                *)
LEMMA ReqTyped ==
  ASSUME TypeOK, NEW d \in Devices, req[d].phase \in Phases
  PROVE  req[d] \in Request
BY DEF TypeOK, Idle, Phases

(* Every step keeps it: fileOf answers with the item's file or the item.   *)
LEMMA OneFileStep ==
  ASSUME TypeOK, OneFile, [Next]_vars
  PROVE  OneFile'
<1> USE DEF OneFile
<1>1. CASE Tick
  BY <1>1 DEF Tick
<1>2. ASSUME NEW d \in Devices, NEW op \in Ops, NEW i \in Items,
             NEW body \in Bodies[op], Arrive(d, op, i, body)
      PROVE  OneFile'
  BY <1>2 DEF Arrive, TypeOK
<1>3. ASSUME NEW d \in Devices, NEW ids, Answer(d, ids)
      PROVE  OneFile'
  <2>1. req[d] \in Request
    BY <1>3, ReqTyped DEF Answer, Phases
  <2>2. /\ req'[d].item = req[d].item /\ req'[d].ids = ids
        /\ req'[d].op = req[d].op /\ req'[d].phase = FirstPhase(req[d].op)
        /\ \A e \in Devices \ {d} : req'[e] = req[e]
    BY <1>3, <2>1 DEF Answer, TypeOK, Request
  <2>3. ids \subseteq FileOf[req[d].item]
    BY <1>3, <2>1 DEF Answer, Request
  <2>4. req'[d].phase = "saving" => req'[d].op = "progress"
    BY <2>1, <2>2 DEF FirstPhase, Request, Ops
  <2> QED
    BY <2>2, <2>3, <2>4
<1>4. ASSUME NEW d \in Devices, Save(d)
      PROVE  OneFile'
  <2>1. req[d] \in Request
    BY <1>4, ReqTyped DEF Save, Phases
  <2>2. Won(req[d]) \subseteq req[d].ids
    BY DEF Won
  <2>3. \A e \in Devices \ {d} : req'[e] = req[e]
    BY <1>4 DEF Save, TypeOK
  <2>4. \/ req'[d] = Idle
        \/ /\ req'[d].item = req[d].item /\ req'[d].ids = Won(req[d])
           /\ req'[d].phase = "marking"
    BY <1>4, <2>1 DEF Save, TypeOK, Request
  <2> QED
    BY <1>4, <2>1, <2>2, <2>3, <2>4 DEF Idle, Save
<1>5. ASSUME NEW d \in Devices, Mark(d) \/ Unmark(d) \/ Fail(d)
      PROVE  OneFile'
  <2>1. req' = [req EXCEPT ![d] = Idle]
    BY <1>5 DEF Mark, Unmark, Fail
  <2> QED
    BY <2>1 DEF TypeOK, Idle
<1>6. CASE UNCHANGED vars
  BY <1>6 DEF vars
<1> QED
  BY <1>1, <1>2, <1>3, <1>4, <1>5, <1>6 DEF Next, Handle

(* It holds throughout.                                                    *)
LEMMA OneFileAlways == Spec => []OneFile
<1>1. Init => OneFile
  BY DEF Init, OneFile, Idle
<1> QED
  BY <1>1, OneFileStep, TypeCorrect, PTL DEF Spec

(* Every step keeps a file's positions one: a save wins over all of a      *)
(* shared file's rows, or over none.                                       *)
LEMMA SharedPositionStep ==
  ASSUME TypeOK, OneFile, FileSharesPosition, [Next]_vars
  PROVE  FileSharesPosition'
<1>1. ASSUME NEW d \in Devices, Save(d)
      PROVE  FileSharesPosition'
  <2> DEFINE r == req[d]
  <2>1. r \in Request /\ r.ids \subseteq FileOf[r.item]
    BY <1>1, ReqTyped DEF Save, Phases, OneFile
  <2> SUFFICES ASSUME NEW i \in Items \ posApart', NEW j \in FileOf[i]
               PROVE  \/ ~Written(i)' /\ ~Written(j)'
                      \/ /\ Written(i)' /\ Written(j)'
                         /\ progress'[i].pos = progress'[j].pos
                         /\ progress'[i].at = progress'[j].at
    BY DEF FileSharesPosition
  <2>2. j \in Items /\ FileOf[j] = FileOf[i]
    OBVIOUS
  <2>3. r.item \in Items /\ (i \in FileOf[r.item] <=> j \in FileOf[r.item])
    BY <2>1, <2>2 DEF Request
  <2>4. CASE i \notin FileOf[r.item]
    <3>1. i \notin Won(r) /\ j \notin Won(r)
      BY <2>1, <2>3, <2>4 DEF Won
    <3>2. progress'[i] = progress[i] /\ progress'[j] = progress[j]
      BY <1>1, <2>2, <3>1 DEF Save
    <3>3. i \notin posApart
      BY <1>1, <2>4 DEF Save, Apart
    <3> QED
      BY <3>2, <3>3 DEF FileSharesPosition, Written
  <2>5. CASE i \in FileOf[r.item]
    <3>1. r.ids = FileOf[r.item]
      BY <1>1, <2>5 DEF Save, Apart
    <3>2. i \in Won(r) <=> j \in Won(r)
      <4>1. CASE r.body.live
        BY <4>1, <3>1, <2>3, <2>5 DEF Won
      <4>2. CASE ~r.body.live
        <5>1. i \notin posApart
          BY <1>1, <3>1, <4>2 DEF Save, Apart
        <5> QED
          BY <4>2, <5>1, <3>1, <2>3, <2>5 DEF Won, FileSharesPosition, Written
      <4> QED
        BY <4>1, <4>2
    <3>3. CASE i \in Won(r)
      <4>1. /\ progress'[i] = SavedRow(r, i) /\ progress'[j] = SavedRow(r, j)
        BY <1>1, <2>2, <3>2, <3>3 DEF Save
      <4>2. SavedRow(r, i) # NoRow /\ SavedRow(r, j) # NoRow
        BY <2>1, <2>2, SavedRowType
      <4> QED
        BY <4>1, <4>2 DEF Written, SavedRow
    <3>4. CASE i \notin Won(r)
      <4>1. progress'[i] = progress[i] /\ progress'[j] = progress[j]
        BY <1>1, <2>2, <3>2, <3>4 DEF Save
      <4>2. i \notin posApart
        BY <1>1, <3>1, <3>4, <2>5 DEF Save, Apart, Won
      <4> QED
        BY <4>1, <4>2 DEF FileSharesPosition, Written
    <3> QED
      BY <3>3, <3>4
  <2> QED
    BY <2>4, <2>5
<1>2. CASE UNCHANGED <<progress, posApart>>
  BY <1>2 DEF FileSharesPosition, Written
<1> QED
  BY <1>1, <1>2 DEF Next, Handle, Tick, Arrive, Answer, Mark, Unmark, Fail, vars, history

(* A DELETE under way saw marks of the episodes it was asked for.          *)
SeenOfTheirs == \A d \in Devices : req[d].phase = "unmarking" => seen[d] \subseteq req[d].ids

(* Every step keeps it.                                                    *)
LEMMA SeenStep ==
  ASSUME TypeOK, SeenOfTheirs, [Next]_vars
  PROVE  SeenOfTheirs'
<1> USE DEF SeenOfTheirs, TypeOK
<1>1. ASSUME NEW d \in Devices, NEW ids, Answer(d, ids) PROVE SeenOfTheirs'
  <2>1. req[d] \in Request
    BY <1>1, ReqTyped DEF Answer, Phases
  <2>2. /\ req'[d].ids = ids /\ seen'[d] \subseteq ids
        /\ \A e \in Devices \ {d} : req'[e] = req[e] /\ seen'[e] = seen[e]
    BY <1>1, <2>1 DEF Answer, Request
  <2> QED
    BY <2>2
<1>2. ASSUME NEW d \in Devices, Save(d) PROVE SeenOfTheirs'
  <2>1. req[d] \in Request
    BY <1>2, ReqTyped DEF Save, Phases
  <2>2. req'[d].phase # "unmarking"
    BY <1>2, <2>1 DEF Save, Idle, Request
  <2> QED
    BY <1>2, <2>2 DEF Save
<1>3. ASSUME NEW d \in Devices, Mark(d) \/ Unmark(d) \/ Fail(d) PROVE SeenOfTheirs'
  <2>1. /\ req' = [req EXCEPT ![d] = Idle]
        /\ \A e \in Devices : seen'[e] \subseteq seen[e]
    BY <1>3 DEF Mark, Unmark, Fail
  <2> QED
    BY <2>1 DEF Idle
<1>4. ASSUME NEW d \in Devices, NEW op \in Ops, NEW i \in Items,
             NEW body \in Bodies[op], Arrive(d, op, i, body)
      PROVE  SeenOfTheirs'
  BY <1>4 DEF Arrive
<1>5. CASE Tick \/ UNCHANGED vars
  BY <1>5 DEF Tick, vars
<1> QED
  BY <1>1, <1>2, <1>3, <1>4, <1>5 DEF Next, Handle

(* Every step keeps a file's marks one.                                    *)
LEMMA SharedWatchedStep ==
  ASSUME TypeOK, OneFile, SeenOfTheirs, FileSharesWatched, [Next]_vars
  PROVE  FileSharesWatched'
<1>1. ASSUME NEW d \in Devices, Mark(d) \/ Unmark(d)
      PROVE  FileSharesWatched'
  <2> DEFINE r == req[d]
  <2>1. r \in Request /\ r.ids \subseteq FileOf[r.item]
    BY <1>1, ReqTyped DEF Mark, Unmark, Phases, OneFile
  <2> SUFFICES ASSUME NEW i \in Items \ markApart', NEW j \in FileOf[i]
               PROVE  watched'[i] = watched'[j]
    BY DEF FileSharesWatched
  <2>2. j \in Items /\ FileOf[j] = FileOf[i]
    OBVIOUS
  <2>3. r.item \in Items /\ (i \in FileOf[r.item] <=> j \in FileOf[r.item])
    BY <2>1, <2>2 DEF Request
  <2>4. CASE i \notin FileOf[r.item]
    <3>1. i \notin r.ids /\ j \notin r.ids
      BY <2>1, <2>3, <2>4
    <3>2. watched'[i] = watched[i] /\ watched'[j] = watched[j]
      BY <1>1, <2>2, <3>1 DEF Mark, Unmark, SeenOfTheirs
    <3>3. i \notin markApart
      BY <1>1, <2>4 DEF Mark, Unmark, Apart, Parted
    <3> QED
      BY <3>2, <3>3 DEF FileSharesWatched
  <2>5. CASE i \in FileOf[r.item]
    <3>1. r.ids = FileOf[r.item]
      BY <1>1, <2>5 DEF Mark, Unmark, Apart, Parted
    <3>2. i \in r.ids /\ j \in r.ids
      BY <3>1, <2>3, <2>5
    <3>3. CASE Unmark(d)
      <4>1. CASE \A k \in r.ids \ seen[d] : watched[k] = NoMark
        BY <3>2, <3>3, <2>2, <4>1 DEF Unmark
      <4>2. CASE ~(\A k \in r.ids \ seen[d] : watched[k] = NoMark)
        <5>1. seen[d] = {} /\ i \notin markApart
          BY <3>1, <3>3, <4>2, <2>5 DEF Unmark, Parted
        <5> QED
          BY <3>3, <5>1, <2>2 DEF Unmark, FileSharesWatched
      <4> QED
        BY <4>1, <4>2
    <3>4. CASE Mark(d) /\ r.body.live
      BY <3>2, <3>4, <2>2 DEF Mark
    <3>5. CASE Mark(d) /\ ~r.body.live
      <4>1. i \notin markApart
        BY <3>1, <3>5 DEF Mark, Apart
      <4> QED
        BY <3>2, <3>5, <2>2, <4>1 DEF Mark, FileSharesWatched
    <3> QED
      BY <1>1, <3>3, <3>4, <3>5
  <2> QED
    BY <2>4, <2>5
<1>2. CASE UNCHANGED <<watched, markApart>>
  BY <1>2 DEF FileSharesWatched
<1> QED
  BY <1>1, <1>2 DEF Next, Handle, Tick, Arrive, Answer, Save, Fail, vars, history

(* The episodes of one file share their position, whatever the             *)
(* interleaving of the devices' requests (fileOf, SaveProgress).           *)
THEOREM OnePositionPerFile == Spec => []FileSharesPosition
<1>1. Init => FileSharesPosition
  BY DEF Init, FileSharesPosition, Written
<1> QED
  BY <1>1, SharedPositionStep, TypeCorrect, OneFileAlways, PTL DEF Spec

(* ... and their watched state, but where an unmark's DELETE and a mark of *)
(* the file overlap (UnmarkWatched).                                       *)
THEOREM OneWatchedStatePerFile == Spec => []FileSharesWatched
<1>1. Init => FileSharesWatched /\ SeenOfTheirs
  BY DEF Init, FileSharesWatched, SeenOfTheirs
<1> QED
  BY <1>1, SharedWatchedStep, SeenStep, TypeCorrect, OneFileAlways, PTL DEF Spec

-----------------------------------------------------------------------------
(* How far a row's time is from when it was played: an ask's time at most. *)
AskedInTime ==
  \A d \in Devices :
    req[d].phase = "asking"
      => req[d].arrived <= clock /\ clock <= req[d].arrived + AskTimeout

StampInTime ==
  \A d \in Devices :
    req[d].phase = "saving"
      => LET played == SourceOf(req[d]).played
         IN  /\ played <= req[d].stamp
             /\ SourceOf(req[d]).held => req[d].stamp <= played + AskTimeout

RowInTime ==
  \A i \in Items :
    Written(i) => /\ src[i].played <= progress[i].at
                  /\ src[i].held => progress[i].at <= src[i].played + AskTimeout

InTime == AskedInTime /\ StampInTime /\ RowInTime

(* Every step keeps it: the clock passes an ask's arrival by its timeout   *)
(* at most.                                                                *)
LEMMA InTimeStep ==
  ASSUME TypeOK, InTime, [Next]_vars
  PROVE  InTime'
<1>1. CASE Tick
  <2>1. AskedInTime'
    <3> SUFFICES ASSUME NEW d \in Devices, req[d].phase = "asking"
                 PROVE  req[d].arrived <= clock' /\ clock' <= req[d].arrived + AskTimeout
      BY <1>1 DEF Tick, AskedInTime
    <3>1. req[d].arrived \in Int /\ clock \in Int
      BY ReqTyped DEF Phases, Request, TypeOK
    <3> QED
      BY <1>1, <3>1 DEF Tick, InTime, AskedInTime
  <2> QED
    BY <1>1, <2>1 DEF Tick, InTime, StampInTime, RowInTime, SourceOf, Written, history
<1>2. ASSUME NEW d \in Devices, NEW op \in Ops, NEW i \in Items,
             NEW body \in Bodies[op], Arrive(d, op, i, body)
      PROVE  InTime'
  <2>1. /\ req'[d].phase = "asking" /\ req'[d].arrived = clock
        /\ \A e \in Devices \ {d} : req'[e] = req[e]
    BY <1>2 DEF Arrive, TypeOK
  <2>2. AskedInTime'
    BY <1>2, <2>1 DEF Arrive, InTime, AskedInTime, TypeOK
  <2>3. StampInTime'
    BY <1>2, <2>1 DEF Arrive, InTime, StampInTime, SourceOf
  <2> QED
    BY <1>2, <2>2, <2>3 DEF Arrive, InTime, RowInTime, Written, history
<1>3. ASSUME NEW d \in Devices, NEW ids, Answer(d, ids)
      PROVE  InTime'
  <2>1. req[d] \in Request
    BY <1>3, ReqTyped DEF Answer, Phases
  <2>2. /\ req'[d].phase = FirstPhase(req[d].op)
        /\ req'[d].body = req[d].body /\ req'[d].arrived = req[d].arrived
        /\ req'[d].stamp = clock - Ago(req[d].body)
        /\ \A e \in Devices \ {d} : req'[e] = req[e]
    BY <1>3, <2>1 DEF Answer, TypeOK, Request
  <2>3. req'[d].phase # "asking"
    BY <2>1, <2>2 DEF FirstPhase, Request, Ops
  <2>4. req[d].arrived <= clock /\ clock <= req[d].arrived + AskTimeout
    BY <1>3 DEF Answer, InTime, AskedInTime
  <2>5. /\ Age(req[d].body) \in Nat /\ Ago(req[d].body) \in Nat
        /\ Ago(req[d].body) <= Age(req[d].body)
        /\ Age(req[d].body) < DurationSpan => Ago(req[d].body) = Age(req[d].body)
        /\ req[d].arrived \in Int /\ clock \in Int
    BY <2>1, AgoType DEF Request, TypeOK
  <2>6. AskedInTime'
    BY <1>3, <2>2, <2>3 DEF Answer, InTime, AskedInTime
  <2>7. StampInTime'
    <3> DEFINE age   == Age(req[d].body)
               ago   == Ago(req[d].body)
               begun == req[d].arrived
    <3>1. /\ age \in Nat /\ ago \in Nat /\ begun \in Int /\ clock \in Int /\ AskTimeout \in Nat
          /\ ago <= age /\ (age < DurationSpan => ago = age)
          /\ begun <= clock /\ clock <= begun + AskTimeout
      BY <2>4, <2>5
    <3>2. /\ SourceOf(req'[d]).played = begun - age
          /\ SourceOf(req'[d]).held = (age < DurationSpan)
          /\ req'[d].stamp = clock - ago
      BY <2>2 DEF SourceOf
    <3> HIDE DEF age, ago, begun
    <3>3. /\ begun - age <= clock - ago
          /\ age < DurationSpan => clock - ago <= (begun - age) + AskTimeout
      BY ONLY <3>1
    <3>4. /\ SourceOf(req'[d]).played <= req'[d].stamp
          /\ SourceOf(req'[d]).held => req'[d].stamp <= SourceOf(req'[d]).played + AskTimeout
      BY <3>2, <3>3
    <3>5. \A e \in Devices \ {d} : SourceOf(req'[e]) = SourceOf(req[e])
      BY <2>2 DEF SourceOf
    <3> QED
      BY <2>2, <3>4, <3>5 DEF InTime, StampInTime, SourceOf
  <2> QED
    BY <1>3, <2>6, <2>7 DEF Answer, InTime, RowInTime, Written, history
<1>4. ASSUME NEW d \in Devices, Save(d)
      PROVE  InTime'
  <2>1. req[d] \in Request
    BY <1>4, ReqTyped DEF Save, Phases
  <2>2. /\ req'[d].phase \notin {"asking", "saving"}
        /\ \A e \in Devices \ {d} : req'[e] = req[e]
    BY <1>4, <2>1 DEF Save, TypeOK, Idle, Request
  <2>3. AskedInTime' /\ StampInTime'
    BY <1>4, <2>2 DEF Save, InTime, AskedInTime, StampInTime, SourceOf
  <2>4. RowInTime'
    <3> SUFFICES ASSUME NEW i \in Items, Written(i)'
                 PROVE  /\ src'[i].played <= progress'[i].at
                        /\ src'[i].held => progress'[i].at <= src'[i].played + AskTimeout
      BY DEF RowInTime
    <3>1. CASE i \in Won(req[d])
      <4>1. progress'[i].at = req[d].stamp /\ src'[i] = SourceOf(req[d])
        BY <1>4, <3>1 DEF Save, SavedRow
      <4> QED
        BY <1>4, <4>1 DEF Save, InTime, StampInTime
    <3>2. CASE i \notin Won(req[d])
      BY <1>4, <3>2 DEF Save, InTime, RowInTime, Written
    <3> QED
      BY <3>1, <3>2
  <2> QED
    BY <2>3, <2>4 DEF InTime
<1>5. ASSUME NEW d \in Devices, Mark(d) \/ Unmark(d) \/ Fail(d)
      PROVE  InTime'
  <2>1. /\ req' = [req EXCEPT ![d] = Idle]
        /\ UNCHANGED <<clock, progress, src>>
    BY <1>5 DEF Mark, Unmark, Fail
  <2>2. AskedInTime' /\ StampInTime'
    BY <2>1 DEF TypeOK, Idle, InTime, AskedInTime, StampInTime, SourceOf
  <2> QED
    BY <2>1, <2>2 DEF InTime, RowInTime, Written
<1>6. CASE UNCHANGED vars
  BY <1>6 DEF vars, history, InTime, AskedInTime, StampInTime, RowInTime, SourceOf, Written
<1> QED
  BY <1>1, <1>2, <1>3, <1>4, <1>5, <1>6 DEF Next, Handle

(* It holds throughout.                                                    *)
LEMMA InTimeAlways == Spec => []InTime
<1>1. Init => InTime
  BY DEF Init, InTime, AskedInTime, StampInTime, RowInTime, Written, Idle
<1> QED
  BY <1>1, InTimeStep, TypeCorrect, PTL DEF Spec

(* A position sent late replaces one played later by less than an ask of   *)
(* katalog-api takes, and never by more.                                   *)
THEOREM LateNeverReplacesNewer == Spec => NewerPositionStays
<1>1. ASSUME TypeOK, InTime, [Next]_vars,
             NEW i \in Items, src'[i] # src[i], ~src'[i].live, src'[i].held, Written(i)
      PROVE  src[i].played < src'[i].played + AskTimeout
  <2>1. PICK d \in Devices : Save(d)
    BY <1>1 DEF Next, Handle, Tick, Arrive, Answer, Mark, Unmark, Fail, vars, history
  <2>2. req[d] \in Request
    BY <1>1, <2>1, ReqTyped DEF Save, Phases
  <2>3. i \in Won(req[d]) /\ src'[i] = SourceOf(req[d])
    BY <1>1, <2>1 DEF Save
  <2>4. ~req[d].body.live
    BY <1>1, <2>3 DEF SourceOf
  <2>5. progress[i].at < req[d].stamp
    BY <1>1, <2>3, <2>4 DEF Won, Written
  <2>6. req[d].stamp <= src'[i].played + AskTimeout
    BY <2>1, <2>3, <1>1 DEF Save, InTime, StampInTime
  <2>7. src[i].played <= progress[i].at
    BY <1>1 DEF InTime, RowInTime
  <2>8. /\ src[i].played \in Int /\ progress[i].at \in Int /\ req[d].stamp \in Int
        /\ src'[i].played \in Int
    <3>1. src[i] \in Source /\ progress[i] \in Row
      BY <1>1 DEF TypeOK, Written
    <3>2. Age(req[d].body) \in Nat
      BY <2>2, AgoType DEF Request
    <3> QED
      BY <2>2, <2>3, <3>1, <3>2 DEF Source, Row, Request, SourceOf
  <2> QED
    BY <2>5, <2>6, <2>7, <2>8
<1>2. TypeOK /\ InTime /\ [Next]_vars => LateReplacesEarlier
  BY <1>1 DEF LateReplacesEarlier
<1> QED
  BY <1>2, TypeCorrect, InTimeAlways, PTL DEF Spec, NewerPositionStays

-----------------------------------------------------------------------------
(* Every step keeps it: a finishing save begins its mark in the same step, *)
(* and a row is kept finished only by a finishing save.                    *)
LEMMA FinishedStep ==
  ASSUME TypeOK, OneFile, FinishedWithLengthIsWatched, [Next]_vars
  PROVE  FinishedWithLengthIsWatched'
<1> SUFFICES ASSUME NEW i \in Items, RowFinished(i)', src'[i].dur > 0
             PROVE  CountsAsWatched(i)'
  BY DEF FinishedWithLengthIsWatched
<1>1. ASSUME NEW d \in Devices, Save(d)
      PROVE  CountsAsWatched(i)'
  <2> DEFINE r == req[d]
  <2>1. r \in Request
    BY <1>1, ReqTyped DEF Save, Phases
  <2>2. CASE i \in Won(r)
    <3>1. progress'[i] = SavedRow(r, i) /\ src'[i] = SourceOf(r)
      BY <1>1, <2>2 DEF Save
    <3>2. CASE r.body.dismiss
      BY <3>1, <3>2 DEF CountsAsWatched, SourceOf
    <3>3. CASE ~r.body.dismiss
      <4>1. r.body.dur > 0 /\ r.body.pos \in Int /\ r.body.dur \in Int
        BY <2>1, <3>1 DEF SourceOf, Request, Body
      <4>2. SavedRow(r, i).dur \in Int /\ r.body.dur <= SavedRow(r, i).dur
        BY <2>1, <4>1 DEF SavedRow, KeptDur, Greatest, TypeOK, Row
      <4>3. Finished(ClampedPos(r.body.pos), SavedRow(r, i).dur)
        BY <3>1 DEF RowFinished, SavedRow
      <4>4. Finishes(r.body)
        BY <3>3, <4>1, <4>2, <4>3, FinishedRowFinishedBody DEF Finishes
      <4>5. /\ req'[d].phase = "marking" /\ req'[d].op = r.op
            /\ req'[d].ids = Won(r)
        BY <1>1, <2>1, <2>2, <4>4 DEF Save, TypeOK, Request
      <4>6. r.op = "progress"
        BY <1>1 DEF Save, OneFile
      <4> QED
        BY <2>2, <4>5, <4>6 DEF CountsAsWatched, MarkPending
    <3> QED
      BY <3>2, <3>3
  <2>3. CASE i \notin Won(r)
    <3>1. /\ progress'[i] = progress[i] /\ src'[i] = src[i] /\ watched' = watched
          /\ (i \in excused => i \in excused')
      BY <1>1, <2>3 DEF Save
    <3>2. CountsAsWatched(i)
      BY <3>1 DEF FinishedWithLengthIsWatched, RowFinished, Written
    <3>3. \A e \in Devices : MarkPending(e, i) => MarkPending(e, i)'
      BY <1>1 DEF Save, MarkPending, TypeOK
    <3> QED
      BY <3>1, <3>2, <3>3 DEF CountsAsWatched
  <2> QED
    BY <2>2, <2>3
<1>2. ASSUME ~(\E d \in Devices : Save(d))
      PROVE  CountsAsWatched(i)'
  <2>1. progress' = progress /\ src' = src /\ excused \subseteq excused'
    BY <1>2 DEF Next, Handle, Tick, Arrive, Answer, Mark, Unmark, Fail, vars, history
  <2>2. CountsAsWatched(i)
    BY <2>1 DEF FinishedWithLengthIsWatched, RowFinished, Written
  <2>3. CASE src[i].dismiss \/ i \in excused
    BY <2>1, <2>3 DEF CountsAsWatched
  <2>4. CASE watched[i] # NoMark
    <3>1. watched'[i] # NoMark \/ i \in excused'
      <4>1. ASSUME NEW d \in Devices, Mark(d)
            PROVE  watched'[i] # NoMark
        <5>1. req[d] \in Request
          BY <4>1, ReqTyped DEF Mark, Phases
        <5> QED
          BY <4>1, <5>1, <2>4 DEF Mark, TypeOK, Request, Greatest
      <4>2. ASSUME NEW d \in Devices, Unmark(d)
            PROVE  watched'[i] # NoMark \/ i \in excused'
        BY <4>2, <2>4 DEF Unmark, TypeOK
      <4> QED
        BY <1>2, <2>4, <4>1, <4>2 DEF Next, Handle, Tick, Arrive, Answer, Fail, vars
    <3> QED
      BY <3>1 DEF CountsAsWatched
  <2>5. ASSUME NEW d \in Devices, MarkPending(d, i)
        PROVE  CountsAsWatched(i)'
    <3>1. req[d] \in Request /\ req[d].phase = "marking"
      BY <2>5, ReqTyped DEF MarkPending, Phases
    <3>2. CASE Mark(d)
      <4>1. watched'[i] # NoMark
        BY <2>5, <3>1, <3>2 DEF MarkPending, Mark, TypeOK, Request, Greatest
      <4> QED
        BY <4>1 DEF CountsAsWatched
    <3>3. CASE Fail(d)
      BY <2>5, <3>3 DEF Fail, CountsAsWatched
    <3>4. CASE ~Mark(d) /\ ~Fail(d)
      <4>1. req'[d] = req[d]
        <5>1. ASSUME NEW e \in Devices, Handle(e)
              PROVE  req'[d] = req[d]
          <6>1. CASE e = d
            <7>1. req[d].phase \notin {"asking", "unmarking"} /\ req[d] # Idle
              BY <3>1 DEF Idle
            <7> QED
              BY <1>2, <3>4, <5>1, <6>1, <7>1 DEF Handle, Arrive, Answer, Unmark
          <6>2. CASE e # d
            BY <1>2, <5>1, <6>2 DEF Handle, Arrive, Answer, Mark, Unmark, Fail, TypeOK
          <6> QED
            BY <6>1, <6>2
        <5> QED
          BY <5>1 DEF Next, Tick, vars
      <4> QED
        BY <2>5, <4>1 DEF MarkPending, CountsAsWatched
    <3> QED
      BY <3>2, <3>3, <3>4
  <2> QED
    BY <2>2, <2>3, <2>4, <2>5 DEF CountsAsWatched
<1> QED
  BY <1>1, <1>2

(* A title saved, with its length, in its finished end is watched.         *)
THEOREM FinishedIsMarked == Spec => []FinishedWithLengthIsWatched
<1>1. Init => FinishedWithLengthIsWatched
  BY DEF Init, FinishedWithLengthIsWatched, RowFinished, Written
<1> QED
  BY <1>1, FinishedStep, TypeCorrect, OneFileAlways, PTL DEF Spec
=============================================================================
