# chino-api, specified

chino-api is the backend of the chino clients (web, phone, TV): it serves the
catalogue of katalog-api and keeps, in Postgres, what a viewer does with it. The
modules here model what chino-api *keeps* and *decides* - its tables, its in-memory
state and the handlers that change them - as TLA+ state machines, check them with
TLC on small instances and prove their main properties, for every value of the
constants, with TLAPS.

    tlc -workers 2 -config MCPlayback.cfg MCPlayback     # a run
    tlapm PlaybackProofs.tla                             # a module's proofs

`PROJECT.json` lists the components, the runs, what each definition models (file
and lines), the hazards and the theorems.

## The system

| Part | State | Operations | Talks to |
|---|---|---|---|
| Playback state (`internal/http/progress.go`, `watched.go`, `files.go`, `internal/store/store.go`) | `playback_progress`, `watched_history` | save a position (live, or played some time ago), mark and unmark watched | katalog-api: which episodes a file holds, at most 3 s |
| Finished rule (`internal/store/finished.go`) | none | `Finished` in Go, `finishedSQL` in the queries | - |
| Named watchlists (`internal/http/watchlists.go`, `internal/store/watchlists.go`) | `watchlists`, `watchlist_items` | list, create, rename, delete; add and remove a title; the older single-list routes | - |
| Account deletion (`internal/http/account.go`, `internal/store/people.go`, `internal/portal`) | an open transaction over six tables | delete my account; an admin deletes a person's data | portal-api, at most 30 s |
| Live refresh (`internal/eventsse`) | `Broker.subs`, a bounded channel per client, Kafka offsets | publish, subscribe, unsubscribe, stream; wait for a topic | Kafka, the browsers |
| Feedback (`internal/http/feedback.go`, `internal/openproject`) | `feedbackLimiter.seen`, `feedback_reports` | report: limit, look up, bump and comment, or open a ticket and write it down | OpenProject |
| Parental controls, availability (`internal/katalog/ratings.go`, `internal/http/ratings.go`, `available.go`) | tables of katalog-api's answers, behind one mutex | ask in batches, keep, expire, clear when full; serve, refuse or leave out | katalog-api |
| Files of several episodes (`internal/katalog/files.go`) | a table of the same kind | ask for an item, then for its holder; keep | katalog-api |
| Subtitle languages (`internal/http/subtitle_languages.go`) | the last answer and when it was asked for | ask, keep unless older, serve while not stale | katalog-manager |
| Identity (`internal/auth`) | the verifier, made once per server | verify a bearer, mint and verify stream tokens | the OIDC issuer |
| Startup (`cmd/server`, `internal/store/migrate.go`, `migrations/`) | `schema_migrations`, the tables; the legacy `watchlist` that 005 copies | apply and record migrations, serve, be killed and started again | Postgres, the orchestrator, the server of the version before |
| Series and Continue Watching (`internal/http/series.go`, `continue_watching.go`) | none: it reads `playback_progress` and `watched_history` while devices write them | next episode, the row that is shown | katalog-api |
| The rest: catalogue, search, people, media proxy, notices, packaging, telemetry, redaction, router | none, or counters | forwarding, mapping, formatting | katalog-api and others |

The parts meet in the database and, for what katalog-api said, in the tables of
kept answers: the handlers of one viewer's
devices run at the same time, on the same rows, and almost none of them opens a
transaction. Account deletion is the exception, and it keeps its transaction open
over a call to another service; a migration is the other, and its record is written
after it. Live refresh is the only part whose goroutines
share memory of consequence.

What is hard in each, and what must hold:

- **Playback.** Several devices, one of which was offline: its positions come in
  late, with their age. A write goes to every episode of a file when katalog-api
  says in time which those are, and to one alone otherwise. A finishing position
  is a second statement, which may fail or come after an unmark; a mark may be made of
  a row that an unmark's DELETE, already under way, does not see. *The episodes of a
  file must not drift apart; a late position must not replace a newer one; a
  finished title must count as watched.*
- **Watchlists.** Checks and writes are separate statements, and the deletion of the
  account may come between them. *The default list must be there; no title without
  its list; the cap and the unique names should hold - and give way to races, but to
  how much?*
- **Account deletion.** Six statements, their locks and a call that may be answered
  late or never. *Together they must do what one step would: all the data there was,
  or none, and a person's own only with their account; no lock may outlive its
  request.*
- **Live refresh.** *No channel is closed twice (a panic), no note is skipped in the
  middle of a stream, and a client that stopped reading holds up nobody.*
- **Feedback.** *One ticket per crash; the ledger's count covers what is written on
  the ticket; the budget holds in every window.*
- **Parental controls and availability.** An answer is kept for every request with
  the same cap, by requests that asked with no lock held; the catalog changes, an ask
  fails halfway, a full table is cleared between a look-up and an answer. *A capped
  viewer is served nothing its cap did not allow a moment ago, and nothing is left
  out of a list because an ask failed: a phone deletes its download then.*
- **Continue Watching.** One answer is made of many queries - the rows, a series'
  marks, a resume point for each next episode - at different times, and every row of
  a series finds the same next episode. *One card a file; the next is new, past the
  file and the first such; no title in progress is lost but to the limits.*
- **Startup.** A migration's transaction and its record are two steps, servers start
  at once and are killed at any of them, and the server of the version before goes on
  writing what 005 copies. *A server serves with every table its code reads; a copy
  loses nothing and brings nothing back; every server serves in the end.*
- **Subtitle languages, files.** Answers come late and out of order, and a failed ask
  falls back on a kept one; a file takes two asks. *The languages never go back and
  are no older than promised; a position goes to its whole file and no other.*

## The modules

A module per component, one action per statement or call of a handler. A request
under way is a record with a `phase`, the statement it is at, in the variable
`req` (in `Kept`, `screen` and `player`; in `AccountDeletion`, `phase` and its
neighbours are functions): what the handler read earlier is a field of the record,
and goes stale there as it does in the code. A handler that ends early, fails or is
cut off is `Fail`. History variables (marked so where they are declared) are read by
properties only.

| Module | Models | State, and what it stands for |
|---|---|---|
| `Finished` | the finished rule, in Go and in SQL | none; `MaxInt` is the database's INTEGER |
| `Playback` | POST progress, POST and DELETE watched of one viewer | `progress`, `watched`: the tables; `clock`: the database's `now()`; `seen`: the rows an unmark's DELETE began with |
| `Watchlists` | every route on lists and titles, and the deletion of their owner's account | `lists`, `titles`: the tables; `minted`: ids given out; `doomed`: the lists an open deletion has locked |
| `AccountDeletion` | DELETE /me and the admin's route, portal-api, devices that write on | `rows`, `account`; `held`: rows deleted and locked by an open transaction; `portal`: the call there |
| `AtomicDeletion` | what `AccountDeletion` promises: each deletion is one step | `rows`, `account`, `due`: what a request found and owes, `answer` |
| `Startup` | `Migrate` and `main` on several servers, the old server, 005 against a person who uses both lists, the verifier | `table`, `recorded`: `schema_migrations`; `applied`: the tables; `legacy`, `list`: the person's two lists; `issuer`, `verifier` |
| `Events` | the two tails, `Broker`, `Handler` | `subs`, `chan`, `closes`, `phase`; `made`, `read`: Kafka |
| `Feed` | what `Events` promises: a note goes to all streams at once | `read`; `open`, `on`: the streams, and those not cut off; `due`, `seen`: their notes |
| `Feedback` | POST feedback, the ledger, OpenProject's tickets | `seen`: the limiter; `ledger`; `tickets`, `comments` |
| `Table` | `keep`: a bounded table of answers with their end | none: functions from keys to answers |
| `Answers` (on `Table`) | the gate of capped viewers, `Visible`, `assetItem`, `postAvailable` | `visible`, `asset`: the tables; `mu`: their lock; `catalog`: katalog-api's library |
| `ContinueWatching` | `continueWatching` and `nextEpisode` against the devices' writes | `rows`, `watched`: the tables; `pending`: a finishing save's second statement; `entries`, `cards`: the feed as it is built; `next`: next-episode's answer |
| `Kept` (on `Table`) | `subtitleLanguages`, `FileEpisodes` with `fileOf` | `last`: the kept languages; `file`: the table; `world`: the setting and the files |

A statement of Postgres is one step or two. In `Playback` it is two, since there it
matters that `now()` is fixed when a statement begins and the row lock is had later
(`Answer` and `Save` begin a statement, `Save`, `Mark` and `Unmark` make it take
effect), and since a DELETE takes the rows it saw as it began; elsewhere the moment it
takes effect is enough. `AccountDeletion` models row locks: a statement waits for the
rows an open transaction deleted, and in `Watchlists` a write to a doomed list waits
for the deletion to commit or roll back.

The composition of the two is split where it can be: `AccountDeletion` shows that the
whole deletion is one step for who looks at the rows (`DeletesAtOnce`), so
`Watchlists` has it as a few - the lists are locked, then go or come back - between
any two statements of the person's other requests.

`MC*.tla` give each module its small instance. The operators preceded by a comment
that begins with "Fault" are what the definition after them would be with a
plausible bug in the code - a guard dropped, a comparison off by one, a rollback
forgotten. They take part in no specification; each property was seen to fail when
the fault replaces the definition, so each says something about the code.

## The runs

| Run | Shows | Bounds |
|---|---|---|
| `playback` | The file keeps one position and one watched state; a finishing position that came with a length is marked; a late position replaces one played later only by less than the ask's timeout | two devices, one file of two episodes, three requests, two ticks; an age of two no Duration holds |
| `watchlists` | The default list stays, but for creates that its account's deletion overtook; past the cap by at most one less than the clients; same names by races only; no title without a list | two people, two clients, three list ids besides the defaults, cap 2, four requests, a deletion being one |
| `account_deletion` | The statements, locks and calls do what `AtomicDeletion` does in one step; every lock ends | two requests, three rows that refer to each other, three statements |
| `events` | Channels close once; every stream is one of `Feed`'s, without a gap until it ends; items are read; readers are told | a reader, a stalled client, buffer 1, three notes |
| `feedback` | The budget; every comment is counted; a second ticket by races only | two clients of one user, one fingerprint, limit 3 in 2 ticks, four reports, four tickets |
| `answers` | Served is what the cap allowed, left out what it did not; an asset goes as its own title | two requests of any route, two titles, an asset, two caps; lifetimes of one and two ticks, batches of one, tables of two; one change, two ticks; katalog-api serves at first, or is importing |
| `available_word` | **violation**: a reset between two asks is told as the library's word | one request, two changes |
| `continue_watching` | One card a file; the next is new, past the file and the first such; titles in progress and unfinished series are on the row | a special, a file of two episodes and one of one; three rows, two cards, three writes; one episode may be dismissed |
| `continue_watching_dismissed` | **violation**: a dismissed episode comes back as another's next | a film besides, two writes |
| `kept` | The languages never go back and are no older than promised; a position goes to its whole file | two clients and two players, three requests, a file of three episodes, two caps (one is not served the holder); fresh for one tick, stale after two; a table of one; one change, two ticks |
| `startup` | A server serves migrated; 005 loses nothing but what the old server wrote later; only an overtaken server brings a title back; all serve in the end | two servers, three migrations of which the second moves data, one title, two crashes; any database an earlier version left |
| `startup_bearer` | **violation**: a server whose first bearer met an issuer that was down refuses every one after | two servers, two migrations, one crash |

Why the bounds are enough. Two devices (clients, requests) are what a race needs,
and no handler looks at more than its own request and the tables; where the number of
clients matters - how far past the cap - the theorem holds for every number. Three
requests let one be overtaken by two others between its steps. Four reports fill a
window of three and ask for one more; four requests let a list be created, renamed
or deleted, or the account deleted, while two others are between check and write.
Two servers and two crashes let one be killed at any statement of a migration that the
other is at too, and again as it repeats it; a migration before the move and one after
it are the cases its record can be confused with. A buffer of one is full
after one note, and three notes reach the drop, the note after it and the other
topic. `MaxTime` is past every window the instance has: the ask's timeout, the
limiter's window, the dedup window, and the lifetime of every kept answer each end
within it. A table of one or two is full, and loses what expired or everything,
within the requests there are. Three rows, two cards and two files of one series are
the smallest row in which a limit cuts, a file has two rows and a series two cards to
choose from; three writes make the three rows, or fewer and change what its later
queries see. That one episode may be dismissed, and not each, nearly halves
`continue_watching`; in `continue_watching_dismissed` each may be. Clients, minted ids,
the two people of `watchlists` with their default lists, and the episodes of a file
are symmetric (nothing orders them), and no run with symmetry
has a liveness property.

`CHECK_DEADLOCK FALSE` stands in every cfg because the bounds stop the instances:
when the requests are sent and the clock is at its end, nothing is left to do.

### Fairness

Safety runs need none. `Events` assumes that the tails join and read again after an
error (`tail`'s loop), that a Handler subscribes and its deferred unsubscribe runs
(weak fairness), that its select, which may take a heartbeat many times, takes a
ready channel in the end (strong fairness: Go's select chooses among the ready cases
at random), and that a write ends for a client that reads - not for any other: no
write has a deadline. Producers, provisioning and the clients' coming and going are
not fair. `AccountDeletion` assumes that the database runs the next statement once
it can have its locks, and that portal-api's client answers or times out after 30 s.
Nothing is assumed of portal-api. `Startup` assumes that the orchestrator starts a
server that is down, that a server that starts goes on to its next statement (weak
fairness of `ServerStep`), and that clients with a bearer come; neither the issuer nor
the old server is fair.

### Disagreements between code and words

Three runs end in a violation, each of a sentence the repository says of itself:

- `LibrarysWord`: `available.go` says that an answer without ids, with titles above 0,
  is the library's word and not a reset. The ids are asked about before the titles are
  counted.
- `DismissedIsOff`: what is dismissed is off Continue Watching, but the next of a
  finished episode is looked for by the watched marks alone.
- `BearersGetIn`: "oidc provider unavailable" is the answer to every bearer, once it was
  the answer to a server's first: `sync.Once` keeps the error of that one try, made in
  that request's context.

For each, passing properties say what holds instead: `ServedWasShown` and
`LeftOutWasHidden`; `UpNextIsNew` and `SeriesGoesOn`; that the server serves, for those
who need no bearer, is `AllServeInTheEnd`. Three more sentences are only almost true, and
the properties state what is:

- `finished.go:6` says a title in its finished end counts as watched. `postProgress`
  (`progress.go:92`) decides on the request's length, the reads on the row's, which
  keeps the longest ever sent: a position without a length finishes the row unmarked.
  `FinishedWithLengthIsWatched` is about the others.
- "Your account could not be deleted right now, so nothing was" (`account.go:83`) is also
  the answer when portal-api's was lost or late (`portal/client.go:84`), and the account
  is gone. `DeletesAtOnce` says that the data here was not, and that it goes only once
  the account is known to be.
- "An age below zero (a clock set back since) is now's" (`progress.go:105`) is so of one
  above 292 years, too: its milliseconds overflow an int64 of nanoseconds, and come round
  to an age below zero, or to another one (`Wrapped`). Only nonsense has such an age; its
  position may replace a newer one, which `NewerPositionStays` leaves out (`held`).
  `DurationSpan` is that limit.

Three rules of the code are checks in statements of their own, and
give way to requests that run at once - the number of lists, their unique names, one
ticket a crash: `PastTheCapByRacesOnly`, `SameNameByRacesOnly` and
`SecondTicketByRacesOnly` say how far, and that nothing else breaks them. So do the
default list, to creates that a deletion of their account overtook (`bereft` in
`DefaultIsThere`), and a migration's one time, to a server that looked it up before
another recorded it (`BackByOvertakenOnly`).

### The refinement

`AtomicDeletion` has five actions: a device writes, the account goes, a request asks,
takes or leaves. Its request owes what it found (`due`) less what was written since, and
a `Take` removes all of that at once, leaves no row whose list is gone, and is a
person's own only when the account is gone. `AccountDeletion` implements it with
`due <- before`, its other variables being the same: deletions of single tables, waits
for locks, portal-api's call and its answers are stutters; `Commit` is `Take`, a rollback
of any cause is `Leave`. A transaction's deleted rows are still in `rows` while they are
`held`, as other transactions see them.

`Feed` has a stream that begins, is told the next note it is due, and ends; a note is
published to all streams in one step, which never waits. What is hard is whom it cuts
off: a client that is further behind than `Patience` must be, one that is less far must
not, and who was cut off still brings what it owed before that note, but not that one.
`Events` implements it with `Patience <- ClientBuffer`: a stream is open while its
Handler is in its loop, on while it is in `Broker.subs` as well, and how far it is behind
is what its channel and its Handler's hand hold. Connecting, heartbeats, taking from a
channel, the pipeline's messages and `unsubscribe` are stutters; a write is `Tell`. The
clients at the limit are `Feed`'s free choice, since a note in the hand is no longer in
the buffer.

## The proofs

Each `*Proofs` module proves `Spec => []TypeOK` and then the properties below it, from
the named assumptions in the component's module only: finite sets of clients where
they are counted, natural bounds, and that the "none" values are no rows. Every bound
is a constant, so each theorem holds for any number of devices, requests, ticks.

- **PlaybackProofs.** `SQLIsFinished`: Go's rule and SQL's are the same for every
  position and length whose product the INTEGER holds. `NotFinishedAtTheStart`. The
  invariant `OneFile` says that requests about one file carry the whole file or have put
  it apart, and that its rows agree; a save decides on one episode's `at` what it decides
  on all of them, and what an unmark leaves, having begun before a mark, is apart
  (`Parted`): `OnePositionPerFile`, `OneWatchedStatePerFile`. `LateNeverReplacesNewer`:
  `AskedInTime`, `StampInTime` and `RowInTime` bound how long after its request a
  statement begins, so its age, where a Duration holds it, is at most `AskTimeout` off.
  `FinishedIsMarked`.
- **WatchlistsProofs.** `ListInv`: requests that passed a check stay right about what
  cannot change meanwhile - who owns a list, that the default is there once another
  list may be made, or its user is `bereft`; hence `DefaultStays` and
  `NoTitleWithoutAList`. `NameInv`: two requests about to give one name are in `raced`.
  `RoomKept`: the lists of a user and the requests past their count are together less
  than the cap and the number of clients; a default list made again after a deletion
  finds few lists beside it (`FewAlone`). Counting finite sets gives
  `CapPassedByRacesOnly`.
- **AccountDeletionProofs.** `AccountKnown`: a person's request about to commit was
  told deleted or gone, and the account is gone. `TakeInv`: what a request found and
  nobody wrote since is gone, held by it, or still to be deleted. `KeysMet`: every row's
  list is there, and a transaction that holds a list holds its titles. From the three,
  each step is one of `AtomicDeletion`'s or a stutter: `ImplementsAtomicDeletion`. That
  who is told "ok" has nothing left is `OkTookEverything`.
- **EventsProofs.** `ClosedInv` ties a client's place in `Handler` to `subs` and its
  channel; `StreamInv` says that what was given is a prefix of what was due. `CutInv`
  adds that a client that was cut off is due exactly one note more. Then `BehindIs`
  counts how far a stream is behind, `HandIsNext` says that the note in the hand is the
  next one due, and each step is one of `Feed`'s or a stutter (`TailSteps`,
  `StreamSteps`): `KeepsThePromise`. `NothingIsSkipped` is the invariant behind it.
- **FeedbackProofs.** `KnowInv`: a report nobody overtook knows its fingerprint's row.
  `OwnInv`: a ticket belongs to one fingerprint, by its row, by reports that found it
  or by the one that opened it; with it, `CountInv`: comments written and about to be
  written are less than the row's count. `BudgetInv`: the limiter remembers what it let
  through in the window that ends now.

- **AnswersProofs.** `KeptInv`: what is kept, known or about to be kept was katalog-api's
  own answer at a moment within the lifetime that ends where the entry says; no
  change, clear or overlap disturbs that, since history only grows. `Bounded`: a clear
  leaves room for one, and only one is kept at a time (`KeepBounded`), so
  `TablesBounded`: no table outgrows `MaxAnswers`.
- **ContinueWatchingProofs.** `PickedAreNew`: each next that was picked from the marks as
  they were then is the first new one past its file, by marks seen during the request;
  `SeenNow` says that the marks as they are now are among those seen. `FreshIsNew`
  and `UpToBound` are the lemmas on the walk along the episodes, `LeastOf` and
  `GreatestOf` on the order it walks in.
  `FeedInv` adds what became of each row as long as no call failed - an unfinished one
  resumes its file, a finished one without a card has every later file watched, and a
  card that starts its title over is of one that was left (`Right`) - that rows of one
  file agree unless they are `apart`, and that the cards are the first of each file up to
  the limit. `LeftOutIsCrowded` and `ShownOrCrowded` count what the limit leaves out:
  `ProgressIsThere`, `SeriesAreContinued`. `LaterIsPastTheFile`: what is past a file in the
  list is what follows `fileEnd`, which gives `NextFollowsTheFile`.
- **ServerProofs**, of what a server has in memory (`Kept`) and how it comes to serve
  (`Startup`); the two share no variable and no constant, and each theorem names its own
  specification (`Startup`'s is `StartupSpec`). Of `Kept`: the invariant relates every answer to `Since(t)`, the worlds
  there have been after tick `t`, and these only grow (`SinceStays`). `LastRight`: the
  kept languages were the setting at some time since they were asked for. `ScreenRight`:
  nobody was served what was asked for later than what is kept, and an ask is no older
  than what was served before it began. Hence `LanguagesNeverGoBack` and
  `ChangesReachTheClients`, which the bare properties would not carry: an overtaken
  answer must be known to lose against the kept one before it is there. `PlayerRight` and
  `FileRight`: what a player knows, or the table keeps, is of the item's file (`Only`), and
  all of it where the file did not change meanwhile (`Whole`), with a holder that was
  asked for earlier than its episodes: `PositionsOfOneFile`.
  Of `Startup`: `MigrateInv` relates the two records of what was done: what is
  recorded was applied, what was applied is a prefix, and a server found all before the
  migration it is at recorded; one that still applies what is recorded is `overtaken`. Hence
  `MigratedBeforeServing`, `OnlyLateTitlesAreLost` and `BackByTheOvertaken`, for any number
  of servers, migrations and crashes.

`OkTookEverything`, `TablesBounded` and `NothingSkipped` state invariants that no run
lists, since a run's other properties say more.

Every invariant, every action property and both refinements that a passing run checks
are theorems. Only model-checked: the liveness properties `ItemsAreRead`,
`ReadersAreTold`, `LocksEnd` and `AllServeInTheEnd` (TLAPS has no fairness reasoning of
use here). No proof is about the three properties that a run violates.

## What is left out, and why

- **Reads** other than Continue Watching (`getProgress`, the lists, history): they
  change nothing. What they show appears in the properties that relate rows.
- **The order of lists**: what is asked about, and the episodes of a file, are sets;
  only Continue Watching's row is in order. Cards have no titles or artwork.
- **The cap** a viewer has is given: how a token's claim is read is left out.
- **Wrong answers.** Whatever of katalog-api or katalog-manager is not an answer - a
  status, a body that does not parse, a timeout - is one failure.
- **Writes while Continue Watching is built** come one at a time, a finishing save's
  mark after it; how writes overlap is `Playback`'s.
- **The clock.** The database's `now()` is the one clock; a phone sends ages, not
  times, so its own clock does not matter. In `Feedback` the server's clock and the
  database's are taken to be one.
- **The files of a series**, in Continue Watching, are runs of its list
  (`FilesAssumption`): katalog-api gives a file as its first episode and the number of its
  last (`EpisodeEnd`, `katalog/client.go:93`), and `buildCWEntry` relies on it
  (`continue_watching.go:131`).
- **Multi-row statements** take effect on all their rows at once. Postgres gives that
  to statements that lock existing rows in one order (and the episodes of a file
  always come in the file's order). An unmark takes the rows it saw as it began.
- **A mark from before an unmark**, sent by a phone that was offline, marks the title
  again: an unmark deletes the row and leaves nothing to compare with (`store.go:257`).
  `Playback` has that step, and no property forbids it: the code keeps no trace of the
  unmark, and no document says what should happen.
- **The overflow of the finished rule in SQL** (`finished.go:58`): a length past
  429 496 729 s makes the reads of that viewer's rows fail. `SQLOverflows` names those
  lengths and `SQLIsFinished` excludes them; no handler does.
- **Migrations** but for what order them: a migration's tables are there or not, and
  only 005's data is modelled. Two servers that create one table at once are a `Crash`
  of one.
- **Likes and stream tokens**: a like is one idempotent statement that nothing else
  reads; a token is signed and checked without state.
- **A server without a database** or without OpenProject's token: nothing is kept.
- **Text**: names beyond their lower case, tickets' and notes' contents, redaction.
- **Connections**: the pool's size, Kafka's committed offsets (a replayed note makes
  a client refetch).
- The components marked `not_modelled` in `PROJECT.json`, each with its reason there.

## The plan

Done: `Finished`, `Playback`, `Watchlists`, `AccountDeletion`, `Events`, `Feedback`,
`Answers`, `ContinueWatching`, `Startup` and `Kept`, with their proofs; `Watchlists` with
the deletion of the account; `AccountDeletion` as an `AtomicDeletion`, `Events` as a
`Feed`. In this order, next:

1. **An answer kept for a while**, as an abstract specification (what is served was
   right at some moment within its age), with `Answers` and `Kept` shown to implement it.
2. **Refinement** of `Playback` as one register per file, with the rows that an ask's
   timeout puts apart.
3. **Stream tokens** and their keys over a restart; notices.
