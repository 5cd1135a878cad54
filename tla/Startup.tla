------------------------------- MODULE Startup -------------------------------
(***************************************************************************)
(* The life of chino-api's servers on one database: each applies the       *)
(* migrations not yet recorded, then serves, and may be killed at any      *)
(* moment and started again.  Several run at once (a rollout that another  *)
(* one overtakes, a node that is cut off), beside a server of the version  *)
(* before, which is stopped once a new one serves (k8s/deployment.yaml).   *)
(* One migration moves data: 005 copies a person's legacy watchlist to     *)
(* their default list, while that person goes on using both.  A server     *)
(* that serves makes its verifier of bearers with the first one it gets.   *)
(***************************************************************************)
EXTENDS Naturals

CONSTANTS
  Servers,     \* the servers of this version
  Last,        \* the migrations are 1 .. Last, in the order of their names
  Move,        \* the one that moves the legacy watchlist
  Titles,      \* what a person may put on their list
  MaxCrashes   \* bound: how often a server fails or is killed

ASSUME StartupAssumption ==
  /\ Last \in Nat /\ Move \in 1 .. Last
  /\ MaxCrashes \in Nat

Phases == {"down", "creating", "checking", "applying", "recording", "serving"}

VARIABLES
  phase,      \* server -> what it is doing
  next,       \* server -> the migration it is at
  table,      \* schema_migrations is there
  recorded,   \* schema_migrations
  applied,    \* the migrations whose transaction committed
  old,        \* a server of the version before serves
  legacy,     \* watchlist: the person's titles there
  hasList,    \* the person's default list is there
  list,       \* watchlist_items: its titles
  issuer,     \* the OIDC issuer answers
  verifier,   \* server -> its verifier: not made yet, made, or failed
  crashes,    \* how often a server failed
  \* History variables: the properties read them, no guard does.
  removed,    \* titles taken off the list, and not put on since
  late,       \* titles the old server wrote since they were last moved
  overtaken   \* servers at a migration another one recorded meanwhile

database == <<table, recorded, applied>>
shelf    == <<legacy, hasList, list, removed, late>>
identity == <<issuer, verifier>>
startupVars     == <<phase, next, database, old, shelf, identity, crashes, overtaken>>

(* The database as an earlier version left it, without the record if that  *)
(* version kept none.                                                      *)
StartupInit ==
  /\ phase = [s \in Servers |-> "down"]
  /\ next = [s \in Servers |-> 1]
  /\ \E k \in 0 .. Move - 1 : applied = 1 .. k
  /\ table \in BOOLEAN
  /\ recorded = IF table THEN applied ELSE {}
  /\ old \in BOOLEAN
  /\ legacy \in SUBSET Titles
  /\ (old \/ legacy # {}) => applied = 1 .. Move - 1
  /\ hasList = FALSE
  /\ list = {}
  /\ issuer \in BOOLEAN
  /\ verifier = [s \in Servers |-> "unmade"]
  /\ crashes = 0
  /\ removed = {}
  /\ late = {}
  /\ overtaken = {}

-----------------------------------------------------------------------------
At(s, p)  == phase[s] = p
Go(s, p)  == phase' = [phase EXCEPT ![s] = p]
Serving   == \E s \in Servers : At(s, "serving")

(* The process ends, and with it what it had in memory.                    *)
Exit(s) ==
  /\ Go(s, "down")
  /\ verifier' = [verifier EXCEPT ![s] = "unmade"]
  /\ overtaken' = overtaken \ {s}

(* The orchestrator starts a server that is down.                          *)
Start(s) ==
  /\ At(s, "down")
  /\ Go(s, "creating")
  /\ next' = [next EXCEPT ![s] = 1]
  /\ UNCHANGED <<database, old, shelf, identity, crashes, overtaken>>

(* Migrate's CREATE TABLE IF NOT EXISTS schema_migrations.                 *)
Create(s) ==
  /\ At(s, "creating")
  /\ table' = TRUE
  /\ Go(s, "checking")
  /\ UNCHANGED <<next, recorded, applied, old, shelf, identity, crashes, overtaken>>

(* Faults: what is recorded is not asked; a move of data, safe to repeat   *)
(* as it seems, runs at every start; the record is made before the         *)
(* statements run.                                                         *)
CheckNothing(s) ==
  /\ At(s, "checking")
  /\ IF next[s] > Last THEN Go(s, "serving") ELSE Go(s, "applying")
  /\ UNCHANGED <<next, database, old, shelf, identity, crashes, overtaken>>

CheckTables(s) ==
  /\ At(s, "checking")
  /\ IF next[s] > Last
     THEN Go(s, "serving") /\ UNCHANGED next
     ELSE IF next[s] \in recorded \ {Move}
     THEN next' = [next EXCEPT ![s] = @ + 1] /\ UNCHANGED phase
     ELSE Go(s, "applying") /\ UNCHANGED next
  /\ UNCHANGED <<database, old, shelf, identity, crashes, overtaken>>

CheckAndRecord(s) ==
  /\ At(s, "checking")
  /\ IF next[s] > Last
     THEN Go(s, "serving") /\ UNCHANGED <<next, recorded>>
     ELSE IF next[s] \in recorded
     THEN next' = [next EXCEPT ![s] = @ + 1] /\ UNCHANGED <<phase, recorded>>
     ELSE Go(s, "applying") /\ recorded' = recorded \cup {next[s]} /\ UNCHANGED next
  /\ UNCHANGED <<table, applied, old, shelf, identity, crashes, overtaken>>

(* Its loop: a recorded migration is passed over, and after the last one   *)
(* the server listens.                                                     *)
Check(s) ==
  /\ At(s, "checking")
  /\ IF next[s] > Last
     THEN Go(s, "serving") /\ UNCHANGED next
     ELSE IF next[s] \in recorded
     THEN next' = [next EXCEPT ![s] = @ + 1] /\ UNCHANGED phase
     ELSE Go(s, "applying") /\ UNCHANGED next
  /\ UNCHANGED <<database, old, shelf, identity, crashes, overtaken>>

(* Fault: the titles are copied to lists this migration made only.         *)
CopyToNewLists == IF hasList THEN list ELSE legacy

(* What 005 makes of the person's list: the legacy titles besides its own. *)
Moved == list \cup legacy

(* A migration's statements, one transaction: tables that are there stay.  *)
Apply(s) ==
  /\ At(s, "applying")
  /\ applied' = applied \cup {next[s]}
  /\ IF next[s] = Move
     THEN /\ hasList' = (hasList \/ legacy # {})
          /\ list' = Moved
          /\ late' = {}
     ELSE UNCHANGED <<hasList, list, late>>
  /\ Go(s, "recording")
  /\ UNCHANGED <<next, table, recorded, old, legacy, removed, identity, crashes, overtaken>>

(* Its record.  When another server recorded it first the key is there     *)
(* already, and the server gives up its start.                             *)
Record(s) ==
  /\ At(s, "recording")
  /\ IF next[s] \in recorded
     THEN Exit(s) /\ UNCHANGED <<next, recorded>>
     ELSE /\ recorded' = recorded \cup {next[s]}
          /\ next' = [next EXCEPT ![s] = @ + 1]
          /\ Go(s, "checking")
          /\ overtaken' = overtaken \cup
               {b \in Servers \ {s} : At(b, "applying") /\ next[b] = next[s]}
          /\ UNCHANGED verifier
  /\ UNCHANGED <<table, applied, old, shelf, issuer, crashes>>

(* Killed, cut off, or a statement fails - of two servers that create the  *)
(* same table at once, one's may.                                          *)
Crash(s) ==
  /\ ~At(s, "down")
  /\ crashes < MaxCrashes
  /\ crashes' = crashes + 1
  /\ Exit(s)
  /\ UNCHANGED <<next, database, old, shelf, issuer>>

-----------------------------------------------------------------------------
(* The person on a server of this version: each request makes the default  *)
(* list where there is none.                                               *)
Add(t) ==
  /\ Serving
  /\ hasList' = TRUE
  /\ list' = list \cup {t}
  /\ removed' = removed \ {t}
  /\ UNCHANGED <<phase, next, database, old, legacy, late, identity, crashes, overtaken>>

Remove(t) ==
  /\ Serving
  /\ hasList' = TRUE
  /\ list' = list \ {t}
  /\ removed' = removed \cup {t}
  /\ UNCHANGED <<phase, next, database, old, legacy, late, identity, crashes, overtaken>>

(* DeleteUserData, committed: the legacy rows too.                         *)
DeleteData ==
  /\ Serving
  /\ hasList' = FALSE
  /\ list' = {}
  /\ legacy' = {}
  /\ removed' = Titles
  /\ late' = {}
  /\ UNCHANGED <<phase, next, database, old, identity, crashes, overtaken>>

(* The version before wrote the legacy table (SetFlag), and its server is  *)
(* stopped once one of this version is ready; a rollback starts it again.  *)
OldAdd(t) ==
  /\ old
  /\ legacy' = legacy \cup {t}
  /\ late' = IF Move \in applied THEN late \cup {t} ELSE late
  /\ removed' = removed \ {t}
  /\ UNCHANGED <<phase, next, database, old, hasList, list, identity, crashes, overtaken>>

OldRemove(t) ==
  /\ old
  /\ legacy' = legacy \ {t}
  /\ UNCHANGED <<phase, next, database, old, hasList, list, removed, late,
                 identity, crashes, overtaken>>

OldStops ==
  /\ old /\ Serving
  /\ old' = FALSE
  /\ UNCHANGED <<phase, next, database, shelf, identity, crashes, overtaken>>

OldStarts ==
  /\ ~old
  /\ applied # {} /\ 1 .. Move - 1 \subseteq applied
  /\ old' = TRUE
  /\ UNCHANGED <<phase, next, database, shelf, identity, crashes, overtaken>>

-----------------------------------------------------------------------------
IssuerTurns ==
  /\ issuer' = ~issuer
  /\ UNCHANGED <<phase, next, database, old, shelf, verifier, crashes, overtaken>>

(* A request with a bearer: the first one asks the issuer, in its own      *)
(* context, and what comes of it is kept (sync.Once).  The ask fails too   *)
(* when its client hangs up.                                               *)
Bearer(s, made) ==
  /\ At(s, "serving")
  /\ verifier[s] = "unmade"
  /\ made => issuer
  /\ verifier' = [verifier EXCEPT ![s] = IF made THEN "made" ELSE "failed"]
  /\ UNCHANGED <<phase, next, database, old, shelf, issuer, crashes, overtaken>>

Asked(s) == \E made \in BOOLEAN : Bearer(s, made)

ServerStep(s) == Start(s) \/ Create(s) \/ Check(s) \/ Apply(s) \/ Record(s)

StartupNext ==
  \/ \E s \in Servers : ServerStep(s) \/ Crash(s) \/ Asked(s)
  \/ \E t \in Titles : Add(t) \/ Remove(t) \/ OldAdd(t) \/ OldRemove(t)
  \/ DeleteData \/ OldStops \/ OldStarts
  \/ IssuerTurns

(* The orchestrator starts what is down, Migrate goes on, clients ask.     *)
Fairness ==
  \A s \in Servers : WF_startupVars(ServerStep(s)) /\ WF_startupVars(Asked(s))

StartupSpec == StartupInit /\ [][StartupNext]_startupVars /\ Fairness

-----------------------------------------------------------------------------
(* Every variable has its type; a migration that is run is one of them.    *)
StartupTypeOK ==
  /\ phase \in [Servers -> Phases]
  /\ next \in [Servers -> 1 .. Last + 1]
  /\ \A s \in Servers : phase[s] \in {"applying", "recording"} => next[s] # Last + 1
  /\ table \in BOOLEAN
  /\ recorded \subseteq 1 .. Last
  /\ applied \subseteq 1 .. Last
  /\ old \in BOOLEAN
  /\ legacy \subseteq Titles
  /\ hasList \in BOOLEAN
  /\ list \subseteq Titles
  /\ issuer \in BOOLEAN
  /\ verifier \in [Servers -> {"unmade", "made", "failed"}]
  /\ crashes \in 0 .. MaxCrashes
  /\ removed \subseteq Titles
  /\ late \subseteq Titles
  /\ overtaken \subseteq Servers

(* A server serves with every table its code reads, and each migration     *)
(* finds what the ones before it made, wherever servers were killed and    *)
(* whichever started at once (Migrate).                                    *)
ServesMigrated ==
  /\ \A n \in applied : 1 .. n \subseteq applied
  /\ Serving => applied = 1 .. Last

(* "copies every existing row into the new shape so nothing is lost"       *)
(* (005_named_watchlists.sql): once 005 is through, a legacy title is on   *)
(* the default list, or was taken off it - but for what the old server,    *)
(* which serves until a new one does, wrote after the copy.                *)
OnlyLateOnesAreLost ==
  Move \in applied => legacy \subseteq list \cup removed \cup late

(* "re-running is safe" (migrate.go): a title taken off the list comes     *)
(* back only by a server that had looked 005 up before another recorded    *)
(* it; no crash, restart or rollback alone brings one back.                *)
ComesBack == \E t \in removed \cap removed' : t \notin list /\ t \in list'

ByAnOvertaken ==
  ComesBack => \E s \in overtaken : At(s, "applying") /\ phase'[s] = "recording"

BackByOvertakenOnly == [][ByAnOvertaken]_startupVars

(* However the servers get in each other's way - a record already there    *)
(* ends a start - each of them serves in the end, once it is killed no     *)
(* more (main, Migrate).                                                   *)
AllServeInTheEnd == <>[](\A s \in Servers : At(s, "serving"))

(* "oidc provider unavailable" (auth/oidc.go) is an answer of the time it  *)
(* is: once the issuer answers for good, a server that serves lets bearers *)
(* in, in the end.                                                         *)
BearersGetIn ==
  <>[]issuer => \A s \in Servers : []<>(At(s, "serving") => verifier[s] = "made")
=============================================================================
