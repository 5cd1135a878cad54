------------------------------ MODULE Feedback ------------------------------
(***************************************************************************)
(* Bug reports (POST /api/v1/feedback): a report past its user's budget is *)
(* refused, one with a fingerprint seen lately becomes a comment on the    *)
(* ticket of that fingerprint, any other a ticket of its own.  The ledger  *)
(* is feedback_reports; the tickets are OpenProject's.  A report is served *)
(* in several statements and calls, any of them may fail, and reports of   *)
(* one crash come from many devices at once.                               *)
(***************************************************************************)
EXTENDS Integers, FiniteSets

CONSTANTS
  Clients,        \* the apps reporting, one report each at a time
  Users,
  Fingerprints,
  NoFingerprint,  \* of a manual report, and of one that has none
  RateLimit,      \* feedbackRateLimit: that many reports of a user
  RateWindow,     \* feedbackRateWindow, in ticks of the clock
  DedupWindow,    \* feedbackDedupWindow, in ticks
  MaxTime,        \* bound: the clock stops there
  MaxReports,     \* bound: how many reports are sent in all
  MaxTickets,     \* bound: how many tickets OpenProject takes in all
  NoRow           \* no feedback_reports row

Numbers == 1 .. MaxTickets

Row    == [wp : Numbers, count : Nat, last : Nat]

(* A report under way: what its lookup found, and the ticket it opened.    *)
Report ==
  [phase : {"lookup"}, fp : Fingerprints, found : {NoRow}, wp : {0}]
  \cup [phase : {"bump", "comment"}, fp : Fingerprints, found : Row, wp : {0}]
  \cup [phase : {"create"}, fp : Fingerprints \cup {NoFingerprint},
        found : Row \cup {NoRow}, wp : {0}]
  \cup [phase : {"upsert"}, fp : Fingerprints, found : Row \cup {NoRow}, wp : Numbers]
Idle   == [phase |-> "idle"]

(* An attempt of a user's: when, and which.                                *)
Attempt == [at : Nat, nr : Nat]

ASSUME ClientsAssumption == IsFiniteSet(Clients)
ASSUME NoneAssumption    == NoRow \notin Row /\ NoFingerprint \notin Fingerprints
ASSUME LimitsAssumption  ==
  /\ RateLimit \in Nat /\ RateWindow \in Nat /\ DedupWindow \in Nat
  /\ MaxTime \in Nat /\ MaxReports \in Nat /\ MaxTickets \in Nat

VARIABLES
  clock,
  seen,      \* feedbackLimiter.seen: user -> attempts
  ledger,    \* feedback_reports: fingerprint -> row
  tickets,   \* the work packages OpenProject has
  opened,    \* how many it ever had: the last one's number
  comments,  \* ticket -> how many recurrences are written on it
  req,       \* client -> its report under way
  sent,      \* how many reports were sent
  \* History variables: the properties read them, no guard does.
  allowed,   \* user -> the attempts let through since the server started
  overtaken  \* clients whose fingerprint's row another wrote since they looked

vars == <<clock, seen, ledger, tickets, opened, comments, req, sent, allowed, overtaken>>

Init ==
  /\ clock = 0
  /\ seen = [u \in Users |-> {}]
  /\ ledger = [f \in Fingerprints |-> NoRow]
  /\ tickets = {}
  /\ opened = 0
  /\ comments = [w \in Numbers |-> 0]
  /\ req = [c \in Clients |-> Idle]
  /\ sent = 0
  /\ allowed = [u \in Users |-> {}]
  /\ overtaken = {}

-----------------------------------------------------------------------------
Done(c) == req' = [req EXCEPT ![c] = Idle]

(* A row seen lately: its ticket takes the recurrences.                    *)
Recent(row) == row # NoRow /\ clock - row.last <= DedupWindow

(* c writes the row of f: who looked at it before is overtaken.            *)
Overtake(c, f) ==
  overtaken' = overtaken \cup
    {b \in Clients \ {c} : req[b] # Idle /\ req[b].fp = f /\ req[b].phase # "lookup"}

Tick ==
  /\ clock < MaxTime
  /\ clock' = clock + 1
  /\ UNCHANGED <<seen, ledger, tickets, opened, comments, req, sent, allowed, overtaken>>

(* Whoever runs OpenProject deletes a ticket.                              *)
DeleteTicket(w) ==
  /\ w \in tickets
  /\ tickets' = tickets \ {w}
  /\ UNCHANGED <<clock, seen, ledger, opened, comments, req, sent, allowed, overtaken>>

-----------------------------------------------------------------------------
(* allow: the attempts that expired go; a user at the limit is refused.    *)
Kept(u) == {t \in seen[u] : t.at > clock - RateWindow}

(* Fault: one report too many is let through.                              *)
SpentTooLate(u) == Cardinality(Kept(u)) > RateLimit

Spent(u) == Cardinality(Kept(u)) >= RateLimit

(* A report comes in: 429, or on to its lookup - or, without a fingerprint *)
(* to look up, to a ticket of its own.                                     *)
Arrive(c, u, f) ==
  LET this == [at |-> clock, nr |-> sent + 1] IN
  /\ req[c] = Idle
  /\ sent < MaxReports
  /\ sent' = sent + 1
  /\ IF Spent(u)
     THEN /\ seen' = [seen EXCEPT ![u] = Kept(u)]
          /\ UNCHANGED <<req, allowed>>
     ELSE /\ seen' = [seen EXCEPT ![u] = Kept(u) \cup {this}]
          /\ allowed' = [allowed EXCEPT ![u] = @ \cup {this}]
          /\ req' = [req EXCEPT ![c] =
               [phase |-> IF f = NoFingerprint THEN "create" ELSE "lookup",
                fp |-> f, found |-> NoRow, wp |-> 0]]
  /\ overtaken' = overtaken \ {c}
  /\ UNCHANGED <<clock, ledger, tickets, opened, comments>>

(* GetFeedbackReport: a recent row's ticket is commented on, else a new    *)
(* one opened.                                                             *)
Lookup(c) ==
  LET row == ledger[req[c].fp] IN
  /\ req[c].phase = "lookup"
  /\ req' = [req EXCEPT ![c].found = row,
                        ![c].phase = IF Recent(row) THEN "bump" ELSE "create"]
  /\ UNCHANGED <<clock, seen, ledger, tickets, opened, comments, sent, allowed, overtaken>>

(* Fault: the count of the row that was found is written back, one higher. *)
BumpWhatWasFound(c) ==
  LET f == req[c].fp IN
  /\ req[c].phase = "bump"
  /\ ledger' = [ledger EXCEPT ![f].count = req[c].found.count + 1, ![f].last = clock]
  /\ req' = [req EXCEPT ![c].phase = "comment"]
  /\ Overtake(c, f)
  /\ UNCHANGED <<clock, seen, tickets, opened, comments, sent, allowed>>

(* BumpFeedbackReport, of the row as it is by now.                         *)
Bump(c) ==
  LET f == req[c].fp IN
  /\ req[c].phase = "bump"
  /\ ledger' = IF ledger[f] = NoRow THEN ledger
               ELSE [ledger EXCEPT ![f] = [wp |-> @.wp, count |-> @.count + 1, last |-> clock]]
  /\ req' = [req EXCEPT ![c].phase = "comment"]
  /\ Overtake(c, f)
  /\ UNCHANGED <<clock, seen, tickets, opened, comments, sent, allowed>>

(* Fault: whatever AddComment's error, a ticket is opened.                 *)
CommentOrOpen(c) ==
  LET w == req[c].found.wp IN
  /\ req[c].phase = "comment"
  /\ \/ /\ w \in tickets
        /\ comments' = [comments EXCEPT ![w] = @ + 1]
        /\ Done(c)
     \/ /\ req' = [req EXCEPT ![c].phase = "create"]
        /\ UNCHANGED comments
  /\ UNCHANGED <<clock, seen, ledger, tickets, opened, sent, allowed, overtaken>>

(* AddComment, on the ticket the lookup found; when that was deleted, a    *)
(* new one is opened.                                                      *)
Comment(c) ==
  LET w == req[c].found.wp IN
  /\ req[c].phase = "comment"
  /\ IF w \in tickets
     THEN /\ comments' = [comments EXCEPT ![w] = @ + 1]
          /\ Done(c)
     ELSE /\ req' = [req EXCEPT ![c].phase = "create"]
          /\ UNCHANGED comments
  /\ UNCHANGED <<clock, seen, ledger, tickets, opened, sent, allowed, overtaken>>

(* Fault: a ticket whose answer was lost is written down, as number 0.     *)
CreateUnheard(c, heard) ==
  /\ req[c].phase = "create"
  /\ opened < MaxTickets
  /\ opened' = opened + 1
  /\ tickets' = tickets \cup {opened + 1}
  /\ IF req[c].fp # NoFingerprint
     THEN req' = [req EXCEPT ![c].phase = "upsert",
                             ![c].wp = IF heard THEN opened + 1 ELSE 0]
     ELSE Done(c)
  /\ UNCHANGED <<clock, seen, ledger, comments, sent, allowed, overtaken>>

(* CreateWorkPackage.  The ticket is open, whether its answer is heard or  *)
(* lost.  An auto report's ticket is then written down.                    *)
Create(c, heard) ==
  /\ req[c].phase = "create"
  /\ opened < MaxTickets
  /\ opened' = opened + 1
  /\ tickets' = tickets \cup {opened + 1}
  /\ IF heard /\ req[c].fp # NoFingerprint
     THEN req' = [req EXCEPT ![c].phase = "upsert", ![c].wp = opened + 1]
     ELSE Done(c)
  /\ UNCHANGED <<clock, seen, ledger, comments, sent, allowed, overtaken>>

(* UpsertFeedbackReport: the row points at the new ticket, counted anew.   *)
Upsert(c) ==
  LET f == req[c].fp IN
  /\ req[c].phase = "upsert"
  /\ ledger' = [ledger EXCEPT ![f] = [wp |-> req[c].wp, count |-> 1, last |-> clock]]
  /\ Done(c)
  /\ Overtake(c, f)
  /\ UNCHANGED <<clock, seen, tickets, opened, comments, sent, allowed>>

(* A report ends before its next statement or call: it is malformed, the   *)
(* database or OpenProject fails, the client hangs up.                     *)
Fail(c) ==
  /\ req[c] # Idle
  /\ Done(c)
  /\ UNCHANGED <<clock, seen, ledger, tickets, opened, comments, sent, allowed, overtaken>>

(* The server restarts: the limiter is in memory.                          *)
Restart ==
  /\ seen' = [u \in Users |-> {}]
  /\ allowed' = [u \in Users |-> {}]
  /\ req' = [c \in Clients |-> Idle]
  /\ UNCHANGED <<clock, ledger, tickets, opened, comments, sent, overtaken>>

Handle(c) ==
  \/ \E u \in Users, f \in Fingerprints \cup {NoFingerprint} : Arrive(c, u, f)
  \/ Lookup(c) \/ Bump(c) \/ Comment(c)
  \/ \E heard \in BOOLEAN : Create(c, heard)
  \/ Upsert(c) \/ Fail(c)

Next ==
  \/ Tick \/ Restart
  \/ \E w \in tickets : DeleteTicket(w)
  \/ \E c \in Clients : Handle(c)

Spec == Init /\ [][Next]_vars

-----------------------------------------------------------------------------
(* Every variable has its type, and no row or report names a ticket that   *)
(* was never opened.                                                       *)
TypeOK ==
  /\ clock \in 0 .. MaxTime
  /\ seen \in [Users -> SUBSET Attempt]
  /\ ledger \in [Fingerprints -> Row \cup {NoRow}]
  /\ tickets \subseteq 1 .. opened
  /\ opened \in 0 .. MaxTickets
  /\ comments \in [Numbers -> Nat]
  /\ req \in [Clients -> Report \cup {Idle}]
  /\ sent \in 0 .. MaxReports
  /\ allowed \in [Users -> SUBSET Attempt]
  /\ overtaken \subseteq Clients

(* However its reports are spread, a user gets no more than the limit      *)
(* through in any window, but for a restart (feedbackLimiter.allow, which  *)
(* forgets an attempt once it expired).                                    *)
WithinTheBudget ==
  \A u \in Users : \A t \in allowed[u] :
    Cardinality({s \in allowed[u] : s.at <= t.at /\ s.at > t.at - RateWindow}) <= RateLimit

(* No ticket has more recurrences written on it than its row counts,       *)
(* though the bump does not look at the ticket the comment goes to, and    *)
(* the row may be pointed elsewhere in between (postFeedback).             *)
CommentsAreCounted ==
  \A f \in Fingerprints : ledger[f] # NoRow =>
    comments[ledger[f].wp] < ledger[f].count

HasTicket(f) ==
  /\ f # NoFingerprint
  /\ Recent(ledger[f])
  /\ ledger[f].wp \in tickets

Opens(c) == opened' = opened + 1 /\ req[c].phase = "create" /\ req'[c] # req[c]

(* "a recurrence within feedbackDedupWindow only appends a comment to the  *)
(* existing ticket" (postFeedback), but look-up, ticket and row are three  *)
(* steps: a report opens a ticket while the row of its fingerprint is      *)
(* recent and the row's ticket is there only when another of its           *)
(* fingerprint wrote the row after it looked.  No deletion of a ticket, no *)
(* time that passed and no failure before makes it open a second one.      *)
SecondTicketByRacesOnly ==
  [][\A c \in Clients :
       (Opens(c) /\ HasTicket(req[c].fp)) => c \in overtaken]_vars
=============================================================================
