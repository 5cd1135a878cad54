--------------------------- MODULE AccountDeletion ---------------------------
(***************************************************************************)
(* Deleting one person's account: DELETE /api/v1/me, which takes the       *)
(* person's rows in a transaction, asks portal-api to delete the account   *)
(* meanwhile, and commits or rolls back by what it answers; and DELETE     *)
(* /admin/accounts/{sub}/data, which portal-api asks when an admin deletes *)
(* the person.  Several requests may be under way at once, the person's    *)
(* devices keep writing, portal-api may answer late, never, or after the   *)
(* request gave up, and a request may be cut off at any statement.         *)
(***************************************************************************)
EXTENDS Naturals

CONSTANTS
  Requests,  \* the requests that will come, each once
  Rows,      \* the person's rows, by their keys, in all the tables
  Needs,     \* row -> the rows its foreign key refers to
  Steps,     \* how many DELETE statements the transaction runs
  Takes      \* statement -> the rows it deletes, those it cascades to too

ASSUME NeedsAssumption == Needs \in [Rows -> SUBSET Rows]
ASSUME TakesAssumption ==
  /\ Steps \in Nat
  /\ Takes \in [1 .. Steps -> SUBSET Rows]
  /\ \A k \in Rows : \E n \in 1 .. Steps : k \in Takes[n]
  /\ \A n \in 1 .. Steps, k \in Rows : Needs[k] \cap Takes[n] # {} => k \in Takes[n]

Kinds   == {"none", "me", "admin"}
Phases  == {"new", "deleting", "asking", "committing", "ended"}
Answers == {"none", "ok", "refused", "account_not_deleted", "data_not_deleted"}
Portal  == {"none", "asked", "deleted", "gone", "refused", "failed"}

VARIABLES
  rows,      \* the person's rows, as committed
  account,   \* "there" or "gone", in the platform's realm
  phase,     \* request -> what it is doing
  kind,      \* request -> whose it is
  step,      \* request -> its next DELETE statement
  held,      \* request -> the rows its open transaction deleted, and locks
  portal,    \* request -> its call of portal-api, there: answered or not
  answer,    \* request -> what it was answered
  \* A history variable: the properties read it, no guard does.
  before     \* request -> rows there when it began, not written since

vars == <<rows, account, phase, kind, step, held, portal, answer, before>>

Init ==
  /\ rows \in SUBSET Rows
  /\ \A k \in rows : Needs[k] \subseteq rows
  /\ account = "there"
  /\ phase = [r \in Requests |-> "new"]
  /\ kind = [r \in Requests |-> "none"]
  /\ step = [r \in Requests |-> 1]
  /\ held = [r \in Requests |-> {}]
  /\ portal = [r \in Requests |-> "none"]
  /\ answer = [r \in Requests |-> "none"]
  /\ before = [r \in Requests |-> {}]

-----------------------------------------------------------------------------
(* No open transaction but r's has locked a row of ks.                     *)
FreeFor(r, ks) == \A b \in Requests \ {r} : held[b] \cap ks = {}
Free(ks)       == \A b \in Requests : held[b] \cap ks = {}

(* A request ends, its transaction with it.                                *)
End(r, words) ==
  /\ phase' = [phase EXCEPT ![r] = "ended"]
  /\ held' = [held EXCEPT ![r] = {}]
  /\ answer' = [answer EXCEPT ![r] = words]

(* One of the person's devices writes a row: the bearer is good for a      *)
(* while, whether the account is gone or not.  A row an open transaction   *)
(* deleted makes the write wait, as does one its foreign key refers to.    *)
Write(k) ==
  /\ Free({k} \cup Needs[k])
  /\ Needs[k] \subseteq rows
  /\ rows' = rows \cup {k}
  /\ before' = [r \in Requests |-> before[r] \ {k}]
  /\ UNCHANGED <<account, phase, kind, step, held, portal, answer>>

(* The handlers let a request through and the transaction begins.          *)
Begin(r, who) ==
  /\ phase[r] = "new"
  /\ phase' = [phase EXCEPT ![r] = "deleting"]
  /\ kind' = [kind EXCEPT ![r] = who]
  /\ before' = [before EXCEPT ![r] = rows]
  /\ UNCHANGED <<rows, account, step, held, portal, answer>>

(* Fault: a statement passes over the rows others locked (SKIP LOCKED).    *)
DeleteSkipping(r) ==
  LET locked == UNION {held[b] : b \in Requests \ {r}} IN
  /\ phase[r] = "deleting"
  /\ step[r] <= Steps
  /\ held' = [held EXCEPT ![r] = @ \cup ((rows \cap Takes[step[r]]) \ locked)]
  /\ step' = [step EXCEPT ![r] = @ + 1]
  /\ UNCHANGED <<rows, account, phase, kind, portal, answer, before>>

(* DeleteUserData's next statement; it waits for the rows other            *)
(* transactions locked.                                                    *)
Delete(r) ==
  /\ phase[r] = "deleting"
  /\ step[r] <= Steps
  /\ FreeFor(r, Takes[step[r]])
  /\ held' = [held EXCEPT ![r] = @ \cup (rows \cap Takes[step[r]])]
  /\ step' = [step EXCEPT ![r] = @ + 1]
  /\ UNCHANGED <<rows, account, phase, kind, portal, answer, before>>

(* After the last: a person's own request calls portal-api, an admin's     *)
(* commits.                                                                *)
Deleted(r) ==
  /\ phase[r] = "deleting"
  /\ step[r] > Steps
  /\ IF kind[r] = "me"
     THEN /\ phase' = [phase EXCEPT ![r] = "asking"]
          /\ portal' = [portal EXCEPT ![r] = "asked"]
     ELSE /\ phase' = [phase EXCEPT ![r] = "committing"]
          /\ portal' = portal
  /\ UNCHANGED <<rows, account, kind, step, held, answer, before>>

(* A statement fails, or the request is cut off before the call: nothing   *)
(* is committed.                                                           *)
DeleteFails(r) ==
  /\ phase[r] = "deleting"
  /\ End(r, "data_not_deleted")
  /\ UNCHANGED <<rows, account, kind, step, portal, before>>

-----------------------------------------------------------------------------
(* portal-api deletes the account, finds it gone, refuses, or fails; also  *)
(* for a request that gave up on it meanwhile.                             *)
PortalDeletes(r) ==
  /\ portal[r] = "asked"
  /\ account = "there"
  /\ account' = "gone"
  /\ portal' = [portal EXCEPT ![r] = "deleted"]
  /\ UNCHANGED <<rows, phase, kind, step, held, answer, before>>

PortalDoesNot(r, said) ==
  /\ portal[r] = "asked"
  /\ \/ said = "gone" /\ account = "gone"
     \/ said = "refused" /\ account = "there"
     \/ said = "failed"
  /\ portal' = [portal EXCEPT ![r] = said]
  /\ UNCHANGED <<rows, account, phase, kind, step, held, answer, before>>

(* An admin's deletion: the data first, then the account.                  *)
AdminDeletes(r) ==
  /\ kind[r] = "admin"
  /\ answer[r] = "ok"
  /\ account' = "gone"
  /\ UNCHANGED <<rows, phase, kind, step, held, portal, answer, before>>

-----------------------------------------------------------------------------
(* Faults: portal-api's words are passed on as they are; a refusal returns *)
(* without the rollback.                                                   *)
HearVerbatim(r) ==
  /\ phase[r] = "asking"
  /\ \/ /\ portal[r] \in {"deleted", "gone"}
        /\ phase' = [phase EXCEPT ![r] = "committing"]
        /\ UNCHANGED <<held, answer>>
     \/ portal[r] \in {"refused", "failed"} /\ End(r, portal[r])
  /\ UNCHANGED <<rows, account, kind, step, portal, before>>

HearWithoutRollback(r) ==
  /\ phase[r] = "asking"
  /\ \/ /\ portal[r] \in {"deleted", "gone"}
        /\ phase' = [phase EXCEPT ![r] = "committing"]
        /\ UNCHANGED <<held, answer>>
     \/ /\ portal[r] = "refused"
        /\ phase' = [phase EXCEPT ![r] = "ended"]
        /\ answer' = [answer EXCEPT ![r] = "refused"]
        /\ UNCHANGED held
     \/ portal[r] = "failed" /\ End(r, "account_not_deleted")
  /\ UNCHANGED <<rows, account, kind, step, portal, before>>

(* portal-api's answer comes back: deleted and gone are committed, the     *)
(* others rolled back.                                                     *)
Hear(r) ==
  /\ phase[r] = "asking"
  /\ \/ /\ portal[r] \in {"deleted", "gone"}
        /\ phase' = [phase EXCEPT ![r] = "committing"]
        /\ UNCHANGED <<held, answer>>
     \/ portal[r] = "refused" /\ End(r, "refused")
     \/ portal[r] = "failed" /\ End(r, "account_not_deleted")
  /\ UNCHANGED <<rows, account, kind, step, portal, before>>

(* Fault: no answer is taken for a deletion.                               *)
GiveUpAndCommit(r) ==
  /\ phase[r] = "asking"
  /\ phase' = [phase EXCEPT ![r] = "committing"]
  /\ UNCHANGED <<rows, account, kind, step, held, portal, answer, before>>

(* No answer in time (30 s), or it was lost, or the person hung up: the    *)
(* same as a failing portal-api.                                           *)
GiveUp(r) ==
  /\ phase[r] = "asking"
  /\ End(r, "account_not_deleted")
  /\ UNCHANGED <<rows, account, kind, step, portal, before>>

Commit(r) ==
  /\ phase[r] = "committing"
  /\ rows' = rows \ held[r]
  /\ End(r, "ok")
  /\ UNCHANGED <<account, kind, step, portal, before>>

(* The commit's answer is an error: the rows are still there, or gone      *)
(* (the connection was lost after the commit).                             *)
CommitFails(r, went) ==
  /\ phase[r] = "committing"
  /\ rows' = IF went THEN rows \ held[r] ELSE rows
  /\ End(r, "data_not_deleted")
  /\ UNCHANGED <<account, kind, step, portal, before>>

-----------------------------------------------------------------------------
Handle(r) ==
  \/ \E who \in {"me", "admin"} : Begin(r, who)
  \/ Delete(r) \/ DeleteFails(r) \/ Deleted(r)
  \/ Hear(r) \/ GiveUp(r)
  \/ Commit(r) \/ \E went \in BOOLEAN : CommitFails(r, went)

PortalStep(r) ==
  \/ PortalDeletes(r)
  \/ \E said \in {"gone", "refused", "failed"} : PortalDoesNot(r, said)
  \/ AdminDeletes(r)

Next ==
  \/ \E k \in Rows : Write(k)
  \/ \E r \in Requests : Handle(r) \/ PortalStep(r)

(* A request that began goes on: the database runs its statements as they  *)
(* get their locks, and the client of portal-api gives up after 30 s.      *)
Fairness ==
  \A r \in Requests : /\ WF_vars(Delete(r))
                      /\ WF_vars(Deleted(r))
                      /\ WF_vars(Hear(r) \/ GiveUp(r))
                      /\ WF_vars(Commit(r))

Spec == Init /\ [][Next]_vars /\ Fairness

-----------------------------------------------------------------------------
(* Every variable has its type.                                            *)
TypeOK ==
  /\ rows \subseteq Rows
  /\ account \in {"there", "gone"}
  /\ phase \in [Requests -> Phases]
  /\ kind \in [Requests -> Kinds]
  /\ step \in [Requests -> 1 .. Steps + 1]
  /\ held \in [Requests -> SUBSET Rows]
  /\ portal \in [Requests -> Portal]
  /\ answer \in [Requests -> Answers]
  /\ before \in [Requests -> SUBSET Rows]

(* The promise of AtomicDeletion, kept by statements, locks and calls: a   *)
(* request takes what it found as a whole or not at all, a person's own    *)
(* only once the account is gone, whatever portal-api answers, late, lost  *)
(* or twice ("committed only once portal-api has deleted the account - or  *)
(* found it gone already", internal/http/account.go), and titles that a    *)
(* device adds meanwhile go with their list or not at all.                 *)
Promise == INSTANCE AtomicDeletion WITH due <- before

DeletesAtOnce == Promise!Spec

(* Who was answered 200 has none of the rows left that were there as they  *)
(* asked, but for those a device wrote meanwhile: also when another        *)
(* deletion of theirs ran at the same time (DeleteUserData, Commit).       *)
TookWhatWasThere ==
  \A r \in Requests : answer[r] = "ok" => before[r] \cap rows = {}

(* A deletion lets go of the rows it holds: none keeps the devices' writes *)
(* or another deletion waiting for ever (deleteMe's Commit and Rollback).  *)
LocksEnd == \A r \in Requests : (held[r] # {}) ~> (held[r] = {})
=============================================================================
