--------------------------- MODULE AtomicDeletion ---------------------------
(***************************************************************************)
(* What deleting a person's data promises, whatever statements, locks and  *)
(* calls it is made of: each request takes, in one step, all the rows it   *)
(* found and nobody wrote since, or none; a person's own only once their   *)
(* account is gone; and no row is left that refers to one it took.         *)
(***************************************************************************)
CONSTANTS Requests, Rows, Needs

VARIABLES
  rows,     \* the person's rows
  account,  \* "there" or "gone"
  kind,     \* request -> whose it is
  due,      \* request -> the rows it owes: found as it began, not written since
  answer    \* request -> what it was answered

vars == <<rows, account, kind, due, answer>>

(* Every row's foreign keys are met.                                       *)
Whole(ks) == \A k \in ks : Needs[k] \subseteq ks

Init ==
  /\ rows \in SUBSET Rows /\ Whole(rows)
  /\ account = "there"
  /\ kind = [r \in Requests |-> "none"]
  /\ due = [r \in Requests |-> {}]
  /\ answer = [r \in Requests |-> "none"]

Write(k) ==
  /\ Needs[k] \subseteq rows
  /\ rows' = rows \cup {k}
  /\ due' = [r \in Requests |-> due[r] \ {k}]
  /\ UNCHANGED <<account, kind, answer>>

Ask(r, who) ==
  /\ kind[r] = "none"
  /\ kind' = [kind EXCEPT ![r] = who]
  /\ due' = [due EXCEPT ![r] = rows]
  /\ UNCHANGED <<rows, account, answer>>

Underway(r) == kind[r] # "none" /\ answer[r] = "none"

AccountGoes ==
  /\ account' = "gone"
  /\ UNCHANGED <<rows, kind, due, answer>>

(* All at once; who is not told "ok" may find it done all the same.        *)
Take(r, ks, said) ==
  /\ Underway(r)
  /\ kind[r] = "admin" \/ account = "gone"
  /\ due[r] \cap rows \subseteq ks
  /\ rows' = rows \ ks
  /\ Whole(rows')
  /\ answer' = [answer EXCEPT ![r] = said]
  /\ UNCHANGED <<account, kind, due>>

Leave(r, said) ==
  /\ Underway(r)
  /\ answer' = [answer EXCEPT ![r] = said]
  /\ UNCHANGED <<rows, account, kind, due>>

Next ==
  \/ \E k \in Rows : Write(k)
  \/ AccountGoes
  \/ \E r \in Requests :
       \/ \E who \in {"me", "admin"} : Ask(r, who)
       \/ \E ks \in SUBSET Rows, said \in {"ok", "data_not_deleted"} : Take(r, ks, said)
       \/ \E said \in {"refused", "account_not_deleted", "data_not_deleted"} : Leave(r, said)

Spec == Init /\ [][Next]_vars
=============================================================================
