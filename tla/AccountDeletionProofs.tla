----------------------- MODULE AccountDeletionProofs -----------------------
(***************************************************************************)
(* The safety properties of AccountDeletion, for any number of requests    *)
(* and rows, any tables and any foreign keys.                              *)
(***************************************************************************)
EXTENDS AccountDeletion, TLAPS

USE NeedsAssumption, TakesAssumption

-----------------------------------------------------------------------------
(* Every step keeps the types.                                             *)
LEMMA TypeStep == TypeOK /\ [Next]_vars => TypeOK'
<1> SUFFICES ASSUME TypeOK, [Next]_vars PROVE TypeOK'
  OBVIOUS
<1> USE DEF TypeOK
<1>1. ASSUME NEW r \in Requests, NEW words \in Answers, End(r, words)
      PROVE  /\ phase' \in [Requests -> Phases]
             /\ held' \in [Requests -> SUBSET Rows]
             /\ answer' \in [Requests -> Answers]
  BY <1>1 DEF End, Phases
<1>2. ASSUME NEW k \in Rows, Write(k) PROVE TypeOK'
  BY <1>2 DEF Write
<1>3. ASSUME NEW r \in Requests, NEW who \in {"me", "admin"}, Begin(r, who) PROVE TypeOK'
  BY <1>3 DEF Begin, Phases, Kinds
<1>4. ASSUME NEW r \in Requests, Delete(r) PROVE TypeOK'
  <2>1. step' \in [Requests -> 1 .. Steps + 1]
    BY <1>4 DEF Delete
  <2>2. held' \in [Requests -> SUBSET Rows]
    BY <1>4 DEF Delete
  <2> QED
    BY <1>4, <2>1, <2>2 DEF Delete
<1>5. ASSUME NEW r \in Requests, Deleted(r) PROVE TypeOK'
  BY <1>5 DEF Deleted, Phases, Portal
<1>6. ASSUME NEW r \in Requests, DeleteFails(r) PROVE TypeOK'
  BY <1>1, <1>6 DEF DeleteFails, Answers
<1>7. ASSUME NEW r \in Requests, Hear(r) PROVE TypeOK'
  BY <1>1, <1>7 DEF Hear, Answers, Phases
<1>8. ASSUME NEW r \in Requests, GiveUp(r) PROVE TypeOK'
  BY <1>1, <1>8 DEF GiveUp, Answers
<1>9. ASSUME NEW r \in Requests, Commit(r) PROVE TypeOK'
  BY <1>1, <1>9 DEF Commit, Answers
<1>10. ASSUME NEW r \in Requests, NEW went \in BOOLEAN, CommitFails(r, went) PROVE TypeOK'
  BY <1>1, <1>10 DEF CommitFails, Answers
<1>11. ASSUME NEW r \in Requests, PortalStep(r) PROVE TypeOK'
  BY <1>11 DEF PortalStep, PortalDeletes, PortalDoesNot, AdminDeletes, Portal
<1>12. CASE UNCHANGED vars
  BY <1>12 DEF vars
<1> QED
  BY <1>2, <1>3, <1>4, <1>5, <1>6, <1>7, <1>8, <1>9, <1>10, <1>11, <1>12
  DEF Next, Handle

(* Every variable keeps its type.                                          *)
THEOREM TypeCorrect == Spec => []TypeOK
<1>1. Init => TypeOK
  BY DEF Init, TypeOK, Phases, Kinds, Portal, Answers
<1> QED
  BY <1>1, TypeStep, PTL DEF Spec

-----------------------------------------------------------------------------
(* portal-api says an account deleted or gone only once it is, and only    *)
(* what it said so of is committed, or an admin's; who began is known.     *)
AccountKnown ==
  \A r \in Requests :
    /\ portal[r] \in {"deleted", "gone"} => account = "gone"
    /\ phase[r] = "committing" => kind[r] = "admin" \/ account = "gone"
    /\ phase[r] = "new" <=> kind[r] = "none"

(* Every step keeps it: portal-api's answer comes before the commit.       *)
LEMMA AccountKnownStep == TypeOK /\ AccountKnown /\ [Next]_vars => AccountKnown'
<1> SUFFICES ASSUME TypeOK, AccountKnown, [Next]_vars PROVE AccountKnown'
  OBVIOUS
<1> USE DEF TypeOK, AccountKnown, Kinds
<1>1. ASSUME NEW k \in Rows, Write(k) PROVE AccountKnown'
  BY <1>1 DEF Write
<1>2. ASSUME NEW r \in Requests, NEW who \in {"me", "admin"}, Begin(r, who) PROVE AccountKnown'
  BY <1>2 DEF Begin
<1>3. ASSUME NEW r \in Requests, Delete(r) \/ Deleted(r) PROVE AccountKnown'
  BY <1>3 DEF Delete, Deleted
<1>4. ASSUME NEW r \in Requests, DeleteFails(r) \/ Hear(r) \/ GiveUp(r) PROVE AccountKnown'
  BY <1>4 DEF DeleteFails, Hear, GiveUp, End
<1>5. ASSUME NEW r \in Requests, NEW went, Commit(r) \/ CommitFails(r, went) PROVE AccountKnown'
  BY <1>5 DEF Commit, CommitFails, End
<1>6. ASSUME NEW r \in Requests, PortalStep(r) PROVE AccountKnown'
  BY <1>6 DEF PortalStep, PortalDeletes, PortalDoesNot, AdminDeletes
<1>7. CASE UNCHANGED vars
  BY <1>7 DEF vars
<1> QED
  BY <1>1, <1>2, <1>3, <1>4, <1>5, <1>6, <1>7 DEF Next, Handle

-----------------------------------------------------------------------------
(* The rows a request found, and its statements so far took, are held or   *)
(* gone; after the last statement those are all it found.                  *)
Open(r) == phase[r] \in {"deleting", "asking", "committing"}

TakenSoFar ==
  \A r \in Requests :
    /\ Open(r) => \A n \in 1 .. Steps :
         n < step[r] => before[r] \cap Takes[n] \cap rows \subseteq held[r]
    /\ phase[r] \in {"asking", "committing"} => step[r] = Steps + 1
    /\ phase[r] = "new" => step[r] = 1
    /\ answer[r] # "none" => phase[r] = "ended"

TakeInv == TakenSoFar /\ TookWhatWasThere

(* A step that moves no request but by ending it, and adds no row to what  *)
(* a request found, keeps it, when who is newly answered 200 took it all.  *)
LEMMA OthersTake ==
  ASSUME TypeOK, TakeInv, TypeOK', NEW r \in Requests, step' = step,
         \A b \in Requests : before'[b] \cap rows' \subseteq before[b] \cap rows,
         \A b \in Requests \ {r} : /\ phase'[b] = phase[b] /\ held'[b] = held[b]
                                   /\ answer'[b] = answer[b],
         phase'[r] = "ended", answer'[r] = "ok" => before'[r] \cap rows' = {}
  PROVE  TakeInv'
<1>1. \A b \in Requests \ {r} : \A n \in 1 .. Steps :
        before[b] \cap Takes[n] \cap rows \subseteq held[b]
          => before'[b] \cap Takes[n] \cap rows' \subseteq held'[b]
  OBVIOUS
<1>2. TakenSoFar'
  BY <1>1 DEF TakeInv, TakenSoFar, Open
<1>3. TookWhatWasThere'
  BY DEF TakeInv, TookWhatWasThere
<1> QED
  BY <1>2, <1>3 DEF TakeInv

(* What is about to be committed holds all the request found and owes.     *)
LEMMA HoldsItAll ==
  ASSUME TypeOK, TakeInv, NEW r \in Requests, phase[r] = "committing"
  PROVE  before[r] \cap rows \subseteq held[r]
<1> SUFFICES ASSUME NEW k \in before[r] \cap rows PROVE k \in held[r]
  OBVIOUS
<1>1. PICK n \in 1 .. Steps : k \in Takes[n]
  BY DEF TypeOK
<1>2. n < step[r]
  BY DEF TakeInv, TakenSoFar
<1> QED
  BY <1>1, <1>2 DEF TakeInv, TakenSoFar, Open

(* Every step keeps it: what a request deleted stays held until it ends.   *)
LEMMA TakeInvStep == TypeOK /\ TypeOK' /\ TakeInv /\ [Next]_vars => TakeInv'
<1> SUFFICES ASSUME TypeOK, TypeOK', TakeInv, [Next]_vars PROVE TakeInv'
  OBVIOUS
<1>1. ASSUME NEW k \in Rows, Write(k) PROVE TakeInv'
  <2>1. \A b \in Requests : before'[b] \cap rows' \subseteq before[b] \cap rows
    BY <1>1 DEF Write
  <2> QED
    BY <1>1, <2>1 DEF Write, TakeInv, TakenSoFar, TookWhatWasThere, Open
<1>2. ASSUME NEW r \in Requests, NEW who \in {"me", "admin"}, Begin(r, who) PROVE TakeInv'
  <2>1. /\ step[r] = 1 /\ step' = step /\ answer[r] = "none" /\ answer' = answer
        /\ held' = held /\ rows' = rows
        /\ phase'[r] = "deleting"
        /\ \A b \in Requests \ {r} : phase'[b] = phase[b] /\ before'[b] = before[b]
    BY <1>2 DEF Begin, TakeInv, TakenSoFar, TypeOK
  <2>2. TakenSoFar'
    BY <2>1 DEF TakeInv, TakenSoFar, Open
  <2>3. TookWhatWasThere'
    BY <2>1 DEF TakeInv, TookWhatWasThere
  <2> QED
    BY <2>2, <2>3 DEF TakeInv
<1>3. ASSUME NEW r \in Requests, Delete(r) PROVE TakeInv'
  <2>1. /\ step[r] \in 1 .. Steps /\ step'[r] = step[r] + 1
        /\ held'[r] = held[r] \cup (rows \cap Takes[step[r]])
        /\ \A b \in Requests \ {r} : step'[b] = step[b] /\ held'[b] = held[b]
        /\ phase' = phase /\ before' = before /\ answer' = answer /\ rows' = rows
        /\ phase[r] = "deleting"
    BY <1>3 DEF Delete, TypeOK
  <2>2. ASSUME NEW n \in 1 .. Steps, n < step'[r]
        PROVE  before[r] \cap Takes[n] \cap rows \subseteq held'[r]
    <3>1. CASE n = step[r]
      BY <2>1, <3>1
    <3>2. CASE n < step[r]
      BY <2>1, <3>2 DEF TakeInv, TakenSoFar, Open
    <3> QED
      BY <2>1, <2>2, <3>1, <3>2
  <2>3. TakenSoFar'
    BY <2>1, <2>2 DEF TakeInv, TakenSoFar, Open
  <2>4. TookWhatWasThere'
    BY <2>1 DEF TakeInv, TookWhatWasThere
  <2> QED
    BY <2>3, <2>4 DEF TakeInv
<1>4. ASSUME NEW r \in Requests, Deleted(r) PROVE TakeInv'
  <2>1. step[r] = Steps + 1
    BY <1>4 DEF Deleted, TypeOK
  <2> QED
    BY <1>4, <2>1 DEF Deleted, TakeInv, TakenSoFar, TookWhatWasThere, Open, TypeOK
<1>5. ASSUME NEW r \in Requests, DeleteFails(r) \/ GiveUp(r) PROVE TakeInv'
  BY <1>5, OthersTake DEF DeleteFails, GiveUp, End, TypeOK
<1>6. ASSUME NEW r \in Requests, Hear(r) PROVE TakeInv'
  <2>1. CASE portal[r] \in {"deleted", "gone"}
    BY <1>6, <2>1 DEF Hear, TakeInv, TakenSoFar, TookWhatWasThere, Open, TypeOK
  <2>2. CASE \E words \in {"refused", "account_not_deleted"} : End(r, words)
    BY <1>6, <2>2, OthersTake DEF Hear, End, TypeOK
  <2> QED
    BY <1>6, <2>1, <2>2 DEF Hear
<1>7. ASSUME NEW r \in Requests, Commit(r) PROVE TakeInv'
  <2>1. before[r] \cap rows \subseteq held[r]
    BY <1>7, HoldsItAll DEF Commit
  <2>2. before'[r] \cap rows' = {}
    BY <1>7, <2>1 DEF Commit
  <2> QED
    BY <1>7, <2>2, OthersTake DEF Commit, End, TypeOK
<1>8. ASSUME NEW r \in Requests, NEW went \in BOOLEAN, CommitFails(r, went) PROVE TakeInv'
  BY <1>8, OthersTake DEF CommitFails, End, TypeOK
<1>9. ASSUME NEW r \in Requests, PortalStep(r) PROVE TakeInv'
  BY <1>9 DEF PortalStep, PortalDeletes, PortalDoesNot, AdminDeletes,
              TakeInv, TakenSoFar, TookWhatWasThere, Open
<1>10. CASE UNCHANGED vars
  BY <1>10 DEF vars, TakeInv, TakenSoFar, TookWhatWasThere, Open
<1> QED
  BY <1>1, <1>2, <1>3, <1>4, <1>5, <1>6, <1>7, <1>8, <1>9, <1>10 DEF Next, Handle

(* Who was answered 200 has none of the rows left that were there as they  *)
(* asked and were not written since, however requests, devices and         *)
(* portal-api interleave (DeleteUserData, Commit).                         *)
THEOREM OkTookEverything == Spec => []TookWhatWasThere
<1>1. Init => TakeInv
  BY DEF Init, TakeInv, TakenSoFar, TookWhatWasThere, Open
<1>2. TakeInv => TookWhatWasThere
  BY DEF TakeInv
<1> QED
  BY <1>1, <1>2, TakeInvStep, TypeCorrect, PTL DEF Spec

-----------------------------------------------------------------------------
(* Every row's foreign keys are met, and who holds a row holds the rows    *)
(* that refer to it: statements cascade, and a locked row takes no new     *)
(* titles.                                                                 *)
KeysMet ==
  /\ \A k \in rows : Needs[k] \subseteq rows
  /\ \A r \in Requests : \A k \in rows : Needs[k] \cap held[r] # {} => k \in held[r]

(* Every step keeps it.                                                    *)
LEMMA KeysMetStep == TypeOK /\ KeysMet /\ [Next]_vars => KeysMet'
<1> SUFFICES ASSUME TypeOK, KeysMet, [Next]_vars PROVE KeysMet'
  OBVIOUS
<1> USE DEF TypeOK, KeysMet
<1>1. ASSUME NEW k \in Rows, Write(k) PROVE KeysMet'
  BY <1>1 DEF Write, Free
<1>2. ASSUME NEW r \in Requests, Delete(r) PROVE KeysMet'
  <2>1. /\ rows' = rows /\ step[r] \in 1 .. Steps
        /\ held'[r] = held[r] \cup (rows \cap Takes[step[r]])
        /\ \A b \in Requests \ {r} : held'[b] = held[b]
    BY <1>2 DEF Delete
  <2>2. ASSUME NEW k \in rows, Needs[k] \cap held'[r] # {} PROVE k \in held'[r]
    BY <2>1, <2>2
  <2> QED
    BY <2>1, <2>2
<1>3. ASSUME NEW r \in Requests, NEW ks \in {{}, held[r]}, NEW words,
             rows' = rows \ ks, End(r, words)
      PROVE  KeysMet'
  <2>1. held'[r] = {} /\ \A b \in Requests \ {r} : held'[b] = held[b]
    BY <1>3 DEF End
  <2>2. \A k \in rows' : Needs[k] \subseteq rows'
    BY <1>3
  <2> QED
    BY <1>3, <2>1, <2>2
<1>4. ASSUME NEW r \in Requests, DeleteFails(r) \/ GiveUp(r) \/ Commit(r) PROVE KeysMet'
  BY <1>3, <1>4 DEF DeleteFails, GiveUp, Commit
<1>5. ASSUME NEW r \in Requests, NEW went \in BOOLEAN, CommitFails(r, went) PROVE KeysMet'
  BY <1>3, <1>5 DEF CommitFails
<1>6. ASSUME NEW r \in Requests, Hear(r) PROVE KeysMet'
  BY <1>3, <1>6 DEF Hear
<1>7. ASSUME NEW r \in Requests, Deleted(r) \/ PortalStep(r) PROVE KeysMet'
  BY <1>7 DEF Deleted, PortalStep, PortalDeletes, PortalDoesNot, AdminDeletes
<1>8. ASSUME NEW r \in Requests, NEW who \in {"me", "admin"}, Begin(r, who) PROVE KeysMet'
  BY <1>8 DEF Begin
<1>9. CASE UNCHANGED vars
  BY <1>9 DEF vars
<1> QED
  BY <1>1, <1>2, <1>4, <1>5, <1>6, <1>7, <1>8, <1>9 DEF Next, Handle

-----------------------------------------------------------------------------
(* Each step of the statements, locks and calls is one of AtomicDeletion,  *)
(* or changes nothing it tells apart.                                      *)
DeletionInv == AccountKnown /\ TakeInv /\ KeysMet

LEMMA StepIsPromised ==
  TypeOK /\ DeletionInv /\ [Next]_vars => [Promise!Next]_(Promise!vars)
<1> SUFFICES ASSUME TypeOK, DeletionInv, [Next]_vars
             PROVE  Promise!Next \/ UNCHANGED Promise!vars
  OBVIOUS
<1>1. ASSUME NEW k \in Rows, Write(k) PROVE Promise!Next
  BY <1>1 DEF Write, Promise!Write, Promise!Next
<1>2. ASSUME NEW r \in Requests, NEW who \in {"me", "admin"}, Begin(r, who) PROVE Promise!Next
  <2>1. kind[r] = "none"
    BY <1>2 DEF Begin, DeletionInv, AccountKnown
  <2>2. Promise!Ask(r, who)
    BY <1>2, <2>1 DEF Begin, Promise!Ask
  <2> QED
    BY <2>2 DEF Promise!Next
<1>3. ASSUME NEW r \in Requests, Open(r) PROVE Promise!Underway(r)
  BY <1>3 DEF Open, DeletionInv, AccountKnown, TakeInv, TakenSoFar, Promise!Underway
<1>4. ASSUME NEW r \in Requests, Open(r), UNCHANGED <<rows, account, kind, before>>,
             NEW words \in {"refused", "account_not_deleted", "data_not_deleted"},
             End(r, words)
      PROVE  Promise!Next
  <2>1. Promise!Leave(r, words)
    BY <1>3, <1>4 DEF End, Promise!Leave
  <2> QED
    BY <2>1 DEF Promise!Next
<1>5. ASSUME NEW r \in Requests, phase[r] = "committing",
             rows' = rows \ held[r], UNCHANGED <<account, kind, before>>,
             NEW words \in {"ok", "data_not_deleted"}, End(r, words)
      PROVE  Promise!Next
  <2>1. kind[r] = "admin" \/ account = "gone"
    BY <1>5 DEF DeletionInv, AccountKnown
  <2>2. before[r] \cap rows \subseteq held[r]
    BY <1>5, HoldsItAll DEF DeletionInv
  <2>3. Promise!Whole(rows')
    BY <1>5 DEF DeletionInv, KeysMet, Promise!Whole, TypeOK
  <2>4. Promise!Take(r, held[r], words)
    BY <1>3, <1>5, <2>1, <2>2, <2>3 DEF Open, End, Promise!Take
  <2>5. held[r] \in SUBSET Rows
    BY DEF TypeOK
  <2> QED
    BY <2>4, <2>5 DEF Promise!Next
<1>6. ASSUME NEW r \in Requests, Delete(r) \/ Deleted(r) PROVE UNCHANGED Promise!vars
  BY <1>6 DEF Delete, Deleted, Promise!vars
<1>7. ASSUME NEW r \in Requests, DeleteFails(r) \/ GiveUp(r) PROVE Promise!Next
  BY <1>4, <1>7 DEF DeleteFails, GiveUp, Open
<1>8. ASSUME NEW r \in Requests, Hear(r) PROVE Promise!Next \/ UNCHANGED Promise!vars
  <2>1. CASE \E words \in {"refused", "account_not_deleted"} : End(r, words)
    BY <1>4, <1>8, <2>1 DEF Hear, Open
  <2>2. CASE UNCHANGED answer
    BY <1>8, <2>2 DEF Hear, Promise!vars
  <2> QED
    BY <1>8, <2>1, <2>2 DEF Hear
<1>9. ASSUME NEW r \in Requests, Commit(r) PROVE Promise!Next
  BY <1>5, <1>9 DEF Commit
<1>10. ASSUME NEW r \in Requests, NEW went \in BOOLEAN, CommitFails(r, went) PROVE Promise!Next
  BY <1>4, <1>5, <1>10 DEF CommitFails, Open
<1>11. ASSUME NEW r \in Requests, PortalStep(r) PROVE Promise!Next \/ UNCHANGED Promise!vars
  <2>1. CASE PortalDeletes(r) \/ AdminDeletes(r)
    BY <2>1 DEF PortalDeletes, AdminDeletes, Promise!AccountGoes, Promise!Next
  <2>2. ASSUME NEW said, PortalDoesNot(r, said) PROVE UNCHANGED Promise!vars
    BY <2>2 DEF PortalDoesNot, Promise!vars
  <2> QED
    BY <1>11, <2>1, <2>2 DEF PortalStep
<1>12. CASE UNCHANGED vars
  BY <1>12 DEF vars, Promise!vars
<1> QED
  BY <1>1, <1>2, <1>6, <1>7, <1>8, <1>9, <1>10, <1>11, <1>12 DEF Next, Handle

(* However requests, devices and portal-api interleave, a request takes    *)
(* what it found at once or not at all, a person's own only once the       *)
(* account is gone, and leaves no row that refers to one it took           *)
(* (deleteMe, DeleteUserData).                                             *)
THEOREM ImplementsAtomicDeletion == Spec => DeletesAtOnce
<1>1. Init => Promise!Init /\ DeletionInv
  BY DEF Init, Promise!Init, Promise!Whole, DeletionInv, AccountKnown, TakeInv, TakenSoFar,
         TookWhatWasThere, Open, KeysMet
<1>2. TypeOK /\ TypeOK' /\ DeletionInv /\ [Next]_vars => DeletionInv'
  BY AccountKnownStep, TakeInvStep, KeysMetStep DEF DeletionInv
<1> QED
  BY <1>1, <1>2, StepIsPromised, TypeCorrect, PTL DEF Spec, DeletesAtOnce, Promise!Spec
=============================================================================
