-------------------------- MODULE Accounts_proofs --------------------------
(***************************************************************************)
(* Proofs about Accounts, for every set of requests, users, keys and       *)
(* inputs.                                                                 *)
(***************************************************************************)
EXTENDS Accounts, TLAPS

-----------------------------------------------------------------------------
(* Inputs and rows.                                                        *)

\* What the checks of Register and Update let through to a row.
Fit(e) == e.username.key \notin {"bad", "admin"} /\ e.email.key # "bad"

\* The row that Insert makes.
Fresh(e) == [NoRow EXCEPT !.st = "present", !.username = normalizeUsername(e.username),
                          !.email = normalizeUsername(e.email)]

\* Trimming changes how a text is written, not its key.
LEMMA Trimmed ==
    ASSUME NEW t \in Inputs \cup {Keep}
    PROVE  /\ normalizeUsername(t).key = t.key
           /\ t.key # "bad" => normalizeUsername(t) \in Stored \cup {Keep}
  BY DEF normalizeUsername, Inputs, Stored, Keep

LEMMA RegisterChecks ==
    ASSUME NEW e \in NewAccounts, RegisterRefusal(e) = "none"
    PROVE  e \in Edits /\ Fit(e) /\ e.username # Keep /\ e.email # Keep
  <1>1. e \in Edits /\ Keep \notin {e.username, e.email}
    BY AccountsAssumption
  <1>2. e.username \in Inputs \cup {Keep}
    BY <1>1 DEF Edits
  <1> QED
    BY <1>1, <1>2, Trimmed DEF RegisterRefusal, isReservedUsername, Fit

LEMMA UpdateChecks ==
    ASSUME NEW e \in EditInputs, UpdateRefusal(e) = "none"
    PROVE  e \in Edits /\ Fit(e)
  <1>1. e \in Edits /\ e.username \in Inputs \cup {Keep}
    BY AccountsAssumption DEF Edits
  <1> QED
    BY <1>1, Trimmed DEF UpdateRefusal, isReservedUsername, Fit

LEMMA Refusals ==
    ASSUME NEW e
    PROVE  /\ RegisterRefusal(e) \in {"none", "invalid", "conflict"}
           /\ UpdateRefusal(e) \in {"none", "invalid", "conflict"}
  BY DEF RegisterRefusal, UpdateRefusal

\* A field that an edit keeps is that of the row, another one has its key.
LEMMA EditedRow ==
    ASSUME NEW r \in UserRow, NEW e \in Edits, Fit(e)
    PROVE  /\ Edited(r, e) \in UserRow
           /\ Edited(r, e).st = r.st
           /\ \A f \in Fields : /\ e[f] = Keep => Edited(r, e)[f] = r[f]
                                /\ e[f] # Keep => Edited(r, e)[f].key = e[f].key
           /\ Edited(r, e).username.key # "admin" \/ r.username.key = "admin"
  <1>1. /\ e.username \in Inputs \cup {Keep} /\ e.email \in Inputs \cup {Keep}
        /\ r.username \in Stored \cup {Keep} /\ r.email \in Stored \cup {Keep} /\ r.ver \in Nat
        /\ e.username.key # "bad" /\ e.email.key # "bad" /\ e.username.key # "admin"
    BY DEF Edits, UserRow, Fit
  <1>2. /\ Coalesce(e.username, r.username) \in Stored \cup {Keep}
        /\ Coalesce(e.email, r.email) \in Stored \cup {Keep}
    BY <1>1, Trimmed DEF Coalesce
  <1>3. /\ Edited(r, e).username = Coalesce(e.username, r.username)
        /\ Edited(r, e).email = Coalesce(e.email, r.email)
        /\ Edited(r, e).st = r.st
        /\ Edited(r, e) \in UserRow
    <2> DEFINE n == Coalesce(e.username, r.username)
               m == Coalesce(e.email, r.email)
               k == IF e.password = "keep" THEN r.ver ELSE r.ver + 1
               r1 == [r EXCEPT !.username = n]
               r2 == [r1 EXCEPT !.email = m]
               r3 == [r2 EXCEPT !.ver = k]
    <2>1. Edited(r, e) = r3
      BY DEF Edited, UserRow
    <2>2. k \in Nat /\ n \in Stored \cup {Keep} /\ m \in Stored \cup {Keep}
      BY <1>1, <1>2
    <2> HIDE DEF n, m, k
    <2>3. r1 \in UserRow /\ r1.username = n /\ r1.st = r.st
      BY <2>2 DEF UserRow
    <2> HIDE DEF r1
    <2>4. r2 \in UserRow /\ r2.username = r1.username /\ r2.email = m /\ r2.st = r1.st
      BY <2>2, <2>3 DEF UserRow
    <2> HIDE DEF r2
    <2>5. r3 \in UserRow /\ r3.username = r2.username /\ r3.email = r2.email /\ r3.st = r2.st
      BY <2>2, <2>4 DEF UserRow
    <2> HIDE DEF r3
    <2> QED
      BY <2>1, <2>3, <2>4, <2>5 DEF n, m
  <1>4. /\ e.username # Keep => Coalesce(e.username, r.username).key = e.username.key
        /\ e.email # Keep => Coalesce(e.email, r.email).key = e.email.key
        /\ e.username = Keep => Coalesce(e.username, r.username) = r.username
        /\ e.email = Keep => Coalesce(e.email, r.email) = r.email
    BY <1>1, Trimmed DEF Coalesce
  <1> QED
    BY <1>1, <1>3, <1>4 DEF Fields

LEMMA FreshRow ==
    ASSUME NEW e \in Edits, Fit(e), e.username # Keep, e.email # Keep
    PROVE  /\ Fresh(e) \in UserRow
           /\ Fresh(e).st = "present"
           /\ \A f \in Fields : e[f] # Keep /\ Fresh(e)[f].key = e[f].key
           /\ Fresh(e).username.key # "admin"
  <1>1. e.username \in Inputs \cup {Keep} /\ e.email \in Inputs \cup {Keep}
    BY DEF Edits
  <1>2. /\ normalizeUsername(e.username) \in Stored \cup {Keep}
        /\ normalizeUsername(e.email) \in Stored \cup {Keep}
        /\ normalizeUsername(e.username).key = e.username.key
        /\ normalizeUsername(e.email).key = e.email.key
    BY <1>1, Trimmed DEF Fit
  <1>3. /\ Fresh(e).username = normalizeUsername(e.username)
        /\ Fresh(e).email = normalizeUsername(e.email)
        /\ Fresh(e).st = "present"
        /\ Fresh(e) \in UserRow
    BY <1>2 DEF Fresh, NoRow, UserRow
  <1> QED
    BY <1>2, <1>3 DEF Fields, Fit

LEMMA ConstantRows ==
    /\ NoRow \in UserRow /\ Deleted \in UserRow /\ NoRow.st = "absent" /\ Deleted.st = "deleted"
    /\ NoEdit \in Edits
  BY DEF NoRow, Deleted, UserRow, NoEdit, Edits

-----------------------------------------------------------------------------
(* The inductive invariant.                                                *)

Writers == {"index", "commit"}

\* A request that is not answered has passed the checks of its use case.
Shape(p) ==
    /\ pc[p] # "done" => out[p] = "none"
    /\ pc[p] \in Holding \cup {"hash", "insert", "lock"} =>
          /\ op[p] = "register" =>
                /\ pc[p] \in {"hash", "insert"} \cup Writers
                /\ Fit(edit[p]) /\ edit[p].username # Keep /\ edit[p].email # Keep
          /\ op[p] = "update" => pc[p] \in {"hash", "lock"} \cup Holding /\ Fit(edit[p])
          /\ op[p] = "delete" => pc[p] \in {"lock", "apply", "commit"}
          /\ op[p] # "register" => op[p] # "none" /\ id[p] \in Users /\ actor[p] \in {id[p], Admin}
    /\ pc[p] \in Writers => id[p] \in Users
    /\ pc[p] = "apply" => user[id[p]].st = "present"

\* The version that a transaction has made, of the row as it still is.
Version(p) ==
    pc[p] \in Writers =>
        /\ op[p] = "register" => user[id[p]].st = "absent" /\ pend[p] = Fresh(edit[p])
        /\ op[p] = "update" => user[id[p]].st = "present" /\ pend[p] = Edited(user[id[p]], edit[p])
        /\ op[p] = "delete" => pend[p] = Deleted /\ user[id[p]].st = "present"
        /\ op[p] # "delete" => /\ \A f \in keys[p] : edit[p][f] # Keep
                               /\ pc[p] = "commit" => keys[p] = {}

\* Two transactions hold different rows.
Apart == \A p, q \in Requests : p # q /\ pc[p] \in Holding /\ pc[q] \in Holding => id[p] # id[q]

\* No account has the name of the bootstrap admin.
NotReserved == \A u \in Users : user[u].st = "present" => user[u].username.key # "admin"

\* The version of p is in index f.
Entered(p, f) == pc[p] \in Writers /\ pend[p].st = "present" /\ f \notin keys[p]

\* A key in an index belongs to one transaction, and to no other account.
KeyIsFree ==
    \A p \in Requests, f \in Fields, u \in Users :
        Entered(p, f) /\ u # id[p] /\ user[u].st = "present" => user[u][f].key # pend[p][f].key
KeyIsMine ==
    \A p, q \in Requests, f \in Fields :
        p # q /\ Entered(p, f) /\ Entered(q, f) => pend[p][f].key # pend[q][f].key

AccountInv ==
    /\ TypeOK
    /\ \A p \in Requests : Shape(p)
    /\ \A p \in Requests : Version(p)
    /\ Apart /\ NotReserved
    /\ KeysUnique /\ KeyIsFree /\ KeyIsMine
    /\ NoLostEdit

-----------------------------------------------------------------------------
(* What the steps that write a version do to it.                           *)

LEMMA InsertEffect ==
    ASSUME AccountInv, NEW p \in Requests, Insert(p)
    PROVE  /\ pc[p] = "insert" /\ op[p] = "register" /\ Fresh(edit[p]) \in UserRow
           /\ \A f \in Fields : edit[p][f] # Keep
           /\ \/ \E u \in Users : /\ user[u].st = "absent" /\ \A q \in Requests : id[q] # u
                                  /\ id' = [id EXCEPT ![p] = u]
                                  /\ pend' = [pend EXCEPT ![p] = Fresh(edit[p])]
                                  /\ keys' = [keys EXCEPT ![p] = Fields]
                                  /\ Goto(p, "index") /\ UNCHANGED out
              \/ Answer(p, "failed") /\ UNCHANGED id
           /\ UNCHANGED <<user, op, actor, edit, want>>
  <1>1. /\ pc[p] = "insert" /\ op[p] = "register" /\ edit[p] \in Edits /\ Fit(edit[p])
        /\ edit[p].username # Keep /\ edit[p].email # Keep
    BY DEF Insert, AccountInv, TypeOK, Shape, Writers, Holding
  <1>2. Fresh(edit[p]) \in UserRow /\ \A f \in Fields : edit[p][f] # Keep
    BY <1>1, FreshRow
  <1>3. \/ \E u \in Unborn : /\ id' = [id EXCEPT ![p] = u]
                             /\ pend' = [pend EXCEPT ![p] = Fresh(edit[p])]
                             /\ keys' = [keys EXCEPT ![p] = Fields]
                             /\ Goto(p, "index") /\ UNCHANGED out
        \/ Answer(p, "failed") /\ UNCHANGED id
    BY Zenon DEF Insert, Fresh
  <1>4. UNCHANGED <<user, op, actor, edit, want>>
    BY DEF Insert
  <1>5. \A u \in Unborn : u \in Users /\ user[u].st = "absent" /\ \A q \in Requests : id[q] # u
    BY DEF Unborn
  <1> QED
    BY <1>1, <1>2, <1>3, <1>4, <1>5, Zenon

LEMMA ApplyEffect ==
    ASSUME AccountInv, NEW p \in Requests, Apply(p)
    PROVE  /\ pc[p] = "apply" /\ id[p] \in Users /\ user[id[p]] \in UserRow /\ user[id[p]].st = "present"
           /\ \/ /\ op[p] = "delete"
                 /\ pend' = [pend EXCEPT ![p] = Deleted]
                 /\ Goto(p, "commit") /\ UNCHANGED <<keys, out>>
              \/ Answer(p, "failed")
              \/ /\ op[p] = "update"
                 /\ Edited(user[id[p]], edit[p]) \in UserRow
                 /\ Edited(user[id[p]], edit[p]).st = "present"
                 /\ \A f \in Fields : edit[p][f] = Keep => Edited(user[id[p]], edit[p])[f] = user[id[p]][f]
                 /\ pend' = [pend EXCEPT ![p] = Edited(user[id[p]], edit[p])]
                 /\ keys' = [keys EXCEPT ![p] = {f \in Fields : edit[p][f] # Keep}]
                 /\ Goto(p, "index") /\ UNCHANGED out
           /\ UNCHANGED <<user, op, actor, id, edit, want>>
  <1>1. /\ pc[p] = "apply" /\ id[p] \in Users /\ user[id[p]] \in UserRow /\ user[id[p]].st = "present"
        /\ op[p] \in {"update", "delete"} /\ edit[p] \in Edits
        /\ op[p] = "update" => Fit(edit[p])
    BY DEF Apply, AccountInv, TypeOK, Shape, Writers, Holding
  <1>2. op[p] = "update" =>
          /\ Edited(user[id[p]], edit[p]) \in UserRow
          /\ Edited(user[id[p]], edit[p]).st = "present"
          /\ \A f \in Fields : edit[p][f] = Keep => Edited(user[id[p]], edit[p])[f] = user[id[p]][f]
    BY <1>1, EditedRow
  <1> QED
    BY <1>1, <1>2 DEF Apply, input

LEMMA CommitEffect ==
    ASSUME AccountInv, NEW p \in Requests, Commit(p)
    PROVE  /\ pc[p] = "commit" /\ id[p] \in Users /\ pend[p] \in UserRow /\ keys[p] \subseteq Fields
           /\ user' = [user EXCEPT ![id[p]] = pend[p]]
           /\ pend[p].st = "present" => keys[p] = {} /\ pend[p].username.key # "admin"
           /\ want'[id[p]] \in UserRow
           /\ pend[p].st = "present" => want'[id[p]] = pend[p]
           /\ \A u \in Users \ {id[p]} : want'[u] = want[u]
           /\ want' \in [Users -> UserRow]
           /\ Answer(p, "ok") \/ Answer(p, "failed")
           /\ UNCHANGED <<op, actor, id, edit>>
  <1>a. (Answer(p, "ok") \/ Answer(p, "failed")) /\ UNCHANGED <<op, actor, id, edit>>
    BY DEF Commit, input
  <1>1. /\ pc[p] = "commit" /\ id[p] \in Users /\ pend[p] \in UserRow /\ edit[p] \in Edits
        /\ user[id[p]] \in UserRow /\ want[id[p]] \in UserRow /\ keys[p] \subseteq Fields
        /\ op[p] \in {"register", "update", "delete"}
        /\ op[p] # "delete" => Fit(edit[p])
        /\ op[p] = "register" => edit[p].username # Keep /\ edit[p].email # Keep
    BY DEF Commit, AccountInv, TypeOK, Shape, Writers, Holding
  <1>2. /\ op[p] = "register" => pend[p] = Fresh(edit[p])
        /\ op[p] = "update" => user[id[p]].st = "present" /\ pend[p] = Edited(user[id[p]], edit[p])
        /\ op[p] = "delete" => pend[p] = Deleted
        /\ op[p] # "delete" => keys[p] = {}
    BY <1>1 DEF AccountInv, Version, Writers
  <1>3. want' = [want EXCEPT ![id[p]] = IF op[p] = "register" THEN pend[p]
                                        ELSE IF op[p] = "delete" THEN Deleted
                                        ELSE Edited(want[id[p]], edit[p])]
    BY DEF Commit
  <1>4. CASE op[p] = "register"
    BY <1>a, <1>1, <1>2, <1>3, <1>4, FreshRow DEF Commit, AccountInv, TypeOK
  <1>5. CASE op[p] = "delete"
    BY <1>a, <1>1, <1>2, <1>3, <1>5, ConstantRows DEF Commit, AccountInv, TypeOK
  <1>6. CASE op[p] = "update"
    <2>1. want[id[p]] = user[id[p]] /\ user[id[p]].username.key # "admin"
      BY <1>1, <1>2, <1>6 DEF AccountInv, NoLostEdit, NotReserved
    <2>2. Edited(user[id[p]], edit[p]).username.key # "admin"
      BY <1>1, <1>6, <2>1, EditedRow
    <2>3. want' = [want EXCEPT ![id[p]] = pend[p]]
      BY <1>2, <1>3, <1>6, <2>1
    <2> QED
      BY <1>a, <1>1, <1>2, <1>6, <2>2, <2>3 DEF Commit, AccountInv, TypeOK
  <1> QED
    BY <1>1, <1>4, <1>5, <1>6

-----------------------------------------------------------------------------
(* Each step keeps it.                                                     *)

LEMMA TypeStep ==
    ASSUME AccountInv, NEW p \in Requests,
           Begin(p) \/ LocalStep(p) \/ LockStep(p) \/ Timeout(p)
    PROVE  TypeOK'
  <1>1. CASE StartRegister(p)
    BY <1>1, Refusals, ConstantRows, AccountsAssumption, RegisterChecks DEF StartRegister, Start, Admit, Answer,
       Goto, AccountInv, TypeOK, Holding, Known, Callers
  <1>2. CASE StartUpdate(p)
    BY <1>2, Refusals, ConstantRows, AccountsAssumption DEF StartUpdate, Start, Admit, Answer, Goto, AccountInv,
       TypeOK, Holding, Known, Callers
  <1>3. CASE StartDelete(p)
    BY <1>3, Refusals, ConstantRows DEF StartDelete, Start, Admit, Answer, Goto, AccountInv, TypeOK, Holding, Known,
       Callers
  <1>4. CASE Hash(p)
    BY <1>4, Refusals, ConstantRows DEF Hash, Goto, input, AccountInv, TypeOK, Holding, Known, Callers
  <1>5. CASE Insert(p)
    BY <1>5, Refusals, ConstantRows, InsertEffect DEF Goto, Answer, AccountInv, TypeOK, Holding, Known, Callers
  <1>6. CASE Lock(p)
    BY <1>6, Refusals, ConstantRows DEF Lock, Goto, Answer, input, AccountInv, TypeOK, Holding, Known, Callers
  <1>7. CASE Apply(p)
    BY <1>7, Refusals, ConstantRows, ApplyEffect DEF Goto, Answer, AccountInv, TypeOK, Holding, Known, Callers
  <1>8. CASE Index(p)
    BY <1>8, Refusals, ConstantRows DEF Index, Goto, Answer, input, AccountInv, TypeOK, Holding, Known, Callers
  <1>9. CASE Commit(p)
    BY <1>9, Refusals, ConstantRows, CommitEffect DEF Goto, Answer, AccountInv, TypeOK, Holding, Known, Callers
  <1>10. CASE Timeout(p)
    BY <1>10, Refusals, ConstantRows, Refusals DEF Timeout, Goto, Answer, input, AccountInv, TypeOK, Holding, Known,
       Callers
  <1>11. CASE Return(p)
    BY <1>11, Refusals, ConstantRows DEF Return, Goto, AccountInv, TypeOK, Holding, Known, Callers
  <1> QED
    BY <1>1, <1>2, <1>3, <1>4, <1>5, <1>6, <1>7, <1>8, <1>9, <1>10, <1>11 DEF Begin, LocalStep, LockStep

LEMMA ShapeStep ==
    ASSUME AccountInv, NEW p \in Requests,
           Begin(p) \/ LocalStep(p) \/ LockStep(p) \/ Timeout(p)
    PROVE  \A q \in Requests : Shape(q)'
  <1>1. CASE StartRegister(p)
    BY <1>1, AccountsAssumption, RegisterChecks DEF StartRegister, Start, Admit, Answer, Goto, AccountInv, TypeOK,
       Holding, Shape, Writers, Known
  <1>2. CASE StartUpdate(p)
    BY <1>2, AccountsAssumption, UpdateChecks DEF StartUpdate, Start, Admit, Answer, Goto, AccountInv, TypeOK,
       Holding, Shape, Writers, Known, authorizeUser
  <1>3. CASE StartDelete(p)
    BY <1>3, AccountsAssumption DEF StartDelete, Start, Admit, Answer, Goto, AccountInv, TypeOK, Holding, Shape,
       Writers, Known, authorizeUser
  <1>4. CASE Hash(p)
    BY <1>4, AccountsAssumption DEF Hash, Goto, input, AccountInv, TypeOK, Holding, Shape, Writers, Known
  <1>5. CASE Insert(p)
    BY <1>5, AccountsAssumption, InsertEffect DEF Goto, Answer, AccountInv, TypeOK, Holding, Shape, Writers, Known
  <1>6. CASE Lock(p)
    BY <1>6, AccountsAssumption DEF Lock, Goto, Answer, input, AccountInv, TypeOK, Holding, Shape, Writers, Known,
       CanLock
  <1>7. CASE Apply(p)
    BY <1>7, AccountsAssumption, ApplyEffect DEF Goto, Answer, AccountInv, TypeOK, Holding, Shape, Writers, Known
  <1>8. CASE Index(p)
    BY <1>8, AccountsAssumption DEF Index, Goto, Answer, input, AccountInv, TypeOK, Holding, Shape, Writers, Known
  <1>9. CASE Commit(p)
    BY <1>9, AccountsAssumption, CommitEffect, ConstantRows DEF Goto, Answer, AccountInv, TypeOK, Holding, Shape,
       Writers, Known, Apart
  <1>10. CASE Timeout(p)
    BY <1>10, AccountsAssumption DEF Timeout, Goto, Answer, input, AccountInv, TypeOK, Holding, Shape, Writers, Known
  <1>11. CASE Return(p)
    BY <1>11, AccountsAssumption DEF Return, Goto, AccountInv, TypeOK, Holding, Shape, Writers, Known
  <1> QED
    BY <1>1, <1>2, <1>3, <1>4, <1>5, <1>6, <1>7, <1>8, <1>9, <1>10, <1>11 DEF Begin, LocalStep, LockStep

LEMMA VersionStep ==
    ASSUME AccountInv, NEW p \in Requests,
           Begin(p) \/ LocalStep(p) \/ LockStep(p) \/ Timeout(p)
    PROVE  \A q \in Requests : Version(q)'
  <1>1. CASE StartRegister(p)
    BY <1>1, AccountsAssumption DEF StartRegister, Start, Admit, Answer, Goto, AccountInv, TypeOK, Holding, Shape,
       Version, Writers
  <1>2. CASE StartUpdate(p)
    BY <1>2, AccountsAssumption DEF StartUpdate, Start, Admit, Answer, Goto, AccountInv, TypeOK, Holding, Shape,
       Version, Writers
  <1>3. CASE StartDelete(p)
    BY <1>3, AccountsAssumption DEF StartDelete, Start, Admit, Answer, Goto, AccountInv, TypeOK, Holding, Shape,
       Version, Writers
  <1>4. CASE Hash(p)
    BY <1>4, AccountsAssumption DEF Hash, Goto, input, AccountInv, TypeOK, Holding, Shape, Version, Writers
  <1>5. CASE Insert(p)
    BY <1>5, AccountsAssumption, InsertEffect DEF Goto, Answer, AccountInv, TypeOK, Holding, Shape, Version, Writers
  <1>6. CASE Lock(p)
    BY <1>6, AccountsAssumption DEF Lock, Goto, Answer, input, AccountInv, TypeOK, Holding, Shape, Version, Writers
  <1>7. CASE Apply(p)
    BY <1>7, AccountsAssumption, ApplyEffect DEF Goto, Answer, AccountInv, TypeOK, Holding, Shape, Version, Writers
  <1>8. CASE Index(p)
    BY <1>8, AccountsAssumption DEF Index, Goto, Answer, input, AccountInv, TypeOK, Holding, Shape, Version, Writers
  <1>9. CASE Commit(p)
    BY <1>9, AccountsAssumption, CommitEffect DEF Goto, Answer, AccountInv, TypeOK, Holding, Shape, Version,
       Writers, Apart
  <1>10. CASE Timeout(p)
    BY <1>10, AccountsAssumption DEF Timeout, Goto, Answer, input, AccountInv, TypeOK, Holding, Shape, Version,
       Writers
  <1>11. CASE Return(p)
    BY <1>11, AccountsAssumption DEF Return, Goto, AccountInv, TypeOK, Holding, Shape, Version, Writers
  <1> QED
    BY <1>1, <1>2, <1>3, <1>4, <1>5, <1>6, <1>7, <1>8, <1>9, <1>10, <1>11 DEF Begin, LocalStep, LockStep

LEMMA ApartStep ==
    ASSUME AccountInv, NEW p \in Requests,
           Begin(p) \/ LocalStep(p) \/ LockStep(p) \/ Timeout(p)
    PROVE  Apart'
  <1>1. CASE StartRegister(p)
    BY <1>1, AccountsAssumption DEF StartRegister, Start, Admit, Answer, Goto, AccountInv, TypeOK, Holding, Apart
  <1>2. CASE StartUpdate(p)
    BY <1>2, AccountsAssumption DEF StartUpdate, Start, Admit, Answer, Goto, AccountInv, TypeOK, Holding, Apart
  <1>3. CASE StartDelete(p)
    BY <1>3, AccountsAssumption DEF StartDelete, Start, Admit, Answer, Goto, AccountInv, TypeOK, Holding, Apart
  <1>4. CASE Hash(p)
    BY <1>4, AccountsAssumption DEF Hash, Goto, input, AccountInv, TypeOK, Holding, Apart
  <1>5. CASE Insert(p)
    BY <1>5, AccountsAssumption, InsertEffect DEF Goto, Answer, AccountInv, TypeOK, Holding, Apart
  <1>6. CASE Lock(p)
    BY <1>6, AccountsAssumption DEF Lock, Goto, Answer, input, AccountInv, TypeOK, Holding, Apart, CanLock
  <1>7. CASE Apply(p)
    BY <1>7, AccountsAssumption, ApplyEffect DEF Goto, Answer, AccountInv, TypeOK, Holding, Apart
  <1>8. CASE Index(p)
    BY <1>8, AccountsAssumption DEF Index, Goto, Answer, input, AccountInv, TypeOK, Holding, Apart
  <1>9. CASE Commit(p)
    BY <1>9, AccountsAssumption, CommitEffect DEF Goto, Answer, AccountInv, TypeOK, Holding, Apart
  <1>10. CASE Timeout(p)
    BY <1>10, AccountsAssumption DEF Timeout, Goto, Answer, input, AccountInv, TypeOK, Holding, Apart
  <1>11. CASE Return(p)
    BY <1>11, AccountsAssumption DEF Return, Goto, AccountInv, TypeOK, Holding, Apart
  <1> QED
    BY <1>1, <1>2, <1>3, <1>4, <1>5, <1>6, <1>7, <1>8, <1>9, <1>10, <1>11 DEF Begin, LocalStep, LockStep

LEMMA NotReservedStep ==
    ASSUME AccountInv, NEW p \in Requests,
           Begin(p) \/ LocalStep(p) \/ LockStep(p) \/ Timeout(p)
    PROVE  NotReserved'
  <1>1. CASE StartRegister(p)
    BY <1>1 DEF StartRegister, Start, Admit, Answer, Goto, AccountInv, TypeOK, NotReserved
  <1>2. CASE StartUpdate(p)
    BY <1>2 DEF StartUpdate, Start, Admit, Answer, Goto, AccountInv, TypeOK, NotReserved
  <1>3. CASE StartDelete(p)
    BY <1>3 DEF StartDelete, Start, Admit, Answer, Goto, AccountInv, TypeOK, NotReserved
  <1>4. CASE Hash(p)
    BY <1>4 DEF Hash, Goto, input, AccountInv, TypeOK, NotReserved
  <1>5. CASE Insert(p)
    BY <1>5, InsertEffect DEF Goto, Answer, AccountInv, TypeOK, NotReserved
  <1>6. CASE Lock(p)
    BY <1>6 DEF Lock, Goto, Answer, input, AccountInv, TypeOK, NotReserved
  <1>7. CASE Apply(p)
    BY <1>7, ApplyEffect DEF Goto, Answer, AccountInv, TypeOK, NotReserved
  <1>8. CASE Index(p)
    BY <1>8 DEF Index, Goto, Answer, input, AccountInv, TypeOK, NotReserved
  <1>9. CASE Commit(p)
    BY <1>9, CommitEffect DEF Goto, Answer, AccountInv, TypeOK, NotReserved
  <1>10. CASE Timeout(p)
    BY <1>10 DEF Timeout, Goto, Answer, input, AccountInv, TypeOK, NotReserved
  <1>11. CASE Return(p)
    BY <1>11 DEF Return, Goto, AccountInv, TypeOK, NotReserved
  <1> QED
    BY <1>1, <1>2, <1>3, <1>4, <1>5, <1>6, <1>7, <1>8, <1>9, <1>10, <1>11 DEF Begin, LocalStep, LockStep

LEMMA NoLostEditStep ==
    ASSUME AccountInv, NEW p \in Requests,
           Begin(p) \/ LocalStep(p) \/ LockStep(p) \/ Timeout(p)
    PROVE  NoLostEdit'
  <1>1. CASE StartRegister(p)
    BY <1>1 DEF StartRegister, Start, Admit, Answer, Goto, AccountInv, TypeOK, NoLostEdit
  <1>2. CASE StartUpdate(p)
    BY <1>2 DEF StartUpdate, Start, Admit, Answer, Goto, AccountInv, TypeOK, NoLostEdit
  <1>3. CASE StartDelete(p)
    BY <1>3 DEF StartDelete, Start, Admit, Answer, Goto, AccountInv, TypeOK, NoLostEdit
  <1>4. CASE Hash(p)
    BY <1>4 DEF Hash, Goto, input, AccountInv, TypeOK, NoLostEdit
  <1>5. CASE Insert(p)
    BY <1>5, InsertEffect DEF Goto, Answer, AccountInv, TypeOK, NoLostEdit
  <1>6. CASE Lock(p)
    BY <1>6 DEF Lock, Goto, Answer, input, AccountInv, TypeOK, NoLostEdit
  <1>7. CASE Apply(p)
    BY <1>7, ApplyEffect DEF Goto, Answer, AccountInv, TypeOK, NoLostEdit
  <1>8. CASE Index(p)
    BY <1>8 DEF Index, Goto, Answer, input, AccountInv, TypeOK, NoLostEdit
  <1>9. CASE Commit(p)
    BY <1>9, CommitEffect DEF Goto, Answer, AccountInv, TypeOK, NoLostEdit
  <1>10. CASE Timeout(p)
    BY <1>10 DEF Timeout, Goto, Answer, input, AccountInv, TypeOK, NoLostEdit
  <1>11. CASE Return(p)
    BY <1>11 DEF Return, Goto, AccountInv, TypeOK, NoLostEdit
  <1> QED
    BY <1>1, <1>2, <1>3, <1>4, <1>5, <1>6, <1>7, <1>8, <1>9, <1>10, <1>11 DEF Begin, LocalStep, LockStep

LEMMA KeysUniqueStep ==
    ASSUME AccountInv, NEW p \in Requests,
           Begin(p) \/ LocalStep(p) \/ LockStep(p) \/ Timeout(p)
    PROVE  KeysUnique'
  <1>1. CASE StartRegister(p)
    BY <1>1 DEF StartRegister, Start, Admit, Answer, Goto, AccountInv, TypeOK, KeysUnique
  <1>2. CASE StartUpdate(p)
    BY <1>2 DEF StartUpdate, Start, Admit, Answer, Goto, AccountInv, TypeOK, KeysUnique
  <1>3. CASE StartDelete(p)
    BY <1>3 DEF StartDelete, Start, Admit, Answer, Goto, AccountInv, TypeOK, KeysUnique
  <1>4. CASE Hash(p)
    BY <1>4 DEF Hash, Goto, input, AccountInv, TypeOK, KeysUnique
  <1>5. CASE Insert(p)
    BY <1>5, InsertEffect DEF Goto, Answer, AccountInv, TypeOK, KeysUnique
  <1>6. CASE Lock(p)
    BY <1>6 DEF Lock, Goto, Answer, input, AccountInv, TypeOK, KeysUnique
  <1>7. CASE Apply(p)
    BY <1>7, ApplyEffect DEF Goto, Answer, AccountInv, TypeOK, KeysUnique
  <1>8. CASE Index(p)
    BY <1>8 DEF Index, Goto, Answer, input, AccountInv, TypeOK, KeysUnique
  <1>9. CASE Commit(p)
    BY <1>9, CommitEffect DEF Goto, Answer, AccountInv, TypeOK, KeysUnique, Writers, KeyIsFree, Entered
  <1>10. CASE Timeout(p)
    BY <1>10 DEF Timeout, Goto, Answer, input, AccountInv, TypeOK, KeysUnique
  <1>11. CASE Return(p)
    BY <1>11 DEF Return, Goto, AccountInv, TypeOK, KeysUnique
  <1> QED
    BY <1>1, <1>2, <1>3, <1>4, <1>5, <1>6, <1>7, <1>8, <1>9, <1>10, <1>11 DEF Begin, LocalStep, LockStep

LEMMA KeyIsFreeStep ==
    ASSUME AccountInv, NEW p \in Requests,
           Begin(p) \/ LocalStep(p) \/ LockStep(p) \/ Timeout(p)
    PROVE  KeyIsFree'
  <1>1. CASE StartRegister(p)
    BY <1>1 DEF StartRegister, Start, Admit, Answer, Goto, AccountInv, TypeOK, KeyIsFree, Entered, Writers, Holding
  <1>2. CASE StartUpdate(p)
    BY <1>2 DEF StartUpdate, Start, Admit, Answer, Goto, AccountInv, TypeOK, KeyIsFree, Entered, Writers, Holding
  <1>3. CASE StartDelete(p)
    BY <1>3 DEF StartDelete, Start, Admit, Answer, Goto, AccountInv, TypeOK, KeyIsFree, Entered, Writers, Holding
  <1>4. CASE Hash(p)
    BY <1>4 DEF Hash, Goto, input, AccountInv, TypeOK, KeyIsFree, Entered, Writers, Holding
  <1>5. CASE Insert(p)
    BY <1>5, InsertEffect, ConstantRows DEF Goto, Answer, AccountInv, TypeOK, KeyIsFree, Entered, Writers, Holding
  <1>6. CASE Lock(p)
    BY <1>6 DEF Lock, Goto, Answer, input, AccountInv, TypeOK, KeyIsFree, Entered, Writers, Holding
  <1>7. CASE Apply(p)
    BY <1>7, ApplyEffect, ConstantRows DEF Goto, Answer, AccountInv, TypeOK, KeyIsFree, Entered, Writers, Holding,
       Shape, KeysUnique
  <1>8. CASE Index(p)
    BY <1>8 DEF Index, Goto, Answer, input, AccountInv, TypeOK, KeyIsFree, Entered, Writers, Holding,
       Taken, Undecided, SameKey, Writing, NextIndex, Apart, Shape, Version
  <1>9. CASE Commit(p)
    BY <1>9, CommitEffect, ConstantRows DEF Goto, Answer, AccountInv, TypeOK, KeyIsFree, Entered, Writers, Holding,
       Shape, Version, KeyIsMine, Apart
  <1>10. CASE Timeout(p)
    BY <1>10 DEF Timeout, Goto, Answer, input, AccountInv, TypeOK, KeyIsFree, Entered, Writers, Holding
  <1>11. CASE Return(p)
    BY <1>11 DEF Return, Goto, AccountInv, TypeOK, KeyIsFree, Entered, Writers, Holding
  <1> QED
    BY <1>1, <1>2, <1>3, <1>4, <1>5, <1>6, <1>7, <1>8, <1>9, <1>10, <1>11 DEF Begin, LocalStep, LockStep

LEMMA KeyIsMineStep ==
    ASSUME AccountInv, NEW p \in Requests,
           Begin(p) \/ LocalStep(p) \/ LockStep(p) \/ Timeout(p)
    PROVE  KeyIsMine'
  <1>1. CASE StartRegister(p)
    BY <1>1 DEF StartRegister, Start, Admit, Answer, Goto, AccountInv, TypeOK, KeyIsMine, Entered, Writers, Holding
  <1>2. CASE StartUpdate(p)
    BY <1>2 DEF StartUpdate, Start, Admit, Answer, Goto, AccountInv, TypeOK, KeyIsMine, Entered, Writers, Holding
  <1>3. CASE StartDelete(p)
    BY <1>3 DEF StartDelete, Start, Admit, Answer, Goto, AccountInv, TypeOK, KeyIsMine, Entered, Writers, Holding
  <1>4. CASE Hash(p)
    BY <1>4 DEF Hash, Goto, input, AccountInv, TypeOK, KeyIsMine, Entered, Writers, Holding
  <1>5. CASE Insert(p)
    BY <1>5, InsertEffect, ConstantRows DEF Goto, Answer, AccountInv, TypeOK, KeyIsMine, Entered, Writers, Holding
  <1>6. CASE Lock(p)
    BY <1>6 DEF Lock, Goto, Answer, input, AccountInv, TypeOK, KeyIsMine, Entered, Writers, Holding
  <1>7. CASE Apply(p)
    <2>1. pc[p] = "apply" /\ id[p] \in Users /\ user[id[p]].st = "present"
      BY <1>7, ApplyEffect
    <2>2. \A q \in Requests \ {p} : pc'[q] = pc[q] /\ pend'[q] = pend[q] /\ keys'[q] = keys[q]
      BY <1>7, ApplyEffect DEF Goto, Answer, AccountInv, TypeOK
    <2>3. \A f \in Fields : Entered(p, f)' => pend'[p][f] = user[id[p]][f]
      BY <1>7, ApplyEffect, ConstantRows DEF Goto, Answer, AccountInv, TypeOK, Entered, Writers
    <2>4. \A q \in Requests \ {p}, f \in Fields : Entered(q, f) => user[id[p]][f].key # pend[q][f].key
      BY <2>1 DEF AccountInv, Apart, KeyIsFree, Entered, Writers, Holding
    <2> QED
      BY <2>2, <2>3, <2>4 DEF AccountInv, KeyIsMine, Entered
  <1>8. CASE Index(p)
    <2> DEFINE g == NextIndex(p)
    <2>1. pc[p] = "index" /\ g \in Fields
      BY <1>8 DEF Index, NextIndex, Fields
    <2>2. CASE Answer(p, "conflict")
      BY <2>2 DEF Answer, Goto, AccountInv, TypeOK, KeyIsMine, Entered, Writers
    <2>3. CASE Goto(p, "commit") /\ UNCHANGED <<pend, keys, out>>
      BY <2>1, <2>3 DEF Goto, AccountInv, TypeOK, KeyIsMine, Entered, Writers
    <2>4. CASE Undecided(p, g) = {} /\ keys' = [keys EXCEPT ![p] = @ \ {g}] /\ UNCHANGED <<pc, pend, out>>
      <3>1. \A q \in Requests \ {p} : Entered(q, g) => pend[q][g].key # pend[p][g].key
        BY <2>1, <2>4 DEF Undecided, SameKey, Entered, Writers, Holding, AccountInv, Apart
      <3> HIDE DEF g
      <3>2. \A q \in Requests \ {p}, f \in Fields : Entered(q, f)' => Entered(q, f)
        BY <2>4 DEF Entered, AccountInv, TypeOK
      <3>3. \A f \in Fields \ {g} : Entered(p, f)' => Entered(p, f)
        BY <2>4 DEF Entered, AccountInv, TypeOK
      <3> QED
        BY <2>4, <3>1, <3>2, <3>3 DEF AccountInv, KeyIsMine
    <2> QED
      BY <1>8, <2>2, <2>3, <2>4 DEF Index
  <1>9. CASE Commit(p)
    BY <1>9, CommitEffect DEF Goto, Answer, AccountInv, TypeOK, KeyIsMine, Entered, Writers, Holding
  <1>10. CASE Timeout(p)
    BY <1>10 DEF Timeout, Goto, Answer, input, AccountInv, TypeOK, KeyIsMine, Entered, Writers, Holding
  <1>11. CASE Return(p)
    BY <1>11 DEF Return, Goto, AccountInv, TypeOK, KeyIsMine, Entered, Writers, Holding
  <1> QED
    BY <1>1, <1>2, <1>3, <1>4, <1>5, <1>6, <1>7, <1>8, <1>9, <1>10, <1>11 DEF Begin, LocalStep, LockStep

-----------------------------------------------------------------------------
LEMMA InitAccounts ==
    ASSUME Init
    PROVE  AccountInv
  <1>1. user \in [Users -> UserRow] /\ want = user
    BY AccountsAssumption, ConstantRows DEF Init
  <1>2. TypeOK
    BY <1>1, ConstantRows DEF Init, TypeOK
  <1>3. \A u \in Users : user[u].st = "present" => u \in DOMAIN Seed /\ user[u] = Seed[u]
    BY ConstantRows DEF Init
  <1>4. NotReserved /\ KeysUnique
    BY <1>3, AccountsAssumption DEF NotReserved, KeysUnique
  <1> QED
    BY <1>1, <1>2, <1>4 DEF Init, AccountInv, Shape, Version, Apart, KeyIsFree, KeyIsMine, Entered, NoLostEdit,
       Writers, Holding

LEMMA NextAccounts ==
    ASSUME AccountInv, [Next]_vars
    PROVE  AccountInv'
  <1>1. CASE Next
    <2>1. PICK p \in Requests : Begin(p) \/ LocalStep(p) \/ LockStep(p) \/ Timeout(p)
      BY <1>1 DEF Next
    <2>2. TypeOK' /\ (\A q \in Requests : Shape(q)') /\ \A q \in Requests : Version(q)'
      BY <2>1, TypeStep, ShapeStep, VersionStep
    <2>3. Apart' /\ NotReserved' /\ NoLostEdit'
      BY <2>1, ApartStep, NotReservedStep, NoLostEditStep
    <2>4. KeysUnique' /\ KeyIsFree' /\ KeyIsMine'
      BY <2>1, KeysUniqueStep, KeyIsFreeStep, KeyIsMineStep
    <2> QED
      BY <2>2, <2>3, <2>4 DEF AccountInv
  <1>2. CASE UNCHANGED vars
    BY <1>2 DEF vars, AccountInv, TypeOK, Shape, Version, Apart, NotReserved, KeysUnique, KeyIsFree, KeyIsMine,
       Entered, NoLostEdit
  <1> QED
    BY <1>1, <1>2

\* The inductive invariant of the users table and its handlers.
THEOREM AccountInvariant == Spec => []AccountInv
  <1> QED
    BY InitAccounts, NextAccounts, PTL DEF Spec

\* Rows, versions and inputs of Register, Update and Delete keep their types.
THEOREM AccountTypes == Spec => []TypeOK
  <1>1. AccountInv => TypeOK
    BY DEF AccountInv
  <1> QED
    BY <1>1, AccountInvariant, PTL

\* The unique indexes on lower(username) and lower(email) keep every two accounts
\* apart, however many inserts, renames and deletes race each other.
THEOREM NamesAreUnique == Spec => []KeysUnique
  <1>1. AccountInv => KeysUnique
    BY DEF AccountInv
  <1> QED
    BY <1>1, AccountInvariant, PTL

\* Login reaches the account whose name is given, never the bootstrap admin in its
\* place: isReservedUsername keeps the admin's name out of the table.
THEOREM LoginFindsItsAccount == Spec => []EveryAccountCanLogIn
  <1>1. AccountInv => EveryAccountCanLogIn
    <2> SUFFICES ASSUME AccountInv, NEW u \in Users, NEW s \in {"plain", "capital", "padded"},
                        user[u].st = "present"
                 PROVE  LoginTarget([key |-> user[u].username.key, style |-> s]) = {u}
      BY DEF EveryAccountCanLogIn
    <2> DEFINE k == user[u].username.key
               t == [key |-> k, style |-> s]
    <2>1. k # "admin"
      BY DEF AccountInv, NotReserved
    <2>2. normalizeUsername(t).key = k
      BY DEF normalizeUsername
    <2>3. \A v \in Users : user[v].st = "present" /\ user[v].username.key = k => v = u
      BY DEF AccountInv, KeysUnique, Fields
    <2> HIDE DEF t
    <2>4. GetByUsername(normalizeUsername(t)) = {u}
      BY <2>2, <2>3 DEF GetByUsername
    <2> QED
      BY <2>1, <2>2, <2>4 DEF LoginTarget, isReservedUsername, t
  <1> QED
    BY <1>1, AccountInvariant, PTL

\* Every committed edit is in the row: UPDATE ... COALESCE works on the row that it
\* has locked.
THEOREM EditsAreNotLost == Spec => []NoLostEdit
  <1>1. AccountInv => NoLostEdit
    BY DEF AccountInv
  <1> QED
    BY <1>1, AccountInvariant, PTL

LEMMA ChangeStep ==
    ASSUME AccountInv, [Next]_vars, NEW u \in Users, user[u].st = "present", user'[u] # user[u]
    PROVE  \E p \in Requests : pc[p] = "commit" /\ pc'[p] # "commit" /\ actor[p] \in {u, Admin}
  <1>1. PICK p \in Requests : Begin(p) \/ LocalStep(p) \/ LockStep(p) \/ Timeout(p)
    BY DEF Next, vars
  <1>2. Commit(p)
    BY <1>1, InsertEffect, ApplyEffect
       DEF Begin, LocalStep, LockStep, StartRegister, StartUpdate, StartDelete, Start, Hash, Lock, Index, Timeout,
           Return
  <1>3. pc[p] = "commit" /\ pc'[p] = "done" /\ u = id[p]
    BY <1>2, CommitEffect DEF Answer, Goto, AccountInv, TypeOK
  <1>4. op[p] # "register"
    BY <1>3 DEF AccountInv, Version, Writers
  <1> QED
    BY <1>3, <1>4 DEF AccountInv, Shape, Writers, Holding

\* authorizeUser stands before every write: an account changes by its own user or
\* by the admin.
THEOREM OnlyAuthorizedChanges == Spec => OnlySelfOrAdmin
  <1>1. AccountInv /\ [Next]_vars =>
          [\A u \in Users : user[u].st = "present" /\ user'[u] # user[u] =>
              \E p \in Requests : pc[p] = "commit" /\ pc'[p] # "commit" /\ actor[p] \in {u, Admin}]_vars
    BY ChangeStep
  <1> QED
    BY <1>1, AccountInvariant, PTL DEF Spec, OnlySelfOrAdmin
=============================================================================
