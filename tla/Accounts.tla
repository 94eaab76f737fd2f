------------------------------ MODULE Accounts ------------------------------
(***************************************************************************)
(* The users table: register, edit and delete, run by concurrent request   *)
(* handlers.  Usernames and emails are unique regardless of case, which    *)
(* only the unique indexes on lower(...) enforce, and the name of the      *)
(* bootstrap admin, who has no row, is reserved by a check in the code.    *)
(*                                                                         *)
(* A statement that writes a row locks it, makes a new version, enters the *)
(* version into the unique indexes (waiting for a transaction that may     *)
(* still take or free the same key) and commits.                           *)
(***************************************************************************)
EXTENDS Naturals, FiniteSets

CONSTANTS
    Users,       \* ids that a row can get (BIGSERIAL: an id is used once)
    Admin,       \* the bootstrap admin: user id 0, no row
    Requests,    \* request handlers
    Keys,        \* texts, told apart without regard to case and outer spaces
    Seed,        \* rows that exist at the start, a function of their ids
    NewAccounts, \* registrations that clients send
    EditInputs,  \* edits that clients send
    MaxVersion,  \* bound: password changes per user, plus one
    None

\* A text and how it is written.  The key "bad" stands for what validateUsername
\* and validateEmail refuse, "admin" for cfg.AdminUsername in any case.
Stored == [key : Keys, style : {"plain", "capital"}]
Inputs == [key : Keys \cup {"bad"}, style : {"plain", "capital", "padded"}]
Keep == [key |-> "keep", style |-> "plain"]
Fields == {"username", "email"}

\* Keep and "keep" are nil fields.
Edits == [username : Inputs \cup {Keep}, email : Inputs \cup {Keep}, password : {"keep", "good", "bad", "empty"}]
NoEdit == [username |-> Keep, email |-> Keep, password |-> "keep"]

UserRow == [st : {"absent", "present", "deleted"}, username : Stored \cup {Keep},
            email : Stored \cup {Keep}, ver : Nat]
NoRow == [st |-> "absent", username |-> Keep, email |-> Keep, ver |-> 1]
Deleted == [NoRow EXCEPT !.st = "deleted"]

ASSUME AccountsAssumption ==
    /\ None \notin Users \cup {Admin} /\ Admin \notin Users
    /\ "bad" \notin Keys /\ "keep" \notin Keys /\ "admin" \in Keys
    /\ DOMAIN Seed \subseteq Users
    /\ \A u \in DOMAIN Seed : Seed[u] \in UserRow /\ Seed[u].st = "present"
    /\ \A u \in DOMAIN Seed : Seed[u].username.key # "admin"
    /\ \A u, v \in DOMAIN Seed, f \in Fields : Seed[u][f].key = Seed[v][f].key => u = v
    /\ EditInputs \subseteq Edits
    /\ NewAccounts \subseteq {e \in Edits : Keep \notin {e.username, e.email} /\ e.password # "keep"}
    /\ MaxVersion \in Nat \ {0}

VARIABLES
    user,   \* user[u]: the committed row with id u
    pc,     \* pc[p]: next step of request p
    op,     \* op[p]: its operation
    actor,  \* actor[p]: user id of the caller's claims
    id,     \* id[p]: row it works on
    edit,   \* edit[p]: its input
    pend,   \* pend[p]: new version of the row, not committed
    keys,   \* keys[p]: indexes the version is not in yet
    out,    \* out[p]: answer
    want    \* history: want[u] is what the committed edits of u, applied one
            \* after the other, leave in the row

vars == <<user, pc, op, actor, id, edit, pend, keys, out, want>>
input == <<op, actor, id, edit>>

-----------------------------------------------------------------------------
(* Input checks.                                                           *)

\* Mutant: the name is stored as it was sent.
normalizeUsername_AsSent(t) == t

\* strings.TrimSpace, which Register and Update also apply to emails.
normalizeUsername(t) == IF t.style = "padded" THEN [t EXCEPT !.style = "plain"] ELSE t

\* Mutant: == in place of strings.EqualFold.
isReservedUsername_Exact(t) == normalizeUsername(t) = [key |-> "admin", style |-> "plain"]

isReservedUsername(t) == normalizeUsername(t).key = "admin"

\* Mutant: any signed-in user passes.
authorizeUser_Anybody(a, u) == a # None

\* authorizeUser: admins, and users acting on themselves.
authorizeUser(a, u) == a = Admin \/ a = u

\* What register refuses before it hashes the password, in its order: a
\* password is missed at once, and judged after the name.
RegisterRefusal(e) ==
    IF "bad" \in {e.username.key, e.email.key} \/ e.password = "empty" THEN "invalid"
    ELSE IF isReservedUsername(e.username) THEN "conflict"
    ELSE IF e.password = "bad" THEN "invalid" ELSE "none"

\* What Update refuses, in its order.
UpdateRefusal(e) ==
    IF e = NoEdit \/ e.username.key = "bad" THEN "invalid"
    ELSE IF isReservedUsername(e.username) THEN "conflict"
    ELSE IF e.email.key = "bad" \/ e.password \in {"bad", "empty"} THEN "invalid" ELSE "none"

-----------------------------------------------------------------------------
(* Rows, locks and unique indexes.                                         *)

\* COALESCE($2, username), COALESCE($3, email), and one version per password.
Coalesce(new, old) == IF new = Keep THEN old ELSE normalizeUsername(new)
Edited(r, e) ==
    [r EXCEPT !.username = Coalesce(e.username, @), !.email = Coalesce(e.email, @),
              !.ver = IF e.password = "keep" THEN @ ELSE @ + 1]

Holding == {"apply", "index", "commit"}

\* Mutant: the row is written without its lock.
CanLock_Always(p) == TRUE

\* No other transaction has locked or written the row.
CanLock(p) == \A q \in Requests \ {p} : ~(pc[q] \in Holding /\ id[q] = id[p])

\* Mutant: the index is on the column, not on lower(column).
SameKey_Exact(s, t) == s = t

\* Equal under lower(...): users_username_lower_key, users_email_lower_key.
SameKey(s, t) == s.key = t.key

\* q has written row u in a transaction that is still open.
Writing(q, u) == pc[q] \in {"index", "commit"} /\ id[q] = u

\* Transactions that may still take the key that p needs in index f, or free it.
Undecided(p, f) ==
    {q \in Requests \ {p} :
        /\ pc[q] \in {"index", "commit"} /\ id[q] # id[p]
        /\ \/ pend[q].st = "present" /\ f \notin keys[q] /\ SameKey(pend[q][f], pend[p][f])
           \/ user[id[q]].st = "present" /\ SameKey(user[id[q]][f], pend[p][f])}

\* A committed row that nobody is changing has the key.
Taken(p, f) ==
    \E u \in Users \ {id[p]} :
        /\ user[u].st = "present" /\ SameKey(user[u][f], pend[p][f])
        /\ \A q \in Requests \ {p} : ~Writing(q, u)

\* SELECT ... WHERE lower(username) = lower($1).
GetByUsername(t) == {u \in Users : user[u].st = "present" /\ user[u].username.key = t.key}

\* Whose password a login with name t has to match: the admin's comes first.
LoginTarget(t) == IF isReservedUsername(t) THEN {Admin} ELSE GetByUsername(normalizeUsername(t))

-----------------------------------------------------------------------------
Goto(p, l) == pc' = [pc EXCEPT ![p] = l]

\* Mutant: the transaction stays open and keeps its row.
Answer_KeepsRow(p, o) ==
    /\ IF pc[p] \in Holding THEN UNCHANGED pc ELSE Goto(p, "done")
    /\ out' = [out EXCEPT ![p] = o]
    /\ UNCHANGED <<pend, keys>>

\* The handler answers; a transaction that did not commit is rolled back.
Answer(p, o) ==
    /\ Goto(p, "done")
    /\ out' = [out EXCEPT ![p] = o]
    /\ pend' = [pend EXCEPT ![p] = NoRow]
    /\ keys' = [keys EXCEPT ![p] = {}]

Init ==
    /\ user = [u \in Users |-> IF u \in DOMAIN Seed THEN Seed[u] ELSE NoRow]
    /\ pc = [p \in Requests |-> "idle"]
    /\ op = [p \in Requests |-> "none"]
    /\ actor = [p \in Requests |-> None]
    /\ id = [p \in Requests |-> None]
    /\ edit = [p \in Requests |-> NoEdit]
    /\ pend = [p \in Requests |-> NoRow]
    /\ keys = [p \in Requests |-> {}]
    /\ out = [p \in Requests |-> "none"]
    /\ want = user

Start(p, o, a, u, e) ==
    /\ pc[p] = "idle"
    /\ op' = [op EXCEPT ![p] = o]
    /\ actor' = [actor EXCEPT ![p] = a]
    /\ id' = [id EXCEPT ![p] = u]
    /\ edit' = [edit EXCEPT ![p] = e]
    /\ UNCHANGED <<user, want>>

\* Ids that clients know of.  An access token may be older than the deletion of
\* its user.
Known == {u \in Users : user[u].st # "absent"}
Callers == Known \cup {Admin}

\* Refused with r, or on to step l.
Admit(p, r, l) ==
    IF r # "none" THEN Answer(p, r) ELSE Goto(p, l) /\ UNCHANGED <<pend, keys, out>>

\* POST /auth/register.
StartRegister(p) ==
    \E e \in NewAccounts :
        Start(p, "register", None, None, e) /\ Admit(p, RegisterRefusal(e), "hash")

\* PATCH /users/{id}.
StartUpdate(p) ==
    \E a \in Callers, u \in Known, e \in EditInputs :
        /\ Start(p, "update", a, u, e)
        /\ Admit(p, IF authorizeUser(a, u) THEN UpdateRefusal(e) ELSE "forbidden",
                    IF e.password = "keep" THEN "lock" ELSE "hash")

\* DELETE /users/{id}.
StartDelete(p) ==
    \E a \in Callers, u \in Known :
        /\ Start(p, "delete", a, u, NoEdit)
        /\ Admit(p, IF authorizeUser(a, u) THEN "none" ELSE "forbidden", "lock")

\* Hasher.Hash (module Hasher); its failures are those of Timeout.
Hash(p) ==
    /\ pc[p] = "hash"
    /\ Goto(p, IF op[p] = "register" THEN "insert" ELSE "lock")
    /\ UNCHANGED <<user, input, pend, keys, out, want>>

\* INSERT INTO users: a new id.  When the bound on Users leaves none, the
\* request fails.
Unborn == {u \in Users : user[u].st = "absent" /\ \A q \in Requests : id[q] # u}
Insert(p) ==
    /\ pc[p] = "insert"
    /\ \/ \E u \in Unborn :
             /\ id' = [id EXCEPT ![p] = u]
             /\ pend' = [pend EXCEPT ![p] =
                           [NoRow EXCEPT !.st = "present",
                                         !.username = normalizeUsername(edit[p].username),
                                         !.email = normalizeUsername(edit[p].email)]]
             /\ keys' = [keys EXCEPT ![p] = Fields]
             /\ Goto(p, "index")
             /\ UNCHANGED out
       \/ Unborn = {} /\ Answer(p, "failed") /\ UNCHANGED id
    /\ UNCHANGED <<user, op, actor, edit, want>>

\* SELECT ... FOR UPDATE, or the first thing that UPDATE and DELETE do.
Lock(p) ==
    /\ pc[p] = "lock"
    /\ CanLock(p)
    /\ IF user[id[p]].st = "present" THEN Goto(p, "apply") /\ UNCHANGED <<pend, keys, out>>
       ELSE Answer(p, "notfound")
    /\ UNCHANGED <<user, input, want>>

\* UPDATE and DELETE make the new version of the row.  At the bound MaxVersion
\* a new password fails.
Apply(p) ==
    /\ pc[p] = "apply"
    /\ IF op[p] = "delete"
       THEN /\ pend' = [pend EXCEPT ![p] = Deleted]
            /\ Goto(p, "commit") /\ UNCHANGED <<keys, out>>
       ELSE IF edit[p].password # "keep" /\ user[id[p]].ver = MaxVersion
       THEN Answer(p, "failed")
       ELSE /\ pend' = [pend EXCEPT ![p] = Edited(user[id[p]], edit[p])]
            /\ keys' = [keys EXCEPT ![p] = {f \in Fields : edit[p][f] # Keep}]
            /\ Goto(p, "index") /\ UNCHANGED out
    /\ UNCHANGED <<user, input, want>>

\* The version enters its indexes, the username's before the email's.  A key
\* that is taken is a unique violation, ErrConflict.
NextIndex(p) == IF "username" \in keys[p] THEN "username" ELSE "email"
Index(p) ==
    /\ pc[p] = "index"
    /\ \/ /\ keys[p] = {}
          /\ Goto(p, "commit") /\ UNCHANGED <<pend, keys, out>>
       \/ /\ keys[p] # {}
          /\ \/ Taken(p, NextIndex(p)) /\ Answer(p, "conflict")
             \/ /\ ~Taken(p, NextIndex(p)) /\ Undecided(p, NextIndex(p)) = {}
                /\ keys' = [keys EXCEPT ![p] = @ \ {NextIndex(p)}]
                /\ UNCHANGED <<pc, pend, out>>
    /\ UNCHANGED <<user, input, want>>

\* The handler learns that the commit took effect, or its deadline is first.
Commit(p) ==
    /\ pc[p] = "commit"
    /\ user' = [user EXCEPT ![id[p]] = pend[p]]
    /\ want' = [want EXCEPT ![id[p]] =
                  IF op[p] = "register" THEN pend[p]
                  ELSE IF op[p] = "delete" THEN Deleted
                  ELSE Edited(@, edit[p])]
    /\ Answer(p, "ok") \/ Answer(p, "failed")
    /\ UNCHANGED input

\* The deadline, a failure of the database, or the victim of a deadlock.
Timeout(p) ==
    /\ pc[p] \notin {"idle", "done"}
    /\ Answer(p, "failed")
    /\ UNCHANGED <<user, input, want>>

Return(p) ==
    /\ pc[p] = "done"
    /\ Goto(p, "idle")
    /\ op' = [op EXCEPT ![p] = "none"]
    /\ actor' = [actor EXCEPT ![p] = None]
    /\ id' = [id EXCEPT ![p] = None]
    /\ edit' = [edit EXCEPT ![p] = NoEdit]
    /\ out' = [out EXCEPT ![p] = "none"]
    /\ UNCHANGED <<user, pend, keys, want>>

Begin(p) == StartRegister(p) \/ StartUpdate(p) \/ StartDelete(p)
LocalStep(p) == Hash(p) \/ Insert(p) \/ Apply(p) \/ Commit(p) \/ Return(p)
LockStep(p) == Lock(p) \/ Index(p)

Next == \E p \in Requests : Begin(p) \/ LocalStep(p) \/ LockStep(p) \/ Timeout(p)

Spec == Init /\ [][Next]_vars

-----------------------------------------------------------------------------
(* Waiting.                                                                *)

WaitsFor(p, q) ==
    \/ pc[p] = "lock" /\ pc[q] \in Holding /\ id[q] = id[p]
    \/ /\ pc[p] = "index" /\ keys[p] # {} /\ ~Taken(p, NextIndex(p))
       /\ q \in Undecided(p, NextIndex(p))

Cycle(S) == S # {} /\ \A p \in S : \E q \in S \ {p} : WaitsFor(p, q)

\* The server's deadlock detector rolls back a member of a cycle.
Victim(p) == (\E S \in SUBSET Requests : p \in S /\ Cycle(S)) /\ Timeout(p)

\* As in SessionTx: lock queues are served in turn, the detector runs, and no
\* deadline has to pass.
FairSpec ==
    Spec /\ \A p \in Requests : WF_vars(LocalStep(p)) /\ SF_vars(LockStep(p)) /\ WF_vars(Victim(p))

-----------------------------------------------------------------------------
TypeOK ==
    /\ user \in [Users -> UserRow]
    /\ pc \in [Requests -> Holding \cup {"idle", "hash", "insert", "lock", "done"}]
    /\ op \in [Requests -> {"none", "register", "update", "delete"}]
    /\ actor \in [Requests -> Users \cup {Admin, None}]
    /\ id \in [Requests -> Users \cup {None}]
    /\ edit \in [Requests -> Edits]
    /\ pend \in [Requests -> UserRow]
    /\ keys \in [Requests -> SUBSET Fields]
    /\ out \in [Requests -> {"none", "ok", "failed", "forbidden", "invalid", "notfound", "conflict"}]
    /\ want \in [Users -> UserRow]

\* No two accounts have names or emails that differ only in case, although
\* nothing in the code looks for duplicates before it writes.
KeysUnique ==
    \A u, v \in Users, f \in Fields :
        user[u].st = "present" /\ user[v].st = "present" /\ user[u][f].key = user[v][f].key => u = v

\* Whoever logs in with the name of an account, in any case and with spaces
\* around it, reaches that account and no other: never the bootstrap admin, whom
\* login prefers for a reserved name, whatever renames and registrations did.
EveryAccountCanLogIn ==
    \A u \in Users, s \in {"plain", "capital", "padded"} :
        user[u].st = "present" => LoginTarget([key |-> user[u].username.key, style |-> s]) = {u}

\* Concurrent edits of one account do not undo each other: a change of the
\* email survives a change of the name or of the password that raced it.
NoLostEdit == \A u \in Users : user[u].st = "present" => user[u] = want[u]

\* An account changes only by a request of its user or of the admin.
OnlySelfOrAdmin ==
    [][\A u \in Users : user[u].st = "present" /\ user'[u] # user[u] =>
          \E p \in Requests : pc[p] = "commit" /\ pc'[p] # "commit" /\ actor[p] \in {u, Admin}]_vars

\* Every request is answered without the help of its deadline, although two
\* users who exchange names wait for each other.
EveryRequestAnswered == \A p \in Requests : (pc[p] # "idle") ~> (pc[p] = "idle")
=============================================================================
