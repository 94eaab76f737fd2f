------------------------------ MODULE SessionTx ------------------------------
(***************************************************************************)
(* The session transactions of the repository, one action per SQL          *)
(* statement, run by concurrent request handlers and by the cleanup        *)
(* goroutine against one PostgreSQL database at READ COMMITTED.            *)
(*                                                                         *)
(* row, uver, tok (of Sessions) are the committed tables.  What a          *)
(* transaction wrote and did not commit yet is wset (rows it changed: it   *)
(* holds their row locks) and new (the row it inserted).  The lock on the  *)
(* users row follows from pc.  Locks are released by the commit or by the  *)
(* rollback that an error, a timeout, a deadlock or a crash brings.        *)
(***************************************************************************)
EXTENDS Sessions

CONSTANTS
    Requests,   \* request handlers
    Janitor,    \* the cleanup goroutine
    Ops         \* operations the requests may ask for

AllOps == {"login", "refresh", "logout", "logoutall", "password", "delete"}

ASSUME SessionTxAssumption ==
    /\ Janitor \notin Requests
    /\ None \notin Requests \cup {Janitor}
    /\ Ops \subseteq AllOps

VARIABLES
    op,     \* op[p]: operation p is running
    pc,     \* pc[p]: its next statement
    usr,    \* usr[p]: user it works on
    pres,   \* pres[p]: presented refresh token
    ver,    \* ver[p]: credentials_version read with the password hash
    stamp,  \* stamp[p]: expires_at of the token to insert, or cleanup cutoff
    todo,   \* todo[p]: rows a multi-row statement has not visited yet
    wset,   \* wset[p]: rows changed and not committed, hence locked
    new,    \* new[p]: row inserted and not committed
    want,   \* want[p]: account whose name or email the UPDATE of p asks for
    out     \* out[p]: what the caller is told

reqvars == <<op, pc, usr, pres, ver, stamp, todo, wset, new, want, out>>
vars == <<row, uver, tok, now, op, pc, usr, pres, ver, stamp, todo, wset, new, want, out>>

Procs == Requests \cup {Janitor}

-----------------------------------------------------------------------------
(* Locks.                                                                  *)

\* Inside a transaction, after the statement that locks the users row.
Holding == {"consume", "inspect", "insert", "update", "index", "scan", "write"}

\* Operations that take the users row FOR UPDATE (DELETE takes it as well).
Exclusive == {"refresh", "password", "logoutall", "delete"}

HoldsX(p, u) == op[p] \in Exclusive /\ pc[p] \in Holding /\ usr[p] = u
HoldsS(p, u) == op[p] = "login" /\ pc[p] \in Holding /\ usr[p] = u

\* Mutant: the SELECT has no FOR UPDATE.
CanLock_Always(p, u) == TRUE

\* FOR UPDATE is granted when nobody else holds the row in any mode.
CanLock(p, u) == \A q \in Procs \ {p} : ~HoldsX(q, u) /\ ~HoldsS(q, u)

\* FOR SHARE is granted when nobody else holds the row FOR UPDATE.
CanShare(p, u) == \A q \in Procs \ {p} : ~HoldsX(q, u)

\* The row of t is not locked by another transaction.
Free(p, t) == \A q \in Procs \ {p} : t \notin wset[q]

-----------------------------------------------------------------------------
(* The control of one request.                                             *)

Goto(p, l) == pc' = [pc EXCEPT ![p] = l]

\* Mutant: the transaction is left open (no deferred Rollback).
Answer_KeepsLocks(p, o) ==
    /\ Goto(p, "done")
    /\ out' = [out EXCEPT ![p] = o]
    /\ todo' = [todo EXCEPT ![p] = {}]
    /\ new' = [new EXCEPT ![p] = None]
    /\ want' = [want EXCEPT ![p] = None]
    /\ UNCHANGED <<op, usr, pres, ver, stamp, wset>>

\* The handler is about to answer o.  A deferred Rollback ends a transaction
\* that did not commit: its writes vanish and its locks are released.
Answer(p, o) ==
    /\ Goto(p, "done")
    /\ out' = [out EXCEPT ![p] = o]
    /\ todo' = [todo EXCEPT ![p] = {}]
    /\ wset' = [wset EXCEPT ![p] = {}]
    /\ new' = [new EXCEPT ![p] = None]
    /\ want' = [want EXCEPT ![p] = None]
    /\ UNCHANGED <<op, usr, pres, ver, stamp>>

\* Continues with statement l.
Continue(p, l) == Goto(p, l) /\ UNCHANGED <<op, usr, pres, ver, stamp, todo, wset, new, want, out>>

Start(p, o, l, u, t, v, s) ==
    /\ pc[p] = "idle"
    /\ Goto(p, l)
    /\ op' = [op EXCEPT ![p] = o]
    /\ usr' = [usr EXCEPT ![p] = u]
    /\ pres' = [pres EXCEPT ![p] = t]
    /\ ver' = [ver EXCEPT ![p] = v]
    /\ stamp' = [stamp EXCEPT ![p] = s]
    /\ UNCHANGED <<dbvars, todo, wset, new, want, out>>

\* Login reads the users row; Verify then works on this copy of it.  Without a
\* row the answer is the one for a wrong password.
StartLogin(p) ==
    /\ "login" \in Ops
    /\ \E u \in Users :
          Start(p, "login", IF row[u] = "present" THEN "verify" ELSE "unknown", u, None, uver[u], 0)

\* The replacement's expires_at is computed before Rotate is called.
StartRefresh(p) ==
    /\ "refresh" \in Ops
    /\ \E t \in Tokens :
          /\ tok[t].st # "unused"
          /\ Start(p, "refresh", "lookup", None, t, 0, now + TTL)

StartLogout(p) ==
    /\ "logout" \in Ops
    /\ \E t \in Tokens :
          /\ tok[t].st # "unused"
          /\ Start(p, "logout", "revoke", None, t, 0, 0)

\* The caller's right to change or delete u was checked before (authorizeUser).
StartUserOp(p) ==
    \E u \in Users, o \in {"password", "logoutall", "delete"} \cap Ops :
        /\ row[u] # "absent"
        /\ Start(p, o, "lock", u, None, 0, 0)

\* Mutant: the retention is forgotten.
Cutoff_NoRetention == now

\* cutoff := start.Add(-Retention).
Cutoff == now - Retention

\* The janitor's ticker fired.
StartSweep == Start(Janitor, "sweep", "scan", None, None, 0, Cutoff)

\* The client has the answer.
Return(p) ==
    /\ pc[p] = "done"
    /\ Goto(p, "idle")
    /\ op' = [op EXCEPT ![p] = "none"]
    /\ usr' = [usr EXCEPT ![p] = None]
    /\ pres' = [pres EXCEPT ![p] = None]
    /\ ver' = [ver EXCEPT ![p] = 0]
    /\ stamp' = [stamp EXCEPT ![p] = 0]
    /\ out' = [out EXCEPT ![p] = "none"]
    /\ UNCHANGED <<dbvars, todo, wset, new, want>>

-----------------------------------------------------------------------------
(* Statements.                                                             *)

\* Hasher.Verify against the hash read before: a mismatch is a 401.
Verify(p) ==
    /\ pc[p] \in {"verify", "unknown"}
    /\ \/ Answer(p, "refused")
       \/ /\ pc[p] = "verify"
          /\ Goto(p, "lock")
          /\ stamp' = [stamp EXCEPT ![p] = now + TTL]
          /\ UNCHANGED <<op, usr, pres, ver, todo, wset, new, want, out>>
    /\ UNCHANGED dbvars

\* SELECT user_id FROM refresh_tokens WHERE token_hash = pres.
Lookup(p) ==
    /\ pc[p] = "lookup"
    /\ IF tok[pres[p]].st \in Stored
       THEN /\ Goto(p, "lock")
            /\ usr' = [usr EXCEPT ![p] = tok[pres[p]].own]
            /\ UNCHANGED <<op, pres, ver, stamp, todo, wset, new, want, out>>
       ELSE Answer(p, "notfound")
    /\ UNCHANGED dbvars

\* Mutant: the version is not compared.
SameCredentials_Unchecked(p) == TRUE

\* The version is still the one that the password was verified under.
SameCredentials(p) == uver[usr[p]] = ver[p]

\* Create: SELECT credentials_version ... FOR SHARE.
LockShare(p) ==
    /\ op[p] = "login" /\ pc[p] = "lock"
    /\ CanShare(p, usr[p])
    /\ IF row[usr[p]] # "present" THEN Answer(p, "notfound")
       ELSE IF ~SameCredentials(p) THEN Answer(p, "conflict")
       ELSE Continue(p, "insert")
    /\ UNCHANGED dbvars

\* SELECT ... FROM users FOR UPDATE, or the DELETE itself.
LockUser(p) ==
    /\ op[p] \in Exclusive /\ pc[p] = "lock"
    /\ CanLock(p, usr[p])
    /\ IF row[usr[p]] # "present" THEN Answer(p, "notfound")
       ELSE Continue(p, CASE op[p] = "refresh" -> "consume"
                          [] op[p] = "password" -> "update"
                          [] OTHER -> "scan")
    /\ UNCHANGED dbvars

\* UPDATE users: new hash and credentials_version + 1, and often a new username
\* or email as well.  The name asked for is that of another account (an absent
\* one stands for a name that nobody has).  At the bound MaxVersion the request
\* fails.
UpdateUser(p) ==
    /\ pc[p] = "update"
    /\ \/ uver[usr[p]] = MaxVersion /\ Answer(p, "failed")
       \/ /\ uver[usr[p]] < MaxVersion
          /\ \E w \in (Users \ {usr[p]}) \cup {None} : want' = [want EXCEPT ![p] = w]
          /\ Goto(p, "index")
          /\ UNCHANGED <<op, usr, pres, ver, stamp, todo, wset, new, out>>
    /\ UNCHANGED dbvars

\* Transactions that decide whether p gets the name: they are changing or
\* deleting the row that has it, or have entered it in the index themselves.
Undecided(p) ==
    {q \in Procs \ {p} :
        /\ want[p] # None
        /\ \/ op[q] \in {"password", "delete"} /\ pc[q] \in {"index", "scan", "write"} /\ usr[q] = want[p]
           \/ want[q] = want[p] /\ pc[q] \in {"scan", "write"}}

\* The new row version enters the unique indexes (taken as one).  Whose name it
\* is by then is the matter of Accounts: a unique violation, or not.
Index(p) ==
    /\ pc[p] = "index"
    /\ Undecided(p) = {}
    /\ (want[p] # None /\ Answer(p, "conflict")) \/ Continue(p, "scan")
    /\ UNCHANGED dbvars

\* Mutant: a token that is about to expire does not pass.
Consumable_Leeway(t) == Live(t) /\ tok[t].exp > now + 1

\* revoked_at IS NULL AND expires_at > clock_timestamp().
Consumable(t) == Usable(t)

\* The UPDATE that consumes the token, after waiting for a concurrent writer.
Consume(p) ==
    /\ pc[p] = "consume"
    /\ Usable(pres[p]) => Free(p, pres[p])
    /\ IF Consumable(pres[p])
       THEN /\ Goto(p, "insert")
            /\ wset' = [wset EXCEPT ![p] = {pres[p]}]
            /\ UNCHANGED <<op, usr, pres, ver, stamp, todo, new, want, out>>
       ELSE Continue(p, "inspect")
    /\ UNCHANGED dbvars

\* EXISTS (a usable token of the same family).
FamilyLive(t) == \E s \in Family(tok[t].fam) : Usable(s)

\* Mutant: a replayed token is only refused.
Verdict_ReuseIsRevoked(t) ==
    CASE tok[t].st \notin Stored      -> "notfound"
      [] Live(t) /\ tok[t].exp <= now -> "expired"
      [] Live(t) /\ tok[t].exp > now  -> "notusable"
      [] tok[t].st \in Revoked        -> "revoked"

\* Mutant: a row without a reason counts as rotated.
Verdict_LegacyIsReuse(t) ==
    CASE tok[t].st \notin Stored                          -> "notfound"
      [] Live(t) /\ tok[t].exp <= now                     -> "expired"
      [] Live(t) /\ tok[t].exp > now                      -> "notusable"
      [] tok[t].st \in Revoked \ {"rotated", "legacy"}    -> "revoked"
      [] tok[t].st = "rotated"                            -> IF FamilyLive(t) THEN "reuse" ELSE "revoked"
      [] tok[t].st = "legacy"                             -> "reuse"

\* Mutant: familyLive is not asked for.
Verdict_AnyRotated(t) ==
    CASE tok[t].st \notin Stored                          -> "notfound"
      [] Live(t) /\ tok[t].exp <= now                     -> "expired"
      [] Live(t) /\ tok[t].exp > now                      -> "notusable"
      [] tok[t].st \in Revoked /\ tok[t].st # "rotated"   -> "revoked"
      [] tok[t].st = "rotated"                            -> "reuse"

\* handleUnusable: why could the token not be consumed?
Verdict(t) ==
    CASE tok[t].st \notin Stored                         -> "notfound"
      [] Live(t) /\ tok[t].exp <= now                    -> "expired"
      [] Live(t) /\ tok[t].exp > now                     -> "notusable"
      [] tok[t].st \in Revoked /\ (tok[t].st # "rotated" \/ ~FamilyLive(t)) -> "revoked"
      [] tok[t].st = "rotated" /\ FamilyLive(t)          -> "reuse"

Inspect(p) ==
    /\ pc[p] = "inspect"
    /\ IF Verdict(pres[p]) = "reuse" THEN Continue(p, "scan") ELSE Answer(p, Verdict(pres[p]))
    /\ UNCHANGED dbvars

\* INSERT INTO refresh_tokens: a hash nobody has seen yet.  When the bound on
\* Tokens leaves none, the request fails.
Fresh == {n \in Tokens : tok[n].st = "unused" /\ \A q \in Procs : new[q] # n}
Insert(p) ==
    /\ pc[p] = "insert"
    /\ \/ /\ \E n \in Fresh : new' = [new EXCEPT ![p] = n]
          /\ Goto(p, "write")
          /\ UNCHANGED <<op, usr, pres, ver, stamp, todo, wset, want, out>>
       \/ Fresh = {} /\ Answer(p, "failed")
    /\ UNCHANGED dbvars

\* The rows the multi-row statement of p is about, by its WHERE clause:
\* revokeAllOfUser, the cascade of DELETE FROM users, DeleteExpired.
Matches(p, t) ==
    CASE op[p] \in {"refresh", "password", "logoutall"} -> tok[t].own = usr[p] /\ Live(t)
      [] op[p] = "delete" -> tok[t].own = usr[p] /\ tok[t].st \in Stored
      [] op[p] = "sweep"  -> tok[t].st \in Stored /\ tok[t].exp < stamp[p]

\* The statement starts: it will visit the rows its snapshot shows.
Scan(p) ==
    /\ pc[p] = "scan"
    /\ todo' = [todo EXCEPT ![p] = {t \in Tokens : Matches(p, t)}]
    /\ Goto(p, "write")
    /\ UNCHANGED <<dbvars, op, usr, pres, ver, stamp, wset, new, want, out>>

\* The WHERE clause is checked again on the row found under the lock.
StillMatches(p, t) == Matches(p, t)

\* The statement visits one row, waiting for its lock.
WriteRow(p, t) ==
    /\ pc[p] = "write" /\ t \in todo[p]
    /\ Free(p, t)
    /\ todo' = [todo EXCEPT ![p] = @ \ {t}]
    /\ wset' = [wset EXCEPT ![p] = IF StillMatches(p, t) THEN @ \cup {t} ELSE @]
    /\ UNCHANGED <<dbvars, op, pc, usr, pres, ver, stamp, new, want, out>>

\* revoked_reason written, or the row deleted.
Mark(p) ==
    CASE op[p] = "refresh" /\ new[p] # None -> "rotated"
      [] op[p] = "refresh" /\ new[p] = None -> "reuse"
      [] op[p] = "password"                 -> "password_change"
      [] op[p] = "logoutall"                -> "logout"
      [] op[p] \in {"delete", "sweep"}      -> "gone"
      [] OTHER                              -> "live"

\* The inserted row: a login starts a family, a rotation continues one.
Inserted(p) ==
    IF op[p] = "refresh"
    THEN LiveRow(tok[pres[p]].own, tok[pres[p]].fam, stamp[p], tok[pres[p]].ver)
    ELSE LiveRow(usr[p], new[p], stamp[p], ver[p])

\* COMMIT makes the writes visible and releases the locks.  The handler learns
\* of it, or its context ends first and it reports a failure.
Commit(p) ==
    /\ pc[p] = "write" /\ todo[p] = {}
    /\ tok' = [t \in Tokens |->
                 IF t \in wset[p] THEN [tok[t] EXCEPT !.st = Mark(p)]
                 ELSE IF t = new[p] THEN Inserted(p) ELSE tok[t]]
    /\ uver' = IF op[p] = "password" THEN [uver EXCEPT ![usr[p]] = @ + CredentialsBump] ELSE uver
    /\ row' = IF op[p] = "delete" THEN [row EXCEPT ![usr[p]] = "deleted"] ELSE row
    /\ UNCHANGED now
    /\ \/ Answer(p, IF op[p] = "refresh" /\ new[p] = None THEN "reuse" ELSE "ok")
       \/ Answer(p, "failed")

\* Revoke: one UPDATE in a transaction of its own, without the users lock.  A
\* token that is already revoked or unknown is reported as success.
Revoke(p) ==
    /\ pc[p] = "revoke"
    /\ Live(pres[p]) => Free(p, pres[p])
    /\ tok' = IF Live(pres[p]) THEN Marked({pres[p]}, "logout") ELSE tok
    /\ Answer(p, "ok") \/ Answer(p, "failed")
    /\ UNCHANGED <<row, uver, now>>

\* An error, the context's deadline, a deadlock or a crash: rollback.
Abort(p) ==
    /\ pc[p] \notin {"idle", "done"}
    /\ Answer(p, "failed")
    /\ UNCHANGED dbvars

\* UserRepository.Create: a new row, credentials_version 1 by default.
CreateUser(u) ==
    /\ row[u] = "absent"
    /\ row' = [row EXCEPT ![u] = "present"]
    /\ UNCHANGED <<uver, tok, now, reqvars>>

Clock == Tick /\ UNCHANGED reqvars

-----------------------------------------------------------------------------
Begin(p) == StartLogin(p) \/ StartRefresh(p) \/ StartLogout(p) \/ StartUserOp(p)

\* Statements that may have to wait for a lock.
LockStep(p) ==
    \/ LockShare(p) \/ LockUser(p) \/ Index(p) \/ Consume(p) \/ Revoke(p)
    \/ \E t \in Tokens : WriteRow(p, t)

LocalStep(p) ==
    \/ Verify(p) \/ Lookup(p) \/ UpdateUser(p) \/ Inspect(p)
    \/ Insert(p) \/ Scan(p) \/ Commit(p) \/ Return(p)

TxInit ==
    /\ Init
    /\ op = [p \in Procs |-> "none"]
    /\ pc = [p \in Procs |-> "idle"]
    /\ usr = [p \in Procs |-> None]
    /\ pres = [p \in Procs |-> None]
    /\ ver = [p \in Procs |-> 0]
    /\ stamp = [p \in Procs |-> 0]
    /\ todo = [p \in Procs |-> {}]
    /\ wset = [p \in Procs |-> {}]
    /\ new = [p \in Procs |-> None]
    /\ want = [p \in Procs |-> None]
    /\ out = [p \in Procs |-> "none"]

TxNext ==
    \/ \E p \in Requests : Begin(p)
    \/ StartSweep
    \/ \E p \in Procs : LockStep(p) \/ LocalStep(p) \/ Abort(p)
    \/ \E u \in Users : CreateUser(u)
    \/ Clock

TxSpec == TxInit /\ [][TxNext]_vars

-----------------------------------------------------------------------------
(* Waiting.                                                                *)

\* p cannot take its next step before q ends its transaction.
WaitsFor(p, q) ==
    \/ pc[p] = "lock" /\ HoldsX(q, usr[p])
    \/ pc[p] = "lock" /\ op[p] \in Exclusive /\ HoldsS(q, usr[p])
    \/ pc[p] = "index" /\ q \in Undecided(p)
    \/ pc[p] = "consume" /\ Usable(pres[p]) /\ pres[p] \in wset[q]
    \/ pc[p] = "revoke" /\ Live(pres[p]) /\ pres[p] \in wset[q]
    \/ pc[p] = "write" /\ (\A t \in todo[p] : ~Free(p, t)) /\ todo[p] \cap wset[q] # {}

\* Every member waits for another one: a deadlock.
Cycle(S) == S # {} /\ \A p \in S : \E q \in S \ {p} : WaitsFor(p, q)

\* The server rolls back a member of a deadlock.
Victim(p) == (\E S \in SUBSET Procs : p \in S /\ Cycle(S)) /\ Abort(p)

\* Goroutines and backends keep running, the server hands out a lock that is
\* free again and again to each waiter (its lock queues are first in, first
\* out), and its deadlock detector runs.  No timeout is needed to make progress.
TxFairness == \A p \in Procs : WF_vars(LocalStep(p)) /\ SF_vars(LockStep(p)) /\ WF_vars(Victim(p))

FairTxSpec == TxSpec /\ TxFairness

-----------------------------------------------------------------------------
Answers == {"none", "ok", "failed", "refused", "conflict", "notfound",
            "expired", "notusable", "revoked", "reuse"}

TxTypeOK ==
    /\ TypeOK
    /\ op \in [Procs -> AllOps \cup {"none", "sweep"}]
    /\ pc \in [Procs -> Holding \cup {"idle", "verify", "unknown", "lookup", "lock", "revoke", "done"}]
    /\ usr \in [Procs -> Users \cup {None}]
    /\ pres \in [Procs -> Tokens \cup {None}]
    /\ ver \in [Procs -> Nat]
    /\ stamp \in [Procs -> Int]
    /\ todo \in [Procs -> SUBSET Tokens]
    /\ wset \in [Procs -> SUBSET Tokens]
    /\ new \in [Procs -> Tokens \cup {None}]
    /\ want \in [Procs -> Users \cup {None}]
    /\ out \in [Procs -> Answers]

\* The statement-by-statement transactions, interleaved in any order, aborted
\* anywhere and committed without the caller learning of it, do nothing that
\* the atomic operations of Sessions could not do.
ImplementsSessions == Spec

\* Whoever is told that a token is expired, revoked or reused cannot be
\* followed by somebody who still uses the same login: by then no token of the
\* family is usable (handleUnusable's verdict is not stale when it is given).
RefusalEndsFamily ==
    \A p \in Procs :
        pc[p] = "done" /\ out[p] \in {"expired", "revoked", "reuse"} /\ tok[pres[p]].st # "gone"
            => ~FamilyLive(pres[p])

\* handleUnusable's case "refresh token is not usable" (the row is live and not
\* expired although the UPDATE just did not match it) is dead code.
UnusableIsExplained == \A p \in Procs : out[p] # "notusable"

\* Requests that deadlock with each other do so over names: among them are
\* password changes that wait in a circle for each other's entries in the unique
\* indexes of users.  Users rows and sessions alone make no deadlock, unless the
\* cleanup's multi-row DELETE, which locks rows without the users lock, is in it.
RequestsDeadlockOverNames ==
    \A S \in SUBSET Requests : Cycle(S) => Cycle({p \in S : pc[p] = "index"})

\* Every request is answered without the help of its timeout.
EveryRequestAnswered == \A p \in Procs : (pc[p] # "idle") ~> (pc[p] = "idle")

-----------------------------------------------------------------------------
(* Statements of the documentation that the code does not keep.            *)

\* docs/openapi.yaml, POST /auth/logout: it "ends the session the refresh token
\* belongs to", and an already revoked token is accepted because "the requested
\* state is reached either way".
LogoutEndsSession ==
    [][\A p \in Requests :
          pc[p] = "revoke" /\ pc'[p] = "done" /\ out'[p] = "ok" /\ tok[pres[p]].st # "gone"
              => \A s \in Family(tok[pres[p]].fam) : tok'[s].st # "live"]_vars

\* docs/openapi.yaml, response 503 (also of POST /auth/refresh): "the request is
\* safe to retry".  README.md: "a failed rotation leaves the old token usable".
RetryAfter503IsSafe ==
    [][\A p \in Requests :
          op[p] = "refresh" /\ pc[p] # "done" /\ pc'[p] = "done" /\ out'[p] = "failed"
              => (Verdict(pres[p])' = "reuse" => Verdict(pres[p]) = "reuse")]_vars
=============================================================================
