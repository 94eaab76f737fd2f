------------------------------ MODULE Sessions ------------------------------
(***************************************************************************)
(* What the server promises about refresh-token sessions, with every       *)
(* operation as one atomic step on the two tables it touches:              *)
(*                                                                         *)
(*   users(id, credentials_version)                                        *)
(*   refresh_tokens(token_hash, user_id, family_id, expires_at,            *)
(*                  revoked_at, revoked_reason)                            *)
(*                                                                         *)
(* SessionTx gives the transactions the repository really runs, statement  *)
(* by statement, and is shown to implement this module.                    *)
(*                                                                         *)
(* A token hash is a model value: 32 random bytes that never repeat.  A    *)
(* family (one login and the tokens rotated out of it) is named by the     *)
(* first token of the chain.  A row that was deleted keeps its fields with *)
(* st = "gone": the fields are history, no operation reads them.           *)
(***************************************************************************)
EXTENDS Integers, FiniteSets

CONSTANTS
    Users,        \* ids a user row can get (BIGSERIAL: an id is used once)
    Tokens,       \* token hashes
    Legacy,       \* tokens stored before families and reasons existed
    None,         \* "no token", "no user"
    TTL,          \* cfg.RefreshTTL, in ticks
    Retention,    \* cfg.Retention of the cleanup, in ticks
    MaxTime,      \* bound: the clock stops here
    MaxVersion    \* bound: password changes per user, plus one

ASSUME SessionsAssumption ==
    /\ Legacy \subseteq Tokens
    /\ None \notin Users \cup Tokens
    /\ TTL \in Nat \ {0}
    /\ Retention \in Nat
    /\ MaxTime \in Nat
    /\ MaxVersion \in Nat \ {0}

VARIABLES
    row,    \* row[u]: is there a users row with id u
    uver,   \* uver[u]: credentials_version of that row
    tok,    \* tok[t]: the refresh_tokens row with hash t
    now     \* the clock

dbvars == <<row, uver, tok, now>>

-----------------------------------------------------------------------------
(* st is revoked_at and revoked_reason in one: "live" is revoked_at NULL,   *)
(* "legacy" is a row revoked when revoked_reason did not exist yet (NULL).  *)
Revoked == {"rotated", "logout", "password_change", "reuse", "legacy"}

\* Kinds of rows that are in the table.
Stored == {"live"} \cup Revoked

\* ver is history: the credentials_version the session was opened under.
TokenRow == [st : Stored \cup {"unused", "gone"}, own : Users \cup {None},
             fam : Tokens \cup {None}, exp : Int, ver : Nat]

NoRow == [st |-> "unused", own |-> None, fam |-> None, exp |-> 0, ver |-> 0]

\* A row as the INSERT leaves it.
LiveRow(u, f, e, v) == [st |-> "live", own |-> u, fam |-> f, exp |-> e, ver |-> v]

\* revoked_at IS NULL.
Live(t) == tok[t].st = "live"

\* revoked_at IS NULL AND expires_at > clock_timestamp().
Usable(t) == Live(t) /\ tok[t].exp > now

Family(f) == {t \in Tokens : tok[t].fam = f}

\* Rows of the table tok after every row of S got the mark s.
Marked(S, s) == [t \in Tokens |-> IF t \in S THEN [tok[t] EXCEPT !.st = s] ELSE tok[t]]

LiveOf(u) == {t \in Tokens : Live(t) /\ tok[t].own = u}

StoredOf(u) == {t \in Tokens : tok[t].st \in Stored /\ tok[t].own = u}

-----------------------------------------------------------------------------
\* A database that has just been migrated: tokens of Legacy were issued by an
\* earlier version, each is a family of its own (default gen_random_uuid()),
\* and every user has credentials_version 1.
Init ==
    /\ row \in [Users -> {"absent", "present"}]
    /\ uver = [u \in Users |-> 1]
    /\ \E d \in [Legacy -> [st : {"live", "legacy"}, own : {u \in Users : row[u] = "present"},
                            exp : 0 .. TTL]] :
          tok = [t \in Tokens |->
                   IF t \in Legacy
                   THEN [LiveRow(d[t].own, t, d[t].exp, 1) EXCEPT !.st = d[t].st]
                   ELSE NoRow]
    /\ now = 0

\* POST /auth/register reaches the table.
Register(u) ==
    /\ row[u] = "absent"
    /\ row' = [row EXCEPT ![u] = "present"]
    /\ UNCHANGED <<uver, tok, now>>

\* A login opens a session under the current credentials.
Login(u, n, e) ==
    /\ row[u] = "present"
    /\ tok[n].st = "unused"
    /\ tok' = [tok EXCEPT ![n] = LiveRow(u, n, e, uver[u])]
    /\ UNCHANGED <<row, uver, now>>

\* Mutant: the presented token is not revoked.
Rotate_NotSpent(t, n, e) ==
    /\ Live(t)
    /\ tok[n].st = "unused"
    /\ tok' = [tok EXCEPT ![n] = LiveRow(tok[t].own, tok[t].fam, e, tok[t].ver)]
    /\ UNCHANGED <<row, uver, now>>

\* Mutant: "revoked_at IS NULL" is missing from the UPDATE that consumes.
Rotate_AnyToken(t, n, e) ==
    /\ tok[t].st \in Stored
    /\ tok[n].st = "unused"
    /\ tok' = [Marked({t}, "rotated") EXCEPT
                 ![n] = LiveRow(tok[t].own, tok[t].fam, e, tok[t].ver)]
    /\ UNCHANGED <<row, uver, now>>

\* A refresh spends a live token and hands out its successor.
Rotate(t, n, e) ==
    /\ Live(t)
    /\ tok[n].st = "unused"
    /\ tok' = [Marked({t}, "rotated") EXCEPT
                 ![n] = LiveRow(tok[t].own, tok[t].fam, e, tok[t].ver)]
    /\ UNCHANGED <<row, uver, now>>

\* A replayed token ends every session of its owner, if its family was alive
\* when the token was presented: the successor is live, or has expired, been
\* logged out or swept since.  A family that a password change or an earlier
\* reuse ended stays as it is.
Reuse(t) ==
    /\ tok[t].st \in {"rotated", "gone"}
    /\ \E s \in Family(tok[t].fam) \ {t} : tok[s].st \in {"live", "logout", "gone"}
    /\ row[tok[t].own] = "present"
    /\ tok' = Marked(LiveOf(tok[t].own), "reuse")
    /\ UNCHANGED <<row, uver, now>>

Logout(t) ==
    /\ Live(t)
    /\ tok' = Marked({t}, "logout")
    /\ UNCHANGED <<row, uver, now>>

\* Mutant: "revoked_at IS NULL" is missing, earlier reasons are overwritten.
LogoutAll_Overwrites(u) ==
    /\ row[u] = "present"
    /\ tok' = Marked(StoredOf(u), "logout")
    /\ UNCHANGED <<row, uver, now>>

\* Ends every session of u and keeps the credentials.
LogoutAll(u) ==
    /\ row[u] = "present"
    /\ tok' = Marked(LiveOf(u), "logout")
    /\ UNCHANGED <<row, uver, now>>

\* Mutant: the wrong sign.
CredentialsBump_Down == 0 - 1

\* What a new password adds to credentials_version.
CredentialsBump == 1

\* Mutant: the sessions are left alone.
ChangePassword_KeepsSessions(u) ==
    /\ row[u] = "present"
    /\ uver[u] < MaxVersion
    /\ uver' = [uver EXCEPT ![u] = @ + CredentialsBump]
    /\ UNCHANGED <<row, tok, now>>

\* A new password ends every session opened under the old one.
ChangePassword(u) ==
    /\ row[u] = "present"
    /\ uver[u] < MaxVersion
    /\ uver' = [uver EXCEPT ![u] = @ + CredentialsBump]
    /\ tok' = Marked(LiveOf(u), "password_change")
    /\ UNCHANGED <<row, now>>

\* ON DELETE CASCADE removes the tokens of the user.
DeleteUser(u) ==
    /\ row[u] = "present"
    /\ row' = [row EXCEPT ![u] = "deleted"]
    /\ tok' = Marked(StoredOf(u), "gone")
    /\ UNCHANGED <<uver, now>>

\* Mutant: rows are removed as soon as they expire.
Sweep_NoRetention(S) ==
    /\ \A t \in S : tok[t].st \in Stored /\ tok[t].exp < now
    /\ tok' = Marked(S, "gone")
    /\ UNCHANGED <<row, uver, now>>

\* The cleanup removes some rows that expired more than Retention ago.
Sweep(S) ==
    /\ \A t \in S : tok[t].st \in Stored /\ tok[t].exp + Retention < now
    /\ tok' = Marked(S, "gone")
    /\ UNCHANGED <<row, uver, now>>

Tick ==
    /\ now < MaxTime
    /\ now' = now + 1
    /\ UNCHANGED <<row, uver, tok>>

UserStep(u) ==
    \/ Register(u) \/ LogoutAll(u) \/ ChangePassword(u) \/ DeleteUser(u)
    \/ \E n \in Tokens, e \in 0 .. now + TTL : Login(u, n, e)

TokenStep(t) ==
    \/ Reuse(t) \/ Logout(t)
    \/ \E n \in Tokens, e \in 0 .. now + TTL : Rotate(t, n, e)

Next ==
    \/ \E u \in Users : UserStep(u)
    \/ \E t \in Tokens : TokenStep(t)
    \/ \E S \in SUBSET Tokens : Sweep(S)
    \/ Tick

Spec == Init /\ [][Next]_dbvars

-----------------------------------------------------------------------------
TypeOK ==
    /\ row \in [Users -> {"absent", "present", "deleted"}]
    /\ uver \in [Users -> Nat]
    /\ tok \in [Tokens -> TokenRow]
    /\ now \in Nat

\* A chain of rotated tokens has at most one token that is not revoked
\* (Rotate consumes the presented token before it issues the successor).
OneLivePerFamily ==
    \A s, t \in Tokens : Live(s) /\ Live(t) /\ tok[s].fam = tok[t].fam => s = t

\* A session that is not revoked belongs to a user that exists and was opened
\* under the credentials that are current: none survives a password change,
\* none outlives its account (Create's version check, revokeAllOfUser).
LiveSessionIsCurrent ==
    \A t \in Tokens : Live(t) =>
        /\ row[tok[t].own] = "present"
        /\ tok[t].ver = uver[tok[t].own]

\* A family that was ended (logout, password change, reuse, deletion) is never
\* opened again by a later rotation or login.
EndedFamilyStaysEnded ==
    [][\A t \in Tokens :
          (tok[t].fam # None /\ \A s \in Family(tok[t].fam) : ~Live(s))
             => \A s \in Tokens : tok'[s].fam = tok[t].fam => tok'[s].st # "live"]_dbvars

\* The first cause of a revocation is the one that stays on the row: reuse
\* detection reads it (handleUnusable), so nothing may overwrite it.
RevocationReasonIsFinal ==
    [][\A t \in Tokens : tok[t].st \in Revoked => tok'[t].st \in {tok[t].st, "gone"}]_dbvars

\* Only its owner's deletion or a cleanup after expiry and retention removes a
\* row: a replayed token is recognised for as long as the retention promises.
RowsKeptForRetention ==
    [][\A t \in Tokens : tok[t].st \in Stored /\ tok'[t].st = "gone" =>
          row'[tok[t].own] = "deleted" \/ tok[t].exp + Retention < now]_dbvars
=============================================================================
