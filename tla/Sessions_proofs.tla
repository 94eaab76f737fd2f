--------------------------- MODULE Sessions_proofs ---------------------------
(* Proofs about Sessions, for any users, tokens, lifetimes and bounds.      *)
EXTENDS Sessions, TLAPS

\* What Marked does to one row.
LEMMA MarkedRows ==
    ASSUME TypeOK, NEW S \in SUBSET Tokens, NEW s \in Stored \cup {"unused", "gone"}
    PROVE  /\ Marked(S, s) \in [Tokens -> TokenRow]
           /\ \A t \in Tokens :
                 /\ Marked(S, s)[t].own = tok[t].own
                 /\ Marked(S, s)[t].fam = tok[t].fam
                 /\ Marked(S, s)[t].exp = tok[t].exp
                 /\ Marked(S, s)[t].ver = tok[t].ver
                 /\ Marked(S, s)[t].st = IF t \in S THEN s ELSE tok[t].st
  <1>1. \A t \in Tokens : tok[t] \in TokenRow
    BY DEF TypeOK
  <1>2. ASSUME NEW t \in Tokens
        PROVE  /\ [tok[t] EXCEPT !.st = s] \in TokenRow
               /\ [tok[t] EXCEPT !.st = s].own = tok[t].own
               /\ [tok[t] EXCEPT !.st = s].fam = tok[t].fam
               /\ [tok[t] EXCEPT !.st = s].exp = tok[t].exp
               /\ [tok[t] EXCEPT !.st = s].ver = tok[t].ver
               /\ [tok[t] EXCEPT !.st = s].st = s
    BY <1>1 DEF TokenRow
  <1> QED
    BY <1>1, <1>2 DEF Marked

\* A row written by an INSERT is a row.
LEMMA LiveRowType ==
    ASSUME NEW u \in Users, NEW f \in Tokens, NEW e \in Int, NEW v \in Nat
    PROVE  /\ LiveRow(u, f, e, v) \in TokenRow
           /\ LiveRow(u, f, e, v).st = "live"
           /\ LiveRow(u, f, e, v).own = u
           /\ LiveRow(u, f, e, v).fam = f
           /\ LiveRow(u, f, e, v).exp = e
           /\ LiveRow(u, f, e, v).ver = v
  BY DEF LiveRow, TokenRow, Stored

\* The invariant that is inductive: a hash without a row names no family yet,
\* so a login's new family is empty, and every row that exists has an owner.
RowShape ==
    \A t \in Tokens :
        IF tok[t].st = "unused"
        THEN tok[t].fam = None
        ELSE /\ tok[t].own \in Users
             /\ tok[t].fam \in Tokens
             /\ tok[tok[t].fam].st # "unused"

SessionInv == TypeOK /\ RowShape /\ OneLivePerFamily /\ LiveSessionIsCurrent

\* Revoking or deleting rows keeps the invariant, if the rows that stay live
\* keep their owner and the owner's credentials.
LEMMA MarkKeepsInv ==
    ASSUME SessionInv, NEW S \in SUBSET Tokens, NEW s \in Revoked \cup {"gone"},
           \A t \in S : tok[t].st # "unused",
           tok' = Marked(S, s),
           row' \in [Users -> {"absent", "present", "deleted"}],
           uver' \in [Users -> Nat],
           now' \in Nat,
           \A t \in Tokens \ S : Live(t) =>
               row'[tok[t].own] = row[tok[t].own] /\ uver'[tok[t].own] = uver[tok[t].own]
    PROVE  SessionInv'
  <1> USE DEF Revoked, Stored
  <1>1. TypeOK /\ RowShape
    BY DEF SessionInv
  <1>2. /\ tok' \in [Tokens -> TokenRow]
        /\ \A t \in Tokens :
              /\ tok'[t].own = tok[t].own
              /\ tok'[t].fam = tok[t].fam
              /\ tok'[t].ver = tok[t].ver
              /\ tok'[t].st = IF t \in S THEN s ELSE tok[t].st
    BY <1>1, MarkedRows
  <1>3. TypeOK'
    BY <1>2 DEF TypeOK
  <1>4. RowShape'
    BY <1>1, <1>2 DEF RowShape
  <1>5. OneLivePerFamily'
    BY <1>2 DEF SessionInv, OneLivePerFamily, Live
  <1>6. LiveSessionIsCurrent'
    BY <1>2 DEF SessionInv, LiveSessionIsCurrent, Live
  <1> QED
    BY <1>3, <1>4, <1>5, <1>6 DEF SessionInv

\* A login keeps the invariant: its family has no other member.
LEMMA LoginKeepsInv ==
    ASSUME SessionInv, NEW u \in Users, NEW n \in Tokens, NEW e \in Int, Login(u, n, e)
    PROVE  SessionInv'
  <1>1. TypeOK /\ RowShape /\ uver[u] \in Nat
    BY DEF SessionInv, TypeOK
  <1> DEFINE r == LiveRow(u, n, e, uver[u])
  <1>2. r \in TokenRow /\ r.st = "live" /\ r.own = u /\ r.fam = n /\ r.ver = uver[u]
    BY <1>1, LiveRowType
  <1> HIDE DEF r
  <1>3. /\ tok' \in [Tokens -> TokenRow]
        /\ \A t \in Tokens : tok'[t] = IF t = n THEN r ELSE tok[t]
    BY <1>1, <1>2 DEF Login, TypeOK, r
  <1>4. UNCHANGED <<row, uver, now>> /\ row[u] = "present" /\ tok[n].st = "unused"
    BY DEF Login
  <1>5. TypeOK'
    BY <1>1, <1>3, <1>4 DEF TypeOK
  <1>6. RowShape'
    BY <1>1, <1>2, <1>3, <1>4 DEF RowShape
  <1>7. \A t \in Tokens : Live(t) => tok[t].fam # n
    BY <1>1, <1>4 DEF RowShape, Live
  <1>8. OneLivePerFamily'
    BY <1>2, <1>3, <1>7 DEF SessionInv, OneLivePerFamily, Live
  <1>9. LiveSessionIsCurrent'
    BY <1>2, <1>3, <1>4 DEF SessionInv, LiveSessionIsCurrent, Live
  <1> QED
    BY <1>5, <1>6, <1>8, <1>9 DEF SessionInv

\* A rotation keeps the invariant: the successor replaces the spent token.
LEMMA RotateKeepsInv ==
    ASSUME SessionInv, NEW t \in Tokens, NEW n \in Tokens, NEW e \in Int, Rotate(t, n, e)
    PROVE  SessionInv'
  <1>1. TypeOK /\ RowShape /\ Live(t)
    BY DEF SessionInv, Rotate
  <1>2. /\ tok[t] \in TokenRow
        /\ tok[t].own \in Users /\ tok[t].fam \in Tokens /\ tok[t].ver \in Nat
        /\ tok[tok[t].fam].st # "unused"
    BY <1>1 DEF RowShape, Live, TypeOK, TokenRow
  <1> DEFINE r == LiveRow(tok[t].own, tok[t].fam, e, tok[t].ver)
             m == Marked({t}, "rotated")
  <1>3. r \in TokenRow /\ r.st = "live" /\ r.own = tok[t].own /\ r.fam = tok[t].fam /\ r.ver = tok[t].ver
    BY <1>2, LiveRowType
  <1>4. /\ m \in [Tokens -> TokenRow]
        /\ \A x \in Tokens : /\ m[x].own = tok[x].own
                             /\ m[x].fam = tok[x].fam
                             /\ m[x].ver = tok[x].ver
                             /\ m[x].st = IF x = t THEN "rotated" ELSE tok[x].st
    BY <1>1, MarkedRows DEF Stored, Revoked
  <1>5. tok' = [m EXCEPT ![n] = r]
    BY DEF Rotate
  <1> HIDE DEF r, m
  <1>6. /\ tok' \in [Tokens -> TokenRow]
        /\ \A x \in Tokens : tok'[x] = IF x = n THEN r ELSE m[x]
    BY <1>3, <1>4, <1>5
  <1>7. UNCHANGED <<row, uver, now>> /\ tok[n].st = "unused" /\ n # t
    BY DEF Rotate, Live
  <1>8. TypeOK'
    BY <1>1, <1>6, <1>7 DEF TypeOK
  <1>9. RowShape'
    BY <1>1, <1>2, <1>3, <1>4, <1>6, <1>7 DEF RowShape
  <1>10. OneLivePerFamily'
    BY <1>1, <1>3, <1>4, <1>6 DEF SessionInv, OneLivePerFamily, Live
  <1>11. LiveSessionIsCurrent'
    BY <1>1, <1>3, <1>4, <1>6, <1>7 DEF SessionInv, LiveSessionIsCurrent, Live
  <1> QED
    BY <1>8, <1>9, <1>10, <1>11 DEF SessionInv


LEMMA InitInv == Init => SessionInv
  <1> SUFFICES ASSUME Init PROVE SessionInv
    OBVIOUS
  <1> USE SessionsAssumption
  <1> DEFINE D == [st : {"live", "legacy"}, own : {u \in Users : row[u] = "present"}, exp : 0 .. TTL]
  <1>1. PICK d \in [Legacy -> D] :
           tok = [t \in Tokens |->
                    IF t \in Legacy
                    THEN [LiveRow(d[t].own, t, d[t].exp, 1) EXCEPT !.st = d[t].st]
                    ELSE NoRow]
    BY DEF Init
  <1>2. ASSUME NEW t \in Legacy
        PROVE  /\ tok[t] \in TokenRow
               /\ tok[t].st \in {"live", "legacy"}
               /\ tok[t].own \in Users /\ row[tok[t].own] = "present"
               /\ tok[t].fam = t
               /\ tok[t].ver = 1
    <2>1. t \in Tokens /\ d[t] \in D
      OBVIOUS
    <2>2. d[t].own \in Users /\ row[d[t].own] = "present" /\ d[t].exp \in Int /\ d[t].st \in {"live", "legacy"}
      BY <2>1
    <2> DEFINE r == LiveRow(d[t].own, t, d[t].exp, 1)
    <2>3. r = [st |-> "live", own |-> d[t].own, fam |-> t, exp |-> d[t].exp, ver |-> 1]
      BY DEF LiveRow
    <2>4. tok[t] = [r EXCEPT !.st = d[t].st]
      BY <1>1, <2>1
    <2>5. tok[t] = [st |-> d[t].st, own |-> d[t].own, fam |-> t, exp |-> d[t].exp, ver |-> 1]
      BY <2>3, <2>4
    <2> HIDE DEF D, r
    <2> QED
      BY <2>1, <2>2, <2>5 DEF TokenRow, Stored, Revoked
  <1>3. ASSUME NEW t \in Tokens \ Legacy
        PROVE  tok[t] \in TokenRow /\ tok[t].st = "unused" /\ tok[t].fam = None
    <2>1. tok[t] = NoRow
      BY <1>1
    <2> QED
      BY <2>1 DEF NoRow, TokenRow, Stored
  <1>4. tok \in [Tokens -> TokenRow]
    <2>1. \A t \in Tokens : tok[t] \in TokenRow
      BY <1>2, <1>3
    <2>2. tok = [t \in Tokens |-> tok[t]]
      BY <1>1
    <2> QED
      BY <2>1, <2>2
  <1>5. TypeOK
    BY <1>4 DEF TypeOK, Init
  <1>6. RowShape
    BY <1>2, <1>3 DEF RowShape
  <1>7. OneLivePerFamily
    BY <1>2, <1>3 DEF OneLivePerFamily, Live
  <1>8. LiveSessionIsCurrent
    BY <1>2, <1>3 DEF LiveSessionIsCurrent, Live, Init
  <1> QED
    BY <1>5, <1>6, <1>7, <1>8 DEF SessionInv

LEMMA NextInv == SessionInv /\ [Next]_dbvars => SessionInv'
  <1> SUFFICES ASSUME SessionInv, [Next]_dbvars PROVE SessionInv'
    OBVIOUS
  <1>0. TypeOK /\ RowShape /\ LiveSessionIsCurrent
    BY DEF SessionInv
  <1> USE SessionsAssumption
  <1>1. ASSUME NEW u \in Users, Register(u) PROVE SessionInv'
    <2>1. \A t \in Tokens : Live(t) => tok[t].own # u
      BY <1>0, <1>1 DEF Register, LiveSessionIsCurrent
    <2>2. /\ row' \in [Users -> {"absent", "present", "deleted"}]
          /\ \A v \in Users : v # u => row'[v] = row[v]
          /\ UNCHANGED <<uver, tok, now>>
      BY <1>0, <1>1 DEF Register, TypeOK
    <2>3. TypeOK' /\ RowShape' /\ OneLivePerFamily'
      BY <1>0, <2>2 DEF TypeOK, RowShape, SessionInv, OneLivePerFamily, Live
    <2>4. LiveSessionIsCurrent'
      BY <1>0, <2>1, <2>2 DEF LiveSessionIsCurrent, Live, RowShape
    <2> QED
      BY <2>3, <2>4 DEF SessionInv
  <1>2. ASSUME NEW u \in Users, LogoutAll(u) PROVE SessionInv'
    <2>1. /\ tok' = Marked(LiveOf(u), "logout") /\ UNCHANGED <<row, uver, now>>
          /\ LiveOf(u) \in SUBSET Tokens /\ \A t \in LiveOf(u) : tok[t].st # "unused"
      BY <1>2 DEF LogoutAll, LiveOf, Live
    <2> QED
      BY <1>0, <2>1, MarkKeepsInv DEF TypeOK, Revoked
  <1>3. ASSUME NEW u \in Users, ChangePassword(u) PROVE SessionInv'
    <2>1. uver' \in [Users -> Nat] /\ \A v \in Users : v # u => uver'[v] = uver[v]
      BY <1>0, <1>3 DEF ChangePassword, CredentialsBump, TypeOK
    <2>2. \A t \in Tokens \ LiveOf(u) : Live(t) => tok[t].own \in Users /\ tok[t].own # u
      BY <1>0 DEF LiveOf, RowShape, Live
    <2>3. /\ tok' = Marked(LiveOf(u), "password_change") /\ row' = row /\ now' = now
          /\ LiveOf(u) \in SUBSET Tokens /\ \A t \in LiveOf(u) : tok[t].st # "unused"
      BY <1>3 DEF ChangePassword, LiveOf, Live
    <2> QED
      BY <1>0, <2>1, <2>2, <2>3, MarkKeepsInv DEF TypeOK, Revoked
  <1>4. ASSUME NEW u \in Users, DeleteUser(u) PROVE SessionInv'
    <2>1. /\ row' \in [Users -> {"absent", "present", "deleted"}]
          /\ \A v \in Users : v # u => row'[v] = row[v]
      BY <1>0, <1>4 DEF DeleteUser, TypeOK
    <2>2. \A t \in Tokens \ StoredOf(u) : Live(t) => tok[t].own \in Users /\ tok[t].own # u
      BY <1>0 DEF StoredOf, Stored, RowShape, Live
    <2>3. /\ tok' = Marked(StoredOf(u), "gone") /\ uver' = uver /\ now' = now
          /\ StoredOf(u) \in SUBSET Tokens /\ \A t \in StoredOf(u) : tok[t].st # "unused"
      BY <1>4 DEF DeleteUser, StoredOf, Stored, Revoked
    <2> QED
      BY <1>0, <2>1, <2>2, <2>3, MarkKeepsInv DEF TypeOK, Revoked
  <1>5. ASSUME NEW u \in Users, NEW n \in Tokens, NEW e \in 0 .. now + TTL, Login(u, n, e)
        PROVE  SessionInv'
    BY <1>5, LoginKeepsInv
  <1>6. ASSUME NEW t \in Tokens, Reuse(t) PROVE SessionInv'
    <2> DEFINE L == LiveOf(tok[t].own)
    <2>1. /\ tok' = Marked(L, "reuse") /\ UNCHANGED <<row, uver, now>>
          /\ L \in SUBSET Tokens /\ \A x \in L : tok[x].st # "unused"
      BY <1>6 DEF Reuse, LiveOf, Live
    <2> HIDE DEF L
    <2> QED
      BY <1>0, <2>1, MarkKeepsInv DEF TypeOK, Revoked
  <1>7. ASSUME NEW t \in Tokens, Logout(t) PROVE SessionInv'
    BY <1>0, <1>7, MarkKeepsInv DEF Logout, Live, TypeOK, Revoked
  <1>8. ASSUME NEW t \in Tokens, NEW n \in Tokens, NEW e \in 0 .. now + TTL, Rotate(t, n, e)
        PROVE  SessionInv'
    BY <1>8, RotateKeepsInv
  <1>9. ASSUME NEW S \in SUBSET Tokens, Sweep(S) PROVE SessionInv'
    BY <1>0, <1>9, MarkKeepsInv DEF Sweep, Stored, Revoked, TypeOK
  <1>10. CASE Tick
    BY <1>0, <1>10 DEF Tick, SessionInv, TypeOK, RowShape, OneLivePerFamily, LiveSessionIsCurrent, Live
  <1>11. CASE UNCHANGED dbvars
    BY <1>11 DEF dbvars, SessionInv, TypeOK, RowShape, OneLivePerFamily, LiveSessionIsCurrent, Live
  <1> QED
    BY <1>1, <1>2, <1>3, <1>4, <1>5, <1>6, <1>7, <1>8, <1>9, <1>10, <1>11
       DEF Next, UserStep, TokenStep

\* The inductive invariant holds in every state of every behaviour of Spec.
THEOREM SessionInvariant == Spec => []SessionInv
  <1> QED
    BY InitInv, NextInv, PTL DEF Spec

\* Every state has its type.
THEOREM SessionTypes == Spec => []TypeOK
  <1>1. SessionInv => TypeOK
    BY DEF SessionInv
  <1> QED
    BY <1>1, SessionInvariant, PTL

\* A login's chain of tokens never has two that are not revoked, however many
\* users, tokens and operations there are.
THEOREM AtMostOneLive == Spec => []OneLivePerFamily
  <1>1. SessionInv => OneLivePerFamily
    BY DEF SessionInv
  <1> QED
    BY <1>1, SessionInvariant, PTL

\* No session survives a password change or the deletion of its account.
THEOREM SessionsAreCurrent == Spec => []LiveSessionIsCurrent
  <1>1. SessionInv => LiveSessionIsCurrent
    BY DEF SessionInv
  <1> QED
    BY <1>1, SessionInvariant, PTL

-----------------------------------------------------------------------------
(* What one step may do to one row.                                        *)

SameChain(t) == tok'[t].fam = tok[t].fam /\ tok'[t].own = tok[t].own
RowKept(t) == tok'[t].st = tok[t].st /\ SameChain(t)
RowRevoked(t) == tok[t].st = "live" /\ tok'[t].st \in Revoked /\ SameChain(t)
Due(t) == row'[tok[t].own] = "deleted" \/ tok[t].exp + Retention < now
RowRemoved(t) == tok[t].st \in Stored /\ tok'[t].st = "gone" /\ SameChain(t) /\ Due(t)
RowIssued(t) ==
    /\ tok[t].st = "unused" /\ tok'[t].st = "live"
    /\ \/ tok'[t].fam = t
       \/ \E s \in Tokens : /\ Live(s) /\ tok'[s].st = "rotated"
                            /\ tok'[t].fam = tok[s].fam /\ tok'[t].own = tok[s].own

RowStep(t) == RowKept(t) \/ RowRevoked(t) \/ RowRemoved(t) \/ RowIssued(t)

\* Marking changes the state of the marked rows and no row's chain.
LEMMA MarkedFields ==
    ASSUME TypeOK, NEW S \in SUBSET Tokens, NEW s \in Revoked \cup {"gone"},
           tok' = Marked(S, s)
    PROVE  \A t \in Tokens : /\ SameChain(t)
                             /\ tok'[t].st = IF t \in S THEN s ELSE tok[t].st
  <1>1. s \in Stored \cup {"unused", "gone"}
    BY DEF Stored
  <1>2. \A t \in Tokens : /\ Marked(S, s)[t].fam = tok[t].fam
                          /\ Marked(S, s)[t].own = tok[t].own
                          /\ Marked(S, s)[t].st = IF t \in S THEN s ELSE tok[t].st
    BY <1>1, MarkedRows
  <1> QED
    BY <1>2 DEF SameChain

\* An operation that marks rows S with s revokes live rows or removes rows that
\* are due.
LEMMA MarkSteps ==
    ASSUME TypeOK, NEW S \in SUBSET Tokens, NEW s \in Revoked \cup {"gone"},
           tok' = Marked(S, s),
           \A t \in S : tok[t].st \in Stored,
           s = "gone" => \A t \in S : Due(t),
           s # "gone" => \A t \in S : tok[t].st = "live"
    PROVE  \A t \in Tokens : RowStep(t)
  <1>1. TypeOK /\ S \in SUBSET Tokens /\ s \in Revoked \cup {"gone"} /\ tok' = Marked(S, s)
    OBVIOUS
  <1>2. \A t \in Tokens : /\ SameChain(t)
                          /\ tok'[t].st = IF t \in S THEN s ELSE tok[t].st
    BY <1>1, MarkedFields
  <1>3. ASSUME NEW t \in Tokens, t \notin S PROVE RowStep(t)
    BY <1>2, <1>3 DEF RowStep, RowKept
  <1>4. ASSUME NEW t \in S, s # "gone" PROVE RowStep(t)
    BY <1>2, <1>4 DEF RowStep, RowRevoked
  <1>5. ASSUME NEW t \in S, s = "gone" PROVE RowStep(t)
    BY <1>2, <1>5 DEF RowStep, RowRemoved
  <1> QED
    BY <1>3, <1>4, <1>5

\* Every step changes a row in one of the four ways.
LEMMA RowSteps == SessionInv /\ [Next]_dbvars => \A t \in Tokens : RowStep(t)
  <1> SUFFICES ASSUME SessionInv, [Next]_dbvars PROVE \A t \in Tokens : RowStep(t)
    OBVIOUS
  <1>0. TypeOK /\ RowShape
    BY DEF SessionInv
  <1> USE SessionsAssumption
  <1>1. CASE tok' = tok
    BY <1>1 DEF RowStep, RowKept, SameChain
  <1>2. ASSUME NEW u \in Users, LogoutAll(u) PROVE \A t \in Tokens : RowStep(t)
    <2>1. /\ tok' = Marked(LiveOf(u), "logout") /\ LiveOf(u) \in SUBSET Tokens
          /\ \A t \in LiveOf(u) : tok[t].st = "live"
      BY <1>2 DEF LogoutAll, LiveOf, Live
    <2> QED
      BY <1>0, <2>1, MarkSteps DEF Stored, Revoked
  <1>3. ASSUME NEW u \in Users, ChangePassword(u) PROVE \A t \in Tokens : RowStep(t)
    <2>1. /\ tok' = Marked(LiveOf(u), "password_change") /\ LiveOf(u) \in SUBSET Tokens
          /\ \A t \in LiveOf(u) : tok[t].st = "live"
      BY <1>3 DEF ChangePassword, LiveOf, Live
    <2> QED
      BY <1>0, <2>1, MarkSteps DEF Stored, Revoked
  <1>4. ASSUME NEW u \in Users, DeleteUser(u) PROVE \A t \in Tokens : RowStep(t)
    <2>1. /\ tok' = Marked(StoredOf(u), "gone") /\ StoredOf(u) \in SUBSET Tokens
          /\ \A t \in StoredOf(u) : tok[t].st \in Stored /\ tok[t].own = u
      BY <1>4 DEF DeleteUser, StoredOf
    <2>2. row'[u] = "deleted"
      BY <1>0, <1>4 DEF DeleteUser, TypeOK
    <2>3. \A t \in StoredOf(u) : Due(t)
      BY <2>1, <2>2 DEF Due
    <2> QED
      BY <1>0, <2>1, <2>3, MarkSteps
  <1>5. ASSUME NEW u \in Users, NEW n \in Tokens, NEW e \in 0 .. now + TTL, Login(u, n, e)
        PROVE  \A t \in Tokens : RowStep(t)
    <2>1. e \in Int /\ uver[u] \in Nat
      BY <1>0 DEF TypeOK
    <2>2. tok'[n].st = "live" /\ tok'[n].fam = n /\ \A t \in Tokens : t # n => tok'[t] = tok[t]
      BY <1>0, <1>5, <2>1, LiveRowType DEF Login, TypeOK
    <2> QED
      BY <1>5, <2>2 DEF Login, RowStep, RowKept, RowIssued, SameChain
  <1>6. ASSUME NEW t \in Tokens, Reuse(t) PROVE \A x \in Tokens : RowStep(x)
    <2> DEFINE L == LiveOf(tok[t].own)
    <2>1. tok' = Marked(L, "reuse") /\ L \in SUBSET Tokens /\ \A x \in L : tok[x].st = "live"
      BY <1>6 DEF Reuse, LiveOf, Live
    <2> HIDE DEF L
    <2> QED
      BY <1>0, <2>1, MarkSteps DEF Stored, Revoked
  <1>7. ASSUME NEW t \in Tokens, Logout(t) PROVE \A x \in Tokens : RowStep(x)
    BY <1>0, <1>7, MarkSteps DEF Logout, Live, Stored, Revoked
  <1>8. ASSUME NEW t \in Tokens, NEW n \in Tokens, NEW e \in 0 .. now + TTL, Rotate(t, n, e)
        PROVE  \A x \in Tokens : RowStep(x)
    <2> DEFINE m == Marked({t}, "rotated")
               r == LiveRow(tok[t].own, tok[t].fam, e, tok[t].ver)
    <2>1. /\ m \in [Tokens -> TokenRow]
          /\ \A x \in Tokens : /\ m[x].fam = tok[x].fam /\ m[x].own = tok[x].own
                               /\ m[x].st = IF x = t THEN "rotated" ELSE tok[x].st
      BY <1>0, MarkedRows DEF Stored, Revoked
    <2>2. r.st = "live" /\ r.fam = tok[t].fam /\ r.own = tok[t].own
      BY DEF LiveRow
    <2>3. tok' = [m EXCEPT ![n] = r] /\ tok[t].st = "live" /\ tok[n].st = "unused"
      BY <1>8 DEF Rotate, Live
    <2> HIDE DEF m, r
    <2>4. /\ tok'[n].st = "live" /\ tok'[n].fam = tok[t].fam /\ tok'[n].own = tok[t].own
          /\ \A x \in Tokens : x # n => tok'[x] = m[x]
      BY <2>1, <2>2, <2>3
    <2>5. RowStep(n)
      BY <2>1, <2>3, <2>4 DEF RowStep, RowIssued, Live
    <2>6. ASSUME NEW x \in Tokens, x # n PROVE RowStep(x)
      BY <2>1, <2>3, <2>4, <2>6 DEF RowStep, RowKept, RowRevoked, Revoked, SameChain
    <2> QED
      BY <2>5, <2>6
  <1>9. ASSUME NEW S \in SUBSET Tokens, Sweep(S) PROVE \A t \in Tokens : RowStep(t)
    <2>1. tok' = Marked(S, "gone") /\ \A t \in S : tok[t].st \in Stored /\ Due(t)
      BY <1>9 DEF Sweep, Due
    <2> QED
      BY <1>0, <2>1, MarkSteps
  <1>10. ASSUME NEW u \in Users, Register(u) PROVE tok' = tok
    BY <1>10 DEF Register
  <1>11. Tick \/ UNCHANGED dbvars => tok' = tok
    BY DEF Tick, dbvars
  <1> QED
    BY <1>1, <1>2, <1>3, <1>4, <1>5, <1>6, <1>7, <1>8, <1>9, <1>10, <1>11
       DEF Next, UserStep, TokenStep

\* The reason that reuse detection reads is never overwritten.
THEOREM ReasonsAreFinal == Spec => RevocationReasonIsFinal
  <1>1. ASSUME SessionInv, [Next]_dbvars, NEW t \in Tokens, tok[t].st \in Revoked
        PROVE  tok'[t].st \in {tok[t].st, "gone"}
    BY <1>1, RowSteps DEF RowStep, RowKept, RowRevoked, RowRemoved, RowIssued, Revoked
  <1>2. SessionInv /\ [Next]_dbvars =>
          [\A t \in Tokens : tok[t].st \in Revoked => tok'[t].st \in {tok[t].st, "gone"}]_dbvars
    BY <1>1
  <1> QED
    BY <1>2, SessionInvariant, PTL DEF Spec, RevocationReasonIsFinal

\* A row stays until its owner is deleted or its retention is over: replays are
\* recognised for that long.
THEOREM RowsAreKept == Spec => RowsKeptForRetention
  <1>1. ASSUME SessionInv, [Next]_dbvars, NEW t \in Tokens, tok[t].st \in Stored, tok'[t].st = "gone"
        PROVE  row'[tok[t].own] = "deleted" \/ tok[t].exp + Retention < now
    BY <1>1, RowSteps DEF RowStep, RowKept, RowRevoked, RowRemoved, RowIssued, Stored, Revoked, Due
  <1>2. SessionInv /\ [Next]_dbvars =>
          [\A t \in Tokens : tok[t].st \in Stored /\ tok'[t].st = "gone" =>
             row'[tok[t].own] = "deleted" \/ tok[t].exp + Retention < now]_dbvars
    BY <1>1
  <1> QED
    BY <1>2, SessionInvariant, PTL DEF Spec, RowsKeptForRetention

\* A login that was ended by any means never gets a live token again.
THEOREM EndedStaysEnded == Spec => EndedFamilyStaysEnded
  <1>1. ASSUME SessionInv, [Next]_dbvars, NEW t \in Tokens, NEW s \in Tokens,
               tok[t].fam # None, \A x \in Family(tok[t].fam) : ~Live(x),
               tok'[s].fam = tok[t].fam
        PROVE  tok'[s].st # "live"
    <2>1. \A x \in Tokens : Live(x) => tok[x].fam # tok[t].fam
      BY <1>1 DEF Family
    <2>2. tok[t].fam \in Tokens /\ tok[tok[t].fam].st # "unused"
      BY <1>1 DEF SessionInv, RowShape
    <2>3. CASE RowKept(s)
      BY <1>1, <2>1, <2>3 DEF RowKept, SameChain, Live
    <2>4. CASE RowRevoked(s) \/ RowRemoved(s)
      BY <2>4 DEF RowRevoked, RowRemoved, Revoked
    <2>5. CASE RowIssued(s)
      BY <1>1, <2>1, <2>2, <2>5 DEF RowIssued
    <2> QED
      BY <1>1, <2>3, <2>4, <2>5, RowSteps DEF RowStep
  <1>2. SessionInv /\ [Next]_dbvars =>
          [\A t \in Tokens :
             (tok[t].fam # None /\ \A s \in Family(tok[t].fam) : ~Live(s))
                => \A s \in Tokens : tok'[s].fam = tok[t].fam => tok'[s].st # "live"]_dbvars
    BY <1>1
  <1> QED
    BY <1>2, SessionInvariant, PTL DEF Spec, EndedFamilyStaysEnded

-----------------------------------------------------------------------------
(* Families.                                                               *)

\* The tokens of a family have one owner, and a family that was ended by
\* anything but a rotation has no live token.
FamilyInv ==
    \A s, t \in Tokens :
        tok[s].st # "unused" /\ tok[t].st # "unused" /\ tok[s].fam = tok[t].fam =>
            /\ tok[s].own = tok[t].own
            /\ tok[s].st \in Revoked \ {"rotated"} => ~Live(t)

LEMMA InitFamilies == Init => FamilyInv
  <1> SUFFICES ASSUME Init PROVE FamilyInv
    OBVIOUS
  <1>1. \A t \in Tokens : tok[t].st # "unused" => tok[t].fam = t
    BY SessionsAssumption DEF Init, LiveRow, NoRow
  <1> QED
    BY <1>1 DEF FamilyInv, Live, Revoked

\* A successor belongs to the owner of the token it replaces, and only a live
\* token has a successor.
LEMMA NextFamilies == SessionInv /\ FamilyInv /\ [Next]_dbvars => FamilyInv'
  <1> SUFFICES ASSUME SessionInv, FamilyInv, [Next]_dbvars,
                      NEW s \in Tokens, NEW t \in Tokens,
                      tok'[s].st # "unused", tok'[t].st # "unused", tok'[s].fam = tok'[t].fam
               PROVE  /\ tok'[s].own = tok'[t].own
                      /\ tok'[s].st \in Revoked \ {"rotated"} => tok'[t].st # "live"
    BY DEF FamilyInv, Live
  <1> USE DEF Revoked, Live
  <1>1. RowStep(s) /\ RowStep(t)
    BY RowSteps
  <1>2. RowShape /\ OneLivePerFamily
    BY DEF SessionInv
  <1>3. CASE ~RowIssued(s) /\ ~RowIssued(t)
    <2>1. tok[s].st # "unused" /\ tok[t].st # "unused" /\ SameChain(s) /\ SameChain(t)
      BY <1>1, <1>3 DEF RowStep, RowKept, RowRevoked, RowRemoved, Stored
    <2>2. tok'[s].own = tok'[t].own
      BY <2>1 DEF FamilyInv, SameChain
    <2>3. ASSUME tok'[s].st \in Revoked \ {"rotated"}, tok'[t].st = "live" PROVE FALSE
      <3>1. tok[t].st = "live" /\ tok[s].fam = tok[t].fam
        BY <1>1, <1>3, <2>1, <2>3 DEF RowStep, RowKept, RowRevoked, RowRemoved, SameChain
      <3>2. CASE RowKept(s)
        BY <2>1, <2>3, <3>1, <3>2 DEF RowKept, FamilyInv
      <3>3. CASE RowRevoked(s)
        BY <1>2, <2>3, <3>1, <3>3 DEF RowRevoked, OneLivePerFamily
      <3> QED
        BY <1>1, <1>3, <2>3, <3>2, <3>3 DEF RowStep, RowRemoved
    <2> QED
      BY <2>2, <2>3
  <1>4. ASSUME NEW x \in Tokens, NEW y \in Tokens, tok'[y].st # "unused", tok'[x].fam = tok'[y].fam,
               RowIssued(x), ~RowIssued(y)
        PROVE  /\ tok'[x].own = tok'[y].own
               /\ tok'[y].st \notin Revoked \ {"rotated"}
    <2>1. RowStep(y) /\ tok[y].st # "unused" /\ SameChain(y)
      BY <1>4, RowSteps DEF RowStep, RowKept, RowRevoked, RowRemoved, Stored
    <2>2. tok'[x].fam # x
      BY <1>2, <1>4, <2>1 DEF RowShape, RowIssued, SameChain
    <2>3. PICK r \in Tokens : /\ Live(r) /\ tok'[r].st = "rotated"
                              /\ tok'[x].fam = tok[r].fam /\ tok'[x].own = tok[r].own
      BY <1>4, <2>2 DEF RowIssued
    <2>4. tok[r].fam = tok[y].fam /\ tok[r].own = tok[y].own
      BY <1>4, <2>1, <2>3 DEF FamilyInv, SameChain
    <2>5. ASSUME tok'[y].st \in Revoked \ {"rotated"} PROVE FALSE
      <3>1. y # r
        BY <2>3, <2>5
      <3>2. CASE RowKept(y)
        BY <2>1, <2>3, <2>4, <2>5, <3>2 DEF RowKept, FamilyInv
      <3>3. CASE RowRevoked(y)
        BY <1>2, <2>3, <2>4, <3>1, <3>3 DEF RowRevoked, OneLivePerFamily
      <3> QED
        BY <1>4, <2>1, <2>5, <3>2, <3>3 DEF RowStep, RowRemoved
    <2> QED
      BY <2>1, <2>3, <2>4, <2>5 DEF SameChain
  <1>5. CASE RowIssued(s) /\ RowIssued(t)
    <2>1. tok'[s].st = "live" /\ tok'[t].st = "live"
      BY <1>5 DEF RowIssued
    <2>2. SessionInv'
      BY NextInv
    <2>3. s = t
      BY <2>1, <2>2 DEF SessionInv, OneLivePerFamily
    <2> QED
      BY <2>1, <2>3
  <1>6. RowIssued(s) => tok'[s].st \notin Revoked
    BY DEF RowIssued
  <1> QED
    BY <1>3, <1>4, <1>5, <1>6

\* A refresh never moves a session to another user, and nothing but the spending
\* of its own live token (Rotate) extends a login: a family that a logout, a
\* password change, a replay or the old schema ended holds no live token.
THEOREM FamiliesHold == Spec => []FamilyInv
  <1> QED
    BY InitFamilies, NextFamilies, SessionInvariant, PTL DEF Spec
=============================================================================
