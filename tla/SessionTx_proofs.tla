-------------------------- MODULE SessionTx_proofs --------------------------
(***************************************************************************)
(* Proofs about SessionTx, for any users, tokens, request handlers and     *)
(* operations.  The argument: the statements of a transaction rest on      *)
(* facts about the committed tables (Facts) that no other transaction      *)
(* disturbs, because the users row and the changed rows are locked         *)
(* (Apart).  At its commit the facts say that the transaction does what    *)
(* one operation of Sessions does.                                         *)
(***************************************************************************)
EXTENDS SessionTx, Sessions_proofs

-----------------------------------------------------------------------------
(* The inductive invariant.                                                *)

\* The operations of p that lock the users row, while it is locked.
LocksUser(p) == op[p] \in Exclusive \cup {"login"} /\ pc[p] \in Holding

\* A refresh that has spent its token.
Rotating(p) == op[p] = "refresh" /\ (pc[p] = "insert" \/ new[p] # None)

\* A transaction that ends every session of its user.
Ending(p) == op[p] \in {"refresh", "password", "logoutall"} /\ pc[p] = "write" /\ new[p] = None

\* Which statements belong to which operation, and what is written when.
Shape(p) ==
    /\ op[p] = "sweep" => p = Janitor
    /\ pc[p] \in {"verify", "unknown"} => op[p] = "login"
    /\ pc[p] = "lookup" => op[p] = "refresh"
    /\ pc[p] = "revoke" => op[p] = "logout"
    /\ pc[p] = "lock" => op[p] \in Exclusive \cup {"login"}
    /\ pc[p] \in {"consume", "inspect"} => op[p] = "refresh"
    /\ pc[p] \in {"update", "index"} => op[p] = "password"
    /\ pc[p] = "insert" => op[p] \in {"login", "refresh"}
    /\ pc[p] = "scan" => op[p] \in Exclusive \cup {"sweep"}
    /\ pc[p] = "write" => op[p] \in Exclusive \cup {"login", "sweep"}
    /\ pc[p] \in {"verify", "unknown"} \/ pc[p] = "lock" \/ LocksUser(p) => usr[p] \in Users
    /\ op[p] \in {"refresh", "logout"} => pres[p] \in Tokens
    /\ pc[p] # "write" => todo[p] = {} /\ new[p] = None
    /\ pc[p] \notin {"insert", "write"} => wset[p] = {}
    /\ op[p] = "login" => wset[p] = {} /\ todo[p] = {} /\ (pc[p] = "write" => new[p] # None)
    /\ op[p] \notin {"login", "refresh"} => new[p] = None
    /\ Rotating(p) => wset[p] = {pres[p]} /\ todo[p] = {}

\* What may have become of a live token while its user's row is locked.
WasLive == {"live", "logout", "gone"}

\* The family of the presented token was alive when handleUnusable looked.
HadSuccessor(p) ==
    \E s \in Tokens \ {pres[p]} :
        tok[s].fam = tok[pres[p]].fam /\ tok[s].own = usr[p] /\ tok[s].st \in WasLive

\* What p knows of the committed tables.
Facts(p) ==
    /\ op[p] \in {"refresh", "logout"} => tok[pres[p]].st # "unused"
    /\ op[p] = "refresh" /\ pc[p] \in Holding \cup {"lock"} => tok[pres[p]].own = usr[p]
    /\ LocksUser(p) => row[usr[p]] = "present"
    /\ LocksUser(p) /\ op[p] = "login" => uver[usr[p]] = ver[p]
    /\ op[p] = "password" /\ pc[p] \in {"index", "scan", "write"} => uver[usr[p]] < MaxVersion
    /\ Rotating(p) => Live(pres[p])
    /\ pc[p] = "inspect" => ~Usable(pres[p])
    /\ op[p] = "refresh" /\ pc[p] \in {"scan", "write"} /\ new[p] = None
          => tok[pres[p]].st \in {"rotated", "gone"} /\ HadSuccessor(p)
    /\ Ending(p) => wset[p] \subseteq LiveOf(usr[p]) /\ LiveOf(usr[p]) \subseteq wset[p] \cup todo[p]
    /\ op[p] = "delete" /\ pc[p] = "write"
          => wset[p] \subseteq StoredOf(usr[p]) /\ StoredOf(usr[p]) \subseteq wset[p] \cup todo[p]
    /\ op[p] \in Exclusive => \A t \in todo[p] : tok[t].st # "unused" /\ tok[t].own = usr[p]
    /\ op[p] = "sweep" => stamp[p] + Retention <= now
    /\ op[p] = "sweep" => \A t \in wset[p] : tok[t].st \in Stored /\ tok[t].exp < stamp[p]
    /\ op[p] = "refresh" \/ (op[p] = "login" /\ pc[p] \in Holding \cup {"lock"})
          => stamp[p] \in 0 .. now + TTL
    /\ new[p] # None => tok[new[p]].st = "unused"

\* Locks exclude each other, and hashes do not repeat.
Apart(p, q) ==
    /\ LocksUser(p) /\ LocksUser(q) /\ usr[p] = usr[q] => op[p] = "login" /\ op[q] = "login"
    /\ wset[p] \cap wset[q] = {}
    /\ new[p] = new[q] => new[p] = None

TxInv ==
    /\ TxTypeOK
    /\ \A p \in Procs : Shape(p) /\ Facts(p)
    /\ \A p, q \in Procs : p # q => Apart(p, q)

-----------------------------------------------------------------------------
(* Transactions do not disturb each other.                                 *)

\* A step leaves the control of q alone.
SameControl(q) ==
    /\ op'[q] = op[q] /\ pc'[q] = pc[q] /\ usr'[q] = usr[q] /\ pres'[q] = pres[q] /\ ver'[q] = ver[q]
    /\ stamp'[q] = stamp[q] /\ todo'[q] = todo[q] /\ wset'[q] = wset[q] /\ new'[q] = new[q]
    /\ want'[q] = want[q] /\ out'[q] = out[q]

\* What a step may do to a row that was issued, as far as others can tell.
Aged(t) ==
    /\ tok[t].st # "unused" =>
          /\ tok'[t].own = tok[t].own /\ tok'[t].fam = tok[t].fam /\ tok'[t].exp = tok[t].exp
          /\ tok'[t].st # "unused"
          /\ tok'[t].st = "live" => tok[t].st = "live"
          /\ tok'[t].st \in Stored => tok[t].st \in Stored
    /\ tok[t].st \in {"rotated", "gone"} => tok'[t].st \in {"rotated", "gone"}

\* A step keeps what q has locked.
Undisturbed(q) ==
    /\ now <= now'
    /\ \A t \in Tokens : Aged(t)
    /\ \A t \in wset[q] : tok'[t] = tok[t]
    /\ new[q] # None => tok'[new[q]].st = "unused"
    /\ LocksUser(q) => row'[usr[q]] = row[usr[q]] /\ uver'[usr[q]] = uver[usr[q]]
    /\ LocksUser(q) /\ op[q] # "login" =>
          \A t \in Tokens :
              /\ tok[t].st = "unused" /\ tok'[t].own = usr[q] => tok'[t].st = "unused"
              /\ tok[t].st \in WasLive /\ tok[t].own = usr[q] => tok'[t].st \in WasLive

LEMMA StableShape ==
    ASSUME NEW q \in Procs, Shape(q), SameControl(q)
    PROVE  Shape(q)'
  BY DEF Shape, SameControl, LocksUser, Rotating

\* Facts of a transaction survive the steps of others.
LEMMA StableFacts ==
    ASSUME TxTypeOK, TxTypeOK', NEW q \in Procs, Shape(q), Facts(q), SameControl(q), Undisturbed(q)
    PROVE  Facts(q)'
  <1> USE DEF Undisturbed, Aged, SameControl, Holding, Exclusive
  <1>t. /\ wset[q] \subseteq Tokens /\ todo[q] \subseteq Tokens /\ stamp[q] \in Int /\ now \in Nat /\ now' \in Nat
        /\ \A t \in Tokens : tok[t].exp \in Int
    BY DEF TxTypeOK, TypeOK, TokenRow
  <1>1. op[q] \in {"refresh", "logout"} => tok'[pres[q]].st # "unused"
    BY DEF Facts, Shape
  <1>2. op[q] = "refresh" /\ pc[q] \in Holding \cup {"lock"} => tok'[pres[q]].own = usr[q]
    BY DEF Facts, Shape
  <1>3. /\ LocksUser(q) => row'[usr[q]] = "present"
        /\ LocksUser(q) /\ op[q] = "login" => uver'[usr[q]] = ver[q]
        /\ op[q] = "password" /\ pc[q] \in {"index", "scan", "write"} => uver'[usr[q]] < MaxVersion
    BY DEF Facts, LocksUser
  <1>4. Rotating(q) => tok'[pres[q]].st = "live"
    BY DEF Facts, Shape, Live
  <1>5. pc[q] = "inspect" => ~(tok'[pres[q]].st = "live" /\ tok'[pres[q]].exp > now')
    <2>1. SUFFICES ASSUME pc[q] = "inspect"
                   PROVE  ~(tok'[pres[q]].st = "live" /\ tok'[pres[q]].exp > now')
      OBVIOUS
    <2>2. pres[q] \in Tokens /\ tok[pres[q]].st # "unused" /\ ~Usable(pres[q])
      BY <2>1 DEF Facts, Shape
    <2> QED
      BY <1>t, <2>2 DEF Usable, Live
  <1>6. op[q] = "refresh" /\ pc[q] \in {"scan", "write"} /\ new[q] = None
          => /\ tok'[pres[q]].st \in {"rotated", "gone"}
             /\ \E s \in Tokens \ {pres[q]} :
                   tok'[s].fam = tok'[pres[q]].fam /\ tok'[s].own = usr[q] /\ tok'[s].st \in WasLive
    <2> SUFFICES ASSUME op[q] = "refresh", pc[q] \in {"scan", "write"}, new[q] = None
                 PROVE  /\ tok'[pres[q]].st \in {"rotated", "gone"}
                        /\ \E s \in Tokens \ {pres[q]} :
                              tok'[s].fam = tok'[pres[q]].fam /\ tok'[s].own = usr[q] /\ tok'[s].st \in WasLive
      OBVIOUS
    <2>1. tok[pres[q]].st \in {"rotated", "gone"} /\ HadSuccessor(q) /\ LocksUser(q) /\ pres[q] \in Tokens
      BY DEF Facts, Shape, LocksUser
    <2>2. PICK s \in Tokens \ {pres[q]} :
            tok[s].fam = tok[pres[q]].fam /\ tok[s].own = usr[q] /\ tok[s].st \in WasLive
      BY <2>1 DEF HadSuccessor
    <2>3. tok'[s].fam = tok[s].fam /\ tok'[s].own = usr[q] /\ tok'[s].st \in WasLive
      BY <2>1, <2>2 DEF WasLive
    <2> QED
      BY <2>1, <2>2, <2>3
  <1>7. Ending(q) => /\ wset[q] \subseteq {t \in Tokens : tok'[t].st = "live" /\ tok'[t].own = usr[q]}
                     /\ {t \in Tokens : tok'[t].st = "live" /\ tok'[t].own = usr[q]} \subseteq wset[q] \cup todo[q]
    <2> SUFFICES ASSUME Ending(q)
                 PROVE  /\ wset[q] \subseteq {t \in Tokens : tok'[t].st = "live" /\ tok'[t].own = usr[q]}
                        /\ {t \in Tokens : tok'[t].st = "live" /\ tok'[t].own = usr[q]} \subseteq wset[q] \cup todo[q]
      OBVIOUS
    <2>1. LocksUser(q) /\ op[q] # "login"
      BY DEF Ending, LocksUser
    <2>2. wset[q] \subseteq LiveOf(usr[q]) /\ LiveOf(usr[q]) \subseteq wset[q] \cup todo[q]
      BY DEF Facts
    <2> QED
      BY <2>1, <2>2 DEF LiveOf, Live
  <1>8. op[q] = "delete" /\ pc[q] = "write"
          => /\ wset[q] \subseteq {t \in Tokens : tok'[t].st \in Stored /\ tok'[t].own = usr[q]}
             /\ {t \in Tokens : tok'[t].st \in Stored /\ tok'[t].own = usr[q]} \subseteq wset[q] \cup todo[q]
    <2> SUFFICES ASSUME op[q] = "delete", pc[q] = "write"
                 PROVE  /\ wset[q] \subseteq {t \in Tokens : tok'[t].st \in Stored /\ tok'[t].own = usr[q]}
                        /\ {t \in Tokens : tok'[t].st \in Stored /\ tok'[t].own = usr[q]} \subseteq wset[q] \cup todo[q]
      OBVIOUS
    <2>1. LocksUser(q) /\ op[q] # "login"
      BY DEF LocksUser
    <2>2. wset[q] \subseteq StoredOf(usr[q]) /\ StoredOf(usr[q]) \subseteq wset[q] \cup todo[q]
      BY DEF Facts
    <2>3. "unused" \notin Stored
      BY DEF Stored, Revoked
    <2> QED
      BY <2>1, <2>2, <2>3 DEF StoredOf
  <1>9. /\ op[q] = "sweep" => stamp[q] + Retention <= now'
        /\ op[q] = "refresh" \/ (op[q] = "login" /\ pc[q] \in Holding \cup {"lock"}) => stamp[q] \in 0 .. now' + TTL
    BY <1>t, SessionsAssumption DEF Facts
  <1>10. op[q] = "sweep" => \A t \in wset[q] : tok'[t].st \in Stored /\ tok'[t].exp < stamp[q]
    BY DEF Facts
  <1>11. new[q] # None => tok'[new[q]].st = "unused"
    OBVIOUS
  <1>12. op[q] \in Exclusive => \A t \in todo[q] : tok'[t].st # "unused" /\ tok'[t].own = usr[q]
    BY <1>t DEF Facts
  <1> QED
    BY <1>1, <1>2, <1>3, <1>4, <1>5, <1>6, <1>7, <1>8, <1>9, <1>10, <1>11, <1>12
       DEF Facts, HadSuccessor, LocksUser, Rotating, Ending, Live, Usable, LiveOf, StoredOf

\* A step of p keeps the invariant if it does so for p and disturbs nobody.
LEMMA Frame ==
    ASSUME TxInv, TxTypeOK', NEW p \in Procs,
           \A q \in Procs : q # p => SameControl(q) /\ Undisturbed(q),
           Shape(p)', Facts(p)',
           \A q \in Procs : q # p => Apart(p, q)'
    PROVE  TxInv'
  <1>1. \A q \in Procs : Shape(q)'
    BY StableShape DEF TxInv
  <1>2. \A q \in Procs : Facts(q)'
    BY StableFacts DEF TxInv
  <1>3. ASSUME NEW q \in Procs, NEW r \in Procs, q # r PROVE Apart(q, r)'
    <2>1. CASE q = p
      BY <1>3, <2>1
    <2>2. CASE r = p
      <3>1. Apart(r, q)'
        BY <1>3, <2>2
      <3> QED
        BY <3>1 DEF Apart
    <2>3. CASE q # p /\ r # p
      BY <1>3, <2>3 DEF TxInv, Apart, SameControl, LocksUser
    <2> QED
      BY <2>1, <2>2, <2>3
  <1> QED
    BY <1>1, <1>2, <1>3 DEF TxInv

\* A step that leaves the tables alone disturbs nobody.
LEMMA Quiet ==
    ASSUME UNCHANGED dbvars, TxTypeOK, NEW q \in Procs, Facts(q)
    PROVE  Undisturbed(q)
  BY DEF dbvars, Undisturbed, Aged, TxTypeOK, TypeOK, Facts

-----------------------------------------------------------------------------
(* Steps of one transaction that leave the tables alone.                   *)

\* A step by p that writes no table keeps the invariant if it does so for p.
LEMMA LocalFrame ==
    ASSUME TxInv, UNCHANGED dbvars, TxTypeOK', NEW p \in Procs,
           \A q \in Procs : q # p => SameControl(q),
           Shape(p)', Facts(p)',
           \A q \in Procs : q # p => Apart(p, q)'
    PROVE  TxInv'
  <1>1. \A q \in Procs : Undisturbed(q)
    BY Quiet DEF TxInv
  <1> QED
    BY <1>1, Frame

\* What p gives up or leaves alone cannot collide with another transaction.
LEMMA StaysApart ==
    ASSUME NEW p \in Procs, NEW q \in Procs, p # q, Apart(p, q), SameControl(q),
           wset'[p] \subseteq wset[p],
           new'[p] \in {new[p], None},
           LocksUser(p)' => LocksUser(p) /\ usr'[p] = usr[p] /\ op'[p] = op[p]
    PROVE  Apart(p, q)'
  BY DEF Apart, SameControl, LocksUser

\* The end of a transaction, with or without effect on the tables: p holds
\* nothing afterwards.
LEMMA AnswerControl ==
    ASSUME TxInv, NEW p \in Procs, NEW o \in Answers, Answer(p, o)
    PROVE  /\ \A q \in Procs : q # p => SameControl(q)
           /\ TypeOK' => TxTypeOK'
           /\ Shape(p)'
           /\ \A q \in Procs : q # p => Apart(p, q)'
           /\ pc'[p] = "done" /\ todo'[p] = {} /\ wset'[p] = {} /\ new'[p] = None /\ out'[p] = o
           /\ UNCHANGED <<op, usr, pres, ver, stamp>>
  <1>t. TxTypeOK
    BY DEF TxInv
  <1>1. /\ pc'[p] = "done" /\ todo'[p] = {} /\ wset'[p] = {} /\ new'[p] = None /\ out'[p] = o
        /\ UNCHANGED <<op, usr, pres, ver, stamp>>
    BY <1>t DEF Answer, Goto, TxTypeOK
  <1>2. \A q \in Procs : q # p => SameControl(q)
    BY <1>t DEF Answer, Goto, TxTypeOK, SameControl
  <1>3. TypeOK' => TxTypeOK'
    BY <1>t DEF Answer, Goto, TxTypeOK, Holding
  <1>4. Shape(p)'
    BY <1>1 DEF TxInv, Shape, LocksUser, Rotating, Holding
  <1>5. ASSUME NEW q \in Procs, q # p PROVE Apart(p, q)'
    <2>1. Apart(p, q)
      BY <1>5 DEF TxInv
    <2> QED
      BY <1>1, <1>2, <1>5, <2>1, StaysApart DEF LocksUser, Holding
  <1> QED
    BY <1>1, <1>2, <1>3, <1>4, <1>5

\* A rollback, or an answer before anything was written.
LEMMA AnswerKeepsInv ==
    ASSUME TxInv, NEW p \in Procs, NEW o \in Answers, Answer(p, o), UNCHANGED dbvars
    PROVE  TxInv'
  <1>1. TxTypeOK' /\ Shape(p)'
    BY AnswerControl DEF TxInv, TxTypeOK, TypeOK, dbvars
  <1>2. Facts(p)'
    <2>1. /\ pc'[p] = "done" /\ todo'[p] = {} /\ wset'[p] = {} /\ new'[p] = None /\ UNCHANGED <<op, usr, pres, ver, stamp>>
      BY AnswerControl
    <2> QED
      BY <2>1 DEF TxInv, Facts, LocksUser, Rotating, Ending, Holding, dbvars
  <1> QED
    BY <1>1, <1>2, AnswerControl, LocalFrame

\* A statement that only moves p on and locks nothing new.
LEMMA StepKeepsInv ==
    ASSUME TxInv, NEW p \in Procs, UNCHANGED dbvars, TxTypeOK',
           \A q \in Procs : q # p => SameControl(q),
           Shape(p)', Facts(p)',
           wset'[p] \subseteq wset[p],
           new'[p] \in {new[p], None},
           LocksUser(p)' => LocksUser(p) /\ usr'[p] = usr[p] /\ op'[p] = op[p]
    PROVE  TxInv'
  <1>1. \A q \in Procs : q # p => Apart(p, q)
    BY DEF TxInv
  <1>2. \A q \in Procs : q # p => Apart(p, q)'
    BY <1>1, StaysApart
  <1> QED
    BY <1>2, LocalFrame

LEMMA StartKeepsInv ==
    ASSUME TxInv, NEW p \in Procs, NEW o \in AllOps \cup {"sweep"},
           NEW l \in {"verify", "unknown", "lookup", "lock", "revoke", "scan"},
           NEW u \in Users \cup {None}, NEW t \in Tokens \cup {None}, NEW v \in Nat, NEW s \in Int,
           Start(p, o, l, u, t, v, s),
           o = "sweep" => p = Janitor,
           l \in {"verify", "unknown"} <=> o = "login",
           l = "lookup" <=> o = "refresh",
           l = "revoke" <=> o = "logout",
           l = "scan" <=> o = "sweep",
           l \in {"verify", "unknown", "lock"} => u \in Users,
           o \in {"refresh", "logout"} => t \in Tokens /\ tok[t].st # "unused",
           o = "sweep" => s + Retention <= now,
           o = "refresh" => s \in 0 .. now + TTL
    PROVE  TxInv'
  <1>t. TxTypeOK /\ Shape(p) /\ pc[p] = "idle" /\ UNCHANGED dbvars
    BY DEF TxInv, Start
  <1>1. /\ op'[p] = o /\ pc'[p] = l /\ usr'[p] = u /\ pres'[p] = t /\ ver'[p] = v /\ stamp'[p] = s
        /\ todo'[p] = {} /\ wset'[p] = {} /\ new'[p] = None /\ out'[p] = out[p]
    BY <1>t DEF Start, Goto, TxTypeOK, Shape
  <1>2. \A q \in Procs : q # p => SameControl(q)
    BY <1>t DEF Start, Goto, TxTypeOK, SameControl
  <1>3. TxTypeOK'
    BY <1>t DEF Start, Goto, TxTypeOK, TypeOK, Holding, dbvars
  <1>4. o = "sweep" \/ l # "scan"
    OBVIOUS
  <1>5. ~LocksUser(p)'
    BY <1>1 DEF LocksUser, Holding, Exclusive
  <1>6. Shape(p)'
    BY <1>1, <1>5 DEF Shape, Rotating, AllOps, Exclusive
  <1>7. Facts(p)'
    BY <1>1, <1>5, <1>t DEF Facts, Rotating, Ending, Holding, Exclusive, dbvars
  <1> QED
    BY <1>t, <1>1, <1>2, <1>3, <1>5, <1>6, <1>7, StepKeepsInv

LEMMA BeginKeepsInv ==
    ASSUME TxInv, SessionInv, NEW p \in Requests, Begin(p)
    PROVE  TxInv'
  <1>t. /\ TxTypeOK /\ TypeOK /\ p \in Procs /\ now \in Nat /\ 0 \in Nat /\ 0 \in Int /\ now + TTL \in Int
        /\ now + TTL \in 0 .. now + TTL
    BY SessionsAssumption DEF TxInv, TxTypeOK, TypeOK, Procs
  <1>1. CASE StartLogin(p)
    <2>1. PICK u \in Users : Start(p, "login", IF row[u] = "present" THEN "verify" ELSE "unknown", u, None, uver[u], 0)
      BY <1>1 DEF StartLogin
    <2>2. uver[u] \in Nat
      BY <1>t DEF TypeOK
    <2> QED
      BY <1>t, <2>1, <2>2, StartKeepsInv DEF AllOps
  <1>2. CASE StartRefresh(p)
    BY <1>t, <1>2, StartKeepsInv DEF StartRefresh, AllOps
  <1>3. CASE StartLogout(p)
    BY <1>t, <1>3, StartKeepsInv DEF StartLogout, AllOps
  <1>4. CASE StartUserOp(p)
    BY <1>t, <1>4, StartKeepsInv DEF StartUserOp, AllOps
  <1> QED
    BY <1>1, <1>2, <1>3, <1>4 DEF Begin

LEMMA SweepKeepsInv == TxInv /\ SessionInv /\ StartSweep => TxInv'
  <1> SUFFICES ASSUME TxInv, SessionInv, StartSweep PROVE TxInv'
    OBVIOUS
  <1>t. now \in Nat /\ Janitor \in Procs /\ 0 \in Nat
    BY DEF TxInv, TxTypeOK, TypeOK, Procs
  <1>1. Cutoff \in Int /\ Cutoff + Retention <= now
    BY <1>t, SessionsAssumption DEF Cutoff
  <1>2. Start(Janitor, "sweep", "scan", None, None, 0, Cutoff)
    BY DEF StartSweep
  <1> QED
    BY <1>t, <1>1, <1>2, StartKeepsInv DEF AllOps

LEMMA ReturnKeepsInv ==
    ASSUME TxInv, NEW p \in Procs, Return(p)
    PROVE  TxInv'
  <1>t. TxTypeOK /\ Shape(p) /\ pc[p] = "done" /\ UNCHANGED dbvars
    BY DEF TxInv, Return
  <1>1. /\ op'[p] = "none" /\ pc'[p] = "idle" /\ todo'[p] = {} /\ wset'[p] = {} /\ new'[p] = None
        /\ wset'[p] = wset[p] /\ new'[p] = new[p]
    BY <1>t DEF Return, Goto, TxTypeOK, Shape
  <1>2. \A q \in Procs : q # p => SameControl(q)
    BY <1>t DEF Return, Goto, TxTypeOK, SameControl
  <1>3. TxTypeOK'
    BY <1>t DEF Return, Goto, TxTypeOK, TypeOK, dbvars, Answers
  <1>4. ~LocksUser(p)'
    BY <1>1 DEF LocksUser, Holding
  <1>5. Shape(p)' /\ Facts(p)'
    BY <1>1, <1>4 DEF Shape, Facts, Rotating, Ending, Exclusive, Holding
  <1> QED
    BY <1>t, <1>1, <1>2, <1>3, <1>4, <1>5, StepKeepsInv

\* What Continue does to the control.
LEMMA ContinueControl ==
    ASSUME TxInv, NEW p \in Procs, NEW l \in Holding, Continue(p, l), UNCHANGED dbvars
    PROVE  /\ pc'[p] = l /\ UNCHANGED <<op, usr, pres, ver, stamp, todo, wset, new, want, out>>
           /\ \A q \in Procs : q # p => SameControl(q)
           /\ TxTypeOK'
  BY DEF TxInv, TxTypeOK, TypeOK, Continue, Goto, SameControl, dbvars

LEMMA VerifyKeepsInv ==
    ASSUME TxInv, NEW p \in Procs, Verify(p)
    PROVE  TxInv'
  <1>t. TxTypeOK /\ Shape(p) /\ Facts(p) /\ UNCHANGED dbvars /\ now \in Nat
    BY DEF TxInv, Verify, TxTypeOK, TypeOK
  <1>1. CASE Answer(p, "refused")
    BY <1>t, <1>1, AnswerKeepsInv DEF Answers
  <1>2. CASE ~Answer(p, "refused")
    <2>1. /\ pc[p] = "verify" /\ Goto(p, "lock")
          /\ stamp' = [stamp EXCEPT ![p] = now + TTL]
          /\ UNCHANGED <<op, usr, pres, ver, todo, wset, new, want, out>>
      BY <1>2 DEF Verify
    <2>2. pc'[p] = "lock" /\ stamp'[p] = now + TTL /\ op[p] = "login" /\ usr[p] \in Users
      BY <1>t, <2>1 DEF Goto, TxTypeOK, Shape
    <2>3. \A q \in Procs : q # p => SameControl(q)
      BY <1>t, <2>1 DEF Goto, TxTypeOK, SameControl
    <2>4. TxTypeOK'
      BY <1>t, <2>1, SessionsAssumption DEF Goto, TxTypeOK, TypeOK, dbvars
    <2>5. ~LocksUser(p)'
      BY <2>2 DEF LocksUser, Holding
    <2>6. Shape(p)'
      BY <1>t, <2>1, <2>2, <2>5 DEF Shape, Rotating
    <2>7. Facts(p)'
      BY <1>t, <2>1, <2>2, <2>5, SessionsAssumption DEF Facts, Shape, Rotating, Ending, dbvars
    <2> QED
      BY <1>t, <2>1, <2>3, <2>4, <2>5, <2>6, <2>7, StepKeepsInv
  <1> QED
    BY <1>1, <1>2

LEMMA LookupKeepsInv ==
    ASSUME TxInv, SessionInv, NEW p \in Procs, Lookup(p)
    PROVE  TxInv'
  <1>t. TxTypeOK /\ Shape(p) /\ Facts(p) /\ UNCHANGED dbvars /\ pc[p] = "lookup" /\ RowShape
    BY DEF TxInv, Lookup, SessionInv
  <1>1. CASE tok[pres[p]].st \notin Stored
    BY <1>t, <1>1, AnswerKeepsInv DEF Lookup, Answers
  <1>2. CASE tok[pres[p]].st \in Stored
    <2>1. /\ Goto(p, "lock")
          /\ usr' = [usr EXCEPT ![p] = tok[pres[p]].own]
          /\ UNCHANGED <<op, pres, ver, stamp, todo, wset, new, want, out>>
      BY <1>2 DEF Lookup
    <2>2. op[p] = "refresh" /\ pres[p] \in Tokens
      BY <1>t DEF Shape
    <2>3. tok[pres[p]].own \in Users
      BY <1>t, <1>2, <2>2 DEF RowShape, Stored, Revoked
    <2>4. pc'[p] = "lock" /\ usr'[p] = tok[pres[p]].own
      BY <1>t, <2>1 DEF Goto, TxTypeOK
    <2>5. \A q \in Procs : q # p => SameControl(q)
      BY <1>t, <2>1 DEF Goto, TxTypeOK, SameControl
    <2>6. TxTypeOK'
      BY <1>t, <2>1, <2>3 DEF Goto, TxTypeOK, TypeOK, dbvars
    <2>7. ~LocksUser(p)'
      BY <2>4 DEF LocksUser, Holding
    <2>8. Shape(p)'
      BY <1>t, <2>1, <2>2, <2>3, <2>4, <2>7 DEF Shape, Rotating, Exclusive
    <2>9. Facts(p)'
      BY <1>t, <2>1, <2>2, <2>4, <2>7 DEF Facts, Shape, Rotating, Ending, dbvars
    <2> QED
      BY <1>t, <2>1, <2>5, <2>6, <2>7, <2>8, <2>9, StepKeepsInv
  <1> QED
    BY <1>1, <1>2

\* FOR SHARE: other logins may hold the row, nobody else.
LEMMA LockShareKeepsInv ==
    ASSUME TxInv, NEW p \in Procs, LockShare(p)
    PROVE  TxInv'
  <1>t. TxTypeOK /\ Shape(p) /\ Facts(p) /\ UNCHANGED dbvars /\ pc[p] = "lock" /\ op[p] = "login"
    BY DEF TxInv, LockShare
  <1>1. CASE Answer(p, "notfound") \/ Answer(p, "conflict")
    BY <1>t, <1>1, AnswerKeepsInv DEF Answers
  <1>2. CASE row[usr[p]] = "present" /\ uver[usr[p]] = ver[p] /\ Continue(p, "insert")
    <2>1. /\ pc'[p] = "insert" /\ UNCHANGED <<op, usr, pres, ver, stamp, todo, wset, new, want, out>>
          /\ \A q \in Procs : q # p => SameControl(q)
          /\ TxTypeOK'
      BY <1>t, <1>2, ContinueControl DEF Holding
    <2>2. Shape(p)'
      BY <1>t, <2>1 DEF Shape, Rotating, LocksUser, Holding, Exclusive
    <2>3. Facts(p)'
      BY <1>t, <1>2, <2>1 DEF Facts, Shape, Rotating, Ending, LocksUser, Holding, dbvars
    <2>4. ASSUME NEW q \in Procs, q # p PROVE Apart(p, q)'
      <3>1. SameControl(q) /\ Apart(p, q)
        BY <2>1, <2>4 DEF TxInv
      <3>2. ~HoldsX(q, usr[p])
        BY <2>4 DEF LockShare, CanShare
      <3> QED
        BY <1>t, <2>1, <3>1, <3>2 DEF Apart, SameControl, LocksUser, HoldsX
    <2> QED
      BY <1>t, <2>1, <2>2, <2>3, <2>4, LocalFrame
  <1> QED
    BY <1>1, <1>2 DEF LockShare, SameCredentials

\* FOR UPDATE: nobody else holds the row.
LEMMA LockUserKeepsInv ==
    ASSUME TxInv, NEW p \in Procs, LockUser(p)
    PROVE  TxInv'
  <1>t. TxTypeOK /\ Shape(p) /\ Facts(p) /\ UNCHANGED dbvars /\ pc[p] = "lock" /\ op[p] \in Exclusive
    BY DEF TxInv, LockUser
  <1>1. CASE row[usr[p]] # "present"
    BY <1>t, <1>1, AnswerKeepsInv DEF LockUser, Answers
  <1>2. CASE row[usr[p]] = "present"
    <2>1. PICK l \in Holding :
            /\ Continue(p, l)
            /\ \/ l = "consume" /\ op[p] = "refresh"
               \/ l = "update" /\ op[p] = "password"
               \/ l = "scan" /\ op[p] \in {"logoutall", "delete"}
      <3> DEFINE l == CASE op[p] = "refresh" -> "consume" [] op[p] = "password" -> "update" [] OTHER -> "scan"
      <3>1. Continue(p, l)
        BY <1>2 DEF LockUser
      <3>2. /\ l \in Holding
            /\ \/ l = "consume" /\ op[p] = "refresh"
               \/ l = "update" /\ op[p] = "password"
               \/ l = "scan" /\ op[p] \in {"logoutall", "delete"}
        BY <1>t DEF Exclusive, Holding
      <3> HIDE DEF l
      <3> QED
        BY <3>1, <3>2
    <2>2. /\ pc'[p] = l /\ UNCHANGED <<op, usr, pres, ver, stamp, todo, wset, new, want, out>>
          /\ \A q \in Procs : q # p => SameControl(q)
          /\ TxTypeOK'
      BY <1>t, <2>1, ContinueControl
    <2>3. Shape(p)'
      BY <1>t, <2>1, <2>2 DEF Shape, Rotating, LocksUser, Holding, Exclusive
    <2>4. Facts(p)'
      BY <1>t, <1>2, <2>1, <2>2 DEF Facts, Shape, Rotating, Ending, LocksUser, Holding, Exclusive, dbvars
    <2>5. ASSUME NEW q \in Procs, q # p PROVE Apart(p, q)'
      <3>1. SameControl(q) /\ Apart(p, q)
        BY <2>2, <2>5 DEF TxInv
      <3>2. ~HoldsX(q, usr[p]) /\ ~HoldsS(q, usr[p])
        BY <2>5 DEF LockUser, CanLock
      <3>3. ~(LocksUser(q) /\ usr[q] = usr[p])
        BY <3>2 DEF LocksUser, HoldsX, HoldsS
      <3> QED
        BY <1>t, <2>2, <3>1, <3>3 DEF Apart, SameControl, LocksUser
    <2> QED
      BY <1>t, <2>2, <2>3, <2>4, <2>5, LocalFrame
  <1> QED
    BY <1>1, <1>2

LEMMA UpdateUserKeepsInv ==
    ASSUME TxInv, NEW p \in Procs, UpdateUser(p)
    PROVE  TxInv'
  <1>t. TxTypeOK /\ Shape(p) /\ Facts(p) /\ UNCHANGED dbvars /\ pc[p] = "update" /\ op[p] = "password"
    BY DEF TxInv, UpdateUser, Shape
  <1>1. CASE Answer(p, "failed")
    BY <1>t, <1>1, AnswerKeepsInv DEF Answers
  <1>2. CASE ~Answer(p, "failed")
    <2>1. PICK w \in (Users \ {usr[p]}) \cup {None} : want' = [want EXCEPT ![p] = w]
      BY <1>2 DEF UpdateUser
    <2>2. /\ uver[usr[p]] < MaxVersion /\ Goto(p, "index")
          /\ UNCHANGED <<op, usr, pres, ver, stamp, todo, wset, new, out>>
      BY <1>2 DEF UpdateUser
    <2>3. pc'[p] = "index"
      BY <1>t, <2>2 DEF Goto, TxTypeOK
    <2>4. \A q \in Procs : q # p => SameControl(q)
      BY <1>t, <2>1, <2>2 DEF Goto, TxTypeOK, SameControl
    <2>5. TxTypeOK'
      BY <1>t, <2>1, <2>2 DEF Goto, TxTypeOK, TypeOK, Holding, dbvars
    <2>6. LocksUser(p)
      BY <1>t DEF LocksUser, Holding, Exclusive
    <2>7. Shape(p)'
      BY <1>t, <2>2, <2>3 DEF Shape, Rotating, LocksUser, Holding, Exclusive
    <2>8. Facts(p)'
      BY <1>t, <2>2, <2>3 DEF Facts, Shape, Rotating, Ending, LocksUser, Holding, Exclusive, dbvars
    <2> QED
      BY <1>t, <2>2, <2>4, <2>5, <2>6, <2>7, <2>8, StepKeepsInv
  <1> QED
    BY <1>1, <1>2

LEMMA IndexKeepsInv ==
    ASSUME TxInv, NEW p \in Procs, Index(p)
    PROVE  TxInv'
  <1>t. TxTypeOK /\ Shape(p) /\ Facts(p) /\ UNCHANGED dbvars /\ pc[p] = "index" /\ op[p] = "password"
    BY DEF TxInv, Index, Shape
  <1>1. CASE Answer(p, "conflict")
    BY <1>t, <1>1, AnswerKeepsInv DEF Answers
  <1>2. CASE Continue(p, "scan")
    <2>1. /\ pc'[p] = "scan" /\ UNCHANGED <<op, usr, pres, ver, stamp, todo, wset, new, want, out>>
          /\ \A q \in Procs : q # p => SameControl(q)
          /\ TxTypeOK'
      BY <1>t, <1>2, ContinueControl DEF Holding
    <2>2. LocksUser(p)
      BY <1>t DEF LocksUser, Holding, Exclusive
    <2>3. Shape(p)'
      BY <1>t, <2>1 DEF Shape, Rotating, LocksUser, Holding, Exclusive
    <2>4. Facts(p)'
      BY <1>t, <2>1 DEF Facts, Shape, Rotating, Ending, LocksUser, Holding, Exclusive, dbvars
    <2> QED
      BY <1>t, <2>1, <2>2, <2>3, <2>4, StepKeepsInv
  <1> QED
    BY <1>1, <1>2 DEF Index

\* The presented token is locked and live from here to the commit.
LEMMA ConsumeKeepsInv ==
    ASSUME TxInv, NEW p \in Procs, Consume(p)
    PROVE  TxInv'
  <1>t. /\ TxTypeOK /\ Shape(p) /\ Facts(p) /\ UNCHANGED dbvars
        /\ pc[p] = "consume" /\ op[p] = "refresh" /\ pres[p] \in Tokens /\ LocksUser(p)
    BY DEF TxInv, Consume, Shape, LocksUser, Holding, Exclusive
  <1>1. CASE Usable(pres[p])
    <2>1. /\ Goto(p, "insert")
          /\ wset' = [wset EXCEPT ![p] = {pres[p]}]
          /\ UNCHANGED <<op, usr, pres, ver, stamp, todo, new, want, out>>
          /\ Free(p, pres[p])
      BY <1>1 DEF Consume, Consumable
    <2>2. pc'[p] = "insert" /\ wset'[p] = {pres[p]}
      BY <1>t, <2>1 DEF Goto, TxTypeOK
    <2>3. \A q \in Procs : q # p => SameControl(q)
      BY <1>t, <2>1 DEF Goto, TxTypeOK, SameControl
    <2>4. TxTypeOK'
      BY <1>t, <2>1 DEF Goto, TxTypeOK, TypeOK, Holding, dbvars
    <2>5. Shape(p)'
      BY <1>t, <2>1, <2>2 DEF Shape, Rotating, LocksUser, Holding, Exclusive
    <2>6. Facts(p)'
      BY <1>t, <1>1, <2>1, <2>2 DEF Facts, Shape, Rotating, Ending, LocksUser, Holding, Exclusive, dbvars, Usable, Live
    <2>7. ASSUME NEW q \in Procs, q # p PROVE Apart(p, q)'
      <3>1. SameControl(q) /\ Apart(p, q) /\ pres[p] \notin wset[q]
        BY <2>1, <2>3, <2>7 DEF TxInv, Free
      <3>2. LocksUser(p)' => LocksUser(p) /\ usr'[p] = usr[p] /\ op'[p] = op[p]
        BY <1>t, <2>1
      <3> QED
        BY <2>1, <2>2, <3>1, <3>2 DEF Apart, SameControl, LocksUser
    <2> QED
      BY <1>t, <2>3, <2>4, <2>5, <2>6, <2>7, LocalFrame
  <1>2. CASE ~Usable(pres[p])
    <2>1. Continue(p, "inspect")
      BY <1>2 DEF Consume, Consumable
    <2>2. /\ pc'[p] = "inspect" /\ UNCHANGED <<op, usr, pres, ver, stamp, todo, wset, new, want, out>>
          /\ \A q \in Procs : q # p => SameControl(q)
          /\ TxTypeOK'
      BY <1>t, <2>1, ContinueControl DEF Holding
    <2>3. Shape(p)'
      BY <1>t, <2>2 DEF Shape, Rotating, LocksUser, Holding, Exclusive
    <2>4. Facts(p)'
      BY <1>t, <1>2, <2>2 DEF Facts, Shape, Rotating, Ending, LocksUser, Holding, Exclusive, dbvars, Usable, Live
    <2> QED
      BY <1>t, <2>2, <2>3, <2>4, StepKeepsInv
  <1> QED
    BY <1>1, <1>2

\* The verdict is one of the answers of handleUnusable.
LEMMA VerdictType ==
    ASSUME TypeOK, NEW t \in Tokens
    PROVE  /\ Verdict(t) \in {"notfound", "expired", "notusable", "revoked", "reuse"}
           /\ Verdict(t) = "reuse" => tok[t].st = "rotated" /\ FamilyLive(t)
           /\ Verdict(t) = "notusable" => Usable(t)
  <1>1. tok[t].exp \in Int /\ now \in Int
    BY DEF TypeOK, TokenRow
  <1>2. CASE tok[t].st \notin Stored
    BY <1>2 DEF Verdict, Stored, Revoked, Live
  <1>3. CASE tok[t].st = "live"
    BY <1>1, <1>3 DEF Verdict, Stored, Revoked, Live, Usable
  <1>4. CASE tok[t].st \in Revoked
    BY <1>4 DEF Verdict, Stored, Revoked, Live
  <1> QED
    BY <1>2, <1>3, <1>4 DEF Stored

LEMMA InspectKeepsInv ==
    ASSUME TxInv, FamilyInv, NEW p \in Procs, Inspect(p)
    PROVE  TxInv'
  <1>t. /\ TxTypeOK /\ TypeOK /\ Shape(p) /\ Facts(p) /\ UNCHANGED dbvars
        /\ pc[p] = "inspect" /\ op[p] = "refresh" /\ pres[p] \in Tokens /\ LocksUser(p)
    BY DEF TxInv, TxTypeOK, Inspect, Shape, LocksUser, Holding, Exclusive
  <1>1. CASE Verdict(pres[p]) # "reuse"
    <2>1. Verdict(pres[p]) \in Answers
      BY <1>t, VerdictType DEF Answers
    <2> QED
      BY <1>t, <1>1, <2>1, AnswerKeepsInv DEF Inspect
  <1>2. CASE Verdict(pres[p]) = "reuse"
    <2>1. Continue(p, "scan") /\ tok[pres[p]].st = "rotated"
      BY <1>t, <1>2, VerdictType DEF Inspect
    <2>a. HadSuccessor(p)
      <3>1. PICK s \in Tokens : tok[s].fam = tok[pres[p]].fam /\ Usable(s)
        BY <1>t, <1>2, VerdictType DEF FamilyLive, Family
      <3>2. tok[s].st = "live" /\ s # pres[p] /\ tok[pres[p]].own = usr[p]
        BY <1>t, <2>1, <3>1 DEF Usable, Live, Facts, Holding
      <3>3. tok[s].own = tok[pres[p]].own
        BY <1>t, <2>1, <3>1, <3>2 DEF FamilyInv
      <3> QED
        BY <3>1, <3>2, <3>3 DEF HadSuccessor, WasLive
    <2>2. /\ pc'[p] = "scan" /\ UNCHANGED <<op, usr, pres, ver, stamp, todo, wset, new, want, out>>
          /\ \A q \in Procs : q # p => SameControl(q)
          /\ TxTypeOK'
      BY <1>t, <2>1, ContinueControl DEF Holding
    <2>3. Shape(p)'
      BY <1>t, <2>2 DEF Shape, Rotating, LocksUser, Holding, Exclusive
    <2>4. Facts(p)'
      BY <1>t, <2>1, <2>a, <2>2 DEF Facts, HadSuccessor, Shape, Rotating, Ending, LocksUser, Holding, Exclusive, dbvars
    <2> QED
      BY <1>t, <2>2, <2>3, <2>4, StepKeepsInv
  <1> QED
    BY <1>1, <1>2

\* The INSERT takes a hash that no committed or pending row has.
LEMMA InsertKeepsInv ==
    ASSUME TxInv, NEW p \in Procs, Insert(p)
    PROVE  TxInv'
  <1>t. /\ TxTypeOK /\ Shape(p) /\ Facts(p) /\ UNCHANGED dbvars
        /\ pc[p] = "insert" /\ op[p] \in {"login", "refresh"} /\ LocksUser(p)
    BY DEF TxInv, Insert, Shape, LocksUser, Holding, Exclusive
  <1>1. CASE Answer(p, "failed")
    BY <1>t, <1>1, AnswerKeepsInv DEF Answers
  <1>2. CASE ~Answer(p, "failed")
    <2>1. PICK n \in Fresh : new' = [new EXCEPT ![p] = n]
      BY <1>2 DEF Insert
    <2>2. Goto(p, "write") /\ UNCHANGED <<op, usr, pres, ver, stamp, todo, wset, want, out>>
      BY <1>2 DEF Insert
    <2>3. n \in Tokens /\ n # None /\ tok[n].st = "unused" /\ \A q \in Procs : new[q] # n
      BY SessionsAssumption DEF Fresh
    <2>4. pc'[p] = "write" /\ new'[p] = n
      BY <1>t, <2>1, <2>2 DEF Goto, TxTypeOK
    <2>5. \A q \in Procs : q # p => SameControl(q)
      BY <1>t, <2>1, <2>2 DEF Goto, TxTypeOK, SameControl
    <2>6. TxTypeOK'
      BY <1>t, <2>1, <2>2, <2>3 DEF Goto, TxTypeOK, TypeOK, Holding, dbvars
    <2>7. Shape(p)'
      BY <1>t, <2>2, <2>3, <2>4 DEF Shape, Rotating, LocksUser, Holding, Exclusive
    <2>8. Facts(p)'
      BY <1>t, <2>2, <2>3, <2>4 DEF Facts, Shape, Rotating, Ending, LocksUser, Holding, Exclusive, dbvars, Live
    <2>9. ASSUME NEW q \in Procs, q # p PROVE Apart(p, q)'
      <3>1. SameControl(q) /\ Apart(p, q)
        BY <2>5, <2>9 DEF TxInv
      <3> QED
        BY <1>t, <2>2, <2>3, <2>4, <3>1 DEF Apart, SameControl, LocksUser
    <2> QED
      BY <1>t, <2>5, <2>6, <2>7, <2>8, <2>9, LocalFrame
  <1> QED
    BY <1>1, <1>2

\* A multi-row statement has all rows of its snapshot before it.
LEMMA ScanKeepsInv ==
    ASSUME TxInv, NEW p \in Procs, Scan(p)
    PROVE  TxInv'
  <1>t. /\ TxTypeOK /\ Shape(p) /\ Facts(p) /\ UNCHANGED dbvars
        /\ pc[p] = "scan" /\ op[p] \in Exclusive \cup {"sweep"} /\ wset[p] = {} /\ new[p] = None
    BY DEF TxInv, Scan, Shape
  <1>1. /\ pc'[p] = "write" /\ todo'[p] = {t \in Tokens : Matches(p, t)}
        /\ UNCHANGED <<op, usr, pres, ver, stamp, wset, new, want, out>>
    BY <1>t DEF Scan, Goto, TxTypeOK
  <1>2. \A q \in Procs : q # p => SameControl(q)
    BY <1>t DEF Scan, Goto, TxTypeOK, SameControl
  <1>3. TxTypeOK'
    BY <1>t DEF Scan, Goto, TxTypeOK, TypeOK, Holding, dbvars
  <1>4. Shape(p)'
    BY <1>t, <1>1 DEF Shape, Rotating, LocksUser, Holding, Exclusive
  <1>5. /\ op[p] \in {"refresh", "password", "logoutall"} => LiveOf(usr[p]) \subseteq todo'[p]
        /\ op[p] = "delete" => StoredOf(usr[p]) \subseteq todo'[p]
        /\ op[p] \in Exclusive => \A t \in todo'[p] : tok[t].st # "unused" /\ tok[t].own = usr[p]
    BY <1>1 DEF LiveOf, StoredOf, Matches, Exclusive, Live, Stored, Revoked
  <1>6. Facts(p)'
    BY <1>t, <1>1, <1>5 DEF Facts, HadSuccessor, Rotating, Ending, LocksUser, Holding, Exclusive, LiveOf, StoredOf, Live, dbvars
  <1>7. LocksUser(p)' => LocksUser(p) /\ usr'[p] = usr[p] /\ op'[p] = op[p]
    BY <1>t, <1>1 DEF LocksUser, Holding
  <1> QED
    BY <1>t, <1>1, <1>2, <1>3, <1>4, <1>6, <1>7, StepKeepsInv

\* Each visited row that still matches is locked until the commit.
LEMMA WriteRowKeepsInv ==
    ASSUME TxInv, NEW p \in Procs, NEW t \in Tokens, WriteRow(p, t)
    PROVE  TxInv'
  <1>t. /\ TxTypeOK /\ Shape(p) /\ Facts(p) /\ UNCHANGED dbvars
        /\ pc[p] = "write" /\ t \in todo[p] /\ Free(p, t)
        /\ UNCHANGED <<op, pc, usr, pres, ver, stamp, new, want, out>>
    BY DEF TxInv, WriteRow
  <1>0. op[p] \in Exclusive \cup {"sweep"} /\ new[p] = None
    BY <1>t DEF Shape, Rotating
  <1>1. /\ todo'[p] = todo[p] \ {t}
        /\ wset'[p] = IF Matches(p, t) THEN wset[p] \cup {t} ELSE wset[p]
    BY <1>t DEF WriteRow, StillMatches, TxTypeOK
  <1>2. \A q \in Procs : q # p => SameControl(q)
    BY <1>t DEF WriteRow, TxTypeOK, SameControl
  <1>3. TxTypeOK'
    BY <1>t DEF WriteRow, TxTypeOK, TypeOK, dbvars
  <1>4. Shape(p)'
    BY <1>t, <1>0, <1>1 DEF Shape, Rotating, LocksUser, Exclusive
  <1>5. Ending(p) => wset'[p] \subseteq LiveOf(usr[p]) /\ LiveOf(usr[p]) \subseteq wset'[p] \cup todo'[p]
    <2>1. Ending(p) => wset[p] \subseteq LiveOf(usr[p]) /\ LiveOf(usr[p]) \subseteq wset[p] \cup todo[p]
      BY <1>t DEF Facts
    <2> QED
      BY <1>t, <1>1, <2>1 DEF Ending, LiveOf, Live, Matches
  <1>6. op[p] = "delete" => wset'[p] \subseteq StoredOf(usr[p]) /\ StoredOf(usr[p]) \subseteq wset'[p] \cup todo'[p]
    BY <1>t, <1>1 DEF Facts, StoredOf, Matches
  <1>7. op[p] = "sweep" => \A x \in wset'[p] : tok[x].st \in Stored /\ tok[x].exp < stamp[p]
    BY <1>t, <1>1 DEF Facts, Matches
  <1>7a. op[p] \in Exclusive => \A x \in todo'[p] : tok[x].st # "unused" /\ tok[x].own = usr[p]
    BY <1>t, <1>1 DEF Facts
  <1>8. Facts(p)'
    BY <1>t, <1>0, <1>5, <1>6, <1>7, <1>7a
       DEF Facts, HadSuccessor, Rotating, Ending, LocksUser, LiveOf, StoredOf, Live, Usable, dbvars
  <1>9. ASSUME NEW q \in Procs, q # p PROVE Apart(p, q)'
    <2>1. SameControl(q) /\ Apart(p, q) /\ t \notin wset[q]
      BY <1>t, <1>2, <1>9 DEF TxInv, Free
    <2> QED
      BY <1>t, <1>1, <2>1 DEF Apart, SameControl, LocksUser
  <1> QED
    BY <1>t, <1>2, <1>3, <1>4, <1>8, <1>9, LocalFrame

-----------------------------------------------------------------------------
(* Steps that change the tables.                                           *)

\* The state of a row after a commit.
LEMMA CommitRows ==
    ASSUME TxInv, SessionInv, NEW p \in Procs, Commit(p)
    PROVE  \A t \in Tokens :
             /\ t \in wset[p] => /\ tok'[t].st = Mark(p) /\ tok'[t].own = tok[t].own
                                 /\ tok'[t].fam = tok[t].fam /\ tok'[t].exp = tok[t].exp
                                 /\ tok'[t].ver = tok[t].ver
             /\ t = new[p] => tok[t].st = "unused" /\ t \notin wset[p] /\ tok'[t] = Inserted(p)
             /\ t \notin wset[p] /\ t # new[p] => tok'[t] = tok[t]
  <1> SUFFICES ASSUME NEW t \in Tokens
               PROVE  /\ t \in wset[p] => /\ tok'[t].st = Mark(p) /\ tok'[t].own = tok[t].own
                                          /\ tok'[t].fam = tok[t].fam /\ tok'[t].exp = tok[t].exp
                                          /\ tok'[t].ver = tok[t].ver
                      /\ t = new[p] => tok[t].st = "unused" /\ t \notin wset[p] /\ tok'[t] = Inserted(p)
                      /\ t \notin wset[p] /\ t # new[p] => tok'[t] = tok[t]
    OBVIOUS
  <1>t. TxTypeOK /\ TypeOK /\ Shape(p) /\ Facts(p) /\ pc[p] = "write"
    BY DEF TxInv, TxTypeOK, Commit
  <1>1. tok'[t] = IF t \in wset[p] THEN [tok[t] EXCEPT !.st = Mark(p)]
                  ELSE IF t = new[p] THEN Inserted(p) ELSE tok[t]
    BY DEF Commit
  <1>2. tok[t] \in TokenRow
    BY <1>t DEF TypeOK
  <1>3. t \in wset[p] => /\ tok'[t].st = Mark(p) /\ tok'[t].own = tok[t].own
                         /\ tok'[t].fam = tok[t].fam /\ tok'[t].exp = tok[t].exp
                         /\ tok'[t].ver = tok[t].ver
    BY <1>1, <1>2 DEF TokenRow
  <1>4. t = new[p] => tok[t].st = "unused" /\ t \notin wset[p]
    <2>1. SUFFICES ASSUME t = new[p] PROVE tok[t].st = "unused" /\ t \notin wset[p]
      OBVIOUS
    <2>2. t # None
      BY SessionsAssumption
    <2>3. tok[t].st = "unused"
      BY <1>t, <2>1, <2>2 DEF Facts
    <2>4. op[p] = "login" => wset[p] = {}
      BY <1>t DEF Shape
    <2>5. op[p] = "refresh" => Live(pres[p]) /\ wset[p] = {pres[p]}
      BY <1>t, <2>1, <2>2 DEF Shape, Facts, Rotating
    <2>6. op[p] \in {"login", "refresh"}
      BY <1>t, <2>1, <2>2 DEF Shape
    <2> QED
      BY <2>3, <2>4, <2>5, <2>6 DEF Live
  <1> QED
    BY <1>1, <1>3, <1>4

\* The rows that a transaction has written can be marked by it.
LEMMA WrittenRows ==
    ASSUME TxInv, NEW p \in Procs, pc[p] \in {"insert", "write"}
    PROVE  /\ \A t \in wset[p] : t \in Tokens /\ tok[t].st \in Stored
           /\ pc[p] = "write" =>
                 \A t \in wset[p] : Mark(p) = "gone" \/ (Live(t) /\ Mark(p) \in Revoked)
  <1>t. TxTypeOK /\ Shape(p) /\ Facts(p) /\ wset[p] \subseteq Tokens
    BY DEF TxInv, TxTypeOK
  <1>1. CASE Rotating(p)
    <2>1. wset[p] = {pres[p]} /\ Live(pres[p]) /\ op[p] = "refresh"
      BY <1>t, <1>1 DEF Shape, Facts, Rotating
    <2>2. pc[p] = "write" => Mark(p) = "rotated"
      BY <1>1, <2>1 DEF Rotating, Mark
    <2> QED
      BY <1>t, <2>1, <2>2 DEF Live, Stored, Revoked
  <1>2. CASE Ending(p)
    <2>1. wset[p] \subseteq LiveOf(usr[p])
      BY <1>t, <1>2 DEF Facts
    <2>2. Mark(p) \in {"reuse", "password_change", "logout"}
      BY <1>2 DEF Ending, Mark
    <2> QED
      BY <1>t, <2>1, <2>2 DEF LiveOf, Live, Stored, Revoked
  <1>3. CASE op[p] = "delete" /\ pc[p] = "write"
    BY <1>t, <1>3 DEF Facts, StoredOf, Mark
  <1>4. CASE op[p] = "sweep"
    BY <1>t, <1>4 DEF Facts, Mark
  <1>5. CASE op[p] = "login"
    BY <1>t, <1>5 DEF Shape
  <1> QED
    BY <1>t, <1>1, <1>2, <1>3, <1>4, <1>5 DEF Shape, Rotating, Ending, Exclusive

\* A commit revokes live rows, removes stored ones and issues unused hashes.
LEMMA CommitAges ==
    ASSUME TxInv, SessionInv, NEW p \in Procs, Commit(p)
    PROVE  \A t \in Tokens : Aged(t)
  <1> SUFFICES ASSUME NEW t \in Tokens PROVE Aged(t)
    OBVIOUS
  <1>1. \A x \in wset[p] : x \in Tokens /\ tok[x].st \in Stored /\ (Mark(p) = "gone" \/ (Live(x) /\ Mark(p) \in Revoked))
    BY WrittenRows DEF Commit
  <1>2. CASE t \in wset[p]
    BY <1>1, <1>2, CommitRows DEF Aged, Live, Stored, Revoked
  <1>3. CASE t = new[p]
    BY <1>3, CommitRows DEF Aged
  <1>4. CASE t \notin wset[p] /\ t # new[p]
    <2>1. tok'[t] = tok[t]
      BY <1>4, CommitRows
    <2> QED
      BY <2>1 DEF Aged
  <1> QED
    BY <1>2, <1>3, <1>4

\* A session transaction writes tokens of its own user.
LEMMA WrittenOwn ==
    ASSUME TxInv, NEW p \in Procs, pc[p] = "write", op[p] # "sweep", NEW t \in wset[p]
    PROVE  tok[t].own = usr[p]
  <1>1. TxTypeOK /\ Shape(p) /\ Facts(p)
    BY DEF TxInv
  <1>2. CASE Rotating(p)
    BY <1>1, <1>2 DEF Shape, Facts, Rotating, Holding
  <1>3. CASE Ending(p)
    BY <1>1, <1>3 DEF Facts, LiveOf
  <1>4. CASE op[p] = "delete"
    BY <1>1, <1>4 DEF Facts, StoredOf
  <1> QED
    BY <1>1, <1>2, <1>3, <1>4 DEF Shape, Rotating, Ending, Exclusive

\* A commit does not touch what other transactions rely on.
LEMMA CommitDisturbsNobody ==
    ASSUME TxInv, SessionInv, NEW p \in Procs, Commit(p), NEW q \in Procs, q # p
    PROVE  Undisturbed(q)
  <1>t. /\ TxTypeOK /\ TypeOK /\ Shape(p) /\ Facts(p) /\ Shape(q) /\ Facts(q) /\ Apart(p, q)
        /\ pc[p] = "write" /\ now' = now /\ now \in Nat
    BY DEF TxInv, TxTypeOK, TypeOK, Commit
  <1>u. /\ "unused" \notin Stored /\ "gone" \notin Stored
        /\ "unused" \notin Revoked /\ "live" \notin Revoked /\ Revoked \subseteq Stored
    BY DEF Stored, Revoked
  <1>1. \A t \in wset[p] : t \in Tokens /\ tok[t].st \in Stored /\ (Mark(p) = "gone" \/ (Live(t) /\ Mark(p) \in Revoked))
    BY <1>t, WrittenRows
  <1>2. \A t \in wset[q] : t \in Tokens /\ tok[t].st \in Stored
    <2>1. pc[q] \in {"insert", "write"} \/ wset[q] = {}
      BY <1>t DEF Shape
    <2> QED
      BY <2>1, WrittenRows
  <1>3. \A t \in Tokens : Aged(t)
    BY CommitAges
  <1>4. \A t \in wset[q] : tok'[t] = tok[t]
    <2> SUFFICES ASSUME NEW t \in wset[q] PROVE tok'[t] = tok[t]
      OBVIOUS
    <2>1. t \in Tokens /\ t \notin wset[p] /\ tok[t].st # "unused"
      BY <1>t, <1>2, <1>u DEF Apart
    <2> QED
      BY <2>1, CommitRows
  <1>5. new[q] # None => tok'[new[q]].st = "unused"
    <2> SUFFICES ASSUME new[q] # None PROVE tok'[new[q]].st = "unused"
      OBVIOUS
    <2>1. new[q] \in Tokens /\ tok[new[q]].st = "unused" /\ new[q] # new[p]
      BY <1>t DEF TxTypeOK, Facts, Apart
    <2>2. new[q] \notin wset[p]
      BY <1>1, <1>u, <2>1
    <2> QED
      BY <2>1, <2>2, CommitRows
  <1>6. op[p] # "sweep" => LocksUser(p) /\ usr[p] \in Users
    BY <1>t DEF Shape, LocksUser, Holding
  <1>7. LocksUser(q) => row'[usr[q]] = row[usr[q]] /\ uver'[usr[q]] = uver[usr[q]]
    <2> SUFFICES ASSUME LocksUser(q) PROVE row'[usr[q]] = row[usr[q]] /\ uver'[usr[q]] = uver[usr[q]]
      OBVIOUS
    <2>1. op[p] \in {"password", "delete"} => usr[q] # usr[p]
      BY <1>t, <1>6 DEF Apart
    <2> QED
      BY <1>t, <2>1 DEF Commit, TypeOK
  <1>8. ASSUME LocksUser(q), op[q] # "login", NEW t \in Tokens, tok[t].st = "unused", tok'[t].own = usr[q]
        PROVE  tok'[t].st = "unused"
    <2>1. t \notin wset[p]
      BY <1>1, <1>8, <1>u
    <2>2. CASE t = new[p]
      <3>1. t # None /\ op[p] \in {"login", "refresh"}
        BY <1>t, <2>2, SessionsAssumption DEF Shape
      <3>2. tok'[t] = Inserted(p)
        BY <2>2, CommitRows
      <3>3. op[p] = "refresh" => tok[pres[p]].own = usr[p]
        BY <1>t DEF Facts, Holding
      <3>4. Inserted(p).own = usr[p]
        BY <3>1, <3>3 DEF Inserted, LiveRow
      <3> QED
        BY <1>t, <1>6, <1>8, <3>1, <3>2, <3>4 DEF Apart
    <2>3. CASE t # new[p]
      BY <1>8, <2>1, <2>3, CommitRows
    <2> QED
      BY <2>2, <2>3
  <1>9. ASSUME LocksUser(q), op[q] # "login", NEW t \in Tokens, tok[t].own = usr[q], tok[t].st \in WasLive
        PROVE  tok'[t].st \in WasLive
    <2>1. CASE t \in wset[p]
      <3>1. tok'[t].st = Mark(p)
        BY <2>1, CommitRows
      <3>2. CASE op[p] \in {"delete", "sweep"}
        BY <3>1, <3>2 DEF Mark, WasLive
      <3>3. CASE op[p] \notin {"delete", "sweep"}
        <4>1. tok[t].own = usr[p]
          BY <1>t, <2>1, <3>3, WrittenOwn
        <4> QED
          BY <1>t, <1>6, <1>9, <3>3, <4>1 DEF Apart
      <3> QED
        BY <3>2, <3>3
    <2>2. CASE t \notin wset[p]
      <3>1. t # new[p]
        BY <1>9, CommitRows DEF WasLive
      <3> QED
        BY <1>9, <2>2, <3>1, CommitRows
    <2> QED
      BY <2>1, <2>2
  <1> QED
    BY <1>t, <1>3, <1>4, <1>5, <1>7, <1>8, <1>9 DEF Undisturbed

\* A commit does what one operation of Sessions does.
LEMMA CommitRefines ==
    ASSUME TxInv, SessionInv, NEW p \in Procs, Commit(p)
    PROVE  Next
  <1>t. /\ TxTypeOK /\ TypeOK /\ Shape(p) /\ Facts(p)
        /\ pc[p] = "write" /\ todo[p] = {} /\ now' = now /\ wset[p] \subseteq Tokens
    BY DEF TxInv, TxTypeOK, Commit
  <1>0. op[p] # "sweep" => LocksUser(p) /\ usr[p] \in Users /\ row[usr[p]] = "present"
    BY <1>t DEF Shape, Facts, LocksUser, Holding
  <1>m. new[p] = None => tok' = Marked(wset[p], Mark(p))
    BY SessionsAssumption DEF Commit, Marked
  <1>1. CASE op[p] = "login"
    <2>1. /\ wset[p] = {} /\ new[p] \in Tokens /\ new[p] # None /\ tok[new[p]].st = "unused"
          /\ uver[usr[p]] = ver[p] /\ stamp[p] \in 0 .. now + TTL
      BY <1>t, <1>0, <1>1 DEF Shape, Facts, TxTypeOK, Holding
    <2>2. Inserted(p) = LiveRow(usr[p], new[p], stamp[p], uver[usr[p]])
      BY <1>1, <2>1 DEF Inserted
    <2>3. tok' = [tok EXCEPT ![new[p]] = LiveRow(usr[p], new[p], stamp[p], uver[usr[p]])]
      BY <1>t, <2>1, <2>2 DEF Commit, TypeOK
    <2>4. UNCHANGED <<row, uver, now>>
      BY <1>1, <1>t DEF Commit
    <2>5. Login(usr[p], new[p], stamp[p])
      BY <1>0, <1>1, <2>1, <2>3, <2>4 DEF Login
    <2> QED
      BY <1>0, <1>1, <2>1, <2>5 DEF Next, UserStep
  <1>2. CASE op[p] = "refresh" /\ new[p] # None
    <2>1. /\ wset[p] = {pres[p]} /\ Live(pres[p]) /\ pres[p] \in Tokens /\ stamp[p] \in 0 .. now + TTL
          /\ new[p] \in Tokens /\ tok[new[p]].st = "unused" /\ Mark(p) = "rotated"
      BY <1>t, <1>2 DEF Shape, Facts, Rotating, TxTypeOK, Mark
    <2>2. Inserted(p) = LiveRow(tok[pres[p]].own, tok[pres[p]].fam, stamp[p], tok[pres[p]].ver)
      BY <1>2 DEF Inserted
    <2>3. new[p] # pres[p]
      BY <2>1 DEF Live
    <2>4. tok' = [Marked({pres[p]}, "rotated") EXCEPT
                    ![new[p]] = LiveRow(tok[pres[p]].own, tok[pres[p]].fam, stamp[p], tok[pres[p]].ver)]
      BY <2>1, <2>2, <2>3 DEF Commit, Marked
    <2>5. UNCHANGED <<row, uver, now>>
      BY <1>2, <1>t DEF Commit
    <2>6. Rotate(pres[p], new[p], stamp[p])
      BY <2>1, <2>4, <2>5 DEF Rotate
    <2> QED
      BY <2>1, <2>6 DEF Next, TokenStep
  <1>3. CASE op[p] \in {"refresh", "password", "logoutall"} /\ new[p] = None
    <2>1. wset[p] = LiveOf(usr[p])
      BY <1>t, <1>3 DEF Facts, Ending
    <2>2. tok' = Marked(LiveOf(usr[p]), Mark(p)) /\ row' = row
      BY <1>m, <1>3, <2>1 DEF Commit
    <2>3. CASE op[p] = "refresh"
      <3>1. pres[p] \in Tokens /\ tok[pres[p]].own = usr[p] /\ tok[pres[p]].st \in {"rotated", "gone"}
        BY <1>t, <1>3, <2>3 DEF Shape, Facts, Holding
      <3>2. Mark(p) = "reuse" /\ uver' = uver
        BY <1>3, <2>3 DEF Mark, Commit
      <3>3. Reuse(pres[p])
        <4>1. \E s \in Family(tok[pres[p]].fam) \ {pres[p]} : tok[s].st \in {"live", "logout", "gone"}
          BY <1>t, <1>3, <2>3 DEF Facts, HadSuccessor, WasLive, Family
        <4> QED
          BY <1>t, <1>0, <2>2, <2>3, <3>1, <3>2, <4>1 DEF Reuse
      <3> QED
        BY <3>1, <3>3 DEF Next, TokenStep
    <2>4. CASE op[p] = "password"
      <3>1. Mark(p) = "password_change" /\ uver[usr[p]] < MaxVersion
        BY <1>t, <2>4 DEF Mark, Facts
      <3>2. uver' = [uver EXCEPT ![usr[p]] = @ + CredentialsBump]
        BY <2>4 DEF Commit
      <3>3. ChangePassword(usr[p])
        BY <1>t, <1>0, <2>2, <2>4, <3>1, <3>2 DEF ChangePassword
      <3> QED
        BY <1>0, <2>4, <3>3 DEF Next, UserStep
    <2>5. CASE op[p] = "logoutall"
      <3>1. Mark(p) = "logout" /\ uver' = uver
        BY <2>5 DEF Mark, Commit
      <3>2. LogoutAll(usr[p])
        BY <1>t, <1>0, <2>2, <2>5, <3>1 DEF LogoutAll
      <3> QED
        BY <1>0, <2>5, <3>2 DEF Next, UserStep
    <2> QED
      BY <1>3, <2>3, <2>4, <2>5
  <1>4. CASE op[p] = "delete"
    <2>1. wset[p] = StoredOf(usr[p]) /\ new[p] = None /\ Mark(p) = "gone"
      BY <1>t, <1>4 DEF Facts, Shape, Mark
    <2>2. tok' = Marked(StoredOf(usr[p]), "gone") /\ uver' = uver /\ row' = [row EXCEPT ![usr[p]] = "deleted"]
      BY <1>m, <1>4, <2>1 DEF Commit
    <2>3. DeleteUser(usr[p])
      BY <1>t, <1>0, <1>4, <2>2 DEF DeleteUser
    <2> QED
      BY <1>0, <1>4, <2>3 DEF Next, UserStep
  <1>5. CASE op[p] = "sweep"
    <2>1. new[p] = None /\ Mark(p) = "gone" /\ UNCHANGED <<row, uver, now>>
      BY <1>t, <1>5 DEF Shape, Mark, Commit
    <2>2. \A t \in wset[p] : tok[t].st \in Stored /\ tok[t].exp + Retention < now
      <3>1. /\ stamp[p] \in Int /\ now \in Nat /\ Retention \in Nat /\ stamp[p] + Retention <= now
            /\ \A t \in wset[p] : tok[t].st \in Stored /\ tok[t].exp < stamp[p] /\ tok[t].exp \in Int
        BY <1>t, <1>5, SessionsAssumption DEF Facts, TxTypeOK, TypeOK, TokenRow
      <3> QED
        BY <3>1
    <2>3. Sweep(wset[p])
      BY <1>m, <2>1, <2>2 DEF Sweep
    <2> QED
      BY <1>t, <2>3 DEF Next
  <1> QED
    BY <1>t, <1>1, <1>2, <1>3, <1>4, <1>5 DEF Shape, Exclusive

LEMMA CommitKeepsInv ==
    ASSUME TxInv, SessionInv, NEW p \in Procs, Commit(p)
    PROVE  TxInv'
  <1>t. TxTypeOK /\ TypeOK /\ Shape(p) /\ Facts(p) /\ now' = now
    BY DEF TxInv, TxTypeOK, Commit
  <1>1. TypeOK'
    BY CommitRefines, NextInv DEF SessionInv
  <1>2. PICK o \in Answers : Answer(p, o)
    BY DEF Commit, Answers
  <1>3. /\ \A q \in Procs : q # p => SameControl(q)
        /\ TxTypeOK' /\ Shape(p)'
        /\ \A q \in Procs : q # p => Apart(p, q)'
        /\ pc'[p] = "done" /\ todo'[p] = {} /\ wset'[p] = {} /\ new'[p] = None /\ UNCHANGED <<op, usr, pres, ver, stamp>>
    BY <1>1, <1>2, AnswerControl
  <1>4. op[p] \in {"refresh", "logout"} => tok'[pres[p]].st # "unused"
    BY <1>t, CommitAges DEF Aged, Facts, Shape
  <1>5. Facts(p)'
    BY <1>t, <1>3, <1>4 DEF Facts, LocksUser, Rotating, Ending, Holding
  <1>6. \A q \in Procs : q # p => Undisturbed(q)
    BY CommitDisturbsNobody
  <1> QED
    BY <1>3, <1>5, <1>6, Frame

\* A logout is a transaction of one statement.
LEMMA RevokeRefines ==
    ASSUME TxInv, NEW p \in Procs, Revoke(p)
    PROVE  [Next]_dbvars
  <1>1. pres[p] \in Tokens
    BY DEF TxInv, Shape, Revoke
  <1>2. CASE Live(pres[p])
    BY <1>1, <1>2 DEF Revoke, Logout, Next, TokenStep
  <1>3. CASE ~Live(pres[p])
    BY <1>3 DEF Revoke, dbvars
  <1> QED
    BY <1>2, <1>3

LEMMA RevokeKeepsInv ==
    ASSUME TxInv, SessionInv, NEW p \in Procs, Revoke(p)
    PROVE  TxInv'
  <1>t. /\ TxTypeOK /\ TypeOK /\ Shape(p) /\ Facts(p) /\ UNCHANGED <<row, uver, now>> /\ now \in Nat
        /\ op[p] = "logout" /\ pres[p] \in Tokens /\ tok[pres[p]].st # "unused"
    BY DEF TxInv, TxTypeOK, TypeOK, Revoke, Shape, Facts
  <1>1. TypeOK'
    BY RevokeRefines, NextInv DEF SessionInv
  <1>2. PICK o \in Answers : Answer(p, o)
    BY DEF Revoke, Answers
  <1>3. /\ \A q \in Procs : q # p => SameControl(q)
        /\ TxTypeOK' /\ Shape(p)'
        /\ \A q \in Procs : q # p => Apart(p, q)'
        /\ pc'[p] = "done" /\ todo'[p] = {} /\ wset'[p] = {} /\ new'[p] = None /\ UNCHANGED <<op, usr, pres, ver, stamp>>
    BY <1>1, <1>2, AnswerControl
  <1>4. ASSUME NEW t \in Tokens
        PROVE  /\ t # pres[p] => tok'[t] = tok[t]
               /\ ~Live(pres[p]) => tok'[t] = tok[t]
               /\ Live(pres[p]) => tok'[pres[p]].st = "logout" /\ tok'[pres[p]].own = tok[pres[p]].own
                                   /\ tok'[pres[p]].fam = tok[pres[p]].fam
                                   /\ tok'[pres[p]].exp = tok[pres[p]].exp
    <2>1. CASE ~Live(pres[p])
      BY <2>1 DEF Revoke
    <2>2. CASE Live(pres[p])
      <3>1. tok' = Marked({pres[p]}, "logout") /\ tok[pres[p]] \in TokenRow
        BY <1>t, <2>2 DEF Revoke, TypeOK
      <3>2. tok'[pres[p]] = [tok[pres[p]] EXCEPT !.st = "logout"] /\ (t # pres[p] => tok'[t] = tok[t])
        BY <1>t, <3>1 DEF Marked
      <3> QED
        BY <2>2, <3>1, <3>2 DEF TokenRow
    <2> QED
      BY <2>1, <2>2
  <1>5. \A t \in Tokens : Aged(t)
    BY <1>t, <1>4 DEF Aged, Live, Stored, Revoked
  <1>6. Facts(p)'
    BY <1>t, <1>3, <1>5 DEF Facts, LocksUser, Rotating, Ending, Holding, Aged
  <1>7. ASSUME NEW q \in Procs, q # p PROVE Undisturbed(q)
    <2>1. Shape(q) /\ Facts(q) /\ wset[q] \subseteq Tokens /\ new[q] \in Tokens \cup {None}
      BY DEF TxInv, TxTypeOK
    <2>2. \A t \in wset[q] : tok'[t] = tok[t]
      BY <1>4, <1>7, <2>1 DEF Revoke, Free
    <2>3. new[q] # None => tok'[new[q]].st = "unused"
      BY <1>t, <1>4, <2>1 DEF Facts
    <2>4. \A t \in Tokens : tok[t].st = "unused" => tok'[t].st = "unused"
      BY <1>t, <1>4
    <2>5. \A t \in Tokens : tok[t].st \in WasLive => tok'[t].st \in WasLive
      BY <1>t, <1>4 DEF WasLive
    <2> QED
      BY <1>t, <1>5, <2>2, <2>3, <2>4, <2>5 DEF Undisturbed
  <1> QED
    BY <1>3, <1>6, <1>7, Frame

\* Steps of no transaction.
LEMMA OutsideKeepsInv ==
    ASSUME TxInv, SessionInv, TypeOK', UNCHANGED reqvars, \A q \in Procs : Undisturbed(q)
    PROVE  TxInv'
  <1>1. TxTypeOK'
    BY DEF TxInv, TxTypeOK, reqvars
  <1>2. \A q \in Procs : SameControl(q)
    BY DEF SameControl, reqvars
  <1>3. \A q \in Procs : Shape(q)' /\ Facts(q)'
    BY <1>1, <1>2, StableShape, StableFacts DEF TxInv
  <1>4. \A q, r \in Procs : q # r => Apart(q, r)'
    BY DEF TxInv, Apart, LocksUser, reqvars
  <1> QED
    BY <1>1, <1>3, <1>4 DEF TxInv

LEMMA CreateUserKeepsInv ==
    ASSUME TxInv, SessionInv, NEW u \in Users, CreateUser(u)
    PROVE  TxInv' /\ Next
  <1>1. Register(u)
    BY DEF CreateUser, Register
  <1>2. Next
    BY <1>1 DEF Next, UserStep
  <1>3. TypeOK'
    BY <1>2, NextInv DEF SessionInv
  <1>4. UNCHANGED reqvars /\ UNCHANGED <<uver, tok, now>>
    BY DEF CreateUser
  <1>5. ASSUME NEW q \in Procs PROVE Undisturbed(q)
    <2>1. Facts(q) /\ TypeOK
      BY DEF TxInv, TxTypeOK
    <2>2. LocksUser(q) => row'[usr[q]] = row[usr[q]]
      BY <2>1 DEF Facts, CreateUser, TypeOK
    <2> QED
      BY <1>4, <2>1, <2>2 DEF Undisturbed, Aged, Facts, TypeOK
  <1> QED
    BY <1>2, <1>3, <1>4, <1>5, OutsideKeepsInv

LEMMA ClockKeepsInv == TxInv /\ SessionInv /\ Clock => TxInv' /\ Next
  <1> SUFFICES ASSUME TxInv, SessionInv, Clock PROVE TxInv' /\ Next
    OBVIOUS
  <1>1. Next /\ UNCHANGED <<row, uver, tok>> /\ now' = now + 1 /\ UNCHANGED reqvars
    BY DEF Clock, Tick, Next
  <1>2. TypeOK'
    BY <1>1, NextInv DEF SessionInv
  <1>3. ASSUME NEW q \in Procs PROVE Undisturbed(q)
    <2>1. Facts(q) /\ now \in Nat
      BY DEF TxInv, TxTypeOK, TypeOK
    <2> QED
      BY <1>1, <2>1 DEF Undisturbed, Aged, Facts
  <1> QED
    BY <1>1, <1>2, <1>3, OutsideKeepsInv

-----------------------------------------------------------------------------
(* The theorems.                                                           *)

LEMMA TxInitInv == TxInit => TxInv /\ SessionInv /\ FamilyInv
  <1> SUFFICES ASSUME TxInit PROVE TxInv /\ SessionInv /\ FamilyInv
    OBVIOUS
  <1>1. SessionInv /\ TypeOK /\ FamilyInv
    BY InitInv, InitFamilies DEF TxInit, SessionInv
  <1>2. TxTypeOK
    BY <1>1 DEF TxInit, TxTypeOK, Answers
  <1>3. \A p \in Procs : Shape(p) /\ Facts(p)
    BY DEF TxInit, Shape, Facts, LocksUser, Rotating, Ending, Holding, Exclusive
  <1>4. \A p, q \in Procs : p # q => Apart(p, q)
    BY DEF TxInit, Apart, LocksUser, Holding
  <1> QED
    BY <1>1, <1>2, <1>3, <1>4 DEF TxInv

\* Every step of a transaction is a step of Sessions or none.
LEMMA StepRefines == TxInv /\ SessionInv /\ [TxNext]_vars => [Next]_dbvars
  <1> SUFFICES ASSUME TxInv, SessionInv, [TxNext]_vars PROVE [Next]_dbvars
    OBVIOUS
  <1>1. ASSUME NEW p \in Requests, Begin(p) PROVE [Next]_dbvars
    BY <1>1 DEF Begin, StartLogin, StartRefresh, StartLogout, StartUserOp, Start
  <1>2. CASE StartSweep
    BY <1>2 DEF StartSweep, Start
  <1>3. ASSUME NEW p \in Procs, Commit(p) PROVE [Next]_dbvars
    BY <1>3, CommitRefines
  <1>4. ASSUME NEW p \in Procs, Revoke(p) PROVE [Next]_dbvars
    BY <1>4, RevokeRefines
  <1>5. ASSUME NEW p \in Procs,
               \/ LockShare(p) \/ LockUser(p) \/ Index(p) \/ Consume(p) \/ Verify(p) \/ Lookup(p) \/ UpdateUser(p)
               \/ Inspect(p) \/ Insert(p) \/ Scan(p) \/ Return(p) \/ Abort(p)
        PROVE  [Next]_dbvars
    BY <1>5 DEF LockShare, LockUser, Index, Consume, Verify, Lookup, UpdateUser, Inspect, Insert, Scan, Return, Abort
  <1>6. ASSUME NEW p \in Procs, NEW t \in Tokens, WriteRow(p, t) PROVE [Next]_dbvars
    BY <1>6 DEF WriteRow
  <1>7. ASSUME NEW u \in Users, CreateUser(u) PROVE [Next]_dbvars
    BY <1>7, CreateUserKeepsInv
  <1>8. CASE Clock
    BY <1>8, ClockKeepsInv
  <1>9. CASE UNCHANGED vars
    BY <1>9 DEF vars, dbvars
  <1> QED
    BY <1>1, <1>2, <1>3, <1>4, <1>5, <1>6, <1>7, <1>8, <1>9 DEF TxNext, LockStep, LocalStep

LEMMA TxNextInv ==
    TxInv /\ SessionInv /\ FamilyInv /\ [TxNext]_vars => TxInv' /\ SessionInv' /\ FamilyInv'
  <1> SUFFICES ASSUME TxInv, SessionInv, FamilyInv, [TxNext]_vars PROVE TxInv' /\ SessionInv' /\ FamilyInv'
    OBVIOUS
  <1>0. SessionInv' /\ FamilyInv'
    BY StepRefines, NextInv, NextFamilies
  <1>1. ASSUME NEW p \in Procs, LockStep(p) PROVE TxInv'
    BY <1>1, LockShareKeepsInv, LockUserKeepsInv, IndexKeepsInv, ConsumeKeepsInv, RevokeKeepsInv, WriteRowKeepsInv DEF LockStep
  <1>2. ASSUME NEW p \in Procs, LocalStep(p) PROVE TxInv'
    BY <1>2, VerifyKeepsInv, LookupKeepsInv, UpdateUserKeepsInv, InspectKeepsInv, InsertKeepsInv,
       ScanKeepsInv, CommitKeepsInv, ReturnKeepsInv DEF LocalStep
  <1>3. ASSUME NEW p \in Procs, Abort(p) PROVE TxInv'
    BY <1>3, AnswerKeepsInv DEF Abort, Answers
  <1>4. CASE UNCHANGED vars
    <2>1. UNCHANGED dbvars /\ UNCHANGED reqvars /\ TypeOK'
      BY <1>0, <1>4 DEF vars, dbvars, reqvars, SessionInv
    <2>2. \A q \in Procs : Undisturbed(q)
      BY <2>1, Quiet DEF TxInv
    <2> QED
      BY <1>0, <2>1, <2>2, OutsideKeepsInv
  <1> QED
    BY <1>0, <1>1, <1>2, <1>3, <1>4, BeginKeepsInv, SweepKeepsInv, CreateUserKeepsInv, ClockKeepsInv DEF TxNext

\* Locks and facts hold in every state of every interleaving.
THEOREM TxInvariant == TxSpec => [](TxInv /\ SessionInv /\ FamilyInv)
  <1> QED
    BY TxInitInv, TxNextInv, PTL DEF TxSpec

\* Statements, locks and buffers have their types.
THEOREM TxTypes == TxSpec => []TxTypeOK
  <1>1. TxInv => TxTypeOK
    BY DEF TxInv
  <1> QED
    BY <1>1, TxInvariant, PTL

\* The transactions implement the atomic operations, however many handlers run
\* and wherever they are interrupted; all that is proved of Sessions holds of
\* the committed tables.
THEOREM TxImplementsSessions == TxSpec => ImplementsSessions
  <1>1. TxInit => Init
    BY DEF TxInit
  <1> QED
    BY <1>1, StepRefines, TxInvariant, PTL DEF TxSpec, Spec, ImplementsSessions

-----------------------------------------------------------------------------
(* Waiting.                                                                *)

\* The rows that a request has written belong to the user whose row it locks.
LEMMA OwnRows ==
    ASSUME TxInv, NEW q \in Requests, NEW t \in wset[q]
    PROVE  LocksUser(q) /\ op[q] # "login" /\ t \in Tokens /\ tok[t].own = usr[q]
  <1>t. q \in Procs /\ q # Janitor
    BY SessionTxAssumption DEF Procs
  <1>1. TxTypeOK /\ Shape(q) /\ Facts(q)
    BY <1>t DEF TxInv
  <1>2. t \in Tokens /\ wset[q] # {}
    BY <1>t, <1>1 DEF TxTypeOK
  <1>3. pc[q] \in {"insert", "write"} /\ op[q] \in Exclusive
    BY <1>t, <1>1, <1>2 DEF Shape, Exclusive
  <1>4. LocksUser(q) /\ op[q] # "login"
    BY <1>3 DEF LocksUser, Holding, Exclusive
  <1>5. CASE Rotating(q)
    BY <1>1, <1>2, <1>4, <1>3, <1>5 DEF Shape, Facts, Rotating, Holding
  <1>6. CASE Ending(q)
    BY <1>1, <1>2, <1>4, <1>6 DEF Facts, LiveOf
  <1>7. CASE op[q] = "delete" /\ pc[q] = "write"
    BY <1>1, <1>2, <1>4, <1>7 DEF Facts, StoredOf
  <1> QED
    BY <1>1, <1>2, <1>3, <1>4, <1>5, <1>6, <1>7 DEF Shape, Rotating, Ending, Exclusive

\* A request that another request waits for has its users row.
LEMMA WaitedForHolds ==
    ASSUME TxInv, NEW p \in Requests, NEW q \in Requests, WaitsFor(p, q)
    PROVE  pc[q] \in Holding
  <1>1. wset[q] # {} => LocksUser(q)
    BY OwnRows
  <1> QED
    BY <1>1 DEF WaitsFor, HoldsX, HoldsS, LocksUser, Undecided, Holding

\* A request that has its users row waits for no other request, except for an
\* index entry: the rows it still has to lock belong to that user.
LEMMA HolderDoesNotWait ==
    ASSUME TxInv, NEW p \in Requests, NEW q \in Requests, p # q, pc[p] \in Holding \ {"index"}
    PROVE  ~WaitsFor(p, q)
  <1>t. p \in Procs /\ q \in Procs /\ p # Janitor
    BY SessionTxAssumption DEF Procs
  <1>1. TxTypeOK /\ Shape(p) /\ Facts(p) /\ Apart(p, q)
    BY <1>t DEF TxInv
  <1>2. SUFFICES ASSUME NEW t \in wset[q], LocksUser(p), op[p] # "login", tok[t].own = usr[p] PROVE FALSE
    <2>1. CASE pc[p] = "consume" /\ pres[p] \in wset[q]
      <3>1. op[p] = "refresh" /\ tok[pres[p]].own = usr[p]
        BY <1>1, <2>1 DEF Shape, Facts, Holding
      <3> QED
        BY <1>2, <2>1, <3>1 DEF LocksUser, Exclusive
    <2>2. CASE pc[p] = "write" /\ todo[p] \cap wset[q] # {}
      <3>1. PICK t \in todo[p] : t \in wset[q]
        BY <2>2
      <3>2. op[p] \in Exclusive
        BY <1>t, <1>1, <2>2 DEF Shape
      <3>3. tok[t].own = usr[p]
        BY <1>1, <3>1, <3>2 DEF Facts
      <3> QED
        BY <1>2, <3>1, <3>2, <3>3 DEF LocksUser, Exclusive
    <2> QED
      BY <2>1, <2>2 DEF WaitsFor, Holding
  <1>3. LocksUser(q) /\ op[q] # "login" /\ tok[t].own = usr[q]
    BY <1>2, OwnRows
  <1> QED
    BY <1>1, <1>2, <1>3 DEF Apart

\* Whatever the number of handlers, users and sessions, a deadlock of requests
\* contains one of password changes at the unique indexes.  The users row is
\* locked first (LockUser, LockShare), the rows locked after it belong to that
\* user, and a logout (Revoke) holds nothing while it waits: whoever is waited
\* for by a request and waits itself, waits for an index entry (Index).
THEOREM DeadlocksAreOverNames == TxSpec => []RequestsDeadlockOverNames
  <1>1. TxInv => RequestsDeadlockOverNames
    <2> SUFFICES ASSUME TxInv, NEW S \in SUBSET Requests, Cycle(S)
                 PROVE  Cycle({p \in S : pc[p] = "index"})
      BY DEF RequestsDeadlockOverNames
    <2> DEFINE T == {p \in S : pc[p] = "index"}
    <2>1. ASSUME NEW p \in S PROVE \E q \in T \ {p} : WaitsFor(p, q)
      <3>1. PICK q \in S \ {p} : WaitsFor(p, q)
        BY DEF Cycle
      <3>2. PICK r \in S \ {q} : WaitsFor(q, r)
        BY DEF Cycle
      <3>3. pc[q] \in Holding
        BY <3>1, WaitedForHolds
      <3>4. pc[q] = "index"
        BY <3>2, <3>3, HolderDoesNotWait
      <3> QED
        BY <3>1, <3>4
    <2>2. S # {}
      BY DEF Cycle
    <2>3. T # {}
      BY <2>1, <2>2
    <2> QED
      BY <2>1, <2>3 DEF Cycle
  <1> QED
    BY <1>1, TxInvariant, PTL

-----------------------------------------------------------------------------
(* What the caller of a refresh is told.                                   *)

\* Only Inspect answers with a verdict, only a finished reuse with "reuse".
LEMMA OutStep ==
    ASSUME TxInv, [TxNext]_vars, NEW p \in Procs
    PROVE  \/ out'[p] \in {out[p], "none", "ok", "failed", "refused", "conflict", "notfound"}
           \/ Inspect(p) /\ out'[p] = Verdict(pres[p])
           \/ Commit(p) /\ op[p] = "refresh" /\ new[p] = None /\ out'[p] = "reuse"
  <1>t. out \in [Procs -> Answers]
    BY DEF TxInv, TxTypeOK
  <1>1. ASSUME NEW q \in Procs, q # p, LockStep(q) \/ LocalStep(q) \/ Abort(q) PROVE out'[p] = out[p]
    BY <1>t, <1>1 DEF LockStep, LocalStep, LockShare, LockUser, Index, Consume, Revoke, WriteRow, Verify, Lookup,
       UpdateUser, Inspect, Insert, Scan, Commit, Return, Abort, Answer, Continue
  <1>2. CASE Inspect(p)
    BY <1>t, <1>2 DEF Inspect, Answer, Continue
  <1>3. CASE Commit(p)
    BY <1>t, <1>3 DEF Commit, Answer
  <1>4. CASE \/ LockStep(p) \/ Abort(p)
             \/ Verify(p) \/ Lookup(p) \/ UpdateUser(p) \/ Insert(p) \/ Scan(p) \/ Return(p)
    BY <1>t, <1>4 DEF LockStep, LockShare, LockUser, Index, Consume, Revoke, WriteRow, Verify, Lookup,
       UpdateUser, Insert, Scan, Return, Abort, Answer, Continue
  <1>5. CASE \/ \E q \in Requests : Begin(q)
             \/ StartSweep \/ Clock \/ UNCHANGED vars
             \/ \E u \in Users : CreateUser(u)
    BY <1>5 DEF Begin, StartLogin, StartRefresh, StartLogout, StartUserOp, StartSweep, Start, Clock, CreateUser,
       reqvars, vars
  <1> QED
    BY <1>1, <1>2, <1>3, <1>4, <1>5 DEF TxNext, LocalStep

\* handleUnusable's "refresh token is not usable" is never the answer, however
\* the statements interleave: the UPDATE that did not match ran under the users
\* lock, and until the row is read again nothing makes it usable.
THEOREM UnusableIsDeadCode == TxSpec => []UnusableIsExplained
  <1>1. TxInit => UnusableIsExplained
    BY DEF TxInit, UnusableIsExplained
  <1>2. TxInv /\ UnusableIsExplained /\ [TxNext]_vars => UnusableIsExplained'
    <2> SUFFICES ASSUME TxInv, UnusableIsExplained, [TxNext]_vars, NEW p \in Procs
                 PROVE  out'[p] # "notusable"
      BY DEF UnusableIsExplained
    <2>1. ASSUME Inspect(p) PROVE Verdict(pres[p]) # "notusable"
      <3>1. TypeOK /\ pres[p] \in Tokens /\ ~Usable(pres[p])
        BY <2>1 DEF TxInv, TxTypeOK, Shape, Facts, Inspect
      <3> QED
        BY <3>1, VerdictType
    <2> QED
      BY <2>1, OutStep DEF UnusableIsExplained
  <1> QED
    BY <1>1, <1>2, TxInvariant, PTL DEF TxSpec

-----------------------------------------------------------------------------
(* A refused refresh ends the family.                                      *)

Refusals == {"expired", "revoked", "reuse"}

\* No token of the family of t is usable, and no refresh is about to add one.
Over(t) ==
    /\ t \in Tokens /\ tok[t].st # "unused"
    /\ \A s \in Tokens : tok[s].fam = tok[t].fam => ~Usable(s)
    /\ \A q \in Procs : Rotating(q) => tok[pres[q]].fam # tok[t].fam

RefusalInv ==
    \A p \in Procs :
        /\ out[p] # "none" => pc[p] = "done"
        /\ out[p] \in Refusals => op[p] = "refresh" /\ Over(pres[p])

\* A refresh spends a token that is usable at that moment.
LEMMA RotatingStep ==
    ASSUME TxInv, [TxNext]_vars, NEW q \in Procs, Rotating(q)'
    PROVE  pres'[q] = pres[q] /\ op[q] = "refresh" /\ (Rotating(q) \/ Usable(pres[q]))
  <1>t. TxTypeOK /\ Shape(q)
    BY DEF TxInv
  <1>s. CASE SameControl(q)
    BY <1>s DEF SameControl, Rotating
  <1>1. ASSUME NEW p \in Procs, p # q, LockStep(p) \/ LocalStep(p) \/ Abort(p) PROVE SameControl(q)
    BY <1>t, <1>1 DEF TxTypeOK, SameControl, Goto, LockStep, LocalStep, LockShare, LockUser, Index, Consume, Revoke,
       WriteRow, Verify, Lookup, UpdateUser, Inspect, Insert, Scan, Commit, Return, Abort, Answer, Continue
  <1>2. ASSUME NEW p \in Procs, NEW o, NEW l \in {"verify", "unknown", "lookup", "lock", "revoke", "scan"},
               NEW u, NEW x, NEW v, NEW s, Start(p, o, l, u, x, v, s)
        PROVE  SameControl(q)
    <2>1. p # q
      BY <1>t, <1>2 DEF Start, Goto, TxTypeOK, Shape, Rotating
    <2> QED
      BY <1>t, <1>2, <2>1 DEF Start, Goto, TxTypeOK, SameControl
  <1>3. ASSUME NEW p \in Requests, Begin(p) PROVE SameControl(q)
    <2>1. p \in Procs
      BY DEF Procs
    <2> QED
      BY <1>2, <1>3, <2>1 DEF Begin, StartLogin, StartRefresh, StartLogout, StartUserOp
  <1>4. CASE StartSweep
    BY <1>2, <1>4, <1>s DEF StartSweep, Procs
  <1>5. CASE Clock \/ UNCHANGED vars \/ \E u \in Users : CreateUser(u)
    BY <1>5, <1>s DEF Clock, CreateUser, reqvars, vars, SameControl
  <1>6. CASE Consume(q)
    BY <1>t, <1>6 DEF Consume, Consumable, Continue, Goto, TxTypeOK, Rotating, Shape
  <1>7. CASE Insert(q)
    BY <1>t, <1>7 DEF Insert, Answer, Goto, TxTypeOK, Rotating, Shape
  <1>8. CASE \/ LockShare(q) \/ LockUser(q) \/ Index(q) \/ Verify(q) \/ Lookup(q) \/ UpdateUser(q) \/ Inspect(q)
    BY <1>t, <1>8 DEF LockShare, LockUser, Index, Verify, Lookup, UpdateUser, Inspect, Answer, Continue, Goto, TxTypeOK,
       Rotating, Shape, Exclusive
  <1>9. CASE Revoke(q) \/ Scan(q) \/ Commit(q) \/ Return(q) \/ Abort(q) \/ \E x \in Tokens : WriteRow(q, x)
    BY <1>t, <1>9 DEF Revoke, Scan, Commit, Return, Abort, WriteRow, Answer, Goto, TxTypeOK, Rotating, Shape
  <1> QED
    BY <1>s, <1>1, <1>3, <1>4, <1>5, <1>6, <1>7, <1>8, <1>9 DEF TxNext, LockStep, LocalStep

\* An issued row keeps its family, and a row that appears starts a family or
\* continues the one of a token that is being spent.
LEMMA TxRows ==
    ASSUME TxInv, SessionInv, [TxNext]_vars, NEW s \in Tokens
    PROVE  /\ tok[s].st # "unused" =>
                 /\ tok'[s].st # "unused" /\ tok'[s].fam = tok[s].fam /\ tok'[s].exp = tok[s].exp
                 /\ tok'[s].st = "live" => tok[s].st = "live"
           /\ tok[s].st = "unused" /\ tok'[s].st = "live" =>
                 \/ tok'[s].fam = s
                 \/ \E q \in Procs : Rotating(q) /\ tok'[s].fam = tok[pres[q]].fam
  <1>1. CASE tok' = tok
    BY <1>1
  <1>2. ASSUME NEW p \in Procs, Commit(p)
        PROVE  /\ tok[s].st # "unused" =>
                    /\ tok'[s].st # "unused" /\ tok'[s].fam = tok[s].fam /\ tok'[s].exp = tok[s].exp
                    /\ tok'[s].st = "live" => tok[s].st = "live"
               /\ tok[s].st = "unused" /\ tok'[s].st = "live" =>
                    \/ tok'[s].fam = s
                    \/ \E q \in Procs : Rotating(q) /\ tok'[s].fam = tok[pres[q]].fam
    <2>1. Aged(s) /\ s # None
      BY <1>2, CommitAges, SessionsAssumption
    <2>2. CASE s \in wset[p]
      <3>1. tok[s].st \in Stored
        BY <1>2, <2>2, WrittenRows DEF Commit
      <3>2. tok'[s].fam = tok[s].fam
        BY <1>2, <2>2, CommitRows
      <3> QED
        BY <2>1, <3>1, <3>2 DEF Aged, Stored, Revoked
    <2>3. CASE s = new[p]
      <3>1. tok'[s] = Inserted(p) /\ tok[s].st = "unused"
        BY <1>2, <2>3, CommitRows
      <3>2. CASE op[p] = "refresh"
        BY <1>2, <2>1, <2>3, <3>1, <3>2 DEF Rotating, Inserted, LiveRow
      <3>3. CASE op[p] # "refresh"
        BY <2>3, <3>1, <3>3 DEF Inserted, LiveRow
      <3> QED
        BY <3>2, <3>3
    <2>4. CASE s \notin wset[p] /\ s # new[p]
      <3>1. tok'[s] = tok[s]
        BY <1>2, <2>4, CommitRows
      <3> QED
        BY <3>1
    <2> QED
      BY <2>2, <2>3, <2>4
  <1>3. ASSUME NEW p \in Procs, Revoke(p)
        PROVE  /\ tok'[s].fam = tok[s].fam /\ tok'[s].exp = tok[s].exp
               /\ tok'[s].st = tok[s].st \/ (tok[s].st = "live" /\ tok'[s].st = "logout")
    <2>1. TypeOK /\ pres[p] \in Tokens /\ "logout" \in Stored
      BY <1>3 DEF TxInv, TxTypeOK, Revoke, Shape, Stored, Revoked
    <2>2. CASE Live(pres[p])
      <3>1. tok' = Marked({pres[p]}, "logout")
        BY <1>3, <2>2 DEF Revoke
      <3>2. /\ Marked({pres[p]}, "logout")[s].fam = tok[s].fam
            /\ Marked({pres[p]}, "logout")[s].exp = tok[s].exp
            /\ Marked({pres[p]}, "logout")[s].st = IF s = pres[p] THEN "logout" ELSE tok[s].st
        <4>1. {pres[p]} \in SUBSET Tokens /\ "logout" \in Stored \cup {"unused", "gone"}
          BY <2>1
        <4>2. \A x \in Tokens :
                /\ Marked({pres[p]}, "logout")[x].fam = tok[x].fam
                /\ Marked({pres[p]}, "logout")[x].exp = tok[x].exp
                /\ Marked({pres[p]}, "logout")[x].st = IF x \in {pres[p]} THEN "logout" ELSE tok[x].st
          BY <2>1, <4>1, MarkedRows
        <4> QED
          BY <4>2
      <3> QED
        BY <2>2, <3>1, <3>2 DEF Live
    <2> QED
      BY <1>3, <2>2 DEF Revoke
  <1>4. ASSUME NEW p \in Procs,
               \/ LockShare(p) \/ LockUser(p) \/ Index(p) \/ Consume(p) \/ Verify(p) \/ Lookup(p) \/ UpdateUser(p)
               \/ Inspect(p) \/ Insert(p) \/ Scan(p) \/ Return(p) \/ Abort(p)
               \/ \E t \in Tokens : WriteRow(p, t)
        PROVE  tok' = tok
    BY <1>4 DEF LockShare, LockUser, Index, Consume, Verify, Lookup, UpdateUser, Inspect, Insert, Scan, Return, Abort,
       WriteRow, dbvars
  <1>5. CASE \/ \E q \in Requests : Begin(q)
             \/ StartSweep \/ Clock \/ UNCHANGED vars
             \/ \E u \in Users : CreateUser(u)
    BY <1>1, <1>5 DEF Begin, StartLogin, StartRefresh, StartLogout, StartUserOp, StartSweep, Start, Clock, Tick,
       CreateUser, dbvars, vars
  <1> QED
    BY <1>1, <1>2, <1>3, <1>4, <1>5 DEF TxNext, LockStep, LocalStep

\* A family that is over stays over.
LEMMA OverStays ==
    ASSUME TxInv, SessionInv, [TxNext]_vars, NEW t, Over(t)
    PROVE  Over(t)'
  <1>t. /\ t \in Tokens /\ tok[t].st # "unused" /\ TypeOK /\ RowShape
        /\ tok[t].fam \in Tokens /\ tok[tok[t].fam].st # "unused"
    BY DEF Over, SessionInv, RowShape
  <1>1. tok'[t].st # "unused" /\ tok'[t].fam = tok[t].fam
    BY <1>t, TxRows
  <1>2. now \in Nat /\ now' \in Nat /\ now <= now' /\ \A s \in Tokens : tok[s].exp \in Int
    <2>1. [Next]_dbvars
      BY StepRefines
    <2>2. now \in Nat /\ \A s \in Tokens : tok[s].exp \in Int
      BY <1>t DEF TypeOK, TokenRow
    <2>3. Tick \/ now' = now
      BY <2>1 DEF Next, UserStep, TokenStep, dbvars, Register, Login, Rotate, Reuse, Logout, LogoutAll,
         ChangePassword, DeleteUser, Sweep
    <2> QED
      BY <2>2, <2>3 DEF Tick
  <1>3. ASSUME NEW s \in Tokens, tok'[s].fam = tok[t].fam, tok'[s].st = "live", tok'[s].exp > now'
        PROVE  FALSE
    <2>1. CASE tok[s].st # "unused"
      BY <1>2, <1>3, <2>1, TxRows DEF Over, Usable, Live
    <2>2. CASE tok[s].st = "unused"
      <3>1. tok'[s].fam # s
        BY <1>t, <1>3, <2>2
      <3> QED
        BY <1>3, <2>2, <3>1, TxRows DEF Over
    <2> QED
      BY <2>1, <2>2
  <1>4. ASSUME NEW q \in Procs, Rotating(q)' PROVE tok'[pres'[q]].fam # tok[t].fam
    <2>1. pres'[q] = pres[q] /\ op[q] = "refresh" /\ (Rotating(q) \/ Usable(pres[q]))
      BY <1>4, RotatingStep
    <2>2. pres[q] \in Tokens /\ tok[pres[q]].st # "unused"
      BY <2>1 DEF TxInv, Shape, Facts
    <2>3. tok'[pres[q]].fam = tok[pres[q]].fam
      BY <2>2, TxRows
    <2> QED
      BY <2>1, <2>2, <2>3 DEF Over
  <1> QED
    BY <1>t, <1>1, <1>3, <1>4 DEF Over, Usable, Live

\* While p holds the users row FOR UPDATE no other refresh is under way in the
\* families of that user.
LEMMA NoOtherRotation ==
    ASSUME TxInv, FamilyInv, NEW p \in Procs, op[p] = "refresh", pc[p] \in Holding, ~Rotating(p)
    PROVE  \A q \in Procs : Rotating(q) => tok[pres[q]].fam # tok[pres[p]].fam
  <1> SUFFICES ASSUME NEW q \in Procs, Rotating(q), tok[pres[q]].fam = tok[pres[p]].fam PROVE FALSE
    OBVIOUS
  <1>1. Shape(p) /\ Facts(p) /\ Shape(q) /\ Facts(q) /\ p # q
    BY DEF TxInv
  <1>2. op[q] = "refresh" /\ pc[q] \in Holding
    BY <1>1 DEF Rotating, Shape, Holding
  <1>3. \A x \in {p, q} : pres[x] \in Tokens /\ tok[pres[x]].st # "unused" /\ tok[pres[x]].own = usr[x]
    BY <1>1, <1>2 DEF Shape, Facts
  <1>4. usr[p] = usr[q]
    BY <1>3 DEF FamilyInv
  <1> QED
    BY <1>1, <1>2, <1>4 DEF TxInv, Apart, LocksUser, Exclusive

\* What handleUnusable has found out.
LEMMA VerdictMeans ==
    ASSUME TypeOK, NEW t \in Tokens
    PROVE  /\ Verdict(t) = "expired" => Live(t) /\ ~Usable(t)
           /\ Verdict(t) = "revoked" => tok[t].st \in Revoked /\ (tok[t].st # "rotated" \/ ~FamilyLive(t))
  <1>1. tok[t].exp \in Int /\ now \in Int
    BY DEF TypeOK, TokenRow
  <1>2. CASE tok[t].st \notin Stored
    BY <1>2 DEF Verdict, Stored, Revoked, Live
  <1>3. CASE tok[t].st = "live"
    BY <1>1, <1>3 DEF Verdict, Stored, Revoked, Live, Usable
  <1>4. CASE tok[t].st \in Revoked
    BY <1>4 DEF Verdict, Stored, Revoked, Live
  <1> QED
    BY <1>2, <1>3, <1>4 DEF Stored

\* A verdict that refuses the token is right when it is given.
LEMMA InspectEnds ==
    ASSUME TxInv, SessionInv, FamilyInv, NEW p \in Procs, Inspect(p),
           Verdict(pres[p]) \in {"expired", "revoked"}
    PROVE  op[p] = "refresh" /\ Over(pres[p])
  <1>1. /\ TypeOK /\ OneLivePerFamily /\ op[p] = "refresh" /\ pc[p] = "inspect" /\ new[p] = None
        /\ pres[p] \in Tokens /\ tok[pres[p]].st # "unused"
    BY DEF TxInv, Shape, Facts, Inspect, SessionInv
  <1>2. \A q \in Procs : Rotating(q) => tok[pres[q]].fam # tok[pres[p]].fam
    BY <1>1, NoOtherRotation DEF Rotating, Holding
  <1>3. ASSUME NEW s \in Tokens, tok[s].fam = tok[pres[p]].fam, Usable(s) PROVE FALSE
    <2>1. CASE Verdict(pres[p]) = "expired"
      BY <1>1, <1>3, <2>1, VerdictMeans DEF OneLivePerFamily, Usable
    <2>2. CASE Verdict(pres[p]) = "revoked"
      <3>1. tok[pres[p]].st \in Revoked /\ (tok[pres[p]].st # "rotated" \/ ~FamilyLive(pres[p]))
        BY <1>1, <2>2, VerdictMeans
      <3> QED
        BY <1>1, <1>3, <3>1 DEF FamilyInv, FamilyLive, Family, Usable, Live
    <2> QED
      BY <2>1, <2>2
  <1> QED
    BY <1>1, <1>2, <1>3 DEF Over

\* The commit of a detected reuse leaves nothing usable behind.
LEMMA ReuseEnds ==
    ASSUME TxInv, SessionInv, FamilyInv, [TxNext]_vars, NEW p \in Procs, Commit(p), op[p] = "refresh", new[p] = None
    PROVE  Over(pres[p])'
  <1>1. /\ TypeOK /\ Shape(p) /\ Facts(p) /\ pc[p] = "write" /\ todo[p] = {}
        /\ pres[p] \in Tokens /\ tok[pres[p]].st # "unused" /\ tok[pres[p]].own = usr[p]
        /\ LiveOf(usr[p]) \subseteq wset[p]
    BY DEF TxInv, TxTypeOK, Shape, Facts, Commit, Ending, Holding
  <1>2. \A q \in Procs : Rotating(q) => tok[pres[q]].fam # tok[pres[p]].fam
    BY <1>1, NoOtherRotation DEF Rotating, Holding
  <1>3. pres' = pres /\ tok'[pres[p]].st # "unused" /\ tok'[pres[p]].fam = tok[pres[p]].fam
    BY <1>1, TxRows DEF Commit, Answer
  <1>4. ASSUME NEW s \in Tokens, tok'[s].fam = tok[pres[p]].fam, tok'[s].st = "live" PROVE FALSE
    <2>1. s # new[p]
      BY SessionsAssumption
    <2>2. CASE s \in wset[p]
      <3>1. tok'[s].st = "reuse"
        BY <2>2, CommitRows DEF Mark
      <3> QED
        BY <1>4, <3>1
    <2>3. CASE s \notin wset[p]
      <3>1. tok'[s] = tok[s]
        BY <2>1, <2>3, CommitRows
      <3>2. tok[s].own = usr[p]
        BY <1>1, <1>4, <3>1 DEF FamilyInv
      <3> QED
        BY <1>1, <1>4, <2>3, <3>1, <3>2 DEF LiveOf, Live
    <2> QED
      BY <2>2, <2>3
  <1>5. ASSUME NEW q \in Procs, Rotating(q)' PROVE tok'[pres[q]].fam # tok[pres[p]].fam
    <2>1. q # p
      BY <1>1, <1>5 DEF Commit, Answer, Goto, TxInv, TxTypeOK, Rotating
    <2>2. Rotating(q)
      BY <1>5, <2>1 DEF Commit, Answer, Goto, TxInv, TxTypeOK, Rotating
    <2>3. pres[q] \in Tokens /\ tok[pres[q]].st # "unused"
      BY <2>2 DEF TxInv, Shape, Facts, Rotating
    <2>4. tok'[pres[q]].fam = tok[pres[q]].fam
      BY <2>3, TxRows
    <2> QED
      BY <1>2, <2>2, <2>4
  <1> QED
    BY <1>1, <1>3, <1>4, <1>5 DEF Over, Usable, Live

\* An answered request waits for its client and does nothing else.
LEMMA DoneStep ==
    ASSUME TxInv, [TxNext]_vars, NEW p \in Procs
    PROVE  /\ pc[p] = "done" => SameControl(p) \/ out'[p] = "none"
           /\ pc[p] # "done" => pc'[p] = "done" \/ out'[p] = out[p]
  <1>t. TxTypeOK
    BY DEF TxInv
  <1>1. ASSUME NEW q \in Procs, p # q, LockStep(q) \/ LocalStep(q) \/ Abort(q) PROVE SameControl(p)
    BY <1>t, <1>1 DEF TxTypeOK, SameControl, Goto, LockStep, LocalStep, LockShare, LockUser, Index, Consume, Revoke,
       WriteRow, Verify, Lookup, UpdateUser, Inspect, Insert, Scan, Commit, Return, Abort, Answer, Continue
  <1>2. ASSUME NEW q \in Procs, NEW o, NEW l, NEW u, NEW x, NEW v, NEW s, Start(q, o, l, u, x, v, s)
        PROVE  SameControl(p) \/ (pc[p] # "done" /\ out'[p] = out[p])
    BY <1>t, <1>2 DEF Start, Goto, TxTypeOK, SameControl
  <1>3. CASE StartSweep \/ \E q \in Requests : Begin(q)
    <2>1. Requests \subseteq Procs /\ Janitor \in Procs
      BY DEF Procs
    <2> QED
      BY <1>2, <1>3, <2>1 DEF StartSweep, Begin, StartLogin, StartRefresh, StartLogout, StartUserOp, SameControl
  <1>4. CASE Clock \/ UNCHANGED vars \/ \E u \in Users : CreateUser(u)
    BY <1>4 DEF Clock, CreateUser, reqvars, vars, SameControl
  <1>5. CASE Return(p)
    BY <1>t, <1>5 DEF Return, TxTypeOK
  <1>6. CASE LockShare(p) \/ LockUser(p) \/ Index(p) \/ Consume(p) \/ Revoke(p) \/ \E t \in Tokens : WriteRow(p, t)
    BY <1>t, <1>6 DEF LockShare, LockUser, Index, Consume, Revoke, WriteRow, Answer, Continue, Goto, TxTypeOK
  <1>7. CASE Verify(p) \/ Lookup(p) \/ UpdateUser(p) \/ Inspect(p) \/ Insert(p) \/ Scan(p) \/ Commit(p) \/ Abort(p)
    BY <1>t, <1>7 DEF Verify, Lookup, UpdateUser, Inspect, Insert, Scan, Commit, Abort, Answer, Continue, Goto, TxTypeOK
  <1> QED
    BY <1>1, <1>3, <1>4, <1>5, <1>6, <1>7 DEF TxNext, LockStep, LocalStep, SameControl

LEMMA RefusalNext ==
    TxInv /\ SessionInv /\ FamilyInv /\ RefusalInv /\ [TxNext]_vars => RefusalInv'
  <1> SUFFICES ASSUME TxInv, SessionInv, FamilyInv, RefusalInv, [TxNext]_vars, NEW p \in Procs
               PROVE  /\ out'[p] # "none" => pc'[p] = "done"
                      /\ out'[p] \in Refusals => op'[p] = "refresh" /\ Over(pres[p])'
    BY DEF RefusalInv
  <1>1. out'[p] # "none" => pc'[p] = "done"
    BY DoneStep DEF RefusalInv, SameControl
  <1>2. ASSUME out'[p] \in Refusals PROVE op'[p] = "refresh" /\ Over(pres[p])'
    <2>1. CASE Inspect(p) /\ out'[p] = Verdict(pres[p])
      <3>1. TypeOK /\ pres[p] \in Tokens
        BY <2>1 DEF SessionInv, TxInv, Shape, Inspect
      <3>2. CASE Verdict(pres[p]) = "reuse"
        <4>1. pc'[p] = "scan"
          BY <2>1, <3>2 DEF Inspect, Continue, Goto, TxInv, TxTypeOK
        <4> QED
          BY <1>1, <1>2, <4>1 DEF Refusals
      <3>3. CASE Verdict(pres[p]) \in {"expired", "revoked"}
        <4>1. op[p] = "refresh" /\ Over(pres[p]) /\ UNCHANGED <<op, pres>>
          BY <2>1, <3>3, InspectEnds DEF Inspect, Answer
        <4>2. Over(pres[p])'
          <5>1. ASSUME NEW x, Over(x) PROVE Over(x)'
            BY <5>1, OverStays
          <5> QED
            BY <4>1, <5>1 DEF Over
        <4> QED
          BY <4>1, <4>2
      <3> QED
        BY <1>2, <2>1, <3>2, <3>3 DEF Refusals
    <2>2. CASE Commit(p) /\ op[p] = "refresh" /\ new[p] = None
      BY <2>2, ReuseEnds DEF Commit, Answer
    <2>3. CASE out'[p] = out[p]
      <3>1. op[p] = "refresh" /\ pc[p] = "done" /\ Over(pres[p])
        BY <1>2, <2>3 DEF RefusalInv, Refusals
      <3>2. SameControl(p)
        BY <1>2, <3>1, DoneStep DEF Refusals
      <3>3. ASSUME NEW x, Over(x) PROVE Over(x)'
        BY <3>3, OverStays
      <3> QED
        BY <3>1, <3>2, <3>3 DEF Over, SameControl
    <2> QED
      BY <1>2, <2>1, <2>2, <2>3, OutStep DEF Refusals
  <1> QED
    BY <1>1, <1>2

\* Whoever is told that the refresh token is expired, revoked or reused is not
\* followed by somebody who still uses the same login.  handleUnusable decides
\* under the users lock, where no rotation of the family can be under way, and
\* once nothing of a family is usable nothing becomes usable again.
THEOREM RefusalIsFinal == TxSpec => []RefusalEndsFamily
  <1>1. TxInit => RefusalInv
    BY DEF TxInit, RefusalInv, Refusals
  <1>2. TxInv /\ SessionInv /\ FamilyInv /\ RefusalInv /\ [TxNext]_vars => RefusalInv'
    BY RefusalNext
  <1>3. RefusalInv => RefusalEndsFamily
    BY DEF RefusalInv, RefusalEndsFamily, Refusals, Over, FamilyLive, Family
  <1> QED
    BY <1>1, <1>2, <1>3, TxInvariant, PTL DEF TxSpec
=============================================================================
