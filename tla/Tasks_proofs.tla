---------------------------- MODULE Tasks_proofs ----------------------------
(***************************************************************************)
(* Proofs about Tasks, for any users, tasks, request handlers, inputs and  *)
(* attempts.  A handler works on copies that may be stale; what it still   *)
(* knows of the table is Facts.  Other steps keep Facts because an owner   *)
(* never changes, an id is never used again, and every change of a status  *)
(* is counted for the toggles it overtakes.                                *)
(***************************************************************************)
EXTENDS Tasks, TLAPS, FiniteSetTheorems

\* Which calls belong to which operation, and when there is an answer.
Shape(p) ==
    /\ pc[p] = "idle" => /\ op[p] = "none" /\ out[p] = "none" /\ actor[p] = None /\ id[p] = None
                         /\ arg[p] = NoEdit /\ tries[p] = 0 /\ page[p] = NoPage
    /\ pc[p] = "done" => op[p] # "none" /\ out[p] # "none"
    /\ pc[p] \notin {"idle", "done"} => out[p] = "none" /\ actor[p] \in Users
    /\ pc[p] = "insert" => op[p] = "create"
    /\ pc[p] = "read" => op[p] \in {"get", "toggle", "delete"}
    /\ pc[p] = "delete" => op[p] = "delete"
    /\ pc[p] = "update" => op[p] = "update" /\ arg[p] \in Edits
    /\ pc[p] \in {"cas", "classify"} => op[p] = "toggle"
    /\ pc[p] \in {"count", "select"} => op[p] = "list" /\ arg[p] \in Queries
    /\ pc[p] = "select" => arg[p].status # "bogus"
    /\ pc[p] \in {"read", "delete", "update", "cas", "classify"} => id[p] \in TaskIds
    /\ pc[p] \in {"read", "cas", "classify"} => tries[p] < MaxAttempts

\* What p knows of the table.
Facts(p) ==
    /\ id[p] \in TaskIds => task[id[p]].st # "free"
    /\ pc[p] = "delete" /\ task[id[p]].st = "stored" => Owned(p)
    /\ tries[p] <= moved[p]
    /\ pc[p] = "cas" /\ Owned(p) /\ task[id[p]].status # seen[p] => tries[p] < moved[p]
    /\ pc[p] = "classify" /\ Owned(p) => tries[p] < moved[p]
    /\ pc[p] = "select" /\ ~page[p].stale => page[p].total = Cardinality(Matching(task, p))

\* PageAddsUp for one request.
AddsUp(p) ==
    op[p] = "list" /\ out[p] = "ok" =>
        /\ page[p].rows <= MaxPageSize
        /\ ~page[p].stale => page[p].rows = RowsOnPage(arg[p], page[p].total)

TaskInv ==
    /\ TypeOK
    /\ TasksHaveOwners
    /\ \A p \in Requests : Shape(p) /\ Facts(p) /\ AddsUp(p)

-----------------------------------------------------------------------------
(* Requests do not disturb each other.                                     *)

SameControl(q) ==
    /\ pc'[q] = pc[q] /\ op'[q] = op[q] /\ actor'[q] = actor[q] /\ id'[q] = id[q] /\ arg'[q] = arg[q]
    /\ seen'[q] = seen[q] /\ tries'[q] = tries[q] /\ out'[q] = out[q]

\* A known id is not used again and a task keeps its owner.
Aged(i) ==
    task[i].st # "free" =>
        /\ task'[i].st # "free"
        /\ task'[i].st = "stored" => task[i].st = "stored" /\ task'[i].own = task[i].own

\* A step as a request that does not take it sees it.
Undisturbed(q) ==
    /\ \A i \in TaskIds : Aged(i)
    /\ moved[q] <= moved'[q]
    /\ op[q] = "toggle" /\ id[q] \in TaskIds /\ task'[id[q]].st = "stored"
          => task'[id[q]].status = task[id[q]].status \/ moved[q] < moved'[q] \/ moved'[q] = MaxAttempts
    /\ page'[q].total = page[q].total /\ page'[q].rows = page[q].rows
    /\ page'[q].stale = (page[q].stale \/ (pc[q] = "select" /\ Matching(task', q) # Matching(task, q)))

LEMMA PageType ==
    ASSUME TypeOK, NEW q \in Requests
    PROVE  page[q] \in [total : Nat, rows : Nat, stale : BOOLEAN]
  BY DEF TypeOK

LEMMA StableShape ==
    ASSUME NEW q \in Requests, Shape(q), SameControl(q), pc[q] = "idle" => page'[q] = page[q]
    PROVE  Shape(q)'
  BY DEF Shape, SameControl

LEMMA StableFacts ==
    ASSUME TypeOK, TypeOK', NEW q \in Requests, Shape(q), Facts(q), SameControl(q), Undisturbed(q)
    PROVE  Facts(q)'
  <1> USE DEF SameControl
  <1>t. tries[q] \in Nat /\ moved[q] \in Nat /\ moved'[q] \in Nat /\ MaxAttempts \in Nat
    BY TasksAssumption DEF TypeOK
  <1>1. id[q] \in TaskIds => task'[id[q]].st # "free"
    BY DEF Facts, Undisturbed, Aged
  <1>2. id[q] \in TaskIds /\ Owned(q)' => Owned(q)
    BY DEF Facts, Undisturbed, Aged, Owned
  <1>3. pc[q] = "delete" /\ task'[id[q]].st = "stored" => task'[id[q]].own = actor[q]
    BY DEF Facts, Shape, Undisturbed, Aged, Owned
  <1>4. tries[q] <= moved'[q]
    BY <1>t DEF Facts, Undisturbed
  <1>5. pc[q] = "cas" /\ Owned(q)' /\ task'[id[q]].status # seen[q] => tries[q] < moved'[q]
    <2> SUFFICES ASSUME pc[q] = "cas", Owned(q)', task'[id[q]].status # seen[q] PROVE tries[q] < moved'[q]
      OBVIOUS
    <2>1. op[q] = "toggle" /\ id[q] \in TaskIds /\ tries[q] < MaxAttempts
      BY DEF Shape
    <2>2. Owned(q) /\ task'[id[q]].st = "stored"
      BY <1>2, <2>1 DEF Owned
    <2>3. CASE task'[id[q]].status = task[id[q]].status
      BY <1>t, <2>2, <2>3 DEF Facts, Undisturbed
    <2>4. CASE moved[q] < moved'[q] \/ moved'[q] = MaxAttempts
      BY <1>t, <2>1, <2>4 DEF Facts
    <2> QED
      BY <2>1, <2>2, <2>3, <2>4 DEF Undisturbed
  <1>6. pc[q] = "classify" /\ Owned(q)' => tries[q] < moved'[q]
    BY <1>t, <1>2 DEF Facts, Shape, Undisturbed
  <1>7. pc[q] = "select" /\ ~page'[q].stale => page'[q].total = Cardinality(Matching(task', q))
    BY DEF Facts, Undisturbed
  <1>8. Matching(task, q)' = Matching(task', q)
    BY DEF Matching
  <1> QED
    BY <1>1, <1>3, <1>4, <1>5, <1>6, <1>7, <1>8 DEF Facts, Owned

LEMMA StablePage ==
    ASSUME TypeOK, TypeOK', NEW q \in Requests, Shape(q), AddsUp(q), SameControl(q), Undisturbed(q)
    PROVE  AddsUp(q)'
  <1>1. out[q] = "ok" => pc[q] = "done"
    BY DEF Shape, TypeOK
  <1>2. out[q] = "ok" => page'[q].stale = page[q].stale
    BY <1>1, PageType DEF Undisturbed
  <1> QED
    BY <1>2 DEF AddsUp, SameControl, Undisturbed, RowsOnPage, clampPage

\* A step of p keeps the invariant if it does so for p and disturbs nobody.
LEMMA Frame ==
    ASSUME TaskInv, TypeOK', TasksHaveOwners', NEW p,
           \A q \in Requests : q # p => SameControl(q) /\ Undisturbed(q) /\ (pc[q] = "idle" => page'[q] = page[q]),
           p \in Requests => Shape(p)' /\ Facts(p)' /\ AddsUp(p)'
    PROVE  TaskInv'
  <1>1. ASSUME NEW q \in Requests, q # p PROVE Shape(q)' /\ Facts(q)' /\ AddsUp(q)'
    BY <1>1, StableShape, StableFacts, StablePage DEF TaskInv
  <1> QED
    BY <1>1 DEF TaskInv

\* A step that leaves table, pages and counters of q alone.
LEMMA Quiet ==
    ASSUME TypeOK, NEW q \in Requests, task' = task, moved'[q] = moved[q], page'[q] = page[q]
    PROVE  Undisturbed(q)
  <1>1. page[q].stale \in BOOLEAN /\ moved[q] \in Nat
    BY PageType, TasksAssumption DEF TypeOK
  <1> QED
    BY <1>1 DEF Undisturbed, Aged

\* A step by p that leaves the table alone keeps the invariant if it does so
\* for p.
LEMMA LocalFrame ==
    ASSUME TaskInv, TypeOK', UNCHANGED <<alive, task>>, NEW p \in Requests,
           \A q \in Requests : q # p => SameControl(q) /\ moved'[q] = moved[q] /\ page'[q] = page[q],
           Shape(p)', Facts(p)', AddsUp(p)'
    PROVE  TaskInv'
  <1>1. TasksHaveOwners'
    BY DEF TaskInv, TasksHaveOwners
  <1>2. \A q \in Requests : q # p => Undisturbed(q)
    BY Quiet DEF TaskInv
  <1> QED
    BY <1>1, <1>2, Frame

\* Store changes nothing of a page but whether it is stale.
LEMMA StorePages ==
    ASSUME TypeOK, NEW t, Store(t)
    PROVE  /\ page' \in [Requests -> [total : Nat, rows : Nat, stale : BOOLEAN]]
           /\ \A q \in Requests :
                 /\ page'[q].total = page[q].total /\ page'[q].rows = page[q].rows
                 /\ page'[q].stale = (page[q].stale \/ (pc[q] = "select" /\ Matching(task', q) # Matching(task, q)))
                 /\ pc[q] # "select" => page'[q] = page[q]
  <1> DEFINE changed(q) == pc[q] = "select" /\ Matching(t, q) # Matching(task, q)
  <1>1. task' = t /\ page' = [q \in Requests |-> [page[q] EXCEPT !.stale = @ \/ changed(q)]]
    BY DEF Store
  <1>2. ASSUME NEW q \in Requests
        PROVE  /\ page'[q] \in [total : Nat, rows : Nat, stale : BOOLEAN]
               /\ page'[q].total = page[q].total /\ page'[q].rows = page[q].rows
               /\ page'[q].stale = (page[q].stale \/ changed(q))
               /\ ~changed(q) => page'[q] = page[q]
    <2>1. page[q] \in [total : Nat, rows : Nat, stale : BOOLEAN] /\ changed(q) \in BOOLEAN
      BY PageType
    <2>2. page'[q] = [page[q] EXCEPT !.stale = page[q].stale \/ changed(q)]
      BY <1>1
    <2> HIDE DEF changed
    <2> QED
      BY <2>1, <2>2
  <1> QED
    BY <1>1, <1>2

\* The same for a step by p that stores table t.
LEMMA StoreFrame ==
    ASSUME TaskInv, NEW t \in [TaskIds -> TaskRow], Store(t), NEW p \in Requests,
           alive' = alive, \A i \in TaskIds : Aged(i),
           \A i \in TaskIds : t[i].st = "stored" => t[i].own \in alive,
           UNCHANGED <<reqvars, seen, tries>>, Written(p),
           moved' \in [Requests -> 0 .. MaxAttempts],
           \A q \in Requests :
              /\ moved[q] <= moved'[q]
              /\ q # p /\ op[q] = "toggle" /\ id[q] \in TaskIds /\ t[id[q]].st = "stored"
                    => \/ t[id[q]].status = task[id[q]].status
                       \/ moved[q] < moved'[q]
                       \/ moved'[q] = MaxAttempts,
           pc[p] \in {"insert", "delete", "update", "cas"}
    PROVE  TaskInv'
  <1>t. TypeOK /\ Shape(p) /\ Facts(p) /\ task' = t
    BY DEF TaskInv, Store
  <1>1. TypeOK'
    BY <1>t, StorePages DEF TypeOK, reqvars, Written, Answer, Goto
  <1>2. TasksHaveOwners'
    BY <1>t DEF TasksHaveOwners
  <1>3. pc'[p] = "done" /\ out'[p] \in {"ok", "failed"} /\ op[p] \notin {"none", "list"} /\ op'[p] = op[p]
    BY <1>t DEF TypeOK, reqvars, Written, Answer, Goto, Shape
  <1>4. \A q \in Requests : q # p => SameControl(q)
    BY <1>t DEF TypeOK, reqvars, Written, Answer, Goto, SameControl
  <1>5. \A q \in Requests : q # p => Undisturbed(q) /\ (pc[q] = "idle" => page'[q] = page[q])
    BY <1>t, StorePages DEF Undisturbed
  <1>6. Shape(p)'
    BY <1>3 DEF Shape
  <1>7. Facts(p)'
    <2>1. tries[p] \in Nat /\ moved[p] \in Nat /\ moved'[p] \in Nat /\ moved[p] <= moved'[p]
      BY <1>t, TasksAssumption DEF TypeOK
    <2> QED
      BY <1>t, <1>3, <2>1 DEF Facts, Aged, reqvars
  <1>8. AddsUp(p)'
    BY <1>3 DEF AddsUp
  <1> QED
    BY <1>1, <1>2, <1>4, <1>5, <1>6, <1>7, <1>8, Frame

LEMMA StartKeepsInv ==
    ASSUME TaskInv, NEW p \in Requests, NEW o \in Operations,
           NEW l \in {"insert", "read", "update", "count"}, NEW i \in TaskIds \cup {None},
           NEW x \in Edits \cup Queries, Start(p, o, l, i, x),
           l = "insert" => o = "create",
           l = "read" => o \in {"get", "toggle", "delete"},
           l = "update" => o = "update" /\ x \in Edits,
           l = "count" => o = "list" /\ x \in Queries,
           l \in {"read", "update"} => i \in TaskIds,
           i \in TaskIds => task[i].st # "free"
    PROVE  TaskInv'
  <1>t. TypeOK /\ Shape(p) /\ Facts(p) /\ pc[p] = "idle"
    BY DEF TaskInv, Start
  <1>1. PICK a \in Users : actor' = [actor EXCEPT ![p] = a]
    BY DEF Start
  <1>2. /\ pc'[p] = l /\ op'[p] = o /\ actor'[p] = a /\ id'[p] = i /\ arg'[p] = x
        /\ UNCHANGED <<alive, task, seen, tries, out, page, moved>>
    BY <1>t, <1>1 DEF Start, Goto, TypeOK
  <1>3. TypeOK'
    BY <1>t, <1>1 DEF Start, Goto, TypeOK
  <1>4. \A q \in Requests : q # p => SameControl(q)
    BY <1>t, <1>1 DEF Start, Goto, TypeOK, SameControl
  <1>5. Shape(p)'
    BY <1>t, <1>2, TasksAssumption DEF Shape
  <1>6. Facts(p)'
    BY <1>t, <1>2 DEF Facts
  <1>7. AddsUp(p)'
    BY <1>t, <1>2 DEF AddsUp, Shape
  <1> QED
    BY <1>2, <1>3, <1>4, <1>5, <1>6, <1>7, LocalFrame

LEMMA ForbidKeepsInv ==
    ASSUME TaskInv, NEW p \in Requests, Forbid(p)
    PROVE  TaskInv'
  <1>t. TypeOK /\ Shape(p) /\ Facts(p) /\ pc[p] = "idle"
    BY DEF TaskInv, Forbid
  <1>1. PICK o \in Operations : op' = [op EXCEPT ![p] = o]
    BY DEF Forbid
  <1>2. /\ pc'[p] = "done" /\ op'[p] = o /\ out'[p] = "forbidden" /\ o # "none"
        /\ UNCHANGED <<alive, task, id, arg, seen, tries, page, moved>>
    BY <1>t, <1>1 DEF Forbid, Answer, Goto, TypeOK, Operations
  <1>3. TypeOK'
    BY <1>t, <1>1 DEF Forbid, Answer, Goto, TypeOK
  <1>4. \A q \in Requests : q # p => SameControl(q)
    BY <1>t, <1>1 DEF Forbid, Answer, Goto, TypeOK, SameControl
  <1>5. Shape(p)' /\ Facts(p)' /\ AddsUp(p)'
    BY <1>t, <1>2 DEF Shape, Facts, AddsUp
  <1> QED
    BY <1>2, <1>3, <1>4, <1>5, LocalFrame

LEMMA BeginKeepsInv ==
    ASSUME TaskInv, NEW p \in Requests, Begin(p)
    PROVE  TaskInv'
  <1>e. NoEdit \in Edits /\ [NoEdit EXCEPT !.title = "blank"] \in Edits
    BY DEF NoEdit, Edits
  <1>1. CASE StartCreate(p)
    BY <1>1, <1>e, StartKeepsInv, TasksAssumption DEF StartCreate, Operations
  <1>2. CASE StartGet(p) \/ StartToggle(p) \/ StartDelete(p)
    BY <1>2, <1>e, StartKeepsInv DEF StartGet, StartToggle, StartDelete, Known, Operations
  <1>3. CASE StartUpdate(p)
    BY <1>3, StartKeepsInv, TasksAssumption DEF StartUpdate, Known, Operations
  <1>4. CASE StartList(p)
    BY <1>4, StartKeepsInv, TasksAssumption DEF StartList, Operations
  <1> QED
    BY <1>1, <1>2, <1>3, <1>4, ForbidKeepsInv DEF Begin

-----------------------------------------------------------------------------
(* Steps that leave the table alone.                                       *)

\* An answer without effect.
LEMMA AnswerKeepsInv ==
    ASSUME TaskInv, NEW p \in Requests, pc[p] \notin {"idle", "done"},
           NEW o \in {"ok", "failed", "invalid", "notfound", "conflict"}, Answer(p, o),
           op[p] = "list" => o # "ok",
           UNCHANGED <<reqvars, alive, task, seen, page, moved>>,
           tries' \in [Requests -> 0 .. MaxAttempts], tries'[p] <= moved[p],
           \A q \in Requests : q # p => tries'[q] = tries[q]
    PROVE  TaskInv'
  <1>t. TypeOK /\ Shape(p) /\ Facts(p)
    BY DEF TaskInv
  <1>1. pc'[p] = "done" /\ out'[p] = o /\ op'[p] = op[p] /\ op[p] # "none"
    BY <1>t DEF Answer, Goto, TypeOK, Shape, reqvars
  <1>2. TypeOK'
    BY <1>t DEF Answer, Goto, TypeOK, reqvars
  <1>3. \A q \in Requests : q # p => SameControl(q)
    BY <1>t DEF Answer, Goto, TypeOK, reqvars, SameControl
  <1>4. Shape(p)' /\ AddsUp(p)'
    BY <1>1 DEF Shape, AddsUp
  <1>5. Facts(p)'
    BY <1>t, <1>1 DEF Facts, reqvars
  <1> QED
    BY <1>2, <1>3, <1>4, <1>5, LocalFrame

LEMMA TimeoutKeepsInv ==
    ASSUME TaskInv, NEW p \in Requests, Timeout(p)
    PROVE  TaskInv'
  BY AnswerKeepsInv DEF Timeout, TaskInv, TypeOK, Facts

LEMMA ReadKeepsInv ==
    ASSUME TaskInv, NEW p \in Requests, Read(p)
    PROVE  TaskInv'
  <1>t. /\ TypeOK /\ Shape(p) /\ Facts(p) /\ pc[p] = "read" /\ id[p] \in TaskIds
        /\ op[p] \in {"get", "toggle", "delete"}
        /\ UNCHANGED <<reqvars, alive, task, tries, page, moved>>
    BY DEF TaskInv, Read, Shape
  <1>1. CASE (Answer(p, "notfound") \/ (op[p] = "get" /\ Answer(p, "ok"))) /\ UNCHANGED seen
    BY <1>t, <1>1, AnswerKeepsInv DEF TypeOK, Facts
  <1>2. CASE Owned(p) /\ op[p] = "delete" /\ Goto(p, "delete") /\ UNCHANGED <<out, seen>>
    <2>1. pc'[p] = "delete"
      BY <1>t, <1>2 DEF Goto, TypeOK
    <2>2. TypeOK'
      BY <1>t, <1>2 DEF Goto, TypeOK, reqvars
    <2>3. \A q \in Requests : q # p => SameControl(q)
      BY <1>t, <1>2 DEF Goto, TypeOK, SameControl, reqvars
    <2>4. Shape(p)' /\ AddsUp(p)'
      BY <1>t, <1>2, <2>1 DEF Shape, AddsUp, reqvars
    <2>5. Facts(p)'
      BY <1>t, <1>2, <2>1 DEF Facts, Owned, reqvars
    <2> QED
      BY <1>t, <2>2, <2>3, <2>4, <2>5, LocalFrame
  <1>3. CASE /\ Owned(p) /\ op[p] = "toggle" /\ Goto(p, "cas") /\ UNCHANGED out
             /\ seen' = [seen EXCEPT ![p] = task[id[p]].status]
    <2>1. pc'[p] = "cas" /\ seen'[p] = task[id[p]].status /\ task[id[p]].status \in Statuses
      BY <1>t, <1>3 DEF Goto, TypeOK, TaskRow
    <2>2. TypeOK'
      BY <1>t, <1>3, <2>1 DEF Goto, TypeOK, reqvars
    <2>3. \A q \in Requests : q # p => SameControl(q)
      BY <1>t, <1>3 DEF Goto, TypeOK, SameControl, reqvars
    <2>4. Shape(p)' /\ AddsUp(p)'
      BY <1>t, <1>3, <2>1 DEF Shape, AddsUp, reqvars
    <2>5. Facts(p)'
      BY <1>t, <1>3, <2>1 DEF Facts, Owned, reqvars
    <2> QED
      BY <1>t, <2>2, <2>3, <2>4, <2>5, LocalFrame
  <1> QED
    BY <1>1, <1>2, <1>3 DEF Read, Visible

\* A toggle is one attempt further, and was overtaken once more.
LEMMA ClassifyKeepsInv ==
    ASSUME TaskInv, NEW p \in Requests, Classify(p)
    PROVE  TaskInv'
  <1>t. /\ TypeOK /\ Shape(p) /\ Facts(p) /\ pc[p] = "classify" /\ op[p] = "toggle" /\ id[p] \in TaskIds
        /\ UNCHANGED <<reqvars, alive, task, seen, page, moved>>
        /\ tries[p] \in Nat /\ moved[p] \in Nat /\ MaxAttempts \in Nat /\ tries[p] < MaxAttempts
    BY TasksAssumption DEF TaskInv, Classify, Shape, TypeOK
  <1>1. CASE ~Owned(p)
    <2>1. Answer(p, "notfound") /\ UNCHANGED tries
      BY <1>1 DEF Classify, Missed
    <2> QED
      BY <1>t, <2>1, AnswerKeepsInv DEF TypeOK, Facts
  <1>2. CASE Owned(p)
    <2>1. /\ tries' = [tries EXCEPT ![p] = tries[p] + 1]
          /\ IF tries[p] + 1 < MaxAttempts THEN Goto(p, "read") /\ UNCHANGED out ELSE Answer(p, "conflict")
      BY <1>2 DEF Classify, Missed, MayRetry, Attempts
    <2>2. tries[p] < moved[p]
      BY <1>t, <1>2 DEF Facts
    <2>3. /\ tries' \in [Requests -> 0 .. MaxAttempts] /\ tries'[p] = tries[p] + 1 /\ tries'[p] <= moved[p]
          /\ \A q \in Requests : q # p => tries'[q] = tries[q]
      BY <1>t, <2>1, <2>2 DEF TypeOK
    <2>4. CASE tries[p] + 1 < MaxAttempts
      <3>1. Goto(p, "read") /\ UNCHANGED out /\ pc'[p] = "read"
        BY <1>t, <2>1, <2>4 DEF Goto, TypeOK
      <3>2. TypeOK'
        BY <1>t, <2>3, <3>1 DEF Goto, TypeOK, reqvars
      <3>3. \A q \in Requests : q # p => SameControl(q)
        BY <1>t, <2>3, <3>1 DEF Goto, TypeOK, SameControl, reqvars
      <3>4. Shape(p)' /\ AddsUp(p)'
        BY <1>t, <2>3, <2>4, <3>1 DEF Shape, AddsUp, reqvars
      <3>5. Facts(p)'
        BY <1>t, <2>3, <3>1 DEF Facts, reqvars
      <3> QED
        BY <1>t, <3>2, <3>3, <3>4, <3>5, LocalFrame
    <2>5. CASE ~(tries[p] + 1 < MaxAttempts)
      BY <1>t, <2>1, <2>3, <2>5, AnswerKeepsInv
    <2> QED
      BY <2>4, <2>5
  <1> QED
    BY <1>1, <1>2

\* A table has finitely many rows.
LEMMA CountType ==
    ASSUME NEW p \in Requests
    PROVE  Cardinality(Matching(task, p)) \in Nat
  <1>1. Matching(task, p) \subseteq TaskIds
    BY DEF Matching
  <1>2. IsFiniteSet(Matching(task, p))
    BY <1>1, TasksAssumption, FS_Subset
  <1> QED
    BY <1>2, FS_CardinalityType

LEMMA CountKeepsInv ==
    ASSUME TaskInv, NEW p \in Requests, Count(p)
    PROVE  TaskInv'
  <1>t. /\ TypeOK /\ Shape(p) /\ Facts(p) /\ pc[p] = "count" /\ op[p] = "list" /\ arg[p] \in Queries
        /\ UNCHANGED <<reqvars, alive, task, seen, tries, moved>>
    BY DEF TaskInv, Count, Shape
  <1>1. CASE arg[p].status = "bogus"
    BY <1>t, <1>1, AnswerKeepsInv DEF Count, TypeOK, Facts
  <1>2. CASE arg[p].status # "bogus"
    <2> DEFINE n == Cardinality(Matching(task, p))
    <2>1. Goto(p, "select") /\ UNCHANGED out /\ page' = [page EXCEPT ![p].total = n] /\ n \in Nat
      BY <1>2, CountType DEF Count, Counted
    <2> HIDE DEF n
    <2>2. /\ page[p] \in [total : Nat, rows : Nat, stale : BOOLEAN]
          /\ page'[p] = [page[p] EXCEPT !.total = n] /\ \A q \in Requests : q # p => page'[q] = page[q]
      BY <1>t, <2>1, PageType DEF TypeOK
    <2>3. /\ page'[p] \in [total : Nat, rows : Nat, stale : BOOLEAN] /\ page'[p].total = n
          /\ page' \in [Requests -> [total : Nat, rows : Nat, stale : BOOLEAN]]
      BY <1>t, <2>1, <2>2 DEF TypeOK
    <2>4. pc'[p] = "select"
      BY <1>t, <2>1 DEF Goto, TypeOK
    <2>5. TypeOK'
      BY <1>t, <2>1, <2>3 DEF Goto, TypeOK, reqvars
    <2>6. \A q \in Requests : q # p => SameControl(q)
      BY <1>t, <2>1 DEF Goto, TypeOK, SameControl, reqvars
    <2>7. Shape(p)' /\ AddsUp(p)'
      BY <1>t, <1>2, <2>1, <2>4 DEF Shape, AddsUp, reqvars
    <2>8. Matching(task, p)' = Matching(task, p)
      BY <1>t DEF Matching, reqvars
    <2>9. Facts(p)'
      BY <1>t, <2>3, <2>4, <2>8 DEF Facts, reqvars, n
    <2> QED
      BY <1>t, <2>2, <2>5, <2>6, <2>7, <2>9, LocalFrame
  <1> QED
    BY <1>1, <1>2

\* LIMIT is positive and at most MaxPageSize (clampPage).
LEMMA PageBound ==
    ASSUME NEW x \in Queries, NEW n \in Nat
    PROVE  RowsOnPage(x, n) \in Nat /\ RowsOnPage(x, n) <= MaxPageSize
  BY TasksAssumption DEF RowsOnPage, clampPage, Queries

LEMMA SelectKeepsInv ==
    ASSUME TaskInv, NEW p \in Requests, Select(p)
    PROVE  TaskInv'
  <1>t. /\ TypeOK /\ Shape(p) /\ Facts(p) /\ pc[p] = "select" /\ op[p] = "list" /\ arg[p] \in Queries
        /\ UNCHANGED <<reqvars, alive, task, seen, tries, moved>>
    BY DEF TaskInv, Select, Shape
  <1> DEFINE n == Cardinality(Matching(task, p))
             r == RowsOnPage(arg[p], n)
  <1>1. n \in Nat /\ r \in Nat /\ r <= MaxPageSize
    <2>1. n \in Nat
      BY CountType
    <2> QED
      BY <1>t, <2>1, PageBound
  <1>2. Answer(p, "ok") /\ page' = [page EXCEPT ![p].rows = r]
    BY DEF Select
  <1>n. ~page[p].stale => page[p].total = n
    BY <1>t DEF Facts
  <1>r. r = RowsOnPage(arg[p], n)
    OBVIOUS
  <1> HIDE DEF n, r
  <1>3. /\ page[p] \in [total : Nat, rows : Nat, stale : BOOLEAN]
        /\ page'[p] = [page[p] EXCEPT !.rows = r] /\ \A q \in Requests : q # p => page'[q] = page[q]
    BY <1>t, <1>2, PageType DEF TypeOK
  <1>4. /\ page'[p].total = page[p].total /\ page'[p].stale = page[p].stale /\ page'[p].rows = r
        /\ page' \in [Requests -> [total : Nat, rows : Nat, stale : BOOLEAN]]
    BY <1>t, <1>1, <1>2, <1>3 DEF TypeOK
  <1>5. pc'[p] = "done" /\ out'[p] = "ok"
    BY <1>t, <1>2 DEF Answer, Goto, TypeOK
  <1>6. TypeOK'
    BY <1>t, <1>2, <1>4 DEF Answer, Goto, TypeOK, reqvars
  <1>7. \A q \in Requests : q # p => SameControl(q)
    BY <1>t, <1>2 DEF Answer, Goto, TypeOK, SameControl, reqvars
  <1>8. Shape(p)' /\ Facts(p)'
    BY <1>t, <1>5 DEF Shape, Facts, reqvars
  <1>9. AddsUp(p)'
    BY <1>t, <1>1, <1>4, <1>n, <1>r DEF AddsUp, reqvars, RowsOnPage, clampPage
  <1> QED
    BY <1>t, <1>3, <1>6, <1>7, <1>8, <1>9, LocalFrame

LEMMA ReturnKeepsInv ==
    ASSUME TaskInv, NEW p \in Requests, Return(p)
    PROVE  TaskInv'
  <1>t. TypeOK /\ Shape(p) /\ Facts(p) /\ UNCHANGED <<alive, task>>
    BY DEF TaskInv, Return
  <1>1. /\ pc'[p] = "idle" /\ op'[p] = "none" /\ actor'[p] = None /\ id'[p] = None /\ arg'[p] = NoEdit
        /\ tries'[p] = 0 /\ out'[p] = "none" /\ page'[p] = NoPage /\ moved'[p] = 0
    BY <1>t DEF Return, Goto, TypeOK
  <1>2. TypeOK'
    BY <1>t, TasksAssumption DEF Return, Goto, TypeOK, NoPage, NoEdit, Edits, Statuses
  <1>3. \A q \in Requests : q # p => SameControl(q) /\ moved'[q] = moved[q] /\ page'[q] = page[q]
    BY <1>t DEF Return, Goto, TypeOK, SameControl
  <1>4. Shape(p)' /\ AddsUp(p)'
    BY <1>1 DEF Shape, AddsUp
  <1>5. Facts(p)'
    BY <1>1, TasksAssumption DEF Facts
  <1> QED
    BY <1>t, <1>2, <1>3, <1>4, <1>5, LocalFrame

-----------------------------------------------------------------------------
(* Steps that change the table.                                            *)

LEMMA CreateKeepsInv ==
    ASSUME TaskInv, NEW p \in Requests, Create(p)
    PROVE  TaskInv'
  <1>t. /\ TypeOK /\ TasksHaveOwners /\ Shape(p) /\ Facts(p) /\ pc[p] = "insert" /\ op[p] = "create"
        /\ UNCHANGED <<reqvars, alive, seen, tries, moved>>
    BY DEF TaskInv, Create, Shape
  <1>1. CASE (Answer(p, "failed") \/ Answer(p, "invalid")) /\ UNCHANGED <<task, page>>
    BY <1>t, <1>1, AnswerKeepsInv DEF TypeOK, Facts
  <1>2. CASE /\ actor[p] \in alive /\ Written(p)
             /\ \E i \in TaskIds :
                   /\ task[i].st = "free"
                   /\ Store([task EXCEPT ![i] = [NoTask EXCEPT !.st = "stored", !.own = actor[p]]])
    <2>1. PICK i \in TaskIds :
             /\ task[i].st = "free"
             /\ Store([task EXCEPT ![i] = [NoTask EXCEPT !.st = "stored", !.own = actor[p]]])
      BY <1>2
    <2> DEFINE r == [NoTask EXCEPT !.st = "stored", !.own = actor[p]]
               t == [task EXCEPT ![i] = r]
    <2>2. r \in TaskRow /\ r.st = "stored" /\ r.own = actor[p]
      BY <1>t DEF NoTask, TaskRow, Statuses, TypeOK, Shape
    <2> HIDE DEF r
    <2>3. t \in [TaskIds -> TaskRow] /\ t[i] = r /\ \A j \in TaskIds : j # i => t[j] = task[j]
      BY <1>t, <2>2 DEF TypeOK
    <2>4. Store(t) /\ task' = t
      BY <2>1 DEF Store, r
    <2> HIDE DEF t
    <2>5. \A j \in TaskIds : Aged(j)
      BY <2>1, <2>3, <2>4 DEF Aged
    <2>6. \A j \in TaskIds : t[j].st = "stored" => t[j].own \in alive
      BY <1>t, <1>2, <2>2, <2>3 DEF TasksHaveOwners
    <2>7. ASSUME NEW q \in Requests, id[q] \in TaskIds PROVE t[id[q]] = task[id[q]]
      <3>1. task[id[q]].st # "free"
        BY <2>7 DEF TaskInv, Facts
      <3> QED
        BY <2>1, <2>3, <2>7, <3>1
    <2>8. moved' \in [Requests -> 0 .. MaxAttempts] /\ \A q \in Requests : moved[q] <= moved'[q]
      BY <1>t, TasksAssumption DEF TypeOK
    <2> QED
      BY <1>t, <1>2, <2>3, <2>4, <2>5, <2>6, <2>7, <2>8, StoreFrame
  <1> QED
    BY <1>1, <1>2 DEF Create

LEMMA DeleteKeepsInv ==
    ASSUME TaskInv, NEW p \in Requests, Delete(p)
    PROVE  TaskInv'
  <1>t. /\ TypeOK /\ TasksHaveOwners /\ Shape(p) /\ Facts(p) /\ pc[p] = "delete" /\ op[p] = "delete" /\ id[p] \in TaskIds
        /\ UNCHANGED <<reqvars, alive, seen, tries, moved>>
    BY DEF TaskInv, Delete, Shape
  <1>1. CASE task[id[p]].st # "stored"
    BY <1>t, <1>1, AnswerKeepsInv DEF Delete, TypeOK, Facts
  <1>2. CASE task[id[p]].st = "stored"
    <2> DEFINE t == [task EXCEPT ![id[p]] = Gone]
    <2>1. Store(t) /\ Written(p)
      BY <1>2 DEF Delete
    <2>2. Gone \in TaskRow /\ Gone.st = "deleted"
      BY DEF Gone, NoTask, TaskRow, Statuses
    <2>3. t \in [TaskIds -> TaskRow] /\ t[id[p]] = Gone /\ \A j \in TaskIds : j # id[p] => t[j] = task[j]
      BY <1>t, <2>2 DEF TypeOK
    <2>4. task' = t
      BY <2>1 DEF Store
    <2> HIDE DEF t
    <2>5. \A j \in TaskIds : Aged(j) /\ (t[j].st = "stored" => t[j] = task[j] /\ t[j].own \in alive)
      BY <1>t, <2>2, <2>3, <2>4 DEF Aged, TasksHaveOwners
    <2>6. moved' \in [Requests -> 0 .. MaxAttempts] /\ \A q \in Requests : moved[q] <= moved'[q]
      BY <1>t, TasksAssumption DEF TypeOK
    <2> QED
      BY <1>t, <2>1, <2>3, <2>5, <2>6, StoreFrame
  <1> QED
    BY <1>1, <1>2

\* CountMove counts for those who toggle the task, up to MaxAttempts.
LEMMA MoveCounts ==
    ASSUME TypeOK, NEW p \in Requests, NEW i \in TaskIds, CountMove(p, i)
    PROVE  /\ moved' \in [Requests -> 0 .. MaxAttempts]
           /\ \A q \in Requests :
                 /\ moved[q] <= moved'[q]
                 /\ q # p /\ op[q] = "toggle" /\ id[q] = i => moved[q] < moved'[q] \/ moved'[q] = MaxAttempts
  <1>1. \A q \in Requests : moved[q] \in 0 .. MaxAttempts
    BY DEF TypeOK
  <1>2. \A q \in Requests : moved'[q] = IF q # p /\ op[q] = "toggle" /\ id[q] = i /\ moved[q] < MaxAttempts
                                        THEN moved[q] + 1 ELSE moved[q]
    BY DEF CountMove
  <1>3. \A q \in Requests : moved'[q] \in 0 .. MaxAttempts
    BY <1>1, <1>2, TasksAssumption
  <1> QED
    BY <1>1, <1>2, <1>3, TasksAssumption DEF CountMove

\* A row whose status or title was changed in place.
LEMMA ChangeKeepsInv ==
    ASSUME TaskInv, NEW p \in Requests, pc[p] \in {"update", "cas"}, Owned(p),
           NEW r \in TaskRow, r.st = "stored", r.own = task[id[p]].own,
           Store([task EXCEPT ![id[p]] = r]), Written(p),
           UNCHANGED <<reqvars, alive, seen, tries>>,
           \/ moved' = moved /\ r.status = task[id[p]].status
           \/ CountMove(p, id[p])
    PROVE  TaskInv'
  <1>t. TypeOK /\ TasksHaveOwners /\ Shape(p) /\ Facts(p) /\ id[p] \in TaskIds
    BY DEF TaskInv, Shape
  <1> DEFINE t == [task EXCEPT ![id[p]] = r]
  <1>1. t \in [TaskIds -> TaskRow] /\ t[id[p]] = r /\ \A j \in TaskIds : j # id[p] => t[j] = task[j]
    BY <1>t DEF TypeOK
  <1>2. Store(t) /\ task' = t
    BY DEF Store
  <1> HIDE DEF t
  <1>3. \A j \in TaskIds : Aged(j) /\ (t[j].st = "stored" => t[j].own \in alive)
    BY <1>t, <1>1, <1>2 DEF Aged, TasksHaveOwners, Owned
  <1>4. /\ moved' \in [Requests -> 0 .. MaxAttempts]
        /\ \A q \in Requests :
              /\ moved[q] <= moved'[q]
              /\ q # p /\ op[q] = "toggle" /\ id[q] = id[p]
                   => r.status = task[id[p]].status \/ moved[q] < moved'[q] \/ moved'[q] = MaxAttempts
    <2>1. CASE CountMove(p, id[p])
      BY <1>t, <2>1, MoveCounts
    <2>2. CASE moved' = moved /\ r.status = task[id[p]].status
      BY <1>t, <2>2, TasksAssumption DEF TypeOK
    <2> QED
      BY <2>1, <2>2
  <1>5. alive' = alive /\ UNCHANGED <<reqvars, seen, tries>>
    OBVIOUS
  <1>6. ASSUME NEW q \in Requests, q # p, op[q] = "toggle", id[q] \in TaskIds, t[id[q]].st = "stored"
        PROVE  t[id[q]].status = task[id[q]].status \/ moved[q] < moved'[q] \/ moved'[q] = MaxAttempts
    BY <1>1, <1>4, <1>6
  <1> QED
    BY <1>1, <1>2, <1>3, <1>4, <1>5, <1>6, StoreFrame

\* The row after an edit.
Edited(p) == [task[id[p]] EXCEPT !.title = IF arg[p].title = "keep" THEN @ ELSE arg[p].title,
                                 !.status = IF arg[p].status = "keep" THEN @ ELSE arg[p].status]

\* An edit that takes effect.
LEMMA EditEffect ==
    ASSUME TaskInv, NEW p \in Requests, Update(p), ValidEdit(arg[p]), Owned(p)
    PROVE  /\ Edited(p) \in TaskRow
           /\ Edited(p).st = "stored" /\ Edited(p).own = actor[p]
           /\ Edited(p).title = IF arg[p].title = "keep" THEN task[id[p]].title ELSE arg[p].title
           /\ Edited(p).status = IF arg[p].status = "keep" THEN task[id[p]].status ELSE arg[p].status
           /\ Store([task EXCEPT ![id[p]] = Edited(p)])
           /\ \/ moved' = moved /\ Edited(p).status = task[id[p]].status
              \/ CountMove(p, id[p])
  <1>t. TypeOK /\ pc[p] = "update" /\ id[p] \in TaskIds /\ arg[p] \in Edits /\ task[id[p]] \in TaskRow
    BY DEF TaskInv, Update, Shape, TypeOK
  <1> DEFINE e == arg[p]
             i == id[p]
             nt == IF e.title = "keep" THEN task[i].title ELSE e.title
             ns == IF e.status = "keep" THEN task[i].status ELSE e.status
  <1>1. nt \in {"first", "renamed"} /\ ns \in Statuses
    BY <1>t DEF ValidEdit, Edits, TaskRow
  <1>2. Edited(p) = [[task[i] EXCEPT !.title = nt] EXCEPT !.status = ns]
    BY <1>t DEF Edited, TaskRow
  <1>3. Store([[task EXCEPT ![i].title = nt] EXCEPT ![i].status = ns])
    <2>1. Store([task EXCEPT ![i].title = IF e.title = "keep" THEN @ ELSE e.title,
                             ![i].status = IF e.status = "keep" THEN @ ELSE e.status])
      BY DEF Update
    <2>2. [task EXCEPT ![i].title = IF e.title = "keep" THEN @ ELSE e.title,
                       ![i].status = IF e.status = "keep" THEN @ ELSE e.status]
          = [[task EXCEPT ![i].title = nt] EXCEPT ![i].status = ns]
      BY <1>t DEF TypeOK, TaskRow
    <2> QED
      BY <2>1, <2>2
  <1>4. IF e.status \in {"keep", task[i].status} THEN moved' = moved ELSE CountMove(p, i)
    BY DEF Update
  <1>5. e.status \in {"keep", task[i].status} => ns = task[i].status
    OBVIOUS
  <1> HIDE DEF nt, ns
  <1>6. [[task EXCEPT ![i].title = nt] EXCEPT ![i].status = ns] = [task EXCEPT ![i] = Edited(p)]
    BY <1>t, <1>2 DEF TypeOK
  <1>7. /\ Edited(p) \in TaskRow /\ Edited(p).st = task[i].st /\ Edited(p).own = task[i].own
        /\ Edited(p).title = nt /\ Edited(p).status = ns
    BY <1>t, <1>1, <1>2 DEF TaskRow
  <1> QED
    BY <1>3, <1>4, <1>5, <1>6, <1>7 DEF Owned, nt, ns

LEMMA UpdateKeepsInv ==
    ASSUME TaskInv, NEW p \in Requests, Update(p)
    PROVE  TaskInv'
  <1>t. /\ TypeOK /\ Shape(p) /\ Facts(p) /\ pc[p] = "update" /\ op[p] = "update"
        /\ UNCHANGED <<reqvars, alive, seen, tries>>
    BY DEF TaskInv, Update, Shape
  <1>1. CASE ~ValidEdit(arg[p]) \/ ~Owned(p)
    BY <1>t, <1>1, AnswerKeepsInv DEF Update, TypeOK, Facts
  <1>2. CASE ValidEdit(arg[p]) /\ Owned(p)
    <2>1. Written(p)
      BY <1>2 DEF Update
    <2>2. Edited(p) \in TaskRow /\ Edited(p).st = "stored" /\ Edited(p).own = task[id[p]].own
      BY <1>2, EditEffect DEF Owned
    <2>3. /\ Store([task EXCEPT ![id[p]] = Edited(p)])
          /\ \/ moved' = moved /\ Edited(p).status = task[id[p]].status
             \/ CountMove(p, id[p])
      BY <1>2, EditEffect
    <2> QED
      BY <1>t, <1>2, <2>1, <2>2, <2>3, ChangeKeepsInv
  <1> QED
    BY <1>1, <1>2

\* The row after a toggle.
Toggled(p) == [task[id[p]] EXCEPT !.status = NextStatus(seen[p])]

LEMMA ToggleEffect ==
    ASSUME TaskInv, NEW p \in Requests, CompareAndSetStatus(p), Owned(p), StatusUnchanged(p)
    PROVE  /\ Toggled(p) \in TaskRow
           /\ Toggled(p).st = "stored" /\ Toggled(p).own = actor[p] /\ Toggled(p).title = task[id[p]].title
           /\ Toggled(p).status = NextStatus(task[id[p]].status)
           /\ Store([task EXCEPT ![id[p]] = Toggled(p)])
           /\ CountMove(p, id[p]) /\ Written(p)
  <1>t. TypeOK /\ pc[p] = "cas" /\ id[p] \in TaskIds /\ task[id[p]] \in TaskRow
    BY DEF TaskInv, CompareAndSetStatus, Shape, TypeOK
  <1>1. NextStatus(seen[p]) \in Statuses /\ seen[p] = task[id[p]].status
    BY DEF NextStatus, Statuses, StatusUnchanged
  <1>2. Store([task EXCEPT ![id[p]].status = NextStatus(seen[p])]) /\ CountMove(p, id[p]) /\ Written(p)
    BY DEF CompareAndSetStatus
  <1>3. [task EXCEPT ![id[p]].status = NextStatus(seen[p])] = [task EXCEPT ![id[p]] = Toggled(p)]
    BY <1>t DEF TypeOK, Toggled
  <1> QED
    BY <1>t, <1>1, <1>2, <1>3 DEF Toggled, TaskRow, Owned

LEMMA CasKeepsInv ==
    ASSUME TaskInv, NEW p \in Requests, CompareAndSetStatus(p)
    PROVE  TaskInv'
  <1>t. /\ TypeOK /\ Shape(p) /\ Facts(p) /\ pc[p] = "cas" /\ op[p] = "toggle"
        /\ UNCHANGED <<reqvars, alive, seen, tries>>
    BY DEF TaskInv, CompareAndSetStatus, Shape
  <1>1. CASE Owned(p) /\ StatusUnchanged(p)
    <2>1. Toggled(p) \in TaskRow /\ Toggled(p).st = "stored" /\ Toggled(p).own = task[id[p]].own
      BY <1>1, ToggleEffect DEF Owned
    <2>2. Store([task EXCEPT ![id[p]] = Toggled(p)]) /\ CountMove(p, id[p]) /\ Written(p)
      BY <1>1, ToggleEffect
    <2> QED
      BY <1>t, <1>1, <2>1, <2>2, ChangeKeepsInv
  <1>2. CASE ~(Owned(p) /\ StatusUnchanged(p))
    <2>1. Goto(p, "classify") /\ UNCHANGED <<task, page, moved, out>>
      BY <1>2 DEF CompareAndSetStatus
    <2>2. pc'[p] = "classify"
      BY <1>t, <2>1 DEF Goto, TypeOK
    <2>3. TypeOK'
      BY <1>t, <2>1 DEF Goto, TypeOK, reqvars
    <2>4. \A q \in Requests : q # p => SameControl(q)
      BY <1>t, <2>1 DEF Goto, TypeOK, SameControl, reqvars
    <2>5. Shape(p)' /\ AddsUp(p)'
      BY <1>t, <2>1, <2>2 DEF Shape, AddsUp, reqvars
    <2>6. Facts(p)'
      BY <1>t, <1>2, <2>1, <2>2 DEF Facts, Owned, StatusUnchanged, reqvars
    <2> QED
      BY <1>t, <2>1, <2>3, <2>4, <2>5, <2>6, LocalFrame
  <1> QED
    BY <1>1, <1>2

LEMMA DeleteUserKeepsInv ==
    ASSUME TaskInv, NEW u \in Users, DeleteUser(u)
    PROVE  TaskInv'
  <1>t. TypeOK /\ TasksHaveOwners
    BY DEF TaskInv
  <1> DEFINE t == [i \in TaskIds |-> IF task[i].own = u THEN Gone ELSE task[i]]
  <1>1. Store(t) /\ task' = t /\ alive' = alive \ {u} /\ UNCHANGED <<reqvars, pc, seen, tries, out, moved>>
    BY DEF DeleteUser, Store
  <1>2. Gone \in TaskRow /\ Gone.st = "deleted"
    BY DEF Gone, NoTask, TaskRow, Statuses
  <1>3. t \in [TaskIds -> TaskRow]
    BY <1>t, <1>2 DEF TypeOK
  <1>4. \A i \in TaskIds : t[i] = IF task[i].own = u THEN Gone ELSE task[i]
    OBVIOUS
  <1> HIDE DEF t
  <1>5. TypeOK'
    BY <1>t, <1>1, <1>3, StorePages DEF TypeOK, reqvars
  <1>6. TasksHaveOwners'
    BY <1>t, <1>1, <1>2, <1>4 DEF TasksHaveOwners
  <1>7. \A i \in TaskIds : Aged(i) /\ (task'[i].st = "stored" => task'[i].status = task[i].status)
    BY <1>1, <1>2, <1>4 DEF Aged
  <1>8. ASSUME NEW q \in Requests
        PROVE  SameControl(q) /\ Undisturbed(q) /\ (pc[q] = "idle" => page'[q] = page[q])
    <2>1. moved[q] \in Nat
      BY <1>t, TasksAssumption DEF TypeOK
    <2> QED
      BY <1>t, <1>1, <1>7, <2>1, StorePages DEF SameControl, Undisturbed, reqvars
  <1>9. ASSUME NEW q \in Requests PROVE Shape(q)' /\ Facts(q)' /\ AddsUp(q)'
    BY <1>t, <1>5, <1>8, StableShape, StableFacts, StablePage DEF TaskInv
  <1> QED
    BY <1>5, <1>6, <1>9 DEF TaskInv

-----------------------------------------------------------------------------
(* The theorems about states.                                              *)

LEMMA TaskInitInv == Init => TaskInv
  <1> SUFFICES ASSUME Init PROVE TaskInv
    OBVIOUS
  <1>1. TypeOK
    BY TasksAssumption DEF Init, TypeOK, NoTask, NoEdit, NoPage, TaskRow, Statuses, Edits
  <1>2. TasksHaveOwners
    BY DEF Init, TasksHaveOwners, NoTask
  <1>3. \A p \in Requests : Shape(p) /\ Facts(p) /\ AddsUp(p)
    BY TasksAssumption DEF Init, Shape, Facts, AddsUp
  <1> QED
    BY <1>1, <1>2, <1>3 DEF TaskInv

LEMMA TaskNextInv == TaskInv /\ [Next]_vars => TaskInv'
  <1> SUFFICES ASSUME TaskInv, [Next]_vars PROVE TaskInv'
    OBVIOUS
  <1>1. ASSUME NEW p \in Requests, Step(p) PROVE TaskInv'
    BY <1>1, CreateKeepsInv, ReadKeepsInv, DeleteKeepsInv, UpdateKeepsInv, CountKeepsInv, SelectKeepsInv,
       CasKeepsInv, ClassifyKeepsInv, ReturnKeepsInv DEF Step
  <1>2. CASE UNCHANGED vars
    <2>1. TypeOK' /\ TasksHaveOwners'
      BY <1>2 DEF vars, TaskInv, TypeOK, TasksHaveOwners
    <2>2. \A q \in Requests : SameControl(q) /\ Undisturbed(q) /\ page'[q] = page[q]
      BY <1>2, Quiet DEF vars, SameControl, TaskInv
    <2> QED
      BY <2>1, <2>2, StableShape, StableFacts, StablePage DEF TaskInv
  <1> QED
    BY <1>1, <1>2, BeginKeepsInv, TimeoutKeepsInv, DeleteUserKeepsInv DEF Next

\* The inductive invariant holds in every state.
THEOREM TaskInvariant == Spec => []TaskInv
  <1> QED
    BY TaskInitInv, TaskNextInv, PTL DEF Spec

\* Rows, requests and pages have their types.
THEOREM TaskTypes == Spec => []TypeOK
  <1>1. TaskInv => TypeOK
    BY DEF TaskInv
  <1> QED
    BY <1>1, TaskInvariant, PTL

\* No task outlives its owner, for any number of users that are deleted while
\* their access tokens are still in use: the foreign key refuses the insert and
\* the cascade removes the rest.
THEOREM NoOrphans == Spec => []TasksHaveOwners
  <1>1. TaskInv => TasksHaveOwners
    BY DEF TaskInv
  <1> QED
    BY <1>1, TaskInvariant, PTL

\* For every number of attempts: ToggleStatus reports a conflict only after as
\* many changes by others as it made attempts.  Each failed compare-and-set of a
\* row that is still the caller's had been overtaken since its own read.
THEOREM ToggleGivesUpForAReason == Spec => []GiveUpOnlyUnderContention
  <1>1. TaskInv => GiveUpOnlyUnderContention
    BY DEF TaskInv, Facts, GiveUpOnlyUnderContention
  <1> QED
    BY <1>1, TaskInvariant, PTL

\* For every page size, limit and offset: the rows of a page fit its total
\* unless a matching task changed between the two statements of ListByCreator.
THEOREM PagesAddUp == Spec => []PageAddsUp
  <1>1. TaskInv => PageAddsUp
    BY DEF TaskInv, AddsUp, PageAddsUp
  <1> QED
    BY <1>1, TaskInvariant, PTL

-----------------------------------------------------------------------------
(* Tasks implements TaskBoard.                                             *)

Rows == {j \in TaskIds : task[j].st = "stored"}

\* What clients see of a row.
Shown(r) == [own |-> r.own, status |-> r.status, title |-> r.title]

\* The refinement mapping.
TheBoard == [i \in Rows |-> Shown(task[i])]

\* A request may touch a task of the board exactly when it owns the row.
LEMMA MineIsOwned ==
    ASSUME NEW p \in Requests, id[p] \in TaskIds
    PROVE  Board!Mine(p) <=> Owned(p)
  BY DEF Board!Mine, Owned

LEMMA PendingRequests ==
    ASSUME TaskInv, NEW p \in Requests, pc[p] \notin {"idle", "done"}
    PROVE  Board!Pending(p)
  BY DEF TaskInv, TypeOK, Shape, Board!Pending

\* The board after a step that stores one row.
LEMMA BoardAfterChange ==
    ASSUME TypeOK, NEW i \in TaskIds, NEW r, task' = [task EXCEPT ![i] = r], r.st = "stored"
    PROVE  TheBoard' = [j \in Rows \cup {i} |-> IF j = i THEN Shown(r) ELSE TheBoard[j]]
  <1>1. /\ task'[i] = r /\ \A j \in TaskIds : j # i => task'[j] = task[j]
    BY DEF TypeOK
  <1>2. Rows' = Rows \cup {i}
    BY <1>1 DEF Rows
  <1>3. \A j \in Rows' : Shown(task[j])' = Shown(task'[j])
    BY DEF Shown
  <1> QED
    BY <1>1, <1>2, <1>3 DEF TheBoard, Rows, Shown

LEMMA CreateRefines ==
    ASSUME TaskInv, NEW p \in Requests, Create(p)
    PROVE  Board!Create(p) \/ Board!Refuse(p)
  <1>t. /\ TypeOK /\ Board!Pending(p) /\ op[p] = "create"
        /\ UNCHANGED <<reqvars, alive>>
    BY PendingRequests DEF TaskInv, Create, Shape
  <1>v. ValidNew(arg[p]) <=> Board!Valid(p)
    BY <1>t DEF ValidNew, Board!Valid
  <1>0. CASE ~ValidNew(arg[p])
    <2>1. Answer(p, "invalid") /\ UNCHANGED task
      BY <1>0 DEF Create
    <2> QED
      BY <1>t, <1>v, <1>0, <2>1 DEF Answer, Board!Refuse, Board!Answer, Board!request, reqvars
  <1>1. CASE Answer(p, "failed") /\ UNCHANGED task
    BY <1>t, <1>1 DEF Answer, Board!Refuse, Board!Answer, Board!request, reqvars
  <1>2. CASE ValidNew(arg[p]) /\ ~(Answer(p, "failed") /\ UNCHANGED task)
    <2>1. PICK i \in TaskIds :
             /\ task[i].st = "free"
             /\ Store([task EXCEPT ![i] = [NoTask EXCEPT !.st = "stored", !.own = actor[p]]])
      BY <1>2 DEF Create
    <2>2. actor[p] \in alive /\ Written(p)
      BY <1>2 DEF Create
    <2> DEFINE r == [NoTask EXCEPT !.st = "stored", !.own = actor[p]]
    <2>3. r.st = "stored" /\ Shown(r) = [own |-> actor[p], status |-> "created", title |-> "first"]
      BY DEF NoTask, Shown
    <2>4. task' = [task EXCEPT ![i] = r]
      BY <2>1 DEF Store
    <2> HIDE DEF r
    <2>5. TheBoard' = [j \in Rows \cup {i} |-> IF j = i THEN Shown(r) ELSE TheBoard[j]]
      BY <1>t, <2>3, <2>4, BoardAfterChange
    <2>6. i \in TaskIds \ DOMAIN TheBoard /\ DOMAIN TheBoard = Rows
      BY <2>1 DEF TheBoard, Rows
    <2>7. Board!Done(p)
      BY <2>2 DEF Written, Answer, Board!Done, Board!Answer
    <2>8. \E k \in TaskIds \ DOMAIN TheBoard :
             TheBoard' = [j \in DOMAIN TheBoard \cup {k} |->
                            IF j = k THEN [own |-> actor[p], status |-> "created", title |-> "first"]
                            ELSE TheBoard[j]]
      BY <2>3, <2>5, <2>6
    <2> QED
      BY <1>t, <1>v, <1>2, <2>2, <2>7, <2>8 DEF Board!Create, Board!request, reqvars, TheBoard, Rows, Shown
  <1> QED
    BY <1>0, <1>1, <1>2

\* An answer that leaves the table alone.
LEMMA SameBoard ==
    ASSUME task' = task
    PROVE  TheBoard' = TheBoard
  BY DEF TheBoard, Rows, Shown

LEMMA ReadRefines ==
    ASSUME TaskInv, NEW p \in Requests, Read(p)
    PROVE  Board!Look(p) \/ Board!Refuse(p) \/ UNCHANGED Board!vars
  <1>t. /\ Board!Pending(p) /\ op[p] \in {"get", "toggle", "delete"} /\ id[p] \in TaskIds
        /\ UNCHANGED <<reqvars, alive, task>>
    BY PendingRequests DEF TaskInv, Read, Shape
  <1>1. CASE ~Owned(p) /\ Answer(p, "notfound")
    <2>1. ~Board!Mine(p)
      BY <1>t, <1>1, MineIsOwned
    <2> QED
      BY <1>t, <1>1, <2>1 DEF Answer, Board!Refuse, Board!Answer, Board!request, reqvars
  <1>2. CASE Owned(p) /\ op[p] = "get" /\ Answer(p, "ok")
    <2>1. Board!Mine(p)
      BY <1>t, <1>2, MineIsOwned
    <2> QED
      BY <1>t, <1>2, <2>1 DEF Answer, Board!Look, Board!Answer, Board!request, reqvars
  <1>3. CASE UNCHANGED out
    BY <1>t, <1>3 DEF Board!vars, reqvars
  <1> QED
    BY <1>1, <1>2, <1>3 DEF Read, Visible

LEMMA DeleteRefines ==
    ASSUME TaskInv, NEW p \in Requests, Delete(p)
    PROVE  Board!Delete(p) \/ Board!Refuse(p)
  <1>t. /\ TypeOK /\ Board!Pending(p) /\ op[p] = "delete" /\ id[p] \in TaskIds
        /\ UNCHANGED <<reqvars, alive>>
    BY PendingRequests DEF TaskInv, Delete, Shape
  <1>1. CASE task[id[p]].st # "stored"
    <2>1. Answer(p, "notfound") /\ task' = task
      BY <1>1 DEF Delete
    <2>2. ~Board!Mine(p)
      BY <1>t, <1>1, MineIsOwned DEF Owned
    <2> QED
      BY <1>t, <2>1, <2>2 DEF Answer, Board!Refuse, Board!Answer, Board!request, reqvars
  <1>2. CASE task[id[p]].st = "stored"
    <2>1. Written(p) /\ task' = [task EXCEPT ![id[p]] = Gone] /\ Gone.st = "deleted"
      BY <1>2 DEF Delete, Store, Gone, NoTask
    <2>2. Board!Mine(p)
      BY <1>t, <1>2, MineIsOwned DEF TaskInv, Facts, Delete
    <2>3. task'[id[p]] = Gone /\ \A j \in TaskIds : j # id[p] => task'[j] = task[j]
      BY <1>t, <2>1 DEF TypeOK
    <2>4. Rows' = Rows \ {id[p]}
      BY <2>1, <2>3 DEF Rows
    <2>5. TheBoard' = [i \in DOMAIN TheBoard \ {id[p]} |-> TheBoard[i]]
      BY <2>3, <2>4 DEF TheBoard, Rows, Shown
    <2> QED
      BY <1>t, <2>1, <2>2, <2>5 DEF Written, Answer, Board!Delete, Board!Done, Board!Answer, Board!request, reqvars,
         TheBoard, Rows, Shown
  <1> QED
    BY <1>1, <1>2

\* The board after a step that changes the row of the task of p.
LEMMA BoardAfterEdit ==
    ASSUME TypeOK, NEW p \in Requests, id[p] \in TaskIds, Owned(p), NEW r \in TaskRow,
           r.st = "stored", r.own = actor[p], task' = [task EXCEPT ![id[p]] = r]
    PROVE  /\ id[p] \in DOMAIN TheBoard
           /\ TheBoard[id[p]] = [own |-> actor[p], status |-> task[id[p]].status, title |-> task[id[p]].title]
           /\ TheBoard' = [TheBoard EXCEPT ![id[p]] = [own |-> actor[p], status |-> r.status, title |-> r.title]]
  <1>1. id[p] \in Rows /\ Rows \cup {id[p]} = Rows
    BY DEF Rows, Owned
  <1>2. TheBoard' = [j \in Rows \cup {id[p]} |-> IF j = id[p] THEN Shown(r) ELSE TheBoard[j]]
    BY BoardAfterChange
  <1> QED
    BY <1>1, <1>2 DEF TheBoard, Shown, Owned

\* Editing fields of one entry of a board, against writing the whole entry.
Entry(o, s, t) == [own |-> o, status |-> s, title |-> t]
WithEntry(b, i, e) == [b EXCEPT ![i] = e]
WithStatus(b, i, g) == [b EXCEPT ![i].status = g]
WithBoth(b, i, f, g) == [b EXCEPT ![i].title = f, ![i].status = g]

LEMMA EditOfStatus ==
    ASSUME NEW b, NEW i \in DOMAIN b, NEW o, NEW s, NEW t, NEW g, b[i] = Entry(o, s, t)
    PROVE  WithStatus(b, i, g) = WithEntry(b, i, Entry(o, g, t))
  <1>1. [b[i] EXCEPT !.status = g] = Entry(o, g, t)
    BY DEF Entry
  <1>2. WithStatus(b, i, g) = WithEntry(b, i, [b[i] EXCEPT !.status = g])
    BY DEF WithStatus, WithEntry
  <1> QED
    BY <1>1, <1>2, Zenon

LEMMA EditOfBoth ==
    ASSUME NEW b, NEW i \in DOMAIN b, NEW o, NEW s, NEW t, NEW f, NEW g, b[i] = Entry(o, s, t)
    PROVE  WithBoth(b, i, f, g) = WithEntry(b, i, Entry(o, g, f))
  <1> DEFINE r == [b[i] EXCEPT !.title = f]
             c == WithEntry(b, i, r)
  <1>1. r = Entry(o, s, f)
    BY DEF Entry
  <1>2. c = [b EXCEPT ![i].title = f] /\ DOMAIN c = DOMAIN b /\ c[i] = r
    BY DEF WithEntry
  <1>3. WithBoth(b, i, f, g) = WithStatus(c, i, g)
    BY DEF WithBoth, WithStatus, WithEntry
  <1>4. WithEntry(c, i, Entry(o, g, f)) = WithEntry(b, i, Entry(o, g, f))
    BY DEF WithEntry
  <1> HIDE DEF c, r
  <1>5. WithStatus(c, i, g) = WithEntry(c, i, Entry(o, g, f))
    <2>1. i \in DOMAIN c /\ c[i] = Entry(o, s, f)
      BY <1>1, <1>2
    <2> QED
      BY <2>1, EditOfStatus
  <1> QED
    BY <1>3, <1>4, <1>5, Zenon

LEMMA UpdateRefines ==
    ASSUME TaskInv, NEW p \in Requests, Update(p)
    PROVE  Board!Update(p) \/ Board!Refuse(p)
  <1>t. /\ TypeOK /\ Board!Pending(p) /\ op[p] = "update" /\ id[p] \in TaskIds /\ arg[p] \in Edits
        /\ UNCHANGED <<reqvars, alive>>
    BY PendingRequests DEF TaskInv, Update, Shape
  <1>v. ValidEdit(arg[p]) <=> Board!Valid(p)
    BY <1>t DEF ValidEdit, NoEdit, Board!Valid
  <1>1. CASE ~ValidEdit(arg[p])
    <2>1. Answer(p, "invalid") /\ task' = task
      BY <1>1 DEF Update
    <2> QED
      BY <1>t, <1>v, <1>1, <2>1 DEF Answer, Board!Refuse, Board!Answer, Board!request, reqvars
  <1>2. CASE ValidEdit(arg[p]) /\ ~Owned(p)
    <2>1. Answer(p, "notfound") /\ task' = task /\ ~Board!Mine(p)
      BY <1>t, <1>2, MineIsOwned DEF Update
    <2> QED
      BY <1>t, <2>1 DEF Answer, Board!Refuse, Board!Answer, Board!request, reqvars
  <1>3. CASE ValidEdit(arg[p]) /\ Owned(p)
    <2>1. Written(p) /\ Board!Mine(p)
      BY <1>t, <1>3, MineIsOwned DEF Update
    <2>2. /\ Edited(p) \in TaskRow /\ Edited(p).st = "stored" /\ Edited(p).own = actor[p]
          /\ Edited(p).title = Board!Keep(arg[p].title, task[id[p]].title)
          /\ Edited(p).status = Board!Keep(arg[p].status, task[id[p]].status)
          /\ task' = [task EXCEPT ![id[p]] = Edited(p)]
      BY <1>3, EditEffect DEF Store, Board!Keep
    <2>3. /\ id[p] \in DOMAIN TheBoard
          /\ TheBoard[id[p]] = [own |-> actor[p], status |-> task[id[p]].status, title |-> task[id[p]].title]
          /\ TheBoard' = [TheBoard EXCEPT ![id[p]] =
                            [own |-> actor[p], status |-> Edited(p).status, title |-> Edited(p).title]]
      BY <1>t, <1>3, <2>2, BoardAfterEdit
    <2>4. TheBoard' = [TheBoard EXCEPT ![id[p]].title = Board!Keep(arg[p].title, @),
                                       ![id[p]].status = Board!Keep(arg[p].status, @)]
      <3>1. TheBoard' = [TheBoard EXCEPT ![id[p]].title = Edited(p).title, ![id[p]].status = Edited(p).status]
        <4>1. /\ id[p] \in DOMAIN TheBoard
              /\ TheBoard[id[p]] = Entry(actor[p], task[id[p]].status, task[id[p]].title)
              /\ TheBoard' = WithEntry(TheBoard, id[p], Entry(actor[p], Edited(p).status, Edited(p).title))
          BY <2>3 DEF Entry, WithEntry
        <4>2. TheBoard' = WithBoth(TheBoard, id[p], Edited(p).title, Edited(p).status)
          BY <4>1, EditOfBoth
        <4> QED
          BY <4>2 DEF WithBoth
      <3> QED
        BY <3>1, <2>2, <2>3 DEF Board!Keep
    <2> QED
      BY <1>t, <1>v, <1>3, <2>1, <2>4 DEF Written, Answer, Board!Update, Board!Done, Board!Answer, Board!request,
         reqvars, TheBoard, Rows, Shown
  <1> QED
    BY <1>1, <1>2, <1>3

LEMMA CasRefines ==
    ASSUME TaskInv, NEW p \in Requests, CompareAndSetStatus(p)
    PROVE  Board!Toggle(p) \/ UNCHANGED Board!vars
  <1>t. /\ TypeOK /\ Board!Pending(p) /\ op[p] = "toggle" /\ id[p] \in TaskIds
        /\ UNCHANGED <<reqvars, alive>>
    BY PendingRequests DEF TaskInv, CompareAndSetStatus, Shape
  <1>1. CASE ~(Owned(p) /\ StatusUnchanged(p))
    <2>1. task' = task /\ out' = out
      BY <1>1 DEF CompareAndSetStatus
    <2> QED
      BY <1>t, <2>1 DEF Board!vars, reqvars
  <1>2. CASE Owned(p) /\ StatusUnchanged(p)
    <2>1. Written(p) /\ Board!Mine(p) /\ task[id[p]].status \in Statuses
      BY <1>t, <1>2, MineIsOwned, ToggleEffect DEF TypeOK, TaskRow
    <2>2. /\ Toggled(p) \in TaskRow /\ Toggled(p).st = "stored" /\ Toggled(p).own = actor[p]
          /\ Toggled(p).title = task[id[p]].title
          /\ Toggled(p).status = NextStatus(task[id[p]].status)
          /\ task' = [task EXCEPT ![id[p]] = Toggled(p)]
      BY <1>2, ToggleEffect DEF Store
    <2>3. NextStatus(task[id[p]].status) = Board!Cycle[task[id[p]].status]
      BY <2>1 DEF NextStatus, Statuses, Board!Cycle
    <2>4. /\ id[p] \in DOMAIN TheBoard
          /\ TheBoard[id[p]] = [own |-> actor[p], status |-> task[id[p]].status, title |-> task[id[p]].title]
          /\ TheBoard' = [TheBoard EXCEPT ![id[p]] =
                            [own |-> actor[p], status |-> Toggled(p).status, title |-> Toggled(p).title]]
      BY <1>t, <1>2, <2>2, BoardAfterEdit
    <2>5. TheBoard' = [TheBoard EXCEPT ![id[p]].status = Board!Cycle[@]]
      <3>1. TheBoard' = [TheBoard EXCEPT ![id[p]].status = Toggled(p).status]
        <4>1. /\ id[p] \in DOMAIN TheBoard
              /\ TheBoard[id[p]] = Entry(actor[p], task[id[p]].status, task[id[p]].title)
              /\ TheBoard' = WithEntry(TheBoard, id[p], Entry(actor[p], Toggled(p).status, task[id[p]].title))
          BY <2>2, <2>4 DEF Entry, WithEntry
        <4>2. TheBoard' = WithStatus(TheBoard, id[p], Toggled(p).status)
          BY <4>1, EditOfStatus
        <4> QED
          BY <4>2 DEF WithStatus
      <3>2. Toggled(p).status = Board!Cycle[TheBoard[id[p]].status]
        BY <2>2, <2>3, <2>4
      <3> QED
        BY <3>1, <3>2, <2>4
    <2> QED
      BY <1>t, <2>1, <2>5 DEF Written, Answer, Board!Toggle, Board!Done, Board!Answer, Board!request, reqvars,
         TheBoard, Rows, Shown
  <1> QED
    BY <1>1, <1>2

LEMMA ClassifyRefines ==
    ASSUME TaskInv, NEW p \in Requests, Classify(p)
    PROVE  Board!Refuse(p) \/ UNCHANGED Board!vars
  <1>t. /\ Board!Pending(p) /\ op[p] = "toggle" /\ id[p] \in TaskIds
        /\ UNCHANGED <<reqvars, alive, task>>
    BY PendingRequests DEF TaskInv, Classify, Shape
  <1>1. CASE Owned(p) /\ Answer(p, "conflict")
    <2>1. Board!Mine(p)
      BY <1>t, <1>1, MineIsOwned
    <2> QED
      BY <1>t, <1>1, <2>1 DEF Answer, Board!Refuse, Board!Answer, Board!request, reqvars
  <1>2. CASE ~Owned(p) /\ Answer(p, "notfound")
    <2>1. ~Board!Mine(p)
      BY <1>t, <1>2, MineIsOwned
    <2> QED
      BY <1>t, <1>2, <2>1 DEF Answer, Board!Refuse, Board!Answer, Board!request, reqvars
  <1>3. CASE UNCHANGED out
    BY <1>t, <1>3 DEF Board!vars, reqvars
  <1> QED
    BY <1>1, <1>2, <1>3 DEF Classify, Missed

LEMMA ListRefines ==
    ASSUME TaskInv, NEW p \in Requests, Count(p) \/ Select(p)
    PROVE  Board!Look(p) \/ Board!Refuse(p) \/ UNCHANGED Board!vars
  <1>t. /\ Board!Pending(p) /\ op[p] = "list" /\ UNCHANGED <<reqvars, alive, task>>
        /\ pc[p] = "select" => arg[p].status # "bogus"
    BY PendingRequests DEF TaskInv, Count, Select, Shape
  <1>1. CASE Answer(p, "ok") /\ pc[p] = "select"
    BY <1>t, <1>1 DEF Answer, Board!Look, Board!Valid, Board!Answer, Board!request, reqvars
  <1>2. CASE Answer(p, "invalid") /\ arg[p].status = "bogus"
    BY <1>t, <1>2 DEF Answer, Board!Refuse, Board!Valid, Board!Answer, Board!request, reqvars
  <1>3. CASE UNCHANGED out
    BY <1>t, <1>3 DEF Board!vars, reqvars
  <1> QED
    BY <1>1, <1>2, <1>3 DEF Count, Select

LEMMA BeginRefines ==
    ASSUME TaskInv, NEW p \in Requests, Begin(p)
    PROVE  Board!Ask(p)
  <1>t. TypeOK
    BY DEF TaskInv
  <1>1. ASSUME NEW o \in Operations, NEW l, NEW i, NEW x, Start(p, o, l, i, x) PROVE Board!Ask(p)
    <2>1. op[p] = "none" /\ o # "none"
      BY <1>1 DEF TaskInv, Shape, Start, Operations
    <2>2. PICK a \in Users : actor' = [actor EXCEPT ![p] = a]
      BY <1>1 DEF Start
    <2>3. a # Admin
      BY TasksAssumption
    <2> QED
      BY <1>t, <1>1, <2>1, <2>2, <2>3 DEF Start, TypeOK, Board!Ask
  <1>2. CASE Forbid(p)
    <2>1. op[p] = "none"
      BY <1>2 DEF TaskInv, Shape, Forbid
    <2>2. PICK o \in Operations : op' = [op EXCEPT ![p] = o]
      BY <1>2 DEF Forbid
    <2>3. o # "none"
      BY DEF Operations
    <2> QED
      BY <1>t, <1>2, <2>1, <2>2, <2>3 DEF Forbid, Answer, TypeOK, Board!Ask, Board!Answer
  <1> QED
    BY <1>1, <1>2 DEF Begin, StartCreate, StartGet, StartToggle, StartDelete, StartUpdate, StartList, Operations

LEMMA DeleteUserRefines ==
    ASSUME TaskInv, NEW u \in Users, DeleteUser(u)
    PROVE  Board!RemoveUser(u)
  <1>t. TypeOK
    BY DEF TaskInv
  <1>1. /\ u \in alive /\ alive' = alive \ {u} /\ UNCHANGED <<reqvars, out>> /\ Gone.st = "deleted"
        /\ task' = [i \in TaskIds |-> IF task[i].own = u THEN Gone ELSE task[i]]
    BY DEF DeleteUser, Store, Gone, NoTask
  <1>2. Rows' = {j \in Rows : task[j].own # u}
    BY <1>1 DEF Rows
  <1>3. {j \in DOMAIN TheBoard : TheBoard[j].own # u} = Rows'
    BY <1>2 DEF TheBoard, Shown
  <1>4. TheBoard' = [i \in {j \in DOMAIN TheBoard : TheBoard[j].own # u} |-> TheBoard[i]]
    BY <1>1, <1>2, <1>3 DEF TheBoard, Rows, Shown
  <1> QED
    BY <1>1, <1>4 DEF Board!RemoveUser, Board!request, reqvars, TheBoard, Rows, Shown

\* Every step of a handler is a step of the board or none.
LEMMA StepRefines == TaskInv /\ [Next]_vars => [Board!Next]_(Board!vars)
  <1> SUFFICES ASSUME TaskInv, [Next]_vars PROVE Board!Next \/ UNCHANGED Board!vars
    OBVIOUS
  <1>1. ASSUME NEW p \in Requests, Timeout(p) PROVE Board!Refuse(p)
    <2>1. Board!Pending(p)
      BY <1>1, PendingRequests DEF Timeout
    <2> QED
      BY <1>1, <2>1 DEF Timeout, Answer, Board!Refuse, Board!Answer, Board!request, reqvars
  <1>2. ASSUME NEW p \in Requests, Return(p) PROVE Board!Leave(p)
    BY <1>2 DEF TaskInv, Shape, Return, NoEdit, Board!Leave, Board!Answer
  <1>3. CASE UNCHANGED vars
    BY <1>3 DEF vars, Board!vars
  <1>4. ASSUME NEW p \in Requests, Step(p)
        PROVE  \/ Board!Create(p) \/ Board!Toggle(p) \/ Board!Update(p) \/ Board!Delete(p)
               \/ Board!Look(p) \/ Board!Refuse(p) \/ Board!Leave(p)
               \/ UNCHANGED Board!vars
    BY <1>2, <1>4, CreateRefines, ReadRefines, DeleteRefines, UpdateRefines, ListRefines, CasRefines, ClassifyRefines
       DEF Step
  <1> QED
    BY <1>1, <1>3, <1>4, BeginRefines, DeleteUserRefines DEF Next, Board!Next

\* Every request takes effect at one moment or not at all, for any number of
\* concurrent handlers: ToggleStatus and Delete, which read first and write
\* later, and classifyMissedTransition, which decides by one more read, give
\* answers that were true at one moment between request and answer.
THEOREM TasksImplementBoard == Spec => ImplementsBoard
  <1>1. Init => Board!Init
    BY DEF Init, NoTask, NoEdit, Board!Init
  <1> QED
    BY <1>1, StepRefines, TaskInvariant, PTL DEF Spec, ImplementsBoard, Board!Spec
=============================================================================
