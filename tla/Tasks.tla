-------------------------------- MODULE Tasks --------------------------------
(***************************************************************************)
(* TaskUseCase on top of TaskRepository: concurrent request handlers that  *)
(* create, read, list, edit, toggle and delete tasks.  Every repository    *)
(* call is one autocommitted SQL statement, so a handler that makes        *)
(* several of them (Delete, ToggleStatus, List) works on a copy that may   *)
(* be stale.                                                               *)
(***************************************************************************)
EXTENDS Naturals, FiniteSets

CONSTANTS
    Users,        \* user ids
    Admin,        \* the bootstrap admin: user id 0, no users row
    TaskIds,      \* ids of tasks (BIGSERIAL: never reused)
    Requests,     \* request handlers
    MaxAttempts,  \* maxToggleAttempts
    EditInputs,   \* edits that clients send
    QueryInputs,  \* lists that clients ask for
    DefaultPageSize, MaxPageSize,
    None

Statuses == {"created", "in_progress", "completed"}
Operations == {"create", "get", "list", "update", "delete", "toggle"}

\* A partial edit: "keep" is a nil field.  "blank" is a title of spaces only and
\* "bogus" a status that IsValidStatus rejects.
Edits == [title : {"keep", "blank", "renamed"}, status : Statuses \cup {"keep", "bogus"}]
NoEdit == [title |-> "keep", status |-> "keep"]

\* A list: "keep" is no status filter, limit 0 a parameter that was not sent.
Queries == [status : Statuses \cup {"keep", "bogus"}, limit : Nat, offset : Nat]

ASSUME TasksAssumption ==
    /\ Admin \notin Users
    /\ None \notin Users \cup TaskIds \cup {Admin}
    /\ IsFiniteSet(TaskIds)
    /\ MaxAttempts \in Nat \ {0}
    /\ EditInputs \subseteq Edits
    /\ QueryInputs \subseteq Queries
    /\ DefaultPageSize \in Nat \ {0} /\ MaxPageSize \in Nat /\ DefaultPageSize <= MaxPageSize

VARIABLES
    alive,   \* users that have a row
    task,    \* task[i]: the row with id i
    pc,      \* pc[p]: next repository call of request p
    op,      \* op[p]: its operation
    actor,   \* actor[p]: user id of the caller's claims
    id,      \* id[p]: task the request names
    arg,     \* arg[p]: fields of an update, or the query of a list
    seen,    \* seen[p]: status that GetByID returned
    tries,   \* tries[p]: failed attempts of ToggleStatus
    out,     \* out[p]: answer
    page,    \* page[p]: the page of a list, and whether the rows it matches
             \* changed since they were counted (history)
    moved    \* history: moved[p], status changes of id[p] by others since the
             \* toggle p began, up to MaxAttempts

vars == <<alive, task, pc, op, actor, id, arg, seen, tries, out, page, moved>>
reqvars == <<op, actor, id, arg>>

TaskRow == [st : {"free", "stored", "deleted"}, own : Users \cup {None},
            status : Statuses, title : {"first", "renamed"}]

NoTask == [st |-> "free", own |-> None, status |-> "created", title |-> "first"]

Gone == [NoTask EXCEPT !.st = "deleted"]

NoPage == [total |-> 0, rows |-> 0, stale |-> FALSE]

-----------------------------------------------------------------------------
NextStatus(s) ==
    CASE s = "created" -> "in_progress" [] s = "in_progress" -> "completed" [] OTHER -> "created"

\* The row exists and belongs to the caller.
Owned(p) == task[id[p]].st = "stored" /\ task[id[p]].own = actor[p]

\* validateTaskFields, of a new task.
ValidNew(x) == x.title # "blank"

\* normalizeUpdate.
ValidEdit(e) == e # NoEdit /\ e.title # "blank" /\ e.status # "bogus"

\* clampPage.
clampPage(q) ==
    LET asked == IF q.limit = 0 THEN DefaultPageSize ELSE q.limit
    IN [limit |-> IF asked > MaxPageSize THEN MaxPageSize ELSE asked, offset |-> q.offset]

\* WHERE creator_id = $1 AND status = $2, on table t.
Matching(t, p) ==
    {i \in TaskIds : /\ t[i].st = "stored" /\ t[i].own = actor[p]
                     /\ arg[p].status \in {"keep", t[i].status}}

\* LIMIT and OFFSET on n rows.
RowsOnPage(q, n) ==
    LET left == IF n > q.offset THEN n - q.offset ELSE 0
    IN IF left < clampPage(q).limit THEN left ELSE clampPage(q).limit

Goto(p, l) == pc' = [pc EXCEPT ![p] = l]
Answer(p, o) == Goto(p, "done") /\ out' = [out EXCEPT ![p] = o]

\* The statement took effect; its deadline may still cut off the answer.
Written(p) == Answer(p, "ok") \/ Answer(p, "failed")

\* The table becomes t; lists that have counted their rows may not match it.
Store(t) ==
    /\ task' = t
    /\ page' = [q \in Requests |-> [page[q] EXCEPT !.stale =
                  @ \/ (pc[q] = "select" /\ Matching(t, q) # Matching(task, q))]]

\* A status change of task i by request p, seen by the others that toggle i.
CountMove(p, i) ==
    moved' = [q \in Requests |->
                IF q # p /\ op[q] = "toggle" /\ id[q] = i /\ moved[q] < MaxAttempts
                THEN moved[q] + 1 ELSE moved[q]]

-----------------------------------------------------------------------------
Init ==
    /\ alive = Users
    /\ task = [i \in TaskIds |-> NoTask]
    /\ pc = [p \in Requests |-> "idle"]
    /\ op = [p \in Requests |-> "none"]
    /\ actor = [p \in Requests |-> None]
    /\ id = [p \in Requests |-> None]
    /\ arg = [p \in Requests |-> NoEdit]
    /\ seen = [p \in Requests |-> "created"]
    /\ tries = [p \in Requests |-> 0]
    /\ out = [p \in Requests |-> "none"]
    /\ page = [p \in Requests |-> NoPage]
    /\ moved = [p \in Requests |-> 0]

\* taskOwner lets callers with a positive user id through.  The user may have
\* been deleted since the access token was issued.
Start(p, o, l, i, x) ==
    /\ pc[p] = "idle"
    /\ \E a \in Users : actor' = [actor EXCEPT ![p] = a]
    /\ op' = [op EXCEPT ![p] = o]
    /\ id' = [id EXCEPT ![p] = i]
    /\ arg' = [arg EXCEPT ![p] = x]
    /\ Goto(p, l)
    /\ UNCHANGED <<alive, task, seen, tries, out, page, moved>>

Known == {i \in TaskIds : task[i].st # "free"}

StartCreate(p) ==
    \E x \in {NoEdit, [NoEdit EXCEPT !.title = "blank"]} : Start(p, "create", "insert", None, x)
StartGet(p) == \E i \in Known : Start(p, "get", "read", i, NoEdit)
StartToggle(p) == \E i \in Known : Start(p, "toggle", "read", i, NoEdit)
StartDelete(p) == \E i \in Known : Start(p, "delete", "read", i, NoEdit)
StartUpdate(p) == \E i \in Known, e \in EditInputs : Start(p, "update", "update", i, e)
StartList(p) == \E q \in QueryInputs : Start(p, "list", "count", None, q)

\* taskOwner turns the admin away, whatever the request is about.
Forbid(p) ==
    /\ pc[p] = "idle"
    /\ \E o \in Operations : op' = [op EXCEPT ![p] = o]
    /\ actor' = [actor EXCEPT ![p] = Admin]
    /\ Answer(p, "forbidden")
    /\ UNCHANGED <<alive, task, id, arg, seen, tries, page, moved>>

\* The fields are checked before the INSERT INTO tasks, whose foreign key
\* refuses an owner that is gone (a 500).
Create(p) ==
    /\ pc[p] = "insert"
    /\ \/ ~ValidNew(arg[p]) /\ Answer(p, "invalid") /\ UNCHANGED <<task, page>>
       \/ /\ ValidNew(arg[p]) /\ actor[p] \in alive
          /\ \E i \in TaskIds :
                /\ task[i].st = "free"
                /\ Store([task EXCEPT ![i] = [NoTask EXCEPT !.st = "stored", !.own = actor[p]]])
          /\ Written(p)
       \/ /\ ValidNew(arg[p]) /\ (actor[p] \notin alive \/ Known = TaskIds)
          /\ Answer(p, "failed")
          /\ UNCHANGED <<task, page>>
    /\ UNCHANGED <<reqvars, alive, seen, tries, moved>>

\* GetByID found the row and its CreatorID is the caller's.
Visible(p) == Owned(p)

\* GetByID and the ownership check of Get, Delete and ToggleStatus.
Read(p) ==
    /\ pc[p] = "read"
    /\ \/ ~Visible(p) /\ Answer(p, "notfound") /\ UNCHANGED seen
       \/ Visible(p) /\ op[p] = "get" /\ Answer(p, "ok") /\ UNCHANGED seen
       \/ Visible(p) /\ op[p] = "delete" /\ Goto(p, "delete") /\ UNCHANGED <<out, seen>>
       \/ /\ Visible(p) /\ op[p] = "toggle"
          /\ Goto(p, "cas") /\ UNCHANGED out
          /\ seen' = [seen EXCEPT ![p] = task[id[p]].status]
    /\ UNCHANGED <<reqvars, alive, task, tries, page, moved>>

\* DELETE FROM tasks WHERE id = $1: the owner is not checked again.
Delete(p) ==
    /\ pc[p] = "delete"
    /\ IF task[id[p]].st = "stored"
       THEN Store([task EXCEPT ![id[p]] = Gone]) /\ Written(p)
       ELSE UNCHANGED <<task, page>> /\ Answer(p, "notfound")
    /\ UNCHANGED <<reqvars, alive, seen, tries, moved>>

\* UPDATE ... SET field = COALESCE(new, field) WHERE id = $1 AND creator_id = $2.
Update(p) ==
    /\ pc[p] = "update"
    /\ LET e == arg[p]
           i == id[p]
       IN IF ~ValidEdit(e) \/ ~Owned(p)
          THEN /\ Answer(p, IF ValidEdit(e) THEN "notfound" ELSE "invalid")
               /\ UNCHANGED <<task, page, moved>>
          ELSE /\ Written(p)
               /\ Store([task EXCEPT ![i].title = IF e.title = "keep" THEN @ ELSE e.title,
                                     ![i].status = IF e.status = "keep" THEN @ ELSE e.status])
               /\ IF e.status \in {"keep", task[i].status} THEN UNCHANGED moved ELSE CountMove(p, i)
    /\ UNCHANGED <<reqvars, alive, seen, tries>>

\* Mutants: an unconditional UPDATE; the arguments from and to swapped.
StatusUnchanged_Ignored(p) == TRUE
StatusUnchanged_Swapped(p) == task[id[p]].status = NextStatus(seen[p])

\* The WHERE clause of CompareAndSetStatus.
StatusUnchanged(p) == task[id[p]].status = seen[p]

\* UPDATE tasks SET status = NextStatus(seen) WHERE ... AND status = seen.
CompareAndSetStatus(p) ==
    /\ pc[p] = "cas"
    /\ LET i == id[p]
       IN IF Owned(p) /\ StatusUnchanged(p)
          THEN /\ Store([task EXCEPT ![i].status = NextStatus(seen[p])])
               /\ CountMove(p, i)
               /\ Written(p)
          ELSE Goto(p, "classify") /\ UNCHANGED <<task, page, moved, out>>
    /\ UNCHANGED <<reqvars, alive, seen, tries>>

\* classifyMissedTransition: a row that is still there and still the caller's
\* is a conflict.
Missed(p) == IF Owned(p) THEN "conflict" ELSE "notfound"

\* Mutant: one attempt too many.
MayRetry_OnceMore(n) == n <= MaxAttempts

\* attempt++ and attempt < maxToggleAttempts.
Attempts(p) == tries[p] + 1
MayRetry(n) == n < MaxAttempts

\* The loop of ToggleStatus after a failed attempt.
Classify(p) ==
    /\ pc[p] = "classify"
    /\ IF Missed(p) = "conflict"
       THEN /\ tries' = [tries EXCEPT ![p] = Attempts(p)]
            /\ IF MayRetry(Attempts(p)) THEN Goto(p, "read") /\ UNCHANGED out
               ELSE Answer(p, "conflict")
       ELSE Answer(p, "notfound") /\ UNCHANGED tries
    /\ UNCHANGED <<reqvars, alive, task, seen, page, moved>>

\* Mutant: the filter is applied to the rows and not to their number.
Counted_Unfiltered(p) == {i \in TaskIds : task[i].st = "stored" /\ task[i].own = actor[p]}

Counted(p) == Matching(task, p)

\* SELECT count(*), once the filter is known to be valid.
Count(p) ==
    /\ pc[p] = "count"
    /\ IF arg[p].status = "bogus"
       THEN Answer(p, "invalid") /\ UNCHANGED page
       ELSE /\ Goto(p, "select")
            /\ page' = [page EXCEPT ![p].total = Cardinality(Counted(p))]
            /\ UNCHANGED out
    /\ UNCHANGED <<reqvars, alive, task, seen, tries, moved>>

\* SELECT ... LIMIT ... OFFSET, a second statement.  The order of the rows and
\* what is in them are left out.
Select(p) ==
    /\ pc[p] = "select"
    /\ page' = [page EXCEPT ![p].rows = RowsOnPage(arg[p], Cardinality(Matching(task, p)))]
    /\ Answer(p, "ok")
    /\ UNCHANGED <<reqvars, alive, task, seen, tries, moved>>

\* The deadline passes, or the database fails, before the next call.
Timeout(p) ==
    /\ pc[p] \notin {"idle", "done"}
    /\ Answer(p, "failed")
    /\ UNCHANGED <<reqvars, alive, task, seen, tries, page, moved>>

Return(p) ==
    /\ pc[p] = "done"
    /\ Goto(p, "idle")
    /\ op' = [op EXCEPT ![p] = "none"]
    /\ actor' = [actor EXCEPT ![p] = None]
    /\ id' = [id EXCEPT ![p] = None]
    /\ arg' = [arg EXCEPT ![p] = NoEdit]
    /\ seen' = [seen EXCEPT ![p] = "created"]
    /\ tries' = [tries EXCEPT ![p] = 0]
    /\ out' = [out EXCEPT ![p] = "none"]
    /\ page' = [page EXCEPT ![p] = NoPage]
    /\ moved' = [moved EXCEPT ![p] = 0]
    /\ UNCHANGED <<alive, task>>

\* Mutant: tasks has no foreign key to users.
DeleteUser_NoForeignKey(u) ==
    /\ u \in alive
    /\ alive' = alive \ {u}
    /\ UNCHANGED <<task, reqvars, pc, seen, tries, out, page, moved>>

\* DELETE FROM users: the tasks go with their owner (ON DELETE CASCADE).
DeleteUser(u) ==
    /\ u \in alive
    /\ alive' = alive \ {u}
    /\ Store([i \in TaskIds |-> IF task[i].own = u THEN Gone ELSE task[i]])
    /\ UNCHANGED <<reqvars, pc, seen, tries, out, moved>>

Begin(p) ==
    \/ StartCreate(p) \/ StartGet(p) \/ StartToggle(p)
    \/ StartDelete(p) \/ StartUpdate(p) \/ StartList(p) \/ Forbid(p)

Step(p) ==
    \/ Create(p) \/ Read(p) \/ Delete(p) \/ Update(p) \/ Count(p) \/ Select(p)
    \/ CompareAndSetStatus(p) \/ Classify(p) \/ Return(p)

Next ==
    \/ \E p \in Requests : Begin(p) \/ Step(p) \/ Timeout(p)
    \/ \E u \in Users : DeleteUser(u)

Spec == Init /\ [][Next]_vars

-----------------------------------------------------------------------------
TypeOK ==
    /\ alive \subseteq Users
    /\ task \in [TaskIds -> TaskRow]
    /\ pc \in [Requests -> {"idle", "insert", "read", "delete", "update", "cas", "classify",
                            "count", "select", "done"}]
    /\ op \in [Requests -> Operations \cup {"none"}]
    /\ actor \in [Requests -> Users \cup {Admin, None}]
    /\ id \in [Requests -> TaskIds \cup {None}]
    /\ arg \in [Requests -> Edits \cup Queries]
    /\ seen \in [Requests -> Statuses]
    /\ tries \in [Requests -> 0 .. MaxAttempts]
    /\ out \in [Requests -> {"none", "ok", "failed", "forbidden", "invalid", "notfound", "conflict"}]
    /\ page \in [Requests -> [total : Nat, rows : Nat, stale : BOOLEAN]]
    /\ moved \in [Requests -> 0 .. MaxAttempts]

\* A toggle that gives up was overtaken by MaxAttempts changes of others: a
\* conflict is never reported while nobody else makes progress.
GiveUpOnlyUnderContention ==
    \A p \in Requests : pc[p] # "idle" => tries[p] <= moved[p]

\* Every stored task has an owner that exists, although access tokens outlive
\* their user and creation races deletion.
TasksHaveOwners == \A i \in TaskIds : task[i].st = "stored" => task[i].own \in alive

\* A list has never more than MaxPageSize rows and, unless a matching task came
\* or went between the two statements of ListByCreator, exactly the rows that
\* its total says are left after the offset.
PageAddsUp ==
    \A p \in Requests : op[p] = "list" /\ out[p] = "ok" =>
        /\ page[p].rows <= MaxPageSize
        /\ ~page[p].stale => page[p].rows = RowsOnPage(arg[p], page[p].total)

\* Clients see the stored rows; the steps of a handler are hidden.
Board == INSTANCE TaskBoard WITH
    board <- [i \in {j \in TaskIds : task[j].st = "stored"} |->
                [own |-> task[i].own, status |-> task[i].status, title |-> task[i].title]]

\* Every request takes effect at one moment or not at all, as if requests came
\* one after the other: no toggle or edit is lost or doubled, only the owner's
\* requests change a task although DELETE names the id alone, and "not found"
\* is true although it is decided by a second or third statement.
ImplementsBoard == Board!Spec
=============================================================================
