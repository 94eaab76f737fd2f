------------------------------ MODULE TaskBoard ------------------------------
(***************************************************************************)
(* What the task API promises its clients: a board of tasks on which every *)
(* request takes effect at one moment between its arrival and its answer,  *)
(* or not at all.  A request that failed (a deadline, the database) may or *)
(* may not have taken effect.  Tasks is shown to implement this.           *)
(***************************************************************************)
EXTENDS Naturals

CONSTANTS Users, Admin, TaskIds, Requests, None

VARIABLES
    alive,   \* users that have an account
    board,   \* the tasks there are: board[i] for i \in DOMAIN board
    op,      \* op[p]: operation of request p, "none" between two requests
    actor,   \* actor[p]: who asks
    id,      \* id[p]: the task it is about
    arg,     \* arg[p]: the fields to edit, or the list that is asked for
    out      \* out[p]: the answer, "none" before there is one

vars == <<alive, board, op, actor, id, arg, out>>
request == <<op, actor, id, arg>>

Pending(p) == op[p] # "none" /\ out[p] = "none"
Mine(p) == id[p] \in DOMAIN board /\ board[id[p]].own = actor[p]

Answer(p, o) == out' = [out EXCEPT ![p] = o]

\* The client of a request that took effect learns of it, or does not.
Done(p) == Answer(p, "ok") \/ Answer(p, "failed")

Cycle == [created |-> "in_progress", in_progress |-> "completed", completed |-> "created"]

Keep(new, old) == IF new = "keep" THEN old ELSE new

Valid(p) ==
    /\ op[p] \in {"update", "list"} => arg[p].status # "bogus"
    /\ op[p] \in {"create", "update"} => arg[p].title # "blank"
    /\ op[p] = "update" => arg[p] # [title |-> "keep", status |-> "keep"]

-----------------------------------------------------------------------------
Init ==
    /\ alive = Users
    /\ board = [i \in {} |-> None]
    /\ op = [p \in Requests |-> "none"]
    /\ actor = [p \in Requests |-> None]
    /\ id = [p \in Requests |-> None]
    /\ arg = [p \in Requests |-> [title |-> "keep", status |-> "keep"]]
    /\ out = [p \in Requests |-> "none"]

\* The admin has no tasks and is refused at once.
Ask(p) ==
    /\ op[p] = "none"
    /\ op'[p] # "none"
    /\ \A q \in Requests \ {p} : op'[q] = op[q] /\ actor'[q] = actor[q] /\ id'[q] = id[q] /\ arg'[q] = arg[q]
    /\ actor'[p] \in Users \cup {Admin}
    /\ IF actor'[p] = Admin THEN Answer(p, "forbidden") ELSE UNCHANGED out
    /\ UNCHANGED <<alive, board>>

Create(p) ==
    /\ op[p] = "create" /\ Pending(p) /\ Valid(p)
    /\ actor[p] \in alive
    /\ \E i \in TaskIds \ DOMAIN board :
          board' = [j \in DOMAIN board \cup {i} |->
                      IF j = i THEN [own |-> actor[p], status |-> "created", title |-> "first"]
                      ELSE board[j]]
    /\ Done(p)
    /\ UNCHANGED <<alive, request>>

\* A toggle moves the task from the status it has to the one after it.
Toggle(p) ==
    /\ op[p] = "toggle" /\ Pending(p) /\ Mine(p)
    /\ board' = [board EXCEPT ![id[p]].status = Cycle[@]]
    /\ Done(p)
    /\ UNCHANGED <<alive, request>>

Update(p) ==
    /\ op[p] = "update" /\ Pending(p) /\ Mine(p) /\ Valid(p)
    /\ board' = [board EXCEPT ![id[p]].title = Keep(arg[p].title, @),
                              ![id[p]].status = Keep(arg[p].status, @)]
    /\ Done(p)
    /\ UNCHANGED <<alive, request>>

Delete(p) ==
    /\ op[p] = "delete" /\ Pending(p) /\ Mine(p)
    /\ board' = [i \in DOMAIN board \ {id[p]} |-> board[i]]
    /\ Done(p)
    /\ UNCHANGED <<alive, request>>

Look(p) ==
    /\ Pending(p)
    /\ (op[p] = "list" /\ Valid(p)) \/ (op[p] = "get" /\ Mine(p))
    /\ Answer(p, "ok")
    /\ UNCHANGED <<alive, board, request>>

\* Answers of requests without effect: each is true at the moment it is given.
Refuse(p) ==
    /\ Pending(p)
    /\ \/ op[p] \in {"toggle", "update", "delete", "get"} /\ ~Mine(p) /\ Answer(p, "notfound")
       \/ op[p] = "toggle" /\ Mine(p) /\ Answer(p, "conflict")
       \/ op[p] \in {"create", "update", "list"} /\ ~Valid(p) /\ Answer(p, "invalid")
       \/ Answer(p, "failed")
    /\ UNCHANGED <<alive, board, request>>

Leave(p) ==
    /\ out[p] # "none"
    /\ op' = [op EXCEPT ![p] = "none"]
    /\ actor' = [actor EXCEPT ![p] = None]
    /\ id' = [id EXCEPT ![p] = None]
    /\ arg' = [arg EXCEPT ![p] = [title |-> "keep", status |-> "keep"]]
    /\ Answer(p, "none")
    /\ UNCHANGED <<alive, board>>

\* An account goes with its tasks.
RemoveUser(u) ==
    /\ u \in alive
    /\ alive' = alive \ {u}
    /\ board' = [i \in {j \in DOMAIN board : board[j].own # u} |-> board[i]]
    /\ UNCHANGED <<request, out>>

Next ==
    \/ \E p \in Requests :
          Ask(p) \/ Create(p) \/ Toggle(p) \/ Update(p) \/ Delete(p) \/ Look(p) \/ Refuse(p) \/ Leave(p)
    \/ \E u \in Users : RemoveUser(u)

Spec == Init /\ [][Next]_vars
=============================================================================
