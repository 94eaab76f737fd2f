------------------------------- MODULE Hasher -------------------------------
(***************************************************************************)
(* password.Hasher: a counting semaphore (a buffered channel) in front of  *)
(* bcrypt.  Callers are request handlers that hash or verify a password    *)
(* under the deadline of their context.                                    *)
(***************************************************************************)
EXTENDS Naturals, FiniteSets

CONSTANTS
    Callers,   \* request handlers
    Slots      \* cap(h.slots), maxConcurrent of NewHasher

\* NewHasher refuses a maximum below one.
ASSUME HasherAssumption == IsFiniteSet(Callers) /\ Slots \in Nat \ {0}

VARIABLES
    pc,     \* pc[c]: "idle", "ask", "wait", "hash", "done"
    op,     \* op[c]: "hash" or "verify"
    late,   \* late[c]: the context of c is done
    slots,  \* len(h.slots)
    ans     \* ans[c]: what the call returned

vars == <<pc, op, late, slots, ans>>

Init ==
    /\ pc = [c \in Callers |-> "idle"]
    /\ op = [c \in Callers |-> "verify"]
    /\ late = [c \in Callers |-> FALSE]
    /\ slots = 0
    /\ ans = [c \in Callers |-> "none"]

Goto(c, l) == pc' = [pc EXCEPT ![c] = l]
Answer(c, a) == Goto(c, "done") /\ ans' = [ans EXCEPT ![c] = a]

\* Hash refuses an empty password before it asks for a slot, Verify does not.
Call(c) ==
    /\ pc[c] = "idle"
    /\ \/ /\ \E o \in {"hash", "verify"} : op' = [op EXCEPT ![c] = o]
          /\ Goto(c, "ask") /\ UNCHANGED ans
       \/ op' = [op EXCEPT ![c] = "hash"] /\ Answer(c, "error")
    /\ UNCHANGED <<late, slots>>

\* The deadline passes, at any moment of the call.
Deadline(c) ==
    /\ pc[c] \in {"ask", "wait", "hash"} /\ ~late[c]
    /\ late' = [late EXCEPT ![c] = TRUE]
    /\ UNCHANGED <<pc, op, slots, ans>>

\* acquire: if err := ctx.Err(); err != nil.
Ask(c) ==
    /\ pc[c] = "ask"
    /\ IF late[c] THEN Answer(c, "timeout") ELSE Goto(c, "wait") /\ UNCHANGED ans
    /\ UNCHANGED <<op, late, slots>>

\* Mutant: one slot more than the channel holds.
Room_OffByOne == slots <= Slots

\* A send on h.slots does not block.
Room == slots < Slots

\* case h.slots <- struct{}{}, even if the deadline has passed meanwhile.
Acquire(c) ==
    /\ pc[c] = "wait" /\ Room
    /\ slots' = slots + 1
    /\ Goto(c, "hash")
    /\ UNCHANGED <<op, late, ans>>

\* case <-ctx.Done().
GiveUp(c) ==
    /\ pc[c] = "wait" /\ late[c]
    /\ Answer(c, "timeout")
    /\ UNCHANGED <<op, late, slots>>

\* bcrypt cannot be interrupted; its outcomes: success, a wrong password, or an
\* input that cannot be used (too long, a malformed stored hash).
Outcomes(o) == IF o = "hash" THEN {"ok", "error"} ELSE {"ok", "mismatch", "error"}

\* Mutant: the slot is given back only after a success.
Release_OnSuccess(a) == slots' = IF a = "ok" THEN slots - 1 ELSE slots

\* defer release().
Release(a) == slots' = slots - 1

Bcrypt(c) ==
    /\ pc[c] = "hash"
    /\ \E a \in Outcomes(op[c]) : Answer(c, a) /\ Release(a)
    /\ UNCHANGED <<op, late>>

Return(c) ==
    /\ pc[c] = "done"
    /\ Goto(c, "idle")
    /\ op' = [op EXCEPT ![c] = "verify"]
    /\ late' = [late EXCEPT ![c] = FALSE]
    /\ ans' = [ans EXCEPT ![c] = "none"]
    /\ UNCHANGED slots

Next == \E c \in Callers : Call(c) \/ Deadline(c) \/ Ask(c) \/ Acquire(c) \/ GiveUp(c) \/ Bcrypt(c) \/ Return(c)

Spec == Init /\ [][Next]_vars

\* bcrypt ends and goroutines run; senders that wait on a channel are served in
\* turn.  No deadline has to pass.
FairSpec ==
    Spec /\ \A c \in Callers :
        WF_vars(Ask(c)) /\ SF_vars(Acquire(c)) /\ WF_vars(Bcrypt(c)) /\ WF_vars(Return(c))

-----------------------------------------------------------------------------
TypeOK ==
    /\ pc \in [Callers -> {"idle", "ask", "wait", "hash", "done"}]
    /\ op \in [Callers -> {"hash", "verify"}]
    /\ late \in [Callers -> BOOLEAN]
    /\ slots \in 0 .. Slots
    /\ ans \in [Callers -> {"none", "ok", "mismatch", "error", "timeout"}]

\* The channel holds exactly one element per running bcrypt: none is lost when
\* a call fails or its deadline passes, so the limit never shrinks.
NoSlotLeaks == slots = Cardinality({c \in Callers : pc[c] = "hash"})

\* Every call comes back although others keep asking and no deadline passes.
EveryCallReturns == \A c \in Callers : (pc[c] # "idle") ~> (pc[c] = "idle")
=============================================================================
