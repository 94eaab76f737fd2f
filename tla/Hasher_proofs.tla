---------------------------- MODULE Hasher_proofs ----------------------------
(* Proofs about Hasher, for any callers and any number of slots.            *)
EXTENDS Hasher, FiniteSetTheorems, TLAPS

\* Callers that are inside bcrypt.
Hashing == {c \in Callers : pc[c] = "hash"}

HasherInv == TypeOK /\ NoSlotLeaks

LEMMA HashingIsFinite == IsFiniteSet(Hashing) /\ Cardinality(Hashing) \in Nat
  <1>1. Hashing \subseteq Callers /\ IsFiniteSet(Callers)
    BY HasherAssumption DEF Hashing
  <1> QED
    BY <1>1, FS_Subset, FS_CardinalityType

LEMMA InitInv == Init => HasherInv
  <1> SUFFICES ASSUME Init
               PROVE  HasherInv
    OBVIOUS
  <1>1. TypeOK
    BY HasherAssumption DEF Init, TypeOK
  <1>2. Hashing = {}
    BY DEF Init, Hashing
  <1>3. slots = Cardinality(Hashing)
    BY <1>2, FS_EmptySet DEF Init
  <1> QED
    BY <1>1, <1>3 DEF HasherInv, NoSlotLeaks, Hashing

\* Steps that neither enter nor leave bcrypt.
LEMMA OutsideKeepsInv ==
    ASSUME HasherInv, TypeOK', UNCHANGED slots,
           \A c \in Callers : (pc[c] = "hash") <=> (pc'[c] = "hash")
    PROVE  HasherInv'
  <1>1. Hashing' = Hashing
    BY DEF Hashing
  <1> QED
    BY <1>1 DEF HasherInv, NoSlotLeaks, Hashing

LEMMA NextInv == HasherInv /\ [Next]_vars => HasherInv'
  <1> SUFFICES ASSUME HasherInv, [Next]_vars
               PROVE  HasherInv'
    OBVIOUS
  <1>t. TypeOK /\ slots = Cardinality(Hashing)
    BY DEF HasherInv, NoSlotLeaks, Hashing
  <1>1. ASSUME NEW c \in Callers, Call(c) PROVE HasherInv'
    <2>1. TypeOK'
      BY <1>1, <1>t DEF Call, Answer, Goto, TypeOK
    <2> QED
      BY <1>1, <1>t, <2>1, OutsideKeepsInv DEF Call, Answer, Goto, TypeOK
  <1>2. ASSUME NEW c \in Callers, Deadline(c) PROVE HasherInv'
    <2>1. TypeOK'
      BY <1>2, <1>t DEF Deadline, TypeOK
    <2> QED
      BY <1>2, <1>t, <2>1, OutsideKeepsInv DEF Deadline, TypeOK
  <1>3. ASSUME NEW c \in Callers, Ask(c) PROVE HasherInv'
    <2>1. TypeOK'
      BY <1>3, <1>t DEF Ask, Answer, Goto, TypeOK
    <2> QED
      BY <1>3, <1>t, <2>1, OutsideKeepsInv DEF Ask, Answer, Goto, TypeOK
  <1>4. ASSUME NEW c \in Callers, Acquire(c) PROVE HasherInv'
    <2>1. TypeOK'
      BY <1>4, <1>t, HasherAssumption DEF Acquire, Room, Goto, TypeOK
    <2>2. Hashing' = Hashing \cup {c} /\ c \notin Hashing
      BY <1>4, <1>t DEF Acquire, Goto, TypeOK, Hashing
    <2>3. Cardinality(Hashing') = Cardinality(Hashing) + 1
      BY <2>2, HashingIsFinite, FS_AddElement
    <2> QED
      BY <1>4, <1>t, <2>1, <2>3 DEF Acquire, HasherInv, NoSlotLeaks, Hashing
  <1>5. ASSUME NEW c \in Callers, GiveUp(c) PROVE HasherInv'
    <2>1. TypeOK'
      BY <1>5, <1>t DEF GiveUp, Answer, Goto, TypeOK
    <2> QED
      BY <1>5, <1>t, <2>1, OutsideKeepsInv DEF GiveUp, Answer, Goto, TypeOK
  <1>6. ASSUME NEW c \in Callers, Bcrypt(c) PROVE HasherInv'
    <2>1. Hashing' = Hashing \ {c} /\ c \in Hashing
      BY <1>6, <1>t DEF Bcrypt, Answer, Goto, TypeOK, Hashing
    <2>2. Cardinality(Hashing') = Cardinality(Hashing) - 1
      BY <2>1, HashingIsFinite, FS_RemoveElement
    <2>3. Cardinality(Hashing') \in Nat
      BY <2>1, HashingIsFinite, FS_RemoveElement, FS_CardinalityType
    <2>4. slots' = Cardinality(Hashing')
      BY <1>6, <1>t, <2>2 DEF Bcrypt, Release
    <2>5. slots' \in 0 .. Slots
      BY <1>t, <2>2, <2>3, <2>4, HashingIsFinite, HasherAssumption DEF TypeOK
    <2>6. TypeOK'
      BY <1>6, <1>t, <2>5 DEF Bcrypt, Outcomes, Answer, Goto, TypeOK
    <2> QED
      BY <2>4, <2>6 DEF HasherInv, NoSlotLeaks, Hashing
  <1>7. ASSUME NEW c \in Callers, Return(c) PROVE HasherInv'
    <2>1. TypeOK'
      BY <1>7, <1>t DEF Return, Goto, TypeOK
    <2> QED
      BY <1>7, <1>t, <2>1, OutsideKeepsInv DEF Return, Goto, TypeOK
  <1>8. CASE UNCHANGED vars
    <2>1. TypeOK'
      BY <1>8, <1>t DEF vars, TypeOK
    <2> QED
      BY <1>8, <2>1, OutsideKeepsInv DEF vars
  <1> QED
    BY <1>1, <1>2, <1>3, <1>4, <1>5, <1>6, <1>7, <1>8 DEF Next

\* The number of slots in use is within the capacity of the channel.
THEOREM HasherTypes == Spec => []TypeOK
  <1>1. HasherInv => TypeOK
    BY DEF HasherInv
  <1> QED
    BY <1>1, InitInv, NextInv, PTL DEF Spec

\* Whatever fails and whenever deadlines pass, acquire and its deferred release
\* are balanced: the channel holds one element per running bcrypt.
THEOREM SlotsAreBalanced == Spec => []NoSlotLeaks
  <1>1. HasherInv => NoSlotLeaks
    BY DEF HasherInv
  <1> QED
    BY <1>1, InitInv, NextInv, PTL DEF Spec
=============================================================================
