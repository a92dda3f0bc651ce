------------------------- MODULE LocklessQueueProofs ------------------------
(***************************************************************************)
(* Proofs about the counter of LocklessQueue for any finite set of         *)
(* threads smaller than BASELINE and a queue of any length.                *)
(***************************************************************************)
EXTENDS LocklessQueue, FiniteSetTheorems, TLAPS

Busy == {"add", "reset", "pop"}

(* A set of threads at given labels is finite and no larger than Thread.   *)
LEMMA AtType ==
  ASSUME NEW L
  PROVE  /\ IsFiniteSet(At(L))
         /\ Cardinality(At(L)) \in Nat
         /\ Cardinality(At(L)) <= Cardinality(Thread)
         /\ Cardinality(Thread) \in Nat
<1>1. At(L) \subseteq Thread
  BY DEF At
<1> QED BY <1>1, QueueAssumption, FS_Subset, FS_CardinalityType

(* How the number of threads at given labels changes when one moves.       *)
LEMMA AtStep ==
  ASSUME NEW L, NEW t \in Thread, NEW l,
         pc \in [Thread -> {"idle", "add", "reset", "pop", "len_reset"}],
         pc' = [pc EXCEPT ![t] = l]
  PROVE  Cardinality(At(L)') = Cardinality(At(L))
           + (IF l \in L THEN 1 ELSE 0) - (IF pc[t] \in L THEN 1 ELSE 0)
<1>1. At(L)' = IF l \in L THEN At(L) \cup {t} ELSE At(L) \ {t}
  BY DEF At
<1>2. t \in At(L) <=> pc[t] \in L
  BY DEF At
<1>3. IsFiniteSet(At(L)) /\ Cardinality(At(L)) \in Nat
  BY AtType
<1>4. Cardinality(At(L) \cup {t})
        = IF t \in At(L) THEN Cardinality(At(L)) ELSE Cardinality(At(L)) + 1
  BY <1>3, FS_AddElement
<1>5. Cardinality(At(L) \ {t})
        = IF t \in At(L) THEN Cardinality(At(L)) - 1 ELSE Cardinality(At(L))
  BY <1>3, FS_RemoveElement
<1> QED BY <1>1, <1>2, <1>3, <1>4, <1>5

(* The two bounds, together with the types, are inductive.                 *)
IInv == TypeOK /\ CounterNeverWraps /\ OverestimateBounded

(* The counter starts at the baseline and nobody is busy.                  *)
LEMMA InitInv == Init => IInv
<1> SUFFICES ASSUME Init PROVE IInv
  OBVIOUS
<1>1. At({"reset"}) = {} /\ At(Busy) = {}
  BY DEF Init, At, Busy
<1>2. Cardinality({}) = 0
  BY FS_EmptySet
<1>3. Cardinality(Thread) \in Nat
  BY AtType
<1> QED BY <1>1, <1>2, <1>3, QueueAssumption
        DEF Init, IInv, TypeOK, CounterNeverWraps, OverestimateBounded, Busy

(* Every step keeps both bounds.                                           *)
LEMMA NextInv == ASSUME IInv, [Next]_vars PROVE IInv'
<1>1. CASE UNCHANGED vars
  BY <1>1 DEF vars, IInv, TypeOK, CounterNeverWraps, OverestimateBounded, At
<1>2. CASE Next
  <2>1. PICK t \in Thread :
          \/ EnqueuePush(t) \/ EnqueueAdd(t)
          \/ DequeueSub(t) \/ DequeueReset(t) \/ DequeuePop(t)
          \/ LenLoad(t) \/ LenReset(t)
    BY <1>2 DEF Next
  <2> DEFINE R == Cardinality(At({"reset"}))
             B == Cardinality(At(Busy))
             N == Cardinality(Thread)
  <2>2. /\ R \in Nat /\ B \in Nat /\ N \in Nat /\ B <= N /\ R <= N
        /\ R' \in Nat /\ B' \in Nat /\ B' <= N /\ R' <= N
    <3>1. /\ IsFiniteSet(At({"reset"})') /\ IsFiniteSet(At(Busy)')
          /\ At({"reset"})' \subseteq Thread /\ At(Busy)' \subseteq Thread
      BY QueueAssumption, FS_Subset DEF At, Busy
    <3>2. R' \in Nat /\ B' \in Nat /\ B' <= N /\ R' <= N
      BY <3>1, QueueAssumption, FS_Subset, FS_CardinalityType DEF Busy
    <3> QED BY <3>2, AtType
  <2>3. /\ q \in Nat /\ count \in Nat /\ Baseline \in Nat /\ MaxLen \in Nat
        /\ q <= MaxLen /\ N < Baseline
        /\ count >= Baseline - 1 - R
        /\ count - Baseline <= q + N - B
        /\ pc \in [Thread -> {"idle", "add", "reset", "pop", "len_reset"}]
    BY QueueAssumption DEF IInv, TypeOK, CounterNeverWraps, OverestimateBounded, Busy
  <2>4. ASSUME NEW l \in {"idle", "add", "reset", "pop", "len_reset"},
               pc' = [pc EXCEPT ![t] = l]
        PROVE  /\ R' = R + (IF l = "reset" THEN 1 ELSE 0) - (IF pc[t] = "reset" THEN 1 ELSE 0)
               /\ B' = B + (IF l \in Busy THEN 1 ELSE 0) - (IF pc[t] \in Busy THEN 1 ELSE 0)
               /\ pc' \in [Thread -> {"idle", "add", "reset", "pop", "len_reset"}]
    BY <2>3, <2>4, AtStep
  <2>5. ASSUME q' \in 0 .. MaxLen, count' \in Nat,
               pc' \in [Thread -> {"idle", "add", "reset", "pop", "len_reset"}],
               count' >= Baseline - 1 - R', count' - Baseline <= q' + N - B'
        PROVE  IInv'
    <3>1. TypeOK'
      BY <2>5 DEF TypeOK
    <3>2. CounterNeverWraps'
      BY <2>5 DEF CounterNeverWraps
    <3>3. OverestimateBounded'
      BY <2>5 DEF OverestimateBounded, Busy
    <3> QED BY <3>1, <3>2, <3>3 DEF IInv
  <2> HIDE DEF R, B, N
  <2> USE DEF Busy
  <2>6. CASE EnqueuePush(t)
    BY <2>2, <2>3, <2>4, <2>5, <2>6 DEF EnqueuePush
  <2>7. CASE EnqueueAdd(t)
    BY <2>2, <2>3, <2>4, <2>5, <2>7 DEF EnqueueAdd
  <2>8. CASE DequeueSub(t)
    <3>1. pc[t] = "idle" /\ count' = count - 1 /\ q' = q
      BY <2>8 DEF DequeueSub
    <3>2. CASE Underflow
      <4>1. pc' = [pc EXCEPT ![t] = "reset"]
        BY <2>8, <3>2 DEF DequeueSub
      <4>2. R' = R + 1 /\ B' = B + 1
        BY <2>2, <2>4, <3>1, <4>1
      <4> QED BY <2>2, <2>3, <2>4, <2>5, <3>1, <4>1, <4>2
    <3>3. CASE ~Underflow
      <4>1. pc' = [pc EXCEPT ![t] = "pop"]
        BY <2>8, <3>3 DEF DequeueSub
      <4>2. R' = R /\ B' = B + 1
        BY <2>2, <2>4, <3>1, <4>1
      <4> QED BY <2>2, <2>3, <2>4, <2>5, <3>1, <3>3, <4>1, <4>2 DEF Underflow
    <3> QED BY <3>2, <3>3
  <2>9. CASE DequeueReset(t)
    BY <2>2, <2>3, <2>4, <2>5, <2>9 DEF DequeueReset, ResetValue
  <2>10. CASE DequeuePop(t)
    BY <2>2, <2>3, <2>4, <2>5, <2>10 DEF DequeuePop
  <2>11. CASE LenLoad(t)
    BY <2>2, <2>3, <2>4, <2>5, <2>11 DEF LenLoad
  <2>12. CASE LenReset(t)
    BY <2>2, <2>3, <2>4, <2>5, <2>12 DEF LenReset, ResetValue
  <2> QED BY <2>1, <2>6, <2>7, <2>8, <2>9, <2>10, <2>11, <2>12
<1> QED BY <1>1, <1>2

(* Every reachable state satisfies the inductive invariant.                *)
LEMMA InvariantHolds == Spec => []IInv
<1>1. IInv /\ [Next]_vars => IInv'
  BY NextInv
<1> QED BY InitInv, <1>1, PTL DEF Spec

(* The counter is a natural number at all times: it never wraps.           *)
THEOREM TypeCorrect == Spec => []TypeOK
<1>1. IInv => TypeOK
  BY DEF IInv
<1> QED BY InvariantHolds, <1>1, PTL

(* The counter falls below BASELINE by at most one more than the number of *)
(* repairs on their way, for any number of threads.                        *)
THEOREM UnderflowIsBounded == Spec => []CounterNeverWraps
<1>1. IInv => CounterNeverWraps
  BY DEF IInv
<1> QED BY InvariantHolds, <1>1, PTL

(* len() exceeds the length of the queue by at most one per thread.        *)
THEOREM OverestimateIsBounded == Spec => []OverestimateBounded
<1>1. IInv => OverestimateBounded
  BY DEF IInv
<1> QED BY InvariantHolds, <1>1, PTL
=============================================================================
