---------------------------- MODULE LocklessQueue ---------------------------
(***************************************************************************)
(* LocklessQueue with a counter (src/src/queue.rs): a lock-free FIFO next  *)
(* to an atomic counter that starts at BASELINE.  The two are updated by   *)
(* separate atomic operations, the counter after a push and before a pop,  *)
(* and a counter found below BASELINE is put back with a blind store.      *)
(*                                                                         *)
(* The queue itself (crate lockfree) is linearizable; no property here     *)
(* depends on which elements it holds, so it is modelled by its length.    *)
(***************************************************************************)
EXTENDS Integers, FiniteSets

CONSTANTS
  Thread,     \* threads that share the queue
  Baseline,   \* BASELINE
  MaxLen      \* bound: the most elements the queue holds

ASSUME QueueAssumption ==
  /\ IsFiniteSet(Thread)
  /\ Baseline \in Nat
  /\ Cardinality(Thread) < Baseline
  /\ MaxLen \in Nat

VARIABLES
  q,      \* number of elements in the underlying queue
  count,  \* the shared counter
  pc      \* what each thread does next

vars == <<q, count, pc>>

TypeOK ==
  /\ q \in 0 .. MaxLen
  /\ count \in Nat
  /\ pc \in [Thread -> {"idle", "add", "reset", "pop", "len_reset"}]

Init ==
  /\ q = 0
  /\ count = Baseline
  /\ pc = [t \in Thread |-> "idle"]

-----------------------------------------------------------------------------
(* enqueue: push, then count.                                              *)

EnqueuePush(t) ==
  /\ pc[t] = "idle"
  /\ q < MaxLen
  /\ q' = q + 1
  /\ pc' = [pc EXCEPT ![t] = "add"]
  /\ UNCHANGED count

EnqueueAdd(t) ==
  /\ pc[t] = "add"
  /\ count' = count + 1
  /\ pc' = [pc EXCEPT ![t] = "idle"]
  /\ UNCHANGED q

-----------------------------------------------------------------------------
(* dequeue: count, repair the counter if the value before the decrement    *)
(* was below the baseline, then pop.                                       *)

Underflow_Unchecked == FALSE
Underflow == count < Baseline

DequeueSub(t) ==
  /\ pc[t] = "idle"
  /\ count' = count - 1
  /\ pc' = [pc EXCEPT ![t] = IF Underflow THEN "reset" ELSE "pop"]
  /\ UNCHANGED q

(* The value a repair stores.                                              *)
ResetValue_Slack == Baseline + 1
ResetValue == Baseline

DequeueReset(t) ==
  /\ pc[t] = "reset"
  /\ count' = ResetValue
  /\ pc' = [pc EXCEPT ![t] = "pop"]
  /\ UNCHANGED q

(* pop removes an element, or returns None from an empty queue.            *)
DequeuePop(t) ==
  /\ pc[t] = "pop"
  /\ q' = IF q = 0 THEN 0 ELSE q - 1
  /\ pc' = [pc EXCEPT ![t] = "idle"]
  /\ UNCHANGED count

-----------------------------------------------------------------------------
(* len and is_empty: a load, and a store when it is below the baseline.    *)

LenLoad(t) ==
  /\ pc[t] = "idle"
  /\ count < Baseline
  /\ pc' = [pc EXCEPT ![t] = "len_reset"]
  /\ UNCHANGED <<q, count>>

LenReset(t) ==
  /\ pc[t] = "len_reset"
  /\ count' = ResetValue
  /\ pc' = [pc EXCEPT ![t] = "idle"]
  /\ UNCHANGED q

(* What len returns when it runs undisturbed.                              *)
Len == IF count < Baseline THEN 0 ELSE count - Baseline
IsEmpty == Len = 0

-----------------------------------------------------------------------------
Next ==
  \E t \in Thread :
    \/ EnqueuePush(t) \/ EnqueueAdd(t)
    \/ DequeueSub(t) \/ DequeueReset(t) \/ DequeuePop(t)
    \/ LenLoad(t) \/ LenReset(t)

Spec == Init /\ [][Next]_vars

-----------------------------------------------------------------------------
(* Properties.                                                             *)

At(labels) == {t \in Thread : pc[t] \in labels}

(***************************************************************************)
(* However many threads dequeue from an empty queue at once, the counter   *)
(* is below BASELINE by at most one more than the number of repairs on     *)
(* their way, so that with fewer threads than BASELINE the unsigned value  *)
(* never wraps.                                                            *)
(***************************************************************************)
CounterNeverWraps ==
  count >= Baseline - 1 - Cardinality(At({"reset"}))

(***************************************************************************)
(* len() never overstates the queue by more than one element per thread,   *)
(* although a blind repair store forgets decrements whose pops are still   *)
(* to come, and the error can outlive the operations that caused it.       *)
(***************************************************************************)
OverestimateBounded ==
  count - Baseline <= q + Cardinality(Thread)
                        - Cardinality(At({"add", "reset", "pop"}))

(***************************************************************************)
(* What the doc comment of is_empty says: it returns true if the queue is  *)
(* empty.  Stated for a moment when no operation is in progress.           *)
(***************************************************************************)
IsEmptyMeansEmpty ==
  (\A t \in Thread : pc[t] = "idle") => (IsEmpty => q = 0)
=============================================================================
