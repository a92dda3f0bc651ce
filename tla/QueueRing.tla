------------------------------ MODULE QueueRing -----------------------------
(***************************************************************************)
(* QueueRing and QueueIterator (src/src/queue.rs): producers append to the *)
(* active one of two lock-free queues; a consumer switches the active      *)
(* queue, takes over the length counter of the old one, and iterates over  *)
(* the old queue until several pops in a row find it empty.                *)
(*                                                                         *)
(* next_i is only used modulo the number of queues and is modelled by its  *)
(* parity; the underlying queues (crate lockfree) are FIFOs.  The counter  *)
(* QueueIterator.saftey_count is never read and is left out.               *)
(***************************************************************************)
EXTENDS Naturals, Sequences, FiniteSets

CONSTANTS
  Producer,   \* threads that enqueue
  Consumer,   \* threads that dequeue batches
  Item,       \* the elements, each enqueued at most once
  None        \* no element

ASSUME RingAssumption ==
  /\ None \notin Item
  /\ IsFiniteSet(Item) /\ IsFiniteSet(Producer)

Q == {0, 1}

VARIABLES
  next_i,        \* the shared index, modulo 2
  l_len,         \* the length counters
  l_q,           \* the two queues
  fresh,         \* elements no producer has taken up yet
  value,         \* the element a producer is enqueuing
  slot,          \* the index k it has computed
  counted,       \* it has incremented l_len[k]
  pc,            \* where each consumer is
  old_k,         \* the queue a consumer drains
  len,           \* QueueIterator.len
  tries,         \* pops of the current next() that found nothing
  yields,        \* history: how many elements that iterator has yielded
  handed,        \* history: sum of the lengths of all iterators
  yielded        \* history: the elements yielded by all iterators

vars == <<next_i, l_len, l_q, fresh, value, slot, counted,
          pc, old_k, len, tries, yields, handed, yielded>>

producerVars == <<fresh, value, slot, counted>>
consumerVars == <<pc, old_k, len, tries, yields, handed, yielded>>

TypeOK ==
  /\ next_i \in Q
  /\ l_len \in [Q -> 0 .. Cardinality(Item)]
  /\ l_q \in [Q -> Seq(Item)]
  /\ fresh \in SUBSET Item
  /\ value \in [Producer -> Item \cup {None}]
  /\ slot \in [Producer -> Q]
  /\ counted \in [Producer -> BOOLEAN]
  /\ pc \in [Consumer -> {"idle", "swap", "iterate"}]
  /\ old_k \in [Consumer -> Q]
  /\ len \in [Consumer -> Nat]
  /\ tries \in [Consumer -> 0 .. 4]
  /\ yields \in [Consumer -> Nat]
  /\ handed \in Nat
  /\ yielded \in SUBSET Item

Init ==
  /\ next_i = 0
  /\ l_len = [k \in Q |-> 0]
  /\ l_q = [k \in Q |-> <<>>]
  /\ fresh = Item
  /\ value = [p \in Producer |-> None]
  /\ slot = [p \in Producer |-> 0]
  /\ counted = [p \in Producer |-> FALSE]
  /\ pc = [c \in Consumer |-> "idle"]
  /\ old_k = [c \in Consumer |-> 0]
  /\ len = [c \in Consumer |-> 0]
  /\ tries = [c \in Consumer |-> 0]
  /\ yields = [c \in Consumer |-> 0]
  /\ handed = 0
  /\ yielded = {}

-----------------------------------------------------------------------------
(* QueueRing::enqueue: load the index, count, push.                        *)

EnqueueLoad(p, v) ==
  /\ value[p] = None
  /\ v \in fresh
  /\ fresh' = fresh \ {v}
  /\ value' = [value EXCEPT ![p] = v]
  /\ slot' = [slot EXCEPT ![p] = next_i]
  /\ UNCHANGED <<next_i, l_len, l_q, counted, consumerVars>>

EnqueueCount(p) ==
  /\ value[p] # None
  /\ ~counted[p]
  /\ l_len' = [l_len EXCEPT ![slot[p]] = @ + 1]
  /\ counted' = [counted EXCEPT ![p] = TRUE]
  /\ UNCHANGED <<next_i, l_q, fresh, value, slot, consumerVars>>

EnqueuePush(p) ==
  /\ counted[p]
  /\ l_q' = [l_q EXCEPT ![slot[p]] = Append(@, value[p])]
  /\ value' = [value EXCEPT ![p] = None]
  /\ slot' = [slot EXCEPT ![p] = 0]
  /\ counted' = [counted EXCEPT ![p] = FALSE]
  /\ UNCHANGED <<next_i, l_len, fresh, consumerVars>>

-----------------------------------------------------------------------------
(* QueueRing::dequeue: switch, then swap the counter.                      *)

DequeueSwitch(c) ==
  /\ pc[c] = "idle"
  /\ old_k' = [old_k EXCEPT ![c] = next_i]
  /\ next_i' = 1 - next_i
  /\ pc' = [pc EXCEPT ![c] = "swap"]
  /\ UNCHANGED <<l_len, l_q, producerVars, len, tries, yields,
                 handed, yielded>>

(* What the swap leaves in the counter.                                    *)
SwapIn_Load(k) == l_len[k]
SwapIn(k) == 0

DequeueSwap(c) ==
  /\ pc[c] = "swap"
  /\ LET k == old_k[c]
     IN  /\ len' = [len EXCEPT ![c] = l_len[k]]
         /\ l_len' = [l_len EXCEPT ![k] = SwapIn(k)]
         /\ handed' = handed + l_len[k]
  /\ pc' = [pc EXCEPT ![c] = "iterate"]
  /\ UNCHANGED <<next_i, l_q, producerVars, old_k, tries, yields, yielded>>

-----------------------------------------------------------------------------
(* QueueIterator::next: a pop and up to three retries.                     *)

(* next() has returned None.                                               *)
Exhausted_AtLen(c) == tries[c] = 4 \/ yields[c] >= len[c]
Exhausted_OneMore(c) == tries[c] = 5
Exhausted(c) == tries[c] = 4

NextSome(c) ==
  LET k == old_k[c] IN
  /\ pc[c] = "iterate"
  /\ ~Exhausted(c)
  /\ l_q[k] # <<>>
  /\ yields' = [yields EXCEPT ![c] = @ + 1]
  /\ yielded' = yielded \cup {Head(l_q[k])}
  /\ l_q' = [l_q EXCEPT ![k] = Tail(@)]
  /\ tries' = [tries EXCEPT ![c] = 0]
  /\ UNCHANGED <<next_i, l_len, producerVars, pc, old_k, len, handed>>

NextEmpty(c) ==
  /\ pc[c] = "iterate"
  /\ ~Exhausted(c)
  /\ l_q[old_k[c]] = <<>>
  /\ tries' = [tries EXCEPT ![c] = @ + 1]
  /\ UNCHANGED <<next_i, l_len, l_q, producerVars, pc, old_k, len,
                 yields, handed, yielded>>

(* The iterator is dropped; what is left in its queue stays there.         *)
DropIterator(c) ==
  /\ pc' = [pc EXCEPT ![c] = "idle"]
  /\ old_k' = [old_k EXCEPT ![c] = 0]
  /\ len' = [len EXCEPT ![c] = 0]
  /\ yields' = [yields EXCEPT ![c] = 0]
  /\ tries' = [tries EXCEPT ![c] = 0]
  /\ UNCHANGED <<next_i, l_len, l_q, producerVars, handed, yielded>>

(* A loop over the batch drops it after None ...                           *)
IteratorDone(c) ==
  /\ pc[c] = "iterate"
  /\ Exhausted(c)
  /\ DropIterator(c)

(* ... and a caller may also give it up between two calls of next().       *)
Abandon(c) ==
  /\ pc[c] = "iterate"
  /\ tries[c] = 0
  /\ ~Exhausted(c)
  /\ DropIterator(c)

-----------------------------------------------------------------------------
Enqueue(p) ==
  \/ \E v \in Item : EnqueueLoad(p, v)
  \/ EnqueueCount(p) \/ EnqueuePush(p)

Dequeue(c) ==
  \/ DequeueSwitch(c) \/ DequeueSwap(c)
  \/ NextSome(c) \/ NextEmpty(c) \/ IteratorDone(c)

Next ==
  \/ \E p \in Producer : Enqueue(p)
  \/ \E c \in Consumer : Dequeue(c) \/ Abandon(c)

(***************************************************************************)
(* An enqueue that has started is finished by its thread, and consumers    *)
(* keep taking batches and draining them, as a batching loop does.         *)
(***************************************************************************)
Fairness ==
  /\ \A p \in Producer : WF_vars(EnqueueCount(p) \/ EnqueuePush(p))
  /\ \A c \in Consumer : WF_vars(Dequeue(c))

Spec == Init /\ [][Next]_vars /\ Fairness

-----------------------------------------------------------------------------
(* Properties.                                                             *)

(***************************************************************************)
(* The lengths handed out with the batches, plus what the counters still   *)
(* hold, are exactly the elements that were yielded, wait in a queue, or   *)
(* are counted and about to be pushed.  A batch may be told too little or  *)
(* too much, and the difference is made up by another batch.               *)
(***************************************************************************)
LenAccounting ==
  handed + l_len[0] + l_len[1]
    = Cardinality(yielded) + Len(l_q[0]) + Len(l_q[1])
        + Cardinality({p \in Producer : counted[p]})

(***************************************************************************)
(* Once consumers drain what they take, every element a producer takes up  *)
(* is yielded by some batch: also one left behind in a batch that was      *)
(* given up, and also when the producer computed the index, was overtaken  *)
(* by a switch and pushed to a queue whose batch was already finished.     *)
(***************************************************************************)
EveryItemYielded ==
  (<>[][\A c \in Consumer : ~Abandon(c)]_vars) =>
    \A v \in Item : v \notin fresh ~> v \in yielded
=============================================================================
