--------------------------- MODULE QueueRingProofs --------------------------
(***************************************************************************)
(* Proofs about QueueRing, for any finite sets of producers and elements   *)
(* and any set of consumers.                                               *)
(***************************************************************************)
EXTENDS QueueRing, FiniteSetTheorems, TLAPS

-----------------------------------------------------------------------------
(* The inductive invariant.                                                *)

(* TypeOK without the bound on the length counters, which is a             *)
(* consequence of the accounting.                                          *)
Typed ==
  /\ next_i \in Q
  /\ l_len \in [Q -> Nat]
  /\ l_q \in [Q -> Seq(Item)]
  /\ fresh \in SUBSET Item
  /\ value \in [Producer -> Item \cup {None}]
  /\ slot \in [Producer -> Q]
  /\ counted \in [Producer -> BOOLEAN]
  /\ pc \in [Consumer -> {"idle", "swap", "iterate"}]
  /\ old_k \in [Consumer -> Q]
  /\ len \in [Consumer -> Nat]
  /\ tries \in [Consumer -> 0 .. 4]
  /\ yields \in [Consumer -> Nat]
  /\ handed \in Nat
  /\ yielded \in SUBSET Item

(* A producer that has counted is enqueuing something.                     *)
CountedHasValue == \A p \in Producer : counted[p] => value[p] # None

(* An element that waits in a queue is neither fresh nor yielded, and      *)
(* waits in one place only.                                                *)
WaitsOnce ==
  /\ \A k \in Q : \A i \in 1 .. Len(l_q[k]) : l_q[k][i] \notin fresh \cup yielded
  /\ \A k, m \in Q : \A i \in 1 .. Len(l_q[k]) : \A j \in 1 .. Len(l_q[m]) :
       l_q[k][i] = l_q[m][j] => k = m /\ i = j

(* An element a producer is enqueuing is nowhere else.                     *)
TakenOnce ==
  \A p \in Producer : value[p] # None =>
    /\ value[p] \notin fresh \cup yielded
    /\ \A q \in Producer : value[q] = value[p] => q = p
    /\ \A k \in Q : \A i \in 1 .. Len(l_q[k]) : l_q[k][i] # value[p]

(* The producers that hold an element, and those that have counted it.     *)
Holding == {p \in Producer : value[p] # None}
Counting == {p \in Producer : counted[p]}

(* No element is lost or duplicated: each is fresh, held, waiting or       *)
(* yielded.                                                                *)
Conserved ==
  Cardinality(fresh) + Cardinality(Holding) + Len(l_q[0]) + Len(l_q[1])
    + Cardinality(yielded) = Cardinality(Item)

IInv ==
  /\ Typed /\ CountedHasValue /\ WaitsOnce /\ TakenOnce
  /\ fresh \cap yielded = {}
  /\ Conserved /\ LenAccounting

-----------------------------------------------------------------------------
(* Sizes.                                                                  *)

(* Sets of elements and of producers have a size.                          *)
LEMMA Sizes ==
  /\ \A S \in SUBSET Item : IsFiniteSet(S) /\ Cardinality(S) \in Nat
  /\ \A S \in SUBSET Producer : IsFiniteSet(S) /\ Cardinality(S) \in Nat
BY RingAssumption, FS_Subset, FS_CardinalityType

(* How the size of a finite set changes when one element joins or leaves.  *)
LEMMA CountStep ==
  ASSUME NEW S, NEW x, IsFiniteSet(S)
  PROVE  /\ x \notin S => Cardinality(S \cup {x}) = Cardinality(S) + 1
         /\ x \in S => Cardinality(S \ {x}) = Cardinality(S) - 1
<1>1. x \notin S => Cardinality(S \cup {x}) = Cardinality(S) + 1
  BY FS_AddElement
<1>2. x \in S => Cardinality(S \ {x}) = Cardinality(S) - 1
  BY FS_RemoveElement
<1> QED BY <1>1, <1>2

(* The accounting, with the counting producers named.                      *)
LEMMA AccountingAs ==
  LenAccounting <=>
    handed + l_len[0] + l_len[1]
      = Cardinality(yielded) + Len(l_q[0]) + Len(l_q[1]) + Cardinality(Counting)
BY DEF LenAccounting, Counting

(* The counters never exceed the number of elements: whoever has counted   *)
(* holds an element.                                                       *)
LEMMA CountersBounded == ASSUME IInv PROVE TypeOK
<1>1. /\ Typed /\ CountedHasValue /\ Conserved /\ LenAccounting
  BY DEF IInv
<1>2. /\ Holding \in SUBSET Producer /\ Counting \in SUBSET Producer
      /\ Counting \subseteq Holding
  BY <1>1 DEF CountedHasValue, Holding, Counting
<1>3. /\ Cardinality(Holding) \in Nat /\ Cardinality(Counting) \in Nat
      /\ Cardinality(fresh) \in Nat /\ Cardinality(yielded) \in Nat
      /\ Cardinality(Item) \in Nat /\ IsFiniteSet(Holding)
  BY <1>1, <1>2, Sizes DEF Typed
<1>4. Cardinality(Counting) <= Cardinality(Holding)
  BY <1>2, <1>3, FS_Subset
<1>5. /\ l_len[0] \in Nat /\ l_len[1] \in Nat /\ handed \in Nat
      /\ Len(l_q[0]) \in Nat /\ Len(l_q[1]) \in Nat
  BY <1>1 DEF Typed, Q
<1>6. l_len[0] <= Cardinality(Item) /\ l_len[1] <= Cardinality(Item)
  <2>1. handed + l_len[0] + l_len[1]
          = Cardinality(yielded) + Len(l_q[0]) + Len(l_q[1]) + Cardinality(Counting)
    BY <1>1, AccountingAs
  <2>2. Cardinality(fresh) + Cardinality(Holding) + Len(l_q[0]) + Len(l_q[1])
          + Cardinality(yielded) = Cardinality(Item)
    BY <1>1 DEF Conserved
  <2> DEFINE h == handed
             a == l_len[0]
             b == l_len[1]
             m == Len(l_q[0])
             n == Len(l_q[1])
             y == Cardinality(yielded)
             f == Cardinality(fresh)
             o == Cardinality(Holding)
             g == Cardinality(Counting)
             t == Cardinality(Item)
  <2>3. /\ h \in Nat /\ a \in Nat /\ b \in Nat /\ m \in Nat /\ n \in Nat /\ y \in Nat
        /\ f \in Nat /\ o \in Nat /\ g \in Nat /\ t \in Nat /\ g <= o
    BY <1>3, <1>4, <1>5
  <2>4. h + a + b = y + m + n + g /\ f + o + m + n + y = t
    BY <2>1, <2>2
  <2> HIDE DEF h, a, b, m, n, y, f, o, g, t
  <2>5. a <= t /\ b <= t
    BY <2>3, <2>4
  <2> QED BY <2>5 DEF a, b, t
<1>7. l_len \in [Q -> 0 .. Cardinality(Item)]
  BY <1>1, <1>3, <1>5, <1>6 DEF Typed, Q
<1> QED BY <1>1, <1>7 DEF Typed, TypeOK

(* The initial states satisfy the invariant.                               *)
LEMMA InitInv == Init => IInv
<1> SUFFICES ASSUME Init PROVE IInv
  OBVIOUS
<1>1. Typed /\ CountedHasValue /\ WaitsOnce /\ TakenOnce /\ fresh \cap yielded = {}
  BY DEF Init, Typed, CountedHasValue, WaitsOnce, TakenOnce, Q
<1>2. Holding = {} /\ Counting = {}
  BY DEF Init, Holding, Counting
<1>3. Cardinality({}) = 0 /\ Cardinality(Item) \in Nat
  BY FS_EmptySet, Sizes
<1>4. Len(l_q[0]) = 0 /\ Len(l_q[1]) = 0 /\ l_len[0] = 0 /\ l_len[1] = 0
  BY DEF Init, Q
<1>5. Conserved
  BY <1>2, <1>3, <1>4 DEF Init, Conserved
<1>6. LenAccounting
  BY <1>2, <1>3, <1>4, AccountingAs DEF Init
<1> QED BY <1>1, <1>5, <1>6 DEF IInv

(* Types, action by action.                                                *)
LEMMA TypeInv == ASSUME Typed, CountedHasValue, Next PROVE Typed' /\ CountedHasValue'
<1>1. ASSUME NEW p \in Producer, NEW v \in Item, EnqueueLoad(p, v)
      PROVE  Typed' /\ CountedHasValue'
  BY <1>1, RingAssumption DEF Typed, CountedHasValue, EnqueueLoad, consumerVars
<1>2. ASSUME NEW p \in Producer, EnqueueCount(p) PROVE Typed' /\ CountedHasValue'
  BY <1>2 DEF Typed, CountedHasValue, EnqueueCount, consumerVars
<1>3. ASSUME NEW p \in Producer, EnqueuePush(p) PROVE Typed' /\ CountedHasValue'
  <2>1. value[p] \in Item /\ slot[p] \in Q /\ 0 \in Q
    BY <1>3 DEF Typed, CountedHasValue, EnqueuePush, Q
  <2>2. l_q' \in [Q -> Seq(Item)]
    BY <1>3, <2>1 DEF Typed, EnqueuePush
  <2> QED BY <1>3, <2>1, <2>2 DEF Typed, CountedHasValue, EnqueuePush, consumerVars
<1>4. ASSUME NEW c \in Consumer, DequeueSwitch(c) PROVE Typed' /\ CountedHasValue'
  <2>1. 1 - next_i \in Q
    BY DEF Typed, Q
  <2> QED BY <1>4, <2>1 DEF Typed, CountedHasValue, DequeueSwitch, producerVars
<1>5. ASSUME NEW c \in Consumer, DequeueSwap(c) PROVE Typed' /\ CountedHasValue'
  BY <1>5 DEF Typed, CountedHasValue, DequeueSwap, SwapIn, producerVars
<1>6. ASSUME NEW c \in Consumer, NextSome(c) PROVE Typed' /\ CountedHasValue'
  <2> DEFINE k == old_k[c]
  <2>1. k \in Q /\ l_q[k] \in Seq(Item) /\ l_q[k] # <<>>
    BY <1>6 DEF Typed, NextSome
  <2>2. Head(l_q[k]) \in Item /\ Tail(l_q[k]) \in Seq(Item)
    BY <2>1
  <2> QED BY <1>6, <2>1, <2>2 DEF Typed, CountedHasValue, NextSome, producerVars
<1>7. ASSUME NEW c \in Consumer, NextEmpty(c) PROVE Typed' /\ CountedHasValue'
  <2>1. tries[c] \in 0 .. 4 /\ tries[c] # 4
    BY <1>7 DEF Typed, NextEmpty, Exhausted
  <2>2. tries[c] + 1 \in 0 .. 4
    BY <2>1
  <2>3. tries' = [tries EXCEPT ![c] = tries[c] + 1]
    BY <1>7 DEF NextEmpty
  <2>4. tries' \in [Consumer -> 0 .. 4]
    BY <2>2, <2>3 DEF Typed
  <2> QED BY <1>7, <2>4 DEF Typed, CountedHasValue, NextEmpty, producerVars
<1>8. ASSUME NEW c \in Consumer, DropIterator(c) PROVE Typed' /\ CountedHasValue'
  BY <1>8 DEF Typed, CountedHasValue, DropIterator, producerVars, Q
<1> QED BY <1>1, <1>2, <1>3, <1>4, <1>5, <1>6, <1>7, <1>8
        DEF Next, Enqueue, Dequeue, IteratorDone, Abandon

-----------------------------------------------------------------------------
(* Where the elements are.                                                 *)

Places == WaitsOnce /\ TakenOnce /\ fresh \cap yielded = {}

(* An element is in one place only: EnqueueLoad takes it from the fresh    *)
(* ones, EnqueuePush puts it behind its queue, NextSome takes it from the  *)
(* head of one.                                                            *)
LEMMA PlacesInv ==
  ASSUME Typed, CountedHasValue, Places, Next
  PROVE  Places'
<1>1. ASSUME NEW p \in Producer, NEW v \in Item, EnqueueLoad(p, v) PROVE Places'
  <2>1. /\ v \in fresh /\ fresh' = fresh \ {v} /\ value[p] = None
        /\ value' = [value EXCEPT ![p] = v] /\ UNCHANGED <<l_q, yielded>>
    BY <1>1 DEF EnqueueLoad, consumerVars
  <2>2. v # None /\ v \notin yielded
    BY <2>1, RingAssumption DEF Places
  <2>3. WaitsOnce'
    BY <2>1 DEF Places, WaitsOnce
  <2>4. \A k \in Q : \A i \in 1 .. Len(l_q[k]) : l_q[k][i] # v
    BY <2>1 DEF Places, WaitsOnce
  <2>5. \A q \in Producer : value[q] # v
    BY <2>1, <2>2 DEF Places, TakenOnce
  <2>6. value'[p] = v /\ \A q \in Producer \ {p} : value'[q] = value[q]
    BY <2>1 DEF Typed
  <2>7. TakenOnce'
    BY <2>1, <2>2, <2>4, <2>5, <2>6 DEF Places, TakenOnce
  <2> QED BY <2>1, <2>3, <2>7 DEF Places
<1>2. ASSUME NEW p \in Producer, EnqueuePush(p) PROVE Places'
  <2> DEFINE s == slot[p]
             v == value[p]
  <2>1. /\ v \in Item /\ v # None /\ s \in Q /\ UNCHANGED <<fresh, yielded>>
        /\ l_q' = [l_q EXCEPT ![s] = Append(@, v)]
        /\ value' = [value EXCEPT ![p] = None]
    BY <1>2 DEF EnqueuePush, Typed, CountedHasValue, consumerVars
  <2>2. \A k \in Q : l_q[k] \in Seq(Item) /\ Len(l_q[k]) \in Nat
    BY DEF Typed
  <2>3. \A k \in Q \ {s} : l_q'[k] = l_q[k]
    BY <2>1 DEF Typed
  <2>4. l_q'[s] = Append(l_q[s], v)
    BY <2>1 DEF Typed
  <2>5. /\ Len(l_q'[s]) = Len(l_q[s]) + 1 /\ l_q'[s][Len(l_q[s]) + 1] = v
        /\ \A i \in 1 .. Len(l_q[s]) : l_q'[s][i] = l_q[s][i]
    BY <2>1, <2>2, <2>4
  <2>6. /\ v \notin fresh \cup yielded
        /\ \A q \in Producer : value[q] = v => q = p
        /\ \A k \in Q : \A i \in 1 .. Len(l_q[k]) : l_q[k][i] # v
    BY <2>1 DEF Places, TakenOnce
  <2> HIDE DEF s, v
  <2>7. ASSUME NEW k \in Q, NEW i \in 1 .. Len(l_q'[k])
        PROVE  \/ i \in 1 .. Len(l_q[k]) /\ l_q'[k][i] = l_q[k][i]
               \/ k = s /\ i = Len(l_q[s]) + 1 /\ l_q'[k][i] = v
    <3>1. CASE k = s
      BY <2>1, <2>2, <2>5, <3>1
    <3>2. CASE k # s
      BY <2>3, <3>2
    <3> QED BY <3>1, <3>2
  <2>8. ASSUME NEW k \in Q, NEW i \in 1 .. Len(l_q'[k])
        PROVE  l_q'[k][i] \notin fresh \cup yielded
    BY <2>6, <2>7 DEF Places, WaitsOnce
  <2>9. ASSUME NEW k \in Q, NEW m \in Q, NEW i \in 1 .. Len(l_q'[k]),
               NEW j \in 1 .. Len(l_q'[m]), l_q'[k][i] = l_q'[m][j]
        PROVE  k = m /\ i = j
    <3>1. \/ i \in 1 .. Len(l_q[k]) /\ l_q'[k][i] = l_q[k][i]
          \/ k = s /\ i = Len(l_q[s]) + 1 /\ l_q'[k][i] = v
      BY <2>7
    <3>2. \/ j \in 1 .. Len(l_q[m]) /\ l_q'[m][j] = l_q[m][j]
          \/ m = s /\ j = Len(l_q[s]) + 1 /\ l_q'[m][j] = v
      BY <2>7
    <3> QED BY <2>6, <2>9, <3>1, <3>2 DEF Places, WaitsOnce
  <2>10. WaitsOnce'
    BY <2>1, <2>8, <2>9 DEF WaitsOnce
  <2>11. /\ value'[p] = None
         /\ \A q \in Producer \ {p} : value'[q] = value[q] /\ value[q] # v
    BY <2>1, <2>6 DEF Typed
  <2>12. ASSUME NEW q \in Producer, value'[q] # None, NEW k \in Q, NEW i \in 1 .. Len(l_q'[k])
         PROVE  l_q'[k][i] # value'[q]
    BY <2>7, <2>11, <2>12 DEF Places, TakenOnce
  <2>13. TakenOnce'
    BY <2>1, <2>11, <2>12 DEF Places, TakenOnce
  <2> QED BY <2>1, <2>10, <2>13 DEF Places
<1>3. ASSUME NEW c \in Consumer, NextSome(c) PROVE Places'
  <2> DEFINE s == old_k[c]
             v == Head(l_q[s])
  <2>1. /\ s \in Q /\ l_q[s] \in Seq(Item) /\ l_q[s] # <<>>
        /\ UNCHANGED <<fresh, value>> /\ yielded' = yielded \cup {v}
        /\ l_q' = [l_q EXCEPT ![s] = Tail(@)]
    BY <1>3 DEF NextSome, Typed, producerVars
  <2>2. \A k \in Q : l_q[k] \in Seq(Item) /\ Len(l_q[k]) \in Nat
    BY DEF Typed
  <2>3. \A k \in Q \ {s} : l_q'[k] = l_q[k]
    BY <2>1 DEF Typed
  <2>4. l_q'[s] = Tail(l_q[s])
    BY <2>1 DEF Typed
  <2>5. /\ Len(l_q[s]) >= 1 /\ v = l_q[s][1] /\ Len(l_q'[s]) = Len(l_q[s]) - 1
        /\ \A i \in 1 .. Len(l_q[s]) - 1 : l_q'[s][i] = l_q[s][i + 1]
    <3>1. Len(l_q[s]) >= 1
      BY <2>1
    <3>2. v = l_q[s][1]
      BY <2>1
    <3>3. Len(Tail(l_q[s])) = Len(l_q[s]) - 1
      BY <2>1, <3>1
    <3>4. \A i \in 1 .. Len(l_q[s]) - 1 : Tail(l_q[s])[i] = l_q[s][i + 1]
      BY <2>1, <3>1
    <3> QED BY <2>4, <3>1, <3>2, <3>3, <3>4
  <2>6. 1 \in 1 .. Len(l_q[s])
    BY <2>1, <2>2, <2>5
  <2> HIDE DEF s, v
  <2>7. v \notin fresh
    BY <2>1, <2>5, <2>6 DEF Places, WaitsOnce
  <2>8. ASSUME NEW k \in Q, NEW i \in 1 .. Len(l_q'[k])
        PROVE  /\ k # s => i \in 1 .. Len(l_q[k]) /\ l_q'[k][i] = l_q[k][i]
               /\ k = s => i + 1 \in 1 .. Len(l_q[k]) /\ l_q'[k][i] = l_q[k][i + 1]
               /\ l_q'[k][i] # v
    <3>1. k # s => i \in 1 .. Len(l_q[k]) /\ l_q'[k][i] = l_q[k][i]
      BY <2>3
    <3>2. k = s => i + 1 \in 1 .. Len(l_q[k]) /\ l_q'[k][i] = l_q[k][i + 1]
      BY <2>1, <2>2, <2>5
    <3>3. k # s => l_q'[k][i] # v
      BY <2>1, <2>5, <2>6, <3>1 DEF Places, WaitsOnce
    <3>4. k = s => i + 1 # 1 /\ l_q'[k][i] # v
      BY <2>1, <2>5, <2>6, <3>2 DEF Places, WaitsOnce
    <3> QED BY <3>1, <3>2, <3>3, <3>4
  <2>9. ASSUME NEW k \in Q, NEW i \in 1 .. Len(l_q'[k])
        PROVE  l_q'[k][i] \notin fresh' \cup yielded'
    BY <2>1, <2>8 DEF Places, WaitsOnce
  <2>10. ASSUME NEW k \in Q, NEW m \in Q, NEW i \in 1 .. Len(l_q'[k]),
                NEW j \in 1 .. Len(l_q'[m]), l_q'[k][i] = l_q'[m][j]
         PROVE  k = m /\ i = j
    <3>1. /\ k # s => i \in 1 .. Len(l_q[k]) /\ l_q'[k][i] = l_q[k][i]
          /\ k = s => i + 1 \in 1 .. Len(l_q[k]) /\ l_q'[k][i] = l_q[k][i + 1]
      BY <2>8
    <3>2. /\ m # s => j \in 1 .. Len(l_q[m]) /\ l_q'[m][j] = l_q[m][j]
          /\ m = s => j + 1 \in 1 .. Len(l_q[m]) /\ l_q'[m][j] = l_q[m][j + 1]
      BY <2>8
    <3>3. k = m
      BY <2>10, <3>1, <3>2 DEF Places, WaitsOnce
    <3>4. k = s => i + 1 = j + 1
      BY <2>10, <3>1, <3>2, <3>3 DEF Places, WaitsOnce
    <3>5. k # s => i = j
      BY <2>10, <3>1, <3>2, <3>3 DEF Places, WaitsOnce
    <3> QED BY <3>3, <3>4, <3>5
  <2>11. WaitsOnce'
    BY <2>9, <2>10 DEF WaitsOnce
  <2>12. ASSUME NEW q \in Producer, value[q] # None
         PROVE  /\ value[q] \notin fresh \cup yielded'
                /\ \A k \in Q : \A i \in 1 .. Len(l_q'[k]) : l_q'[k][i] # value[q]
    <3>1. /\ value[q] \notin fresh \cup yielded
          /\ \A k \in Q : \A i \in 1 .. Len(l_q[k]) : l_q[k][i] # value[q]
      BY <2>12 DEF Places, TakenOnce
    <3>2. value[q] # v
      BY <2>1, <2>5, <2>6, <3>1
    <3> QED BY <2>1, <2>8, <3>1, <3>2
  <2>13. TakenOnce'
    BY <2>1, <2>12 DEF Places, TakenOnce
  <2> QED BY <2>1, <2>7, <2>11, <2>13 DEF Places
<1>4. ASSUME UNCHANGED <<l_q, fresh, value, yielded>> PROVE Places'
  BY <1>4 DEF Places, WaitsOnce, TakenOnce
<1>5. ASSUME NEW p \in Producer, EnqueueCount(p) PROVE Places'
  BY <1>4, <1>5 DEF EnqueueCount, consumerVars
<1>6. ASSUME NEW c \in Consumer, DequeueSwitch(c) \/ DequeueSwap(c) \/ NextEmpty(c)
      PROVE  Places'
  BY <1>4, <1>6 DEF DequeueSwitch, DequeueSwap, NextEmpty, producerVars
<1>7. ASSUME NEW c \in Consumer, DropIterator(c) PROVE Places'
  BY <1>4, <1>7 DEF DropIterator, producerVars
<1> QED BY <1>1, <1>2, <1>3, <1>5, <1>6, <1>7
        DEF Next, Enqueue, Dequeue, IteratorDone, Abandon

-----------------------------------------------------------------------------
(* The accounts.                                                           *)

(* A sum moves with either of its terms.                                   *)
LEMMA SumStep ==
  ASSUME NEW a \in Nat, NEW b \in Nat
  PROVE  /\ (a + 1) + b = (a + b) + 1 /\ a + (b + 1) = (a + b) + 1
         /\ (a - 1) + b = (a + b) - 1 /\ a + (b - 1) = (a + b) - 1
OBVIOUS

(* Both length counters and both queue lengths together.                   *)
Counters == l_len[0] + l_len[1]
Waiting == Len(l_q[0]) + Len(l_q[1])

(* The two accounts, in these terms.                                       *)
LEMMA Accounts ==
  ASSUME Typed
  PROVE  /\ Conserved <=> Cardinality(fresh) + Cardinality(Holding) + Waiting
                            + Cardinality(yielded) = Cardinality(Item)
         /\ LenAccounting <=>
              handed + Counters = Cardinality(yielded) + Waiting + Cardinality(Counting)
         /\ Counters \in Nat /\ Waiting \in Nat /\ handed \in Nat
         /\ Cardinality(fresh) \in Nat /\ Cardinality(Holding) \in Nat
         /\ Cardinality(yielded) \in Nat /\ Cardinality(Counting) \in Nat
<1>1. /\ Cardinality(fresh) \in Nat /\ Cardinality(yielded) \in Nat
      /\ Cardinality(Holding) \in Nat /\ Cardinality(Counting) \in Nat
  BY Sizes DEF Typed, Holding, Counting
<1>2. /\ l_len[0] \in Nat /\ l_len[1] \in Nat /\ handed \in Nat
      /\ Len(l_q[0]) \in Nat /\ Len(l_q[1]) \in Nat
  BY DEF Typed, Q
<1> DEFINE F == Cardinality(fresh)
           H == Cardinality(Holding)
           Y == Cardinality(yielded)
           G == Cardinality(Counting)
           m == Len(l_q[0])
           n == Len(l_q[1])
           T == Cardinality(Item)
<1>3. /\ Conserved <=> F + H + m + n + Y = T
      /\ LenAccounting <=> handed + l_len[0] + l_len[1] = Y + m + n + G
      /\ Waiting = m + n
  BY AccountingAs DEF Conserved, Waiting
<1>4. /\ F \in Nat /\ H \in Nat /\ Y \in Nat /\ G \in Nat /\ m \in Nat /\ n \in Nat
  BY <1>1, <1>2
<1>5. T \in Nat
  BY Sizes
<1> HIDE DEF F, H, Y, G, m, n, T
<1>6. Waiting \in Nat /\ Counters \in Nat
  BY <1>2, <1>3, <1>4 DEF Counters
<1>7. Conserved <=> F + H + Waiting + Y = T
  BY <1>3, <1>4, <1>5
<1>8. LenAccounting <=> handed + Counters = Y + Waiting + G
  BY <1>2, <1>3, <1>4 DEF Counters
<1> QED BY <1>2, <1>4, <1>6, <1>7, <1>8 DEF F, H, Y, G, T

(* Every step keeps both accounts: what leaves one item of an account      *)
(* enters another, and a swap moves a counter into the lengths handed out. *)
LEMMA CountInv ==
  ASSUME IInv, Typed', Next
  PROVE  Conserved' /\ LenAccounting'
<1> DEFINE F == Cardinality(fresh)
           H == Cardinality(Holding)
           Y == Cardinality(yielded)
           G == Cardinality(Counting)
<1>1. Typed /\ CountedHasValue /\ WaitsOnce /\ TakenOnce
  BY DEF IInv
<1>2. /\ F + H + Waiting + Y = Cardinality(Item)
      /\ handed + Counters = Y + Waiting + G
      /\ Counters \in Nat /\ Waiting \in Nat /\ handed \in Nat
      /\ F \in Nat /\ H \in Nat /\ Y \in Nat /\ G \in Nat
  BY Accounts DEF IInv
<1>3. SUFFICES /\ F' + H' + Waiting' + Y' = Cardinality(Item)
               /\ handed' + Counters' = Y' + Waiting' + G'
  <2>1. /\ Conserved' <=> (F + H + Waiting + Y = Cardinality(Item))'
        /\ LenAccounting' <=> (handed + Counters = Y + Waiting + G)'
    BY Accounts, PTL
  <2> QED BY <1>3, <2>1
<1>4. /\ IsFiniteSet(fresh) /\ IsFiniteSet(yielded)
      /\ IsFiniteSet(Holding) /\ IsFiniteSet(Counting)
  BY <1>1, Sizes DEF Typed, Holding, Counting
<1> DEFINE Goal == /\ F' + H' + Waiting' + Y' = Cardinality(Item)
                   /\ handed' + Counters' = Y' + Waiting' + G'
<1>5. ASSUME NEW p \in Producer, NEW v \in Item, EnqueueLoad(p, v) PROVE Goal
  <2>1. /\ v \in fresh /\ fresh' = fresh \ {v} /\ value[p] = None
        /\ value' = [value EXCEPT ![p] = v]
        /\ UNCHANGED <<l_q, l_len, yielded, counted, handed>>
    BY <1>5 DEF EnqueueLoad, consumerVars
  <2>2. F' = F - 1
    BY <1>4, <2>1, CountStep
  <2>3. Holding' = Holding \cup {p} /\ p \notin Holding
    BY <1>1, <2>1, RingAssumption DEF Typed, Holding
  <2>4. H' = H + 1
    BY <1>4, <2>3, CountStep
  <2>5. Counters' = Counters /\ Waiting' = Waiting /\ Y' = Y /\ Counting' = Counting
    BY <2>1 DEF Counters, Waiting, Counting
  <2> HIDE DEF F, H, Y
  <2> QED BY <1>2, <2>1, <2>2, <2>4, <2>5
<1>6. ASSUME NEW p \in Producer, EnqueueCount(p) PROVE Goal
  <2>1. /\ ~counted[p] /\ l_len' = [l_len EXCEPT ![slot[p]] = @ + 1]
        /\ counted' = [counted EXCEPT ![p] = TRUE]
        /\ UNCHANGED <<l_q, fresh, value, yielded, handed>>
    BY <1>6 DEF EnqueueCount, consumerVars
  <2>2. slot[p] = 0 \/ slot[p] = 1
    BY <1>1 DEF Typed, Q
  <2>3. Counters' = Counters + 1
    <3>1. l_len[0] \in Nat /\ l_len[1] \in Nat /\ l_len \in [{0, 1} -> Nat]
      BY <1>1 DEF Typed, Q
    <3>2. CASE slot[p] = 0
      BY <2>1, <3>1, <3>2 DEF Counters
    <3>3. CASE slot[p] = 1
      BY <2>1, <3>1, <3>3 DEF Counters
    <3> QED BY <2>2, <3>2, <3>3
  <2>4. Counting' = Counting \cup {p} /\ p \notin Counting
    BY <1>1, <2>1 DEF Typed, Counting
  <2>5. G' = G + 1
    BY <1>4, <2>4, CountStep
  <2>6. F' = F /\ Waiting' = Waiting /\ Y' = Y /\ Holding' = Holding
    BY <2>1 DEF Waiting, Holding
  <2> HIDE DEF F, Y, G
  <2> QED BY <1>2, <2>1, <2>3, <2>5, <2>6
<1>7. ASSUME NEW p \in Producer, EnqueuePush(p) PROVE Goal
  <2>1. /\ counted[p] /\ l_q' = [l_q EXCEPT ![slot[p]] = Append(@, value[p])]
        /\ value' = [value EXCEPT ![p] = None]
        /\ counted' = [counted EXCEPT ![p] = FALSE]
        /\ UNCHANGED <<l_len, fresh, yielded, handed>>
    BY <1>7 DEF EnqueuePush, consumerVars
  <2>2. (slot[p] = 0 \/ slot[p] = 1) /\ value[p] # None /\ value[p] \in Item
    BY <1>1, <2>1 DEF Typed, CountedHasValue, Q
  <2>3. Waiting' = Waiting + 1
    <3>1. l_q \in [{0, 1} -> Seq(Item)] /\ l_q[0] \in Seq(Item) /\ l_q[1] \in Seq(Item)
      BY <1>1 DEF Typed, Q
    <3>2. /\ Len(l_q[0]) \in Nat /\ Len(Append(l_q[0], value[p])) = Len(l_q[0]) + 1
          /\ Len(l_q[1]) \in Nat /\ Len(Append(l_q[1], value[p])) = Len(l_q[1]) + 1
      BY <2>2, <3>1
    <3>3. CASE slot[p] = 0
      <4>1. l_q'[0] = Append(l_q[0], value[p]) /\ l_q'[1] = l_q[1]
        BY <2>1, <3>1, <3>3
      <4>2. Len(l_q'[0]) = Len(l_q[0]) + 1 /\ Len(l_q'[1]) = Len(l_q[1])
        BY <3>2, <4>1
      <4> QED BY <3>2, <4>2, SumStep DEF Waiting
    <3>4. CASE slot[p] = 1
      <4>1. l_q'[1] = Append(l_q[1], value[p]) /\ l_q'[0] = l_q[0]
        BY <2>1, <3>1, <3>4
      <4>2. Len(l_q'[1]) = Len(l_q[1]) + 1 /\ Len(l_q'[0]) = Len(l_q[0])
        BY <3>2, <4>1
      <4> QED BY <3>2, <4>2, SumStep DEF Waiting
    <3> QED BY <2>2, <3>3, <3>4
  <2>4. /\ Counting' = Counting \ {p} /\ p \in Counting
        /\ Holding' = Holding \ {p} /\ p \in Holding
    BY <1>1, <2>1, <2>2 DEF Typed, Counting, Holding
  <2>5. G' = G - 1 /\ H' = H - 1
    BY <1>4, <2>4, CountStep
  <2>6. F' = F /\ Counters' = Counters /\ Y' = Y
    BY <2>1 DEF Counters
  <2> HIDE DEF F, Y, G, H
  <2> QED BY <1>2, <2>1, <2>3, <2>5, <2>6
<1>8. ASSUME NEW c \in Consumer, DequeueSwap(c) PROVE Goal
  <2>1. /\ l_len' = [l_len EXCEPT ![old_k[c]] = 0]
        /\ handed' = handed + l_len[old_k[c]]
        /\ UNCHANGED <<l_q, fresh, value, counted, yielded>>
    BY <1>8 DEF DequeueSwap, SwapIn, producerVars
  <2>2. l_len[0] \in Nat /\ l_len[1] \in Nat /\ l_len \in [{0, 1} -> Nat]
    BY <1>1 DEF Typed, Q
  <2>3. old_k[c] = 0 \/ old_k[c] = 1
    BY <1>1 DEF Typed, Q
  <2>4. handed' + Counters' = handed + Counters
    <3>1. CASE old_k[c] = 0
      BY <1>2, <2>1, <2>2, <3>1 DEF Counters
    <3>2. CASE old_k[c] = 1
      BY <1>2, <2>1, <2>2, <3>2 DEF Counters
    <3> QED BY <2>3, <3>1, <3>2
  <2>5. /\ F' = F /\ Y' = Y /\ Waiting' = Waiting
        /\ Holding' = Holding /\ Counting' = Counting
    BY <2>1 DEF Waiting, Holding, Counting
  <2> QED BY <1>2, <2>4, <2>5
<1>9. ASSUME NEW c \in Consumer, NextSome(c) PROVE Goal
  <2> DEFINE k == old_k[c]
             v == Head(l_q[k])
  <2>1. /\ l_q[k] # <<>> /\ yielded' = yielded \cup {v}
        /\ l_q' = [l_q EXCEPT ![k] = Tail(@)]
        /\ UNCHANGED <<l_len, fresh, value, counted, handed>>
    BY <1>9 DEF NextSome, producerVars
  <2>2. (k = 0 \/ k = 1) /\ k \in Q
    BY <1>1 DEF Typed, Q
  <2>3. l_q \in [{0, 1} -> Seq(Item)] /\ l_q[0] \in Seq(Item) /\ l_q[1] \in Seq(Item)
    BY <1>1 DEF Typed, Q
  <2>4. v \notin yielded
    <3>1. v = l_q[k][1] /\ 1 \in 1 .. Len(l_q[k])
      BY <2>1, <2>2, <2>3
    <3> QED BY <1>1, <2>2, <3>1 DEF WaitsOnce
  <2>5. Y' = Y + 1
    BY <1>4, <2>1, <2>4, CountStep
  <2>6. Waiting' = Waiting - 1
    <3>1. Len(Tail(l_q[k])) = Len(l_q[k]) - 1 /\ Len(l_q[k]) >= 1
      BY <2>1, <2>2, <2>3
    <3>2. Len(l_q[0]) \in Nat /\ Len(l_q[1]) \in Nat
      BY <2>3
    <3>3. CASE k = 0
      <4>1. l_q'[0] = Tail(l_q[0]) /\ l_q'[1] = l_q[1]
        BY <2>1, <2>3, <3>3
      <4>2. Len(l_q'[0]) = Len(l_q[0]) - 1 /\ Len(l_q'[1]) = Len(l_q[1])
        BY <3>1, <3>3, <4>1
      <4> QED BY <3>2, <4>2, SumStep DEF Waiting
    <3>4. CASE k = 1
      <4>1. l_q'[1] = Tail(l_q[1]) /\ l_q'[0] = l_q[0]
        BY <2>1, <2>3, <3>4
      <4>2. Len(l_q'[1]) = Len(l_q[1]) - 1 /\ Len(l_q'[0]) = Len(l_q[0])
        BY <3>1, <3>4, <4>1
      <4> QED BY <3>2, <4>2, SumStep DEF Waiting
    <3> QED BY <2>2, <3>3, <3>4
  <2>7. F' = F /\ Counters' = Counters /\ Holding' = Holding /\ Counting' = Counting
    BY <2>1 DEF Counters, Holding, Counting
  <2> HIDE DEF F, Y
  <2> QED BY <1>2, <2>1, <2>5, <2>6, <2>7
<1>10. ASSUME UNCHANGED <<l_len, l_q, fresh, value, counted, handed, yielded>> PROVE Goal
  BY <1>2, <1>10 DEF Counters, Waiting, Holding, Counting
<1>11. ASSUME NEW c \in Consumer, DequeueSwitch(c) \/ NextEmpty(c) PROVE Goal
  BY <1>10, <1>11 DEF DequeueSwitch, NextEmpty, producerVars
<1>12. ASSUME NEW c \in Consumer, DropIterator(c) PROVE Goal
  BY <1>10, <1>12 DEF DropIterator, producerVars
<1> QED BY <1>5, <1>6, <1>7, <1>8, <1>9, <1>11, <1>12
        DEF Next, Enqueue, Dequeue, IteratorDone, Abandon

-----------------------------------------------------------------------------
(* The theorems.                                                           *)

(* The invariant is inductive, stuttering steps included.                  *)
LEMMA NextInv == IInv /\ [Next]_vars => IInv'
<1> SUFFICES ASSUME IInv, [Next]_vars PROVE IInv'
  OBVIOUS
<1>1. CASE Next
  <2>1. Typed' /\ CountedHasValue'
    BY <1>1, TypeInv DEF IInv
  <2>2. Places'
    BY <1>1, PlacesInv DEF IInv, Places
  <2>3. Conserved' /\ LenAccounting'
    BY <1>1, <2>1, CountInv
  <2> QED BY <2>1, <2>2, <2>3 DEF IInv, Places
<1>2. CASE UNCHANGED vars
  BY <1>2 DEF vars, IInv, Typed, CountedHasValue, WaitsOnce, TakenOnce, Holding,
              Conserved, LenAccounting
<1> QED BY <1>1, <1>2

(* The inductive invariant holds in every behaviour of the batching queue. *)
THEOREM InvariantHolds == Spec => []IInv
BY InitInv, NextInv, PTL DEF Spec

(* Queues, counters and iterators keep their types; no length counter of   *)
(* QueueRing exceeds the number of elements.                               *)
THEOREM TypeCorrect == Spec => []TypeOK
<1>1. IInv => TypeOK
  BY CountersBounded
<1> QED BY <1>1, InvariantHolds, PTL

(* The lengths dequeue hands out with its batches, plus what the counters  *)
(* still hold, are the elements yielded, waiting, or counted and about to  *)
(* be pushed, however enqueue, the switch and the swap interleave.         *)
THEOREM LengthsAddUp == Spec => []LenAccounting
<1>1. IInv => LenAccounting
  BY DEF IInv
<1> QED BY <1>1, InvariantHolds, PTL

(* No element is lost or yielded twice: each is fresh, in a producer's     *)
(* hands, in one place of one queue, or yielded, and the numbers add up.   *)
THEOREM NothingLost ==
  Spec => [](WaitsOnce /\ TakenOnce /\ fresh \cap yielded = {} /\ Conserved)
<1>1. IInv => WaitsOnce /\ TakenOnce /\ fresh \cap yielded = {} /\ Conserved
  BY DEF IInv
<1> QED BY <1>1, InvariantHolds, PTL
=============================================================================
