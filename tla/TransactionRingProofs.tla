------------------------ MODULE TransactionRingProofs -----------------------
(***************************************************************************)
(* Proofs about TransactionRing, for any finite set of producers, any set  *)
(* of consumers, any ring size and any number of pushes.                   *)
(***************************************************************************)
EXTENDS TransactionRing, FiniteSetTheorems, TLAPS

-----------------------------------------------------------------------------
(* Positions and slots.                                                    *)

(* Multiples of the ring size lie at least a ring apart.                   *)
LEMMA Multiples ==
  ASSUME NEW R \in Nat \ {0}, NEW a \in Int, NEW b \in Int, a < b
  PROVE  R * a + R <= R * b
OBVIOUS

(* A position is some number of rings and the index of its slot.           *)
LEMMA IndexOf ==
  ASSUME NEW n \in Nat
  PROVE  /\ Index(n) \in Slot
         /\ Index(n) \in Nat /\ Index(n) < RingSize
         /\ n \div RingSize \in Nat
         /\ n = RingSize * (n \div RingSize) + Index(n)
BY RingAssumption DEF Index, Slot

(* Two positions with the same slot are at least a ring apart.             *)
LEMMA SameSlot ==
  ASSUME NEW n \in Nat, NEW m \in Nat, Index(n) = Index(m), n < m
  PROVE  n + RingSize <= m
<1> DEFINE a == n \div RingSize
           b == m \div RingSize
<1>1. /\ n = RingSize * a + Index(n) /\ a \in Nat
      /\ m = RingSize * b + Index(n) /\ b \in Nat
  BY IndexOf
<1>2. Index(n) \in Nat /\ RingSize \in Nat \ {0}
  BY IndexOf, RingAssumption
<1> HIDE DEF a, b
<1>3. b < a => RingSize * b + RingSize <= RingSize * a
  BY <1>1, <1>2, Multiples
<1>4. a < b => RingSize * a + RingSize <= RingSize * b
  BY <1>1, <1>2, Multiples
<1>5. a # b
  BY <1>1, <1>2
<1>6. RingSize * a \in Nat /\ RingSize * b \in Nat
  BY <1>1, <1>2
<1> QED BY <1>1, <1>2, <1>3, <1>4, <1>5, <1>6

-----------------------------------------------------------------------------
(* The inductive invariant.                                                *)

(* The pushes that have started fit under the bound of the model.          *)
Bounded == write_cursor + Cardinality(Claiming) <= MaxSeq

(* A number a push holds was claimed.                                      *)
SeqBehind ==
  \A p \in Producer : pc[p] = "claimed" => seq[p] < write_cursor

(* No consumer is ahead of the writers.                                    *)
ReadersBehind == \A c \in Consumer : read_cursor[c] <= write_cursor

(* The numbers with an owner are the claimed ones.                         *)
OwnersKnown == \A n \in Number : owner[n] # None <=> n < write_cursor

(* A copy on its way is that of its producer's last claim: the fence.      *)
LastIsUnwritten ==
  \A n \in Number : unwritten[n] # {} =>
    /\ n < write_cursor
    /\ \A k \in Number : n < k => owner[k] # owner[n]

(* What has been copied once is never uninitialised again.                 *)
Initialised ==
  \A n \in Number, x \in Part :
    n < write_cursor => x \in unwritten[n] \/ slots[Index(n)][x] # None

(* A reference stands for a number below the cursor its pop has read.      *)
HeldBehind ==
  \A c \in Consumer :
    /\ write_pos[c] <= write_cursor
    /\ held[c] # None => held[c] < write_pos[c]

IInv ==
  /\ TypeOK /\ Bounded /\ SeqBehind /\ ReadersBehind /\ HeldBehind
  /\ EachClaimOnce /\ OwnersKnown /\ LastIsUnwritten /\ Initialised
  /\ SlotIntegrity

(* The producers that hold the number n.                                   *)
Holders(n) == {p \in Producer : pc[p] = "claimed" /\ seq[p] = n}

(* Any set of producers is finite.                                         *)
LEMMA ProducersFinite ==
  ASSUME NEW S \in SUBSET Producer
  PROVE  IsFiniteSet(S) /\ Cardinality(S) \in Nat
BY RingAssumption, FS_Subset, FS_CardinalityType

(* How the size of a set of producers changes when one joins or leaves.    *)
LEMMA CountStep ==
  ASSUME NEW S \in SUBSET Producer, NEW p \in Producer
  PROVE  /\ p \notin S => Cardinality(S \cup {p}) = Cardinality(S) + 1
         /\ p \in S => Cardinality(S \ {p}) = Cardinality(S) - 1
         /\ p \in S => Cardinality(S) >= 1
<1>1. IsFiniteSet(S) /\ Cardinality(S) \in Nat
  BY ProducersFinite
<1>2. p \notin S => Cardinality(S \cup {p}) = Cardinality(S) + 1
  BY <1>1, FS_AddElement
<1>3. p \in S => Cardinality(S \ {p}) = Cardinality(S) - 1
  BY <1>1, FS_RemoveElement
<1>4. Cardinality(S \ {p}) \in Nat
  BY ProducersFinite
<1> QED BY <1>1, <1>2, <1>3, <1>4

(* The initial states satisfy the invariant.                               *)
LEMMA InitInv == Init => IInv
<1> SUFFICES ASSUME Init PROVE IInv
  OBVIOUS
<1>1. /\ TypeOK /\ SeqBehind /\ ReadersBehind /\ HeldBehind
      /\ OwnersKnown /\ LastIsUnwritten /\ Initialised
  BY RingAssumption DEF Init, TypeOK, SeqBehind, ReadersBehind, HeldBehind,
                        OwnersKnown, LastIsUnwritten, Initialised, Number
<1>2. Claiming = {} /\ \A n : Holders(n) = {}
  BY DEF Init, Claiming, Holders
<1>3. Bounded
  BY <1>2, FS_EmptySet, RingAssumption DEF Init, Bounded
<1>4. EachClaimOnce
  <2> SUFFICES ASSUME NEW n \in Number
               PROVE  returned[n] + Cardinality(Holders(n)) = IF n < write_cursor THEN 1 ELSE 0
    BY DEF EachClaimOnce, Holders
  <2>1. returned[n] = 0 /\ ~(n < write_cursor)
    BY RingAssumption DEF Init, Number
  <2>2. Cardinality(Holders(n)) = 0
    BY <1>2, FS_EmptySet
  <2> QED BY <2>1, <2>2
<1>5. SlotIntegrity
  BY RingAssumption DEF Init, SlotIntegrity, Newest, Number
<1> QED BY <1>1, <1>3, <1>4, <1>5 DEF IInv

(* Types and the order of the cursors, action by action.  A claim stays    *)
(* below the bound because the claiming push was counted in it.            *)
LEMMA ClaimFits ==
  ASSUME IInv, NEW p \in Producer, Claim(p)
  PROVE  /\ write_cursor \in Number /\ write_cursor' = write_cursor + 1
         /\ write_cursor' \in 0 .. MaxSeq
<1>1. write_cursor' = write_cursor + 1 /\ p \in Claiming
  BY DEF Claim, Expected, Claiming
<1>2. Cardinality(Claiming) >= 1 /\ Cardinality(Claiming) \in Nat
  BY <1>1, CountStep, ProducersFinite DEF Claiming
<1> QED BY <1>1, <1>2, RingAssumption DEF IInv, TypeOK, Bounded, Number

LEMMA TypeInv == ASSUME IInv, Next PROVE TypeOK' /\ ReadersBehind' /\ HeldBehind'
<1> USE RingAssumption
<1> DEFINE Goal == TypeOK' /\ ReadersBehind' /\ HeldBehind'
<1>1. TypeOK /\ Bounded /\ ReadersBehind /\ HeldBehind /\ SeqBehind
  BY DEF IInv
<1>2. ASSUME NEW p \in Producer,
             Push(p) \/ TryPush(p) \/ PushLoad(p) \/ PushCasFails(p) \/ TryPushFails(p)
      PROVE  Goal
  <2>1. /\ pc' \in [Producer -> {"idle", "push", "push_cas", "try_cas", "claimed"}]
        /\ current' \in [Producer -> Nat]
        /\ UNCHANGED <<write_cursor, slots, seq, unwritten, returned, owner,
                       consumers, read_cursor, write_pos, held>>
    <3>1. CASE Push(p)
      BY <1>1, <3>1 DEF TypeOK, Push, consumerVars
    <3>2. CASE TryPush(p)
      BY <1>1, <3>2 DEF TypeOK, TryPush, consumerVars
    <3>3. CASE PushLoad(p)
      BY <1>1, <3>3 DEF TypeOK, PushLoad, consumerVars
    <3>4. CASE PushCasFails(p)
      BY <1>1, <3>4 DEF TypeOK, PushCasFails, RetryFrom, consumerVars
    <3>5. CASE TryPushFails(p)
      BY <1>1, <3>5 DEF TypeOK, TryPushFails, consumerVars
    <3> QED BY <1>2, <3>1, <3>2, <3>3, <3>4, <3>5
  <2> QED BY <1>1, <2>1 DEF TypeOK, ReadersBehind, HeldBehind
<1>3. ASSUME NEW p \in Producer, Claim(p) PROVE Goal
  <2>1. /\ write_cursor' = write_cursor + 1 /\ write_cursor' \in 0 .. MaxSeq
        /\ current[p] = write_cursor /\ write_cursor \in Number
    BY <1>3, ClaimFits DEF Claim, Expected
  <2>2. UNCHANGED <<slots, returned, consumers, read_cursor, write_pos, held>>
    BY <1>3 DEF Claim, consumerVars
  <2>3. unwritten' \in [Number -> SUBSET Part] /\ owner' \in [Number -> Producer \cup {None}]
    BY <1>1, <1>3, <2>1 DEF TypeOK, Claim
  <2>4. /\ seq' \in [Producer -> Nat] /\ current' \in [Producer -> Nat]
        /\ pc' \in [Producer -> {"idle", "push", "push_cas", "try_cas", "claimed"}]
    BY <1>1, <1>3 DEF TypeOK, Claim
  <2>5. TypeOK'
    BY <1>1, <2>1, <2>2, <2>3, <2>4 DEF TypeOK
  <2>6. ReadersBehind' /\ HeldBehind'
    BY <1>1, <2>1, <2>2 DEF TypeOK, ReadersBehind, HeldBehind
  <2> QED BY <2>5, <2>6
<1>4. ASSUME NEW n \in Number, NEW x \in Part, WritePart(n, x) PROVE Goal
  <2>1. Index(n) \in Slot /\ n \in Nat
    BY IndexOf DEF Number
  <2>2. slots' \in [Slot -> [Part -> Nat \cup {None}]]
    BY <1>1, <1>4, <2>1 DEF TypeOK, WritePart
  <2>3. unwritten' \in [Number -> SUBSET Part]
    BY <1>1, <1>4 DEF TypeOK, WritePart
  <2> QED BY <1>1, <1>4, <2>2, <2>3 DEF TypeOK, ReadersBehind, HeldBehind, WritePart, consumerVars
<1>5. ASSUME NEW p \in Producer, Return(p) PROVE Goal
  <2>1. seq[p] \in Number
    BY <1>1, <1>5 DEF TypeOK, SeqBehind, Return, Number
  <2> QED BY <1>1, <1>5, <2>1 DEF TypeOK, ReadersBehind, HeldBehind, Return, consumerVars
<1>6. ASSUME NEW c \in Consumer, NewConsumer(c) \/ DropRef(c) PROVE Goal
  <2>1. CASE NewConsumer(c)
    BY <1>1, <2>1 DEF TypeOK, ReadersBehind, HeldBehind, NewConsumer, producerVars
  <2>2. CASE DropRef(c)
    BY <1>1, <2>2 DEF TypeOK, ReadersBehind, HeldBehind, DropRef, producerVars
  <2> QED BY <1>6, <2>1, <2>2
<1>7. ASSUME NEW c \in Consumer, TryPop(c) PROVE Goal
  <2> DEFINE n == IF IsLapped(c) THEN SkipTo ELSE read_cursor[c]
  <2>1. n \in Nat /\ n + 1 \in 0 .. MaxSeq /\ n + 1 <= write_cursor
    BY <1>1, <1>7 DEF TypeOK, ReadersBehind, TryPop, IsLapped, Lag, SkipTo, HasNew
  <2>2. /\ held' = [held EXCEPT ![c] = n]
        /\ read_cursor' = [read_cursor EXCEPT ![c] = n + 1]
        /\ write_pos' = [write_pos EXCEPT ![c] = write_cursor]
    BY <1>7 DEF TryPop
  <2>3. UNCHANGED <<write_cursor, slots, consumers, producerVars>>
    BY <1>7 DEF TryPop
  <2> HIDE DEF n
  <2>4. TypeOK' /\ ReadersBehind'
    BY <1>1, <2>1, <2>2, <2>3 DEF TypeOK, ReadersBehind, producerVars
  <2>5. HeldBehind'
    BY <1>1, <2>1, <2>2, <2>3 DEF TypeOK, HeldBehind
  <2> QED BY <2>4, <2>5
<1>8. ASSUME Quiescent PROVE Goal
  BY <1>1, <1>8 DEF Quiescent, vars, TypeOK, ReadersBehind, HeldBehind
<1> QED BY <1>2, <1>3, <1>4, <1>5, <1>6, <1>7, <1>8 DEF Next, Progress, Copy

(* The bound: a push is counted when it starts, stops being counted when   *)
(* it claims a number, and nothing else is counted.                        *)
LEMMA BoundedInv == ASSUME IInv, Next PROVE Bounded'
<1> USE RingAssumption
<1>1. TypeOK /\ Bounded
  BY DEF IInv
<1>2. /\ write_cursor \in Nat /\ Claiming \in SUBSET Producer
      /\ Cardinality(Claiming) \in Nat
  BY <1>1, ProducersFinite DEF TypeOK, Claiming
<1>3. ASSUME NEW p \in Producer, Push(p) \/ TryPush(p) PROVE Bounded'
  <2>1. /\ pc[p] = "idle" /\ write_cursor' = write_cursor
        /\ write_cursor + Cardinality(Claiming) < MaxSeq
        /\ pc' = [pc EXCEPT ![p] = "push"] \/ pc' = [pc EXCEPT ![p] = "try_cas"]
    BY <1>3 DEF Push, TryPush
  <2>2. Claiming' = Claiming \cup {p} /\ p \notin Claiming
    BY <1>1, <2>1 DEF TypeOK, Claiming
  <2>3. Cardinality(Claiming \cup {p}) = Cardinality(Claiming) + 1
    BY <1>2, <2>2, CountStep
  <2> QED BY <1>2, <2>1, <2>2, <2>3 DEF Bounded
<1>4. ASSUME NEW p \in Producer, PushLoad(p) \/ PushCasFails(p) PROVE Bounded'
  <2>1. /\ pc[p] \in {"push", "push_cas"} /\ write_cursor' = write_cursor
        /\ pc' = [pc EXCEPT ![p] = "push"] \/ pc' = [pc EXCEPT ![p] = "push_cas"]
    BY <1>4 DEF PushLoad, PushCasFails, RetryFrom
  <2>2. Claiming' = Claiming
    BY <1>1, <2>1 DEF TypeOK, Claiming
  <2> QED BY <1>1, <2>1, <2>2 DEF Bounded
<1>5. ASSUME NEW p \in Producer, Claim(p) \/ TryPushFails(p) PROVE Bounded'
  <2>1. /\ pc[p] \in {"push_cas", "try_cas"}
        /\ pc' = [pc EXCEPT ![p] = "claimed"] \/ pc' = [pc EXCEPT ![p] = "idle"]
        /\ write_cursor' = write_cursor + 1 \/ write_cursor' = write_cursor
    BY <1>5 DEF Claim, Expected, TryPushFails
  <2>2. Claiming' = Claiming \ {p} /\ p \in Claiming
    BY <1>1, <2>1 DEF TypeOK, Claiming
  <2>3. Cardinality(Claiming \ {p}) = Cardinality(Claiming) - 1
    BY <1>2, <2>2, CountStep
  <2> QED BY <1>1, <1>2, <2>1, <2>2, <2>3 DEF Bounded
<1>6. ASSUME NEW p \in Producer, Return(p) PROVE Bounded'
  <2>1. Claiming' = Claiming
    BY <1>1, <1>6 DEF TypeOK, Return, Claiming
  <2> QED BY <1>1, <1>6, <2>1 DEF Bounded, Return
<1>7. ASSUME UNCHANGED <<pc, write_cursor>> PROVE Bounded'
  BY <1>1, <1>7 DEF Bounded, Claiming
<1>8. ASSUME NEW n \in Number, NEW x \in Part, WritePart(n, x) PROVE Bounded'
  BY <1>7, <1>8 DEF WritePart
<1>9. ASSUME NEW c \in Consumer, NewConsumer(c) \/ TryPop(c) \/ DropRef(c) PROVE Bounded'
  BY <1>7, <1>9 DEF NewConsumer, TryPop, DropRef, producerVars
<1>10. ASSUME Quiescent PROVE Bounded'
  BY <1>7, <1>10 DEF Quiescent, vars
<1> QED BY <1>3, <1>4, <1>5, <1>6, <1>8, <1>9, <1>10 DEF Next, Progress, Copy

(* The accounting, with the holders named.                                 *)
LEMMA ClaimOnceAs ==
  EachClaimOnce <=>
    \A n \in Number :
      returned[n] + Cardinality(Holders(n)) = IF n < write_cursor THEN 1 ELSE 0
BY DEF EachClaimOnce, Holders

(* Every claimed number has one owner: a claim gives the next number its   *)
(* only holder, a return moves one from the holders to the history.        *)
LEMMA ClaimInv == ASSUME IInv, Next PROVE EachClaimOnce' /\ SeqBehind'
<1> USE RingAssumption
<1> DEFINE Owned(n) ==
      returned[n] + Cardinality(Holders(n)) = IF n < write_cursor THEN 1 ELSE 0
<1>1. TypeOK /\ Bounded /\ SeqBehind /\ EachClaimOnce
  BY DEF IInv
<1>2. \A n \in Number : Owned(n)
  BY <1>1, ClaimOnceAs
<1>3. \A n : Holders(n) \in SUBSET Producer /\ Cardinality(Holders(n)) \in Nat
  BY ProducersFinite DEF Holders
<1>4. ASSUME \A n \in Number : Owned(n)' PROVE EachClaimOnce'
  BY <1>4 DEF EachClaimOnce, Holders
<1>5. ASSUME NEW p \in Producer, pc[p] # "claimed", pc' = [pc EXCEPT ![p] = pc'[p]],
             pc'[p] # "claimed", UNCHANGED <<write_cursor, seq, returned>>
      PROVE  EachClaimOnce' /\ SeqBehind'
  <2>1. \A n : Holders(n)' = Holders(n)
    BY <1>1, <1>5 DEF TypeOK, Holders
  <2>2. EachClaimOnce'
    BY <1>2, <1>4, <1>5, <2>1
  <2>3. SeqBehind'
    BY <1>1, <1>5 DEF TypeOK, SeqBehind
  <2> QED BY <2>2, <2>3
<1>6. ASSUME NEW p \in Producer,
             Push(p) \/ TryPush(p) \/ PushLoad(p) \/ PushCasFails(p) \/ TryPushFails(p)
      PROVE  EachClaimOnce' /\ SeqBehind'
  <2>1. /\ pc[p] # "claimed"
        /\ UNCHANGED <<write_cursor, seq, returned>>
        /\ \E v \in {"idle", "push", "push_cas", "try_cas"} : pc' = [pc EXCEPT ![p] = v]
    BY <1>6 DEF Push, TryPush, PushLoad, PushCasFails, TryPushFails, RetryFrom
  <2>2. pc'[p] # "claimed" /\ pc' = [pc EXCEPT ![p] = pc'[p]]
    BY <1>1, <2>1 DEF TypeOK
  <2> QED BY <1>5, <2>1, <2>2
<1>7. ASSUME NEW p \in Producer, Claim(p) PROVE EachClaimOnce' /\ SeqBehind'
  <2>1. /\ pc[p] \in {"push_cas", "try_cas"} /\ write_cursor' = write_cursor + 1
        /\ seq' = [seq EXCEPT ![p] = write_cursor]
        /\ pc' = [pc EXCEPT ![p] = "claimed"] /\ returned' = returned
    BY <1>7 DEF Claim, Expected
  <2>2. write_cursor \in Nat /\ \A q \in Producer : seq[q] \in Nat
    BY <1>1 DEF TypeOK
  <2>3. SeqBehind'
    BY <1>1, <2>1, <2>2 DEF TypeOK, SeqBehind
  <2>4. ASSUME NEW n \in Number, n = write_cursor
        PROVE  Holders(n)' = Holders(n) \cup {p}
    BY <1>1, <2>1, <2>4 DEF TypeOK, Holders
  <2>5. ASSUME NEW n \in Number, n # write_cursor
        PROVE  Holders(n)' = Holders(n)
    BY <1>1, <2>1, <2>5 DEF TypeOK, Holders
  <2>6. ASSUME NEW n \in Number PROVE Owned(n)'
    <3>1. Owned(n) /\ returned[n] \in Nat
      BY <1>1, <1>2 DEF TypeOK
    <3>2. CASE n = write_cursor
      <4>1. p \notin Holders(n)
        BY <2>1 DEF Holders
      <4>2. Cardinality(Holders(n)') = Cardinality(Holders(n)) + 1
        BY <1>3, <2>4, <3>2, <4>1, CountStep
      <4>3. (n < write_cursor)' /\ ~(n < write_cursor)
        BY <2>1, <2>2, <3>2
      <4> QED BY <1>3, <2>1, <3>1, <4>2, <4>3
    <3>3. CASE n # write_cursor
      <4>1. (n < write_cursor)' <=> n < write_cursor
        BY <2>1, <2>2, <3>3 DEF Number
      <4> QED BY <2>1, <2>5, <3>1, <3>3, <4>1
    <3> QED BY <3>2, <3>3
  <2> QED BY <1>4, <2>3, <2>6
<1>8. ASSUME NEW p \in Producer, Return(p) PROVE EachClaimOnce' /\ SeqBehind'
  <2>1. /\ pc[p] = "claimed" /\ returned' = [returned EXCEPT ![seq[p]] = @ + 1]
        /\ pc' = [pc EXCEPT ![p] = "idle"]
        /\ seq' = [seq EXCEPT ![p] = 0] /\ write_cursor' = write_cursor
    BY <1>8 DEF Return
  <2>2. SeqBehind'
    BY <1>1, <2>1 DEF TypeOK, SeqBehind
  <2>3. ASSUME NEW n \in Number, n = seq[p]
        PROVE  p \in Holders(n) /\ Holders(n)' = Holders(n) \ {p}
    BY <1>1, <2>1, <2>3 DEF TypeOK, Holders
  <2>4. ASSUME NEW n \in Number, n # seq[p]
        PROVE  Holders(n)' = Holders(n)
    BY <1>1, <2>1, <2>4 DEF TypeOK, Holders
  <2>5. ASSUME NEW n \in Number PROVE Owned(n)'
    <3>1. Owned(n) /\ returned[n] \in Nat
      BY <1>1, <1>2 DEF TypeOK
    <3>2. CASE n = seq[p]
      <4>1. Cardinality(Holders(n)') = Cardinality(Holders(n)) - 1
        BY <1>3, <2>3, <3>2, CountStep
      <4>2. returned'[n] = returned[n] + 1
        BY <1>1, <2>1, <3>2 DEF TypeOK
      <4> QED BY <1>3, <2>1, <3>1, <4>1, <4>2
    <3>3. CASE n # seq[p]
      <4>1. returned'[n] = returned[n]
        BY <1>1, <2>1, <3>3 DEF TypeOK
      <4> QED BY <2>1, <2>4, <3>1, <3>3, <4>1
    <3> QED BY <3>2, <3>3
  <2> QED BY <1>4, <2>2, <2>5
<1>9. ASSUME UNCHANGED <<write_cursor, pc, seq, returned>>
      PROVE  EachClaimOnce' /\ SeqBehind'
  BY <1>1, <1>9 DEF EachClaimOnce, SeqBehind
<1>10. ASSUME NEW n \in Number, NEW x \in Part, WritePart(n, x)
       PROVE  EachClaimOnce' /\ SeqBehind'
  BY <1>9, <1>10 DEF WritePart
<1>11. ASSUME NEW c \in Consumer, NewConsumer(c) \/ TryPop(c) \/ DropRef(c)
       PROVE  EachClaimOnce' /\ SeqBehind'
  BY <1>9, <1>11 DEF NewConsumer, TryPop, DropRef, producerVars
<1>12. ASSUME Quiescent PROVE EachClaimOnce' /\ SeqBehind'
  BY <1>9, <1>12 DEF Quiescent, vars
<1> QED BY <1>6, <1>7, <1>8, <1>10, <1>11, <1>12 DEF Next, Progress, Copy

(* A claim of the slot that is not newer than the newest is older.         *)
LEMMA OlderThanNewest ==
  ASSUME NEW n \in Nat, NEW m \in Nat, write_cursor \in Nat,
         Newest(n), m < write_cursor, Index(n) = Index(m), m # n
  PROVE  m < n
<1>1. n < m => n + RingSize <= m
  BY SameSlot
<1> QED BY <1>1, RingAssumption DEF Newest

(* What the slots hold.  The fence leaves each producer one copy on its    *)
(* way, that of its last claim; when such a copy lands in a slot that has  *)
(* been claimed again since, the later claim has overtaken it.             *)
SlotsInv == OwnersKnown /\ LastIsUnwritten /\ Initialised /\ SlotIntegrity

LEMMA ClaimKeepsSlots ==
  ASSUME IInv, NEW p \in Producer, Claim(p)
  PROVE  SlotsInv'
<1> USE RingAssumption
<1> DEFINE w == write_cursor
<1>1. TypeOK /\ SlotsInv
  BY DEF IInv, SlotsInv
<1>2. /\ w \in Number /\ write_cursor' = w + 1
      /\ \A n \in Number : n \in Nat
  BY ClaimFits DEF Number
<1>3. /\ unwritten' = [unwritten EXCEPT ![w] = Part]
      /\ owner' = [owner EXCEPT ![w] = p]
      /\ slots' = slots /\ Fenced(p)
  BY DEF Claim, Expected
<1>4. /\ unwritten'[w] = Part /\ owner'[w] = p
      /\ \A n \in Number \ {w} : unwritten'[n] = unwritten[n] /\ owner'[n] = owner[n]
  BY <1>1, <1>2, <1>3 DEF TypeOK
<1>5. \A n \in Number : (n < write_cursor)' <=> n < w \/ n = w
  BY <1>2
<1>6. OwnersKnown'
  <2> SUFFICES ASSUME NEW n \in Number PROVE owner'[n] # None <=> (n < write_cursor)'
    BY DEF OwnersKnown, Number
  <2>1. p # None
    OBVIOUS
  <2>2. CASE n = w
    BY <1>4, <1>5, <2>1, <2>2
  <2>3. CASE n # w
    BY <1>1, <1>4, <1>5, <2>3 DEF SlotsInv, OwnersKnown
  <2> QED BY <2>2, <2>3
<1>7. LastIsUnwritten'
  <2> SUFFICES ASSUME NEW n \in Number, unwritten'[n] # {}
               PROVE  /\ (n < write_cursor)'
                      /\ \A k \in Number : n < k => owner'[k] # owner'[n]
    BY DEF LastIsUnwritten, Number
  <2>1. CASE n = w
    <3>1. ASSUME NEW k \in Number, w < k PROVE owner'[k] = None
      <4>1. ~(k < w) /\ k # w
        BY <1>2, <3>1
      <4> QED BY <1>1, <1>4, <4>1 DEF SlotsInv, OwnersKnown
    <3> QED BY <1>4, <1>5, <2>1, <3>1
  <2>2. CASE n # w
    <3>1. unwritten[n] # {} /\ owner'[n] = owner[n]
      BY <1>4, <2>2
    <3>2. n < w /\ \A k \in Number : n < k => owner[k] # owner[n]
      BY <1>1, <3>1 DEF SlotsInv, LastIsUnwritten
    <3>3. owner[n] # p
      BY <1>3, <3>1 DEF Fenced
    <3> QED BY <1>4, <1>5, <3>1, <3>2, <3>3
  <2> QED BY <2>1, <2>2
<1>8. Initialised'
  <2> SUFFICES ASSUME NEW n \in Number, NEW x \in Part, (n < write_cursor)'
               PROVE  x \in unwritten'[n] \/ slots'[Index(n)][x] # None
    BY DEF Initialised, Number, Index
  <2>1. CASE n = w
    BY <1>4, <2>1
  <2>2. CASE n # w
    BY <1>1, <1>3, <1>4, <1>5, <2>2 DEF SlotsInv, Initialised
  <2> QED BY <2>1, <2>2
<1>9. SlotIntegrity'
  <2> SUFFICES ASSUME NEW n \in Number, Newest(n)', NEW x \in Part
               PROVE  x \in unwritten'[n] \/ slots'[Index(n)][x] \in {n} \cup Overtook(n)'
    BY DEF SlotIntegrity, Number, Index
  <2>1. CASE n = w
    BY <1>4, <2>1
  <2>2. CASE n # w
    <3>1. Newest(n) /\ n < w
      BY <1>2, <2>2 DEF Newest
    <3>2. \A m \in 0 .. n : owner'[m] = owner[m]
      <4>1. \A m \in 0 .. n : m \in Number /\ m # w
        BY <1>2, <3>1 DEF Number
      <4> QED BY <1>4, <4>1
    <3>3. Overtook(n)' = Overtook(n)
      <4>1. /\ \A m \in 0 .. n - 1 : m \in 0 .. n
            /\ n \in 0 .. n
            /\ \A m \in 0 .. n - 1 : \A k \in m + 1 .. n - 1 : k \in 0 .. n
        BY <1>2
      <4> QED BY <3>2, <4>1 DEF Overtook, Index
    <3>4. x \in unwritten[n] \/ slots[Index(n)][x] \in {n} \cup Overtook(n)
      BY <1>1, <3>1 DEF SlotsInv, SlotIntegrity
    <3> QED BY <1>3, <1>4, <2>2, <3>3, <3>4
  <2> QED BY <2>1, <2>2
<1> QED BY <1>6, <1>7, <1>8, <1>9 DEF SlotsInv

LEMMA CopyKeepsSlots ==
  ASSUME IInv, NEW m \in Number, NEW y \in Part, WritePart(m, y)
  PROVE  SlotsInv'
<1> USE RingAssumption
<1>1. TypeOK /\ SlotsInv
  BY DEF IInv, SlotsInv
<1>2. \A n \in Number : n \in Nat /\ Index(n) \in Slot
  BY IndexOf DEF Number
<1>3. /\ y \in unwritten[m]
      /\ slots' = [slots EXCEPT ![Index(m)][y] = m]
      /\ unwritten' = [unwritten EXCEPT ![m] = @ \ {y}]
      /\ UNCHANGED <<write_cursor, owner>>
  BY DEF WritePart
<1>4. /\ unwritten'[m] = unwritten[m] \ {y}
      /\ \A n \in Number \ {m} : unwritten'[n] = unwritten[n]
  BY <1>1, <1>3 DEF TypeOK
<1>5. ASSUME NEW n \in Number, NEW x \in Part
      PROVE  slots'[Index(n)][x] =
               IF Index(n) = Index(m) /\ x = y THEN m ELSE slots[Index(n)][x]
  BY <1>1, <1>2, <1>3 DEF TypeOK
<1>6. /\ m < write_cursor
      /\ \A k \in Number : m < k => owner[k] # owner[m]
  BY <1>1, <1>3 DEF SlotsInv, LastIsUnwritten
<1>7. OwnersKnown'
  BY <1>1, <1>3 DEF SlotsInv, OwnersKnown
<1>8. LastIsUnwritten'
  <2>1. \A n \in Number : unwritten'[n] # {} => unwritten[n] # {}
    BY <1>4
  <2> QED BY <1>1, <1>3, <2>1 DEF SlotsInv, LastIsUnwritten
<1>9. Initialised'
  <2> SUFFICES ASSUME NEW n \in Number, NEW x \in Part, n < write_cursor
               PROVE  x \in unwritten'[n] \/ slots'[Index(n)][x] # None
    BY <1>3 DEF Initialised, Index
  <2>1. CASE Index(n) = Index(m) /\ x = y
    BY <1>2, <1>5, <2>1
  <2>2. CASE ~(Index(n) = Index(m) /\ x = y)
    <3>1. x \in unwritten[n] \/ slots[Index(n)][x] # None
      BY <1>1 DEF SlotsInv, Initialised
    <3>2. x \in unwritten[n] => x \in unwritten'[n]
      BY <1>4, <2>2
    <3> QED BY <1>5, <2>2, <3>1, <3>2
  <2> QED BY <2>1, <2>2
<1>10. SlotIntegrity'
  <2>1. \A n : Overtook(n)' = Overtook(n) /\ (Newest(n)' <=> Newest(n))
    BY <1>3 DEF Overtook, Newest, Index
  <2> SUFFICES ASSUME NEW n \in Number, Newest(n), NEW x \in Part
               PROVE  x \in unwritten'[n] \/ slots'[Index(n)][x] \in {n} \cup Overtook(n)
    BY <2>1 DEF SlotIntegrity, Index
  <2>2. CASE Index(n) = Index(m) /\ x = y
    <3>1. ASSUME m # n PROVE m \in Overtook(n)
      <4>1. m < n
        BY <1>1, <1>2, <1>6, <2>2, <3>1, OlderThanNewest DEF TypeOK
      <4>2. owner[m] # owner[n]
        BY <1>6, <4>1
      <4>3. \A k \in m + 1 .. n - 1 : k \in Number /\ m < k
        BY <1>2 DEF Number
      <4>4. m \in 0 .. n - 1
        BY <1>2, <4>1
      <4> QED BY <1>6, <2>2, <4>2, <4>3, <4>4 DEF Overtook
    <3> QED BY <1>5, <2>2, <3>1
  <2>3. CASE ~(Index(n) = Index(m) /\ x = y)
    <3>1. x \in unwritten[n] \/ slots[Index(n)][x] \in {n} \cup Overtook(n)
      BY <1>1 DEF SlotsInv, SlotIntegrity
    <3>2. x \in unwritten[n] => x \in unwritten'[n]
      BY <1>4, <2>3
    <3> QED BY <1>5, <2>3, <3>1, <3>2
  <2> QED BY <2>2, <2>3
<1> QED BY <1>7, <1>8, <1>9, <1>10 DEF SlotsInv

LEMMA SlotInv == ASSUME IInv, Next PROVE SlotsInv'
<1>1. SlotsInv
  BY DEF IInv, SlotsInv
<1>2. ASSUME UNCHANGED <<write_cursor, slots, unwritten, owner>> PROVE SlotsInv'
  BY <1>1, <1>2 DEF SlotsInv, OwnersKnown, LastIsUnwritten, Initialised,
                    SlotIntegrity, Overtook, Newest
<1>3. ASSUME NEW p \in Producer,
             Push(p) \/ TryPush(p) \/ PushLoad(p) \/ PushCasFails(p) \/ TryPushFails(p) \/ Return(p)
      PROVE  SlotsInv'
  BY <1>2, <1>3 DEF Push, TryPush, PushLoad, PushCasFails, TryPushFails, Return
<1>4. ASSUME NEW c \in Consumer, NewConsumer(c) \/ TryPop(c) \/ DropRef(c)
      PROVE  SlotsInv'
  BY <1>2, <1>4 DEF NewConsumer, TryPop, DropRef, producerVars
<1>5. ASSUME Quiescent PROVE SlotsInv'
  BY <1>2, <1>5 DEF Quiescent, vars
<1> QED BY <1>3, <1>4, <1>5, ClaimKeepsSlots, CopyKeepsSlots DEF Next, Progress, Copy

-----------------------------------------------------------------------------
(* The theorems.                                                           *)

(* The invariant is inductive, stuttering steps included.                  *)
LEMMA NextInv == IInv /\ [Next]_vars => IInv'
<1> SUFFICES ASSUME IInv, [Next]_vars PROVE IInv'
  OBVIOUS
<1>1. CASE Next
  BY <1>1, TypeInv, BoundedInv, ClaimInv, SlotInv DEF IInv, SlotsInv
<1>2. CASE UNCHANGED vars
  BY <1>2 DEF vars, IInv, TypeOK, Bounded, Claiming, SeqBehind, ReadersBehind,
              HeldBehind, EachClaimOnce, OwnersKnown, LastIsUnwritten,
              Initialised, SlotIntegrity, Overtook, Newest
<1> QED BY <1>1, <1>2

(* The inductive invariant holds in every behaviour of the ring.           *)
THEOREM InvariantHolds == Spec => []IInv
BY InitInv, NextInv, PTL DEF Spec

(* The ring's cursors, slots and local variables keep their types: no      *)
(* cursor is ever negative or beyond the pushes that were started.         *)
THEOREM TypeCorrect == Spec => []TypeOK
<1>1. IInv => TypeOK
  BY DEF IInv
<1> QED BY <1>1, InvariantHolds, PTL

(* Every sequence number below write_cursor was handed to exactly one      *)
(* push, whatever compare-and-swaps failed on the way, and no other was.   *)
THEOREM ClaimedOnce == Spec => []EachClaimOnce
<1>1. IInv => EachClaimOnce
  BY DEF IInv
<1> QED BY <1>1, InvariantHolds, PTL

(* A slot holds its newest transaction or is receiving it, but for what    *)
(* producers write late that had not claimed again when it was claimed.    *)
THEOREM SlotsKeepNewest == Spec => []SlotIntegrity
<1>1. IInv => SlotIntegrity
  BY DEF IInv
<1> QED BY <1>1, InvariantHolds, PTL

(* A reference from try_pop to a transaction whose producer had claimed    *)
(* again is to an initialised slot for as long as it is held, and to that  *)
(* transaction, or one it overtook, until the ring is lapped.              *)
THEOREM ReferencesArePublished == Spec => []ReferenceIsPublished
<1>1. ASSUME IInv PROVE ReferenceIsPublished
  <2> SUFFICES ASSUME NEW c \in Consumer, Republished(c), NEW x \in Part
               PROVE  LET value == slots[Index(held[c])][x]
                      IN  /\ value # None
                          /\ Newest(held[c]) => value \in {held[c]} \cup Overtook(held[c])
    BY DEF ReferenceIsPublished
  <2> DEFINE n == held[c]
  <2>1. /\ n # None /\ n \in Nat /\ n < write_pos[c]
        /\ write_pos[c] \in 0 .. MaxSeq /\ write_pos[c] <= write_cursor
        /\ write_cursor \in Nat /\ MaxSeq \in Nat
    BY <1>1, RingAssumption DEF IInv, TypeOK, HeldBehind, Republished
  <2>2. n \in Number /\ n < write_cursor
    BY <2>1 DEF Number
  <2>3. PICK k \in n + 1 .. write_pos[c] - 1 : owner[k] = owner[n]
    BY DEF Republished
  <2>4. k \in Number /\ n < k
    BY <2>1, <2>3 DEF Number
  <2>5. unwritten[n] = {}
    BY <1>1, <2>2, <2>3, <2>4 DEF IInv, LastIsUnwritten
  <2>6. slots[Index(n)][x] # None
    BY <1>1, <2>2, <2>5 DEF IInv, Initialised
  <2>7. Newest(n) => slots[Index(n)][x] \in {n} \cup Overtook(n)
    BY <1>1, <2>2, <2>5 DEF IInv, SlotIntegrity
  <2> QED BY <2>6, <2>7
<1>2. IInv => ReferenceIsPublished
  BY <1>1
<1> QED BY <1>2, InvariantHolds, PTL

(* lag() never underflows, and is_lapped() is true of exactly those        *)
(* consumers that have lost a transaction.                                 *)
THEOREM LagExact == Spec => []LagIsExact
<1>1. ASSUME IInv PROVE LagIsExact
  <2> SUFFICES ASSUME NEW c \in consumers
               PROVE  /\ read_cursor[c] <= write_cursor
                      /\ IsLapped(c) <=> \E n \in read_cursor[c] .. write_cursor - 1 : ~Newest(n)
    BY DEF LagIsExact
  <2>1. /\ read_cursor[c] \in Nat /\ write_cursor \in Nat
        /\ read_cursor[c] <= write_cursor /\ RingSize \in Nat \ {0}
    BY <1>1, RingAssumption DEF IInv, TypeOK, ReadersBehind
  <2>2. IsLapped(c) <=> read_cursor[c] + RingSize < write_cursor
    BY <2>1 DEF IsLapped, Lag
  <2>3. ASSUME read_cursor[c] + RingSize < write_cursor
        PROVE  \E n \in read_cursor[c] .. write_cursor - 1 : ~Newest(n)
    <3>1. read_cursor[c] \in read_cursor[c] .. write_cursor - 1 /\ ~Newest(read_cursor[c])
      BY <2>1, <2>3 DEF Newest
    <3> QED BY <3>1
  <2>4. ASSUME NEW n \in read_cursor[c] .. write_cursor - 1, ~Newest(n)
        PROVE  read_cursor[c] + RingSize < write_cursor
    BY <2>1, <2>4 DEF Newest
  <2> QED BY <2>1, <2>2, <2>3, <2>4
<1>2. IInv => LagIsExact
  BY <1>1
<1> QED BY <1>2, InvariantHolds, PTL

(* The log a pop of the ring takes a step of: the position it computes is  *)
(* the oldest one that is retained and that the consumer has not passed.   *)
LEMMA PopDelivers ==
  ASSUME IInv, NEW c \in Consumer, TryPop(c)
  PROVE  Log!Deliver(c)
<1> DEFINE n == IF IsLapped(c) THEN SkipTo ELSE read_cursor[c]
<1>1. /\ read_cursor[c] \in Nat /\ write_cursor \in Nat
      /\ read_cursor[c] < write_cursor /\ RingSize \in Nat \ {0}
  BY RingAssumption DEF IInv, TypeOK, TryPop, HasNew
<1>2. n \in read_cursor[c] .. write_cursor - 1
  BY <1>1 DEF IsLapped, Lag, SkipTo
<1>3. Log!Retained(n)
  BY <1>1 DEF IsLapped, Lag, SkipTo, Log!Retained
<1>4. \A m \in read_cursor[c] .. n - 1 : ~Log!Retained(m)
  BY <1>1 DEF IsLapped, Lag, SkipTo, Log!Retained
<1>5. /\ held' = [held EXCEPT ![c] = n]
      /\ read_cursor' = [read_cursor EXCEPT ![c] = n + 1]
  BY DEF TryPop
<1>6. c \in consumers /\ held[c] = None /\ UNCHANGED <<write_cursor, consumers>>
  BY DEF TryPop
<1> HIDE DEF n
<1> QED BY <1>2, <1>3, <1>4, <1>5, <1>6 DEF Log!Deliver

(* The ring implements the broadcast log: a claim publishes, a new         *)
(* consumer joins, a pop delivers the oldest retained transaction not seen *)
(* yet, dropping the reference releases it, and all else is internal.      *)
THEOREM RingImplementsLog == Spec => ImplementsBroadcastLog
<1>1. Init => Log!Init
  BY DEF Init, Log!Init
<1>2. IInv /\ [Next]_vars => [Log!Next]_(Log!vars)
  <2> SUFFICES ASSUME IInv, [Next]_vars
               PROVE  Log!Next \/ UNCHANGED Log!vars
    OBVIOUS
  <2>1. ASSUME NEW p \in Producer, Claim(p) PROVE Log!Publish
    BY <2>1 DEF Claim, Expected, consumerVars, Log!Publish
  <2>2. ASSUME NEW p \in Producer,
               Push(p) \/ TryPush(p) \/ PushLoad(p) \/ PushCasFails(p) \/ TryPushFails(p) \/ Return(p)
        PROVE  UNCHANGED Log!vars
    BY <2>2 DEF Push, TryPush, PushLoad, PushCasFails, TryPushFails, Return,
                consumerVars, Log!vars
  <2>3. ASSUME NEW n \in Number, NEW x \in Part, WritePart(n, x)
        PROVE  UNCHANGED Log!vars
    BY <2>3 DEF WritePart, consumerVars, Log!vars
  <2>4. ASSUME NEW c \in Consumer, NewConsumer(c) PROVE Log!Join(c)
    BY <2>4 DEF NewConsumer, Log!Join
  <2>5. ASSUME NEW c \in Consumer, TryPop(c) PROVE Log!Deliver(c)
    BY <2>5, PopDelivers
  <2>6. ASSUME NEW c \in Consumer, DropRef(c) PROVE Log!Release(c)
    BY <2>6 DEF DropRef, Log!Release
  <2>7. CASE UNCHANGED vars \/ Quiescent
    BY <2>7 DEF vars, Quiescent, Log!vars
  <2> QED BY <2>1, <2>2, <2>3, <2>4, <2>5, <2>6, <2>7 DEF Next, Progress, Copy, Log!Next
<1> QED BY <1>1, <1>2, InvariantHolds, PTL DEF Spec, ImplementsBroadcastLog, Log!Spec
=============================================================================
