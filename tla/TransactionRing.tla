--------------------------- MODULE TransactionRing --------------------------
(***************************************************************************)
(* The broadcast ring of src/src/buffer.rs: producers claim a sequence     *)
(* number with a compare-and-swap on write_cursor and then copy the        *)
(* transaction into the slot; every consumer walks the ring with a private *)
(* read_cursor and is skipped ahead when the writers have lapped it.       *)
(*                                                                         *)
(* A transaction is identified with the sequence number it was given.  Its *)
(* copy (~240 KB) reaches memory part by part, and not necessarily before  *)
(* push returns: fence(Release) keeps the copy ahead of the producer's     *)
(* next store, the next claim, and nothing makes a consumer wait for it.   *)
(* The copies on their way are kept per sequence number, so that several   *)
(* copies of one producer can be: only the fence says that there are not.  *)
(***************************************************************************)
EXTENDS Naturals, FiniteSets

CONSTANTS
  Producer,    \* producer handles
  Consumer,    \* consumer handles
  Part,        \* the parts in which the copy of a transaction reaches memory
  RingSize,    \* RING_SIZE, a power of two
  MaxSeq,      \* bound: how many pushes are started
  None         \* no transaction: an uninitialised part, no reference held

ASSUME RingAssumption ==
  /\ RingSize \in Nat \ {0}
  /\ MaxSeq \in Nat
  /\ None \notin Nat \cup Producer
  /\ IsFiniteSet(Producer)

(* seq & RING_MASK: RING_SIZE is a power of two.                           *)
Index(n) == n % RingSize
Slot == 0 .. RingSize - 1

Number == 0 .. MaxSeq - 1

VARIABLES
  write_cursor,  \* the shared AtomicU64
  slots,         \* the transaction whose bytes are in each part of each slot
  pc,            \* where each producer is in push / try_push
  current,       \* the cursor value a push has loaded (a local, 0 out of scope)
  seq,           \* the sequence number a push has claimed (likewise)
  unwritten,     \* the parts of each copy that have not reached memory yet
  consumers,     \* the consumers created so far
  read_cursor,   \* each consumer's private cursor
  write_pos,     \* the cursor value of the pop that returned its reference
  held,          \* the transaction a consumer's returned reference stands for
  returned,      \* history: how often each sequence number was returned
  owner          \* history: the producer that claimed each sequence number

vars == <<write_cursor, slots, pc, current, seq, unwritten,
          consumers, read_cursor, write_pos, held, returned, owner>>

producerVars == <<pc, current, seq, unwritten, returned, owner>>
consumerVars == <<consumers, read_cursor, write_pos, held>>

TypeOK ==
  /\ write_cursor \in 0 .. MaxSeq
  /\ slots \in [Slot -> [Part -> Nat \cup {None}]]
  /\ pc \in [Producer -> {"idle", "push", "push_cas", "try_cas", "claimed"}]
  /\ current \in [Producer -> Nat]
  /\ seq \in [Producer -> Nat]
  /\ unwritten \in [Number -> SUBSET Part]
  /\ consumers \in SUBSET Consumer
  /\ read_cursor \in [Consumer -> 0 .. MaxSeq]
  /\ write_pos \in [Consumer -> 0 .. MaxSeq]
  /\ held \in [Consumer -> Nat \cup {None}]
  /\ returned \in [Number -> Nat]
  /\ owner \in [Number -> Producer \cup {None}]

Init ==
  /\ write_cursor = 0
  /\ slots = [i \in Slot |-> [x \in Part |-> None]]
  /\ pc = [p \in Producer |-> "idle"]
  /\ current = [p \in Producer |-> 0]
  /\ seq = [p \in Producer |-> 0]
  /\ unwritten = [n \in Number |-> {}]
  /\ consumers = {}
  /\ read_cursor = [c \in Consumer |-> 0]
  /\ write_pos = [c \in Consumer |-> 0]
  /\ held = [c \in Consumer |-> None]
  /\ returned = [n \in Number |-> 0]
  /\ owner = [n \in Number |-> None]

-----------------------------------------------------------------------------
(* Producers.                                                              *)

(* The pushes that have started and hold no sequence number yet.           *)
Claiming == {p \in Producer : pc[p] \in {"push", "push_cas", "try_cas"}}

Push(p) ==
  /\ pc[p] = "idle"
  /\ write_cursor + Cardinality(Claiming) < MaxSeq
  /\ pc' = [pc EXCEPT ![p] = "push"]
  /\ UNCHANGED <<write_cursor, slots, current, seq, unwritten, returned,
                 owner, consumerVars>>

(* The relaxed load at the head of push's loop.                            *)
PushLoad(p) ==
  /\ pc[p] = "push"
  /\ current' = [current EXCEPT ![p] = write_cursor]
  /\ pc' = [pc EXCEPT ![p] = "push_cas"]
  /\ UNCHANGED <<write_cursor, slots, seq, unwritten, returned, owner,
                 consumerVars>>

(* try_push loads the cursor and tries once.                               *)
TryPush(p) ==
  /\ pc[p] = "idle"
  /\ write_cursor + Cardinality(Claiming) < MaxSeq
  /\ current' = [current EXCEPT ![p] = write_cursor]
  /\ pc' = [pc EXCEPT ![p] = "try_cas"]
  /\ UNCHANGED <<write_cursor, slots, seq, unwritten, returned, owner,
                 consumerVars>>

(* compare_exchange succeeds only on the value that was loaded.            *)
Expected_Ignored(p) == TRUE
Expected(p) == write_cursor = current[p]

(* The release fence at the end of a producer's pushes: their copies are   *)
(* in memory before its next claim is.                                     *)
Fenced_Dropped(p) == TRUE
Fenced(p) == \A n \in Number : owner[n] = p => unwritten[n] = {}

Claim(p) ==
  /\ pc[p] \in {"push_cas", "try_cas"}
  /\ Expected(p)
  /\ Fenced(p)
  /\ write_cursor' = current[p] + 1
  /\ seq' = [seq EXCEPT ![p] = current[p]]
  /\ unwritten' = [unwritten EXCEPT ![current[p]] = Part]
  /\ owner' = [owner EXCEPT ![current[p]] = p]
  /\ current' = [current EXCEPT ![p] = 0]
  /\ pc' = [pc EXCEPT ![p] = "claimed"]
  /\ UNCHANGED <<slots, returned, consumerVars>>

(* push goes back to its load; a compare_exchange_weak may also fail       *)
(* although the cursor has the expected value.                             *)
RetryFrom_Stale == "push_cas"
RetryFrom == "push"

PushCasFails(p) ==
  /\ pc[p] = "push_cas"
  /\ pc' = [pc EXCEPT ![p] = RetryFrom]
  /\ UNCHANGED <<write_cursor, slots, current, seq, unwritten, returned,
                 owner, consumerVars>>

(* try_push returns None.                                                  *)
TryPushFails(p) ==
  /\ pc[p] = "try_cas"
  /\ write_cursor # current[p]
  /\ current' = [current EXCEPT ![p] = 0]
  /\ pc' = [pc EXCEPT ![p] = "idle"]
  /\ UNCHANGED <<write_cursor, slots, seq, unwritten, returned, owner,
                 consumerVars>>

(* Stores of one thread to one place in memory stay in their order, fence  *)
(* or not.                                                                 *)
Coherent(n, x) ==
  \A m \in 0 .. n - 1 :
    owner[m] = owner[n] /\ Index(m) = Index(n) => x \notin unwritten[m]

(* One more part of the copy of n becomes visible in memory.               *)
WritePart(n, x) ==
  /\ x \in unwritten[n]
  /\ Coherent(n, x)
  /\ slots' = [slots EXCEPT ![Index(n)][x] = n]
  /\ unwritten' = [unwritten EXCEPT ![n] = @ \ {x}]
  /\ UNCHANGED <<write_cursor, pc, current, seq, returned, owner,
                 consumerVars>>

Return(p) ==
  /\ pc[p] = "claimed"
  /\ returned' = [returned EXCEPT ![seq[p]] = @ + 1]
  /\ seq' = [seq EXCEPT ![p] = 0]
  /\ pc' = [pc EXCEPT ![p] = "idle"]
  /\ UNCHANGED <<write_cursor, slots, current, unwritten, owner,
                 consumerVars>>

-----------------------------------------------------------------------------
(* Consumers.                                                              *)

NewConsumer(c) ==
  /\ c \notin consumers
  /\ consumers' = consumers \cup {c}
  /\ read_cursor' = [read_cursor EXCEPT ![c] = write_cursor]
  /\ UNCHANGED <<write_cursor, slots, write_pos, held, producerVars>>

(* lag(): the subtraction saturates at zero.                               *)
Lag(c) == IF write_cursor >= read_cursor[c]
          THEN write_cursor - read_cursor[c] ELSE 0

IsLapped_Late(c) == Lag(c) > RingSize + 1
IsLapped(c) == Lag(c) > RingSize

(* There is something new to read.                                         *)
HasNew_OffByOne(c) == read_cursor[c] <= write_cursor
HasNew(c) == read_cursor[c] < write_cursor

(* Where a lapped consumer continues: the oldest claim still in the ring.  *)
SkipTo_Newest == write_cursor - 1
SkipTo == write_cursor - RingSize

(* try_pop with data: one atomic load of write_cursor, the rest is local.  *)
(* The reference borrows the consumer, so it is gone before the next call. *)
TryPop(c) ==
  /\ c \in consumers
  /\ held[c] = None
  /\ HasNew(c)
  /\ LET n == IF IsLapped(c) THEN SkipTo ELSE read_cursor[c]
     IN  /\ held' = [held EXCEPT ![c] = n]
         /\ read_cursor' = [read_cursor EXCEPT ![c] = n + 1]
  /\ write_pos' = [write_pos EXCEPT ![c] = write_cursor]
  /\ UNCHANGED <<write_cursor, slots, consumers, producerVars>>

(* The caller lets go of the reference.                                    *)
DropRef(c) ==
  /\ held[c] # None
  /\ held' = [held EXCEPT ![c] = None]
  /\ write_pos' = [write_pos EXCEPT ![c] = 0]
  /\ UNCHANGED <<write_cursor, slots, consumers, read_cursor, producerVars>>

-----------------------------------------------------------------------------
(* All pushes of the bounded run have returned and all consumers are idle. *)
Quiescent ==
  /\ write_cursor = MaxSeq
  /\ \A p \in Producer : pc[p] = "idle"
  /\ \A n \in Number : unwritten[n] = {}
  /\ \A c \in consumers : held[c] = None /\ ~HasNew(c)
  /\ UNCHANGED vars

Progress(p) ==
  \/ PushLoad(p) \/ PushCasFails(p)
  \/ Claim(p) \/ TryPushFails(p)
  \/ Return(p)

Copy(n) == \E x \in Part : WritePart(n, x)

Next ==
  \/ \E p \in Producer : Push(p) \/ TryPush(p) \/ Progress(p)
  \/ \E n \in Number : Copy(n)
  \/ \E c \in Consumer : NewConsumer(c) \/ TryPop(c) \/ DropRef(c)
  \/ Quiescent

(***************************************************************************)
(* Producer threads are scheduled and their stores reach memory; a weak    *)
(* compare-and-swap does not fail for ever on a cursor nobody changes.     *)
(***************************************************************************)
Fairness ==
  /\ \A p \in Producer : WF_vars(Progress(p)) /\ SF_vars(Claim(p))
  /\ \A n \in Number : WF_vars(Copy(n))

Spec == Init /\ [][Next]_vars /\ Fairness

-----------------------------------------------------------------------------
(* Properties.                                                             *)

(* n is the newest sequence number claimed so far for its slot.            *)
Newest(n) == n < write_cursor /\ n + RingSize >= write_cursor

(***************************************************************************)
(* Every sequence number below write_cursor belongs to exactly one push,   *)
(* one that is still running or one that has returned it; no other number  *)
(* is handed out.  Failed and spurious compare-and-swaps leave no gap.     *)
(***************************************************************************)
EachClaimOnce ==
  \A n \in Number :
    returned[n] + Cardinality({p \in Producer : pc[p] = "claimed" /\ seq[p] = n})
      = IF n < write_cursor THEN 1 ELSE 0

(* The claims of n's slot that n overtook: their producers, others than    *)
(* n's own, had not claimed again when n was claimed.  Such a producer may *)
(* be a whole ring behind and still be copying.                            *)
Overtook(n) ==
  {m \in 0 .. n - 1 :
     /\ Index(m) = Index(n)
     /\ owner[m] # owner[n]
     /\ \A k \in m + 1 .. n - 1 : owner[k] # owner[m]}

(***************************************************************************)
(* Each part of a slot holds the newest transaction claimed for the slot,  *)
(* or that part of its copy is on the way, or it was overwritten by a      *)
(* producer that n overtook.  A producer that has claimed again since, the *)
(* fence in push promises, no longer disturbs the slot, and a slot is sound*)
(* again with the next claim that overtakes nobody.                        *)
(***************************************************************************)
SlotIntegrity ==
  \A n \in Number : Newest(n) =>
    \A x \in Part :
      x \in unwritten[n] \/ slots[Index(n)][x] \in {n} \cup Overtook(n)

(* The producer of the transaction c holds had claimed again before the    *)
(* pop read the cursor.                                                    *)
Republished(c) ==
  /\ held[c] # None
  /\ \E k \in held[c] + 1 .. write_pos[c] - 1 : owner[k] = owner[held[c]]

(***************************************************************************)
(* What a reference from try_pop is good for: when the transaction's       *)
(* producer had already claimed again, the slot is initialised for as long *)
(* as the reference lives, also when producers lap the ring under it; and  *)
(* until they do, it holds that transaction, or one the claim overtook.    *)
(***************************************************************************)
ReferenceIsPublished ==
  \A c \in Consumer : Republished(c) =>
    \A x \in Part :
      LET value == slots[Index(held[c])][x]
      IN  /\ value # None
          /\ Newest(held[c]) => value \in {held[c]} \cup Overtook(held[c])

(***************************************************************************)
(* A consumer never runs ahead of the writers, so the unsigned distance in *)
(* try_pop does not underflow; and is_lapped() reports exactly that a      *)
(* transaction the consumer has not read yet has lost its slot.            *)
(***************************************************************************)
LagIsExact ==
  \A c \in consumers :
    /\ read_cursor[c] <= write_cursor
    /\ IsLapped(c) <=> \E n \in read_cursor[c] .. write_cursor - 1 : ~Newest(n)

(***************************************************************************)
(* What producers and consumers do to the cursors implements a log whose   *)
(* last RING_SIZE transactions are retained: each claim extends the log by *)
(* one; try_pop hands out the oldest retained transaction not seen yet,    *)
(* so a lapped consumer lands on a slot no newer claim has taken, misses   *)
(* only overwritten transactions, and never goes back.                     *)
(***************************************************************************)
Log == INSTANCE BroadcastLog
         WITH Window <- RingSize, end <- write_cursor, joined <- consumers,
              next <- read_cursor, given <- held
ImplementsBroadcastLog == Log!Spec

(***************************************************************************)
(* A push that has started returns, however often another producer wins    *)
(* the compare-and-swap.                                                   *)
(***************************************************************************)
PushReturns ==
  \A p \in Producer : pc[p] # "idle" ~> pc[p] = "idle"

(***************************************************************************)
(* What the safety comment in try_pop claims of the slot it dereferences:  *)
(* the producer has written to it.                                         *)
(***************************************************************************)
PoppedSlotIsWritten ==
  \A c \in Consumer : held[c] # None =>
    \A x \in Part : slots[Index(held[c])][x] # None
=============================================================================
