--------------------------- MODULE ForwarderProofs --------------------------
(***************************************************************************)
(* Proofs about Forwarder, for any requests, validators and RPC answers,   *)
(* any time to live and any pauses.                                        *)
(***************************************************************************)
EXTENDS Forwarder, FiniteSetTheorems, TLAPS

-----------------------------------------------------------------------------
(* Filtered lists.                                                         *)

(* Among some numbers there is a least one.                                *)
LEMMA LeastNat ==
  ASSUME NEW D \in SUBSET Nat, D # {}
  PROVE  \E x \in D : \A y \in D : x <= y
<1>1. PICK x \in D : \A y \in D : ~ (<<y, x>> \in OpToRel(<, Nat))
  BY NatLessThanWellFounded, WFMin
<1>2. \A y \in D : ~ (y < x)
  BY <1>1 DEF OpToRel
<1> QED BY <1>2

(* Among some positions of a list there is a last one.                     *)
LEMMA LastPosition ==
  ASSUME NEW n \in Nat, NEW D \in SUBSET (1 .. n), D # {}
  PROVE  \E x \in D : \A y \in D : y <= x
<1> DEFINE B == {m \in Nat : \A y \in D : y <= m}
<1>1. n \in B
  OBVIOUS
<1>2. PICK x \in B : \A m \in B : x <= m
  BY <1>1, LeastNat
<1>3. x \in D
  <2>1. SUFFICES ASSUME x \notin D PROVE FALSE
    OBVIOUS
  <2>2. PICK y \in D : TRUE
    OBVIOUS
  <2>3. y \in 1 .. n /\ y <= x
    OBVIOUS
  <2>4. x - 1 \in Nat
    BY <2>3
  <2>5. \A z \in D : z <= x - 1
    BY <1>2, <2>1
  <2>6. x - 1 \in B
    BY <2>4, <2>5
  <2> QED BY <1>2, <2>6
<1> QED BY <1>2, <1>3

(* The ranks of the kept positions are the positions of the filtered list. *)
LEMMA Ranks ==
  ASSUME NEW N \in Nat, NEW D \in SUBSET (1 .. N)
  PROVE  /\ Cardinality(D) \in Nat
         /\ \A i \in D : Rank(D, i) \in 1 .. Cardinality(D)
         /\ \A i, j \in D : Rank(D, i) = Rank(D, j) => i = j
         /\ \A n \in 1 .. Cardinality(D) : \E i \in D : Rank(D, i) = n
<1> DEFINE C == Cardinality(D)
           Upto(i) == {j \in D : j <= i}
           r == [i \in D |-> Rank(D, i)]
<1>1. IsFiniteSet(D) /\ C \in Nat
  <2>1. IsFiniteSet(1 .. N)
    BY FS_Interval
  <2> QED BY <2>1, FS_Subset, FS_CardinalityType
<1>2. \A i : Upto(i) \in SUBSET D /\ IsFiniteSet(Upto(i)) /\ Cardinality(Upto(i)) \in Nat
             /\ Cardinality(Upto(i)) <= C
  BY <1>1, FS_Subset, FS_CardinalityType
<1>3. ASSUME NEW i \in D PROVE Rank(D, i) \in 1 .. C
  <2>1. Upto(i) # {}
    OBVIOUS
  <2>2. Cardinality(Upto(i)) # 0
    BY <1>2, <2>1, FS_EmptySet
  <2> QED BY <1>1, <1>2, <2>2 DEF Rank
<1>4. ASSUME NEW i \in D, NEW j \in D, i < j PROVE Rank(D, i) # Rank(D, j)
  <2>1. Upto(i) \in SUBSET Upto(j) /\ j \in Upto(j) /\ j \notin Upto(i)
    <3>1. \A k \in D : k \in Nat
      OBVIOUS
    <3>2. \A k \in D : k <= i => k <= j
      BY <1>4, <3>1
    <3>3. j <= j /\ ~(j <= i)
      BY <1>4, <3>1
    <3> QED BY <3>2, <3>3
  <2>2. Cardinality(Upto(j)) = Cardinality(Upto(i)) => Upto(j) = Upto(i)
    BY <1>2, <2>1, FS_Subset
  <2> QED BY <2>1, <2>2 DEF Rank
<1>5. \A i, j \in D : Rank(D, i) = Rank(D, j) => i = j
  BY <1>4
<1>6. r \in Injection(D, 1 .. C)
  BY <1>3, <1>5 DEF Injection, IsInjective
<1>7. IsFiniteSet(1 .. C) /\ Cardinality(1 .. C) = C
  BY <1>1, FS_Interval
<1>8. r \in Surjection(D, 1 .. C)
  BY <1>6, <1>7, FS_Injection
<1>9. \A n \in 1 .. C : \E i \in D : Rank(D, i) = n
  BY <1>8 DEF Surjection
<1> QED BY <1>1, <1>3, <1>5, <1>9

(* What a filter yields: a list of kept values, with every kept value.     *)
LEMMA Filtered ==
  ASSUME NEW f, NEW N \in Nat, DOMAIN f \subseteq 1 .. N,
         NEW S, \A i \in DOMAIN f : f[i] \in S
  PROVE  /\ InOrder(f) \in Seq(S)
         /\ Len(InOrder(f)) = Cardinality(DOMAIN f)
         /\ \A n \in DOMAIN InOrder(f) : \E i \in DOMAIN f : InOrder(f)[n] = f[i]
         /\ \A i \in DOMAIN f : \E n \in DOMAIN InOrder(f) : InOrder(f)[n] = f[i]
<1> DEFINE D == DOMAIN f
           C == Cardinality(D)
           At(n) == CHOOSE i \in D : Rank(D, i) = n
<1>1. C \in Nat
  BY Ranks
<1>2. InOrder(f) = [n \in 1 .. C |-> f[At(n)]]
  BY DEF InOrder
<1>3. \A n \in 1 .. C : At(n) \in D /\ Rank(D, At(n)) = n
  BY Ranks
<1>4. \A i \in D : Rank(D, i) \in 1 .. C /\ At(Rank(D, i)) = i
  BY Ranks, <1>3
<1> HIDE DEF At, C
<1>5. \A n \in 1 .. C : f[At(n)] \in S
  BY <1>3
<1>6. InOrder(f) \in Seq(S) /\ Len(InOrder(f)) = C /\ DOMAIN InOrder(f) = 1 .. C
  BY <1>1, <1>2, <1>5
<1>7. \A n \in 1 .. C : \E i \in D : InOrder(f)[n] = f[i]
  BY <1>2, <1>3
<1>8. \A i \in D : \E n \in 1 .. C : InOrder(f)[n] = f[i]
  BY <1>2, <1>4
<1> QED BY <1>6, <1>7, <1>8 DEF C

-----------------------------------------------------------------------------
(* Leader lists.                                                           *)

(* tpu_quic_port stays within the 16 bits of a port.                       *)
LEMMA ToTpuQuicAddrType ==
  ASSUME NEW a \in Addr
  PROVE  ToTpuQuicAddr(a) \in Addr
<1>1. MaxPort \in Nat
  BY DEF MaxPort
<1>2. PICK ip \in Ip, port \in 0 .. MaxPort : a = <<ip, port>>
  BY DEF Addr
<1>3. ToTpuQuicAddr(a) = <<ip, TpuQuicPort(port)>>
  BY <1>2 DEF ToTpuQuicAddr
<1>4. TpuQuicPort(port) \in 0 .. MaxPort
  BY <1>1 DEF TpuQuicPort
<1> QED BY <1>3, <1>4 DEF Addr

(* The entry of a node that is listed is an address it advertises.         *)
LEMMA NodeAddrType ==
  ASSUME NEW n \in Node, Listed(n)
  PROVE  NodeAddr(n) \in Addr
<1>1. n.tpu_quic \in Addr \cup {None} /\ n.tpu \in Addr \cup {None}
  BY DEF Node
<1>2. CASE n.tpu_quic # None
  BY <1>1, <1>2 DEF NodeAddr
<1>3. CASE n.tpu_quic = None
  <2>1. n.tpu \in Addr
    BY <1>1, <1>3 DEF Listed
  <2>2. ToTpuQuicAddr(n.tpu) \in Addr
    BY <2>1, ToTpuQuicAddrType
  <2> QED BY <1>3, <2>2 DEF NodeAddr
<1> QED BY <1>2, <1>3

(* The map of addresses gives a pubkey an address of a node of its own.    *)
LEMMA TpuMapFacts ==
  ASSUME NEW nodes \in Seq(Node), NEW k \in DOMAIN TpuMap(nodes)
  PROVE  /\ k \in Pubkey /\ TpuMap(nodes)[k] \in Addr
         /\ \E j \in DOMAIN nodes :
              nodes[j].pubkey = k /\ TpuMap(nodes)[k] = NodeAddr(nodes[j])
<1> DEFINE Of(x) == {j \in DOMAIN nodes : Listed(nodes[j]) /\ nodes[j].pubkey = x}
           Final(x) == CHOOSE j \in Of(x) : \A i \in Of(x) : i <= j
<1>1. TpuMap(nodes) = [x \in {y \in Pubkey : Of(y) # {}} |-> NodeAddr(nodes[Final(x)])]
  BY DEF TpuMap
<1>2. k \in Pubkey /\ Of(k) # {} /\ TpuMap(nodes)[k] = NodeAddr(nodes[Final(k)])
  BY <1>1
<1>3. Of(k) \in SUBSET (1 .. Len(nodes)) /\ Len(nodes) \in Nat
  OBVIOUS
<1>4. \E j \in Of(k) : \A i \in Of(k) : i <= j
  BY <1>2, <1>3, LastPosition
<1>5. Final(k) \in Of(k)
  BY <1>4
<1> HIDE DEF Final
<1>6. Final(k) \in DOMAIN nodes /\ Listed(nodes[Final(k)]) /\ nodes[Final(k)].pubkey = k
  BY <1>5
<1>7. nodes[Final(k)] \in Node
  BY <1>6
<1>8. NodeAddr(nodes[Final(k)]) \in Addr
  BY <1>6, <1>7, NodeAddrType
<1> QED BY <1>2, <1>6, <1>8

(* An entry of a leader list stands for a position of the answer's list of *)
(* leaders: the leader of that slot, with an address of its own.           *)
Stands(e, a, i) ==
  /\ e \in LeaderTpuInfo
  /\ e.pubkey = a.leaders[i] /\ e.slot = a.slot + i - 1
  /\ \E j \in DOMAIN a.nodes :
       a.nodes[j].pubkey = e.pubkey /\ e.tpu_quic_addr = NodeAddr(a.nodes[j])

(* get_leader_tpu_addresses, whatever the three RPC calls answer.          *)
LEMMA LeaderInfosFacts ==
  ASSUME NEW a \in RpcAnswer
  PROVE  /\ LeaderInfos(a) \in Seq(LeaderTpuInfo)
         /\ \A n \in DOMAIN LeaderInfos(a) :
              \E i \in DOMAIN a.leaders : Stands(LeaderInfos(a)[n], a, i)
<1> DEFINE map == TpuMap(a.nodes)
           D == {j \in DOMAIN a.leaders : a.leaders[j] \in DOMAIN map}
           Entry(i) == [pubkey |-> a.leaders[i], slot |-> a.slot + i - 1,
                        tpu_quic_addr |-> map[a.leaders[i]]]
           f == [i \in D |-> Entry(i)]
           N == Len(a.leaders)
<1>1. /\ a.slot \in Nat /\ a.leaders \in Seq(Pubkey) /\ a.nodes \in Seq(Node)
  BY DEF RpcAnswer
<1>2. N \in Nat /\ D \in SUBSET (1 .. N) /\ DOMAIN a.leaders = 1 .. N
  BY <1>1
<1>3. LeaderInfos(a) = InOrder(f)
  BY DEF LeaderInfos
<1>4. ASSUME NEW i \in D PROVE Stands(Entry(i), a, i)
  <2>1. i \in 1 .. N /\ a.leaders[i] \in Pubkey /\ a.leaders[i] \in DOMAIN map
    BY <1>1, <1>2
  <2>2. /\ map[a.leaders[i]] \in Addr
        /\ \E j \in DOMAIN a.nodes :
             a.nodes[j].pubkey = a.leaders[i] /\ map[a.leaders[i]] = NodeAddr(a.nodes[j])
    BY <1>1, <2>1, TpuMapFacts
  <2>3. a.slot + i - 1 \in Nat
    BY <1>1, <1>2, <2>1
  <2> HIDE DEF map
  <2> QED BY <2>1, <2>2, <2>3 DEF Stands, LeaderTpuInfo
<1>5. DOMAIN f = D /\ \A i \in D : f[i] = Entry(i) /\ i \in DOMAIN a.leaders
  BY <1>2
<1>6. DOMAIN f \subseteq 1 .. N /\ \A i \in DOMAIN f : f[i] \in LeaderTpuInfo
  BY <1>2, <1>4, <1>5 DEF Stands
<1>7. N \in Nat
  BY <1>2
<1> HIDE DEF D, Entry, f, N
<1>8. /\ InOrder(f) \in Seq(LeaderTpuInfo)
      /\ \A n \in DOMAIN InOrder(f) : \E i \in DOMAIN f : InOrder(f)[n] = f[i]
  BY <1>6, <1>7, Filtered
<1> QED BY <1>3, <1>4, <1>5, <1>8

(* Every leader list is a list of entries.                                 *)
LEMMA LeaderListsType ==
  ASSUME NEW l \in LeaderLists \cup {<<>>}
  PROVE  l \in Seq(LeaderTpuInfo)
<1>1. CASE l = <<>>
  BY <1>1
<1>2. CASE l \in LeaderLists
  <2>1. PICK a \in RpcAnswers : l = LeaderInfos(a)
    BY <1>2 DEF LeaderLists
  <2>2. a \in RpcAnswer
    BY ForwarderAssumption
  <2> QED BY <2>1, <2>2, LeaderInfosFacts
<1> QED BY <1>1, <1>2

-----------------------------------------------------------------------------
(* The retry queue.                                                        *)

(* VecDeque::retain drops no batch that is younger than PENDING_TX_TTL.    *)
LEMMA RetainFacts ==
  ASSUME NEW q \in Seq(PendingBatch)
  PROVE  /\ Retain(q) \in Seq(PendingBatch)
         /\ \A i \in DOMAIN q : Age(q[i]) < TTL =>
              \E n \in DOMAIN Retain(q) : Retain(q)[n] = q[i]
<1> DEFINE D == {j \in DOMAIN q : Age(q[j]) < TTL}
           f == [i \in D |-> q[i]]
<1>1. Retain(q) = InOrder(f)
  BY DEF Retain
<1>2. Len(q) \in Nat /\ DOMAIN q = 1 .. Len(q) /\ \A i \in DOMAIN q : q[i] \in PendingBatch
  OBVIOUS
<1>3. DOMAIN f = D /\ \A i \in D : f[i] = q[i]
  OBVIOUS
<1>4. DOMAIN f \subseteq 1 .. Len(q) /\ \A i \in DOMAIN f : f[i] \in PendingBatch
  BY <1>2, <1>3
<1> HIDE DEF f
<1>5. /\ InOrder(f) \in Seq(PendingBatch)
      /\ \A i \in DOMAIN f : \E n \in DOMAIN InOrder(f) : InOrder(f)[n] = f[i]
  BY <1>2, <1>4, Filtered
<1> QED BY <1>1, <1>3, <1>5

(* A product is at least as large as the product with a smaller number.    *)
LEMMA Products ==
  ASSUME NEW m \in Nat, NEW a \in Nat, NEW b \in Nat, a <= b
  PROVE  m * a <= m * b
OBVIOUS

(* The retries of a pass are a batch of the queue and the address of a     *)
(* leader each: no position of Jobs is outside the two lists.              *)
LEMMA JobsType ==
  ASSUME NEW q \in Seq(PendingBatch), NEW l \in Seq(LeaderTpuInfo)
  PROVE  Jobs(q, l) \in Seq(Req \X Addr)
<1> DEFINE m == Len(l)
           k == Len(q)
<1>1. m \in Nat /\ k \in Nat /\ k * m \in Nat
  OBVIOUS
<1>2. ASSUME NEW i \in 1 .. k * m
      PROVE  /\ ((i - 1) \div m) + 1 \in 1 .. k
             /\ ((i - 1) % m) + 1 \in 1 .. m
  <2>1. m > 0
    <3>1. m = 0 => k * m = 0
      BY <1>1
    <3> QED BY <1>1, <3>1
  <2> DEFINE d == (i - 1) \div m
             x == (i - 1) % m
  <2>2. i - 1 \in Nat /\ i - 1 < k * m
    BY <1>1
  <2>3. d \in Nat /\ x \in 0 .. m - 1 /\ i - 1 = m * d + x
    BY <1>1, <2>1, <2>2
  <2> HIDE DEF d, x, m, k
  <2>4. k <= d => m * k <= m * d
    BY <1>1, <2>3, Products
  <2>5. m * k = k * m /\ m * d \in Nat
    BY <1>1, <2>3
  <2>6. d < k
    BY <1>1, <2>2, <2>3, <2>4, <2>5
  <2>7. d + 1 \in 1 .. k /\ x + 1 \in 1 .. m
    BY <1>1, <2>1, <2>3, <2>6
  <2> QED BY <2>7 DEF d, x
<1>3. \A j \in 1 .. k : q[j].txs \in Req
  <2>1. \A j \in 1 .. k : q[j] \in PendingBatch
    OBVIOUS
  <2> QED BY <2>1 DEF PendingBatch
<1>4. \A j \in 1 .. m : l[j].tpu_quic_addr \in Addr
  <2>1. \A j \in 1 .. m : l[j] \in LeaderTpuInfo
    OBVIOUS
  <2> QED BY <2>1 DEF LeaderTpuInfo
<1>5. \A i \in 1 .. k * m :
        <<q[((i - 1) \div m) + 1].txs, l[((i - 1) % m) + 1].tpu_quic_addr>> \in Req \X Addr
  BY <1>2, <1>3, <1>4
<1>6. Jobs(q, l) = [i \in 1 .. k * m |->
        <<q[((i - 1) \div m) + 1].txs, l[((i - 1) % m) + 1].tpu_quic_addr>>]
  BY DEF Jobs
<1> QED BY <1>1, <1>5, <1>6

-----------------------------------------------------------------------------
(* The inductive invariant.                                                *)

(* The lists the two threads share and keep are answers of the lookup.     *)
ListsAreAnswers ==
  /\ l_leader \in LeaderLists \cup {<<>>}
  /\ fetched \in LeaderLists \cup {<<>>}

(* on_request works on a request exactly between Receive and Reply.        *)
Busy == server \in {"queue", "snapshot", "send"}
CurIsBusy == cur # None <=> Busy

(* The requests in the service wait for an answer, each of them once, and  *)
(* none of them is the one being handled.                                  *)
InboxWaits ==
  \A i \in DOMAIN inbox :
    /\ reply[inbox[i]] = "waiting"
    /\ inbox[i] # cur
    /\ \A j \in DOMAIN inbox : inbox[i] = inbox[j] => i = j

(* Who was answered, and what the count of the handler stands for.         *)
CountIsCurrent ==
  /\ cur # None => /\ reply[cur] = "waiting"
                   /\ sent_count > 0 <=> cur \in accepted
  /\ \A r \in Req : reply[r] = "ok" => r \in accepted
  /\ \A r \in accepted : r = cur \/ reply[r] \in {"ok", "lost"}

(* A batch is in the queue with the instant it was queued, or has expired. *)
QueuedIsKept ==
  /\ now <= clock
  /\ \A r \in Req : Queued(r) =>
       \/ Expired(r)
       \/ \E i \in DOMAIN pending :
            pending[i].txs = r /\ pending[i].sent_at = queuedAt[r]

(* The server returns after it has joined the background thread.           *)
DownIsJoined == server = "down" => refresh = "exited"

IInv ==
  /\ TypeOK /\ ListsAreAnswers /\ CurIsBusy
  /\ InboxWaits /\ CountIsCurrent /\ QueuedIsKept /\ DownIsJoined

(* The initial states satisfy the invariant.                               *)
LEMMA InitInv == Init => IInv
<1> SUFFICES ASSUME Init PROVE IInv
  OBVIOUS
<1> USE ForwarderAssumption
<1>1. ListsAreAnswers
  BY DEF Init, ListsAreAnswers
<1>2. l_leader \in Seq(LeaderTpuInfo)
  BY <1>1, LeaderListsType DEF ListsAreAnswers
<1>3. TypeOK
  <2>1. /\ clock \in 0 .. MaxTime /\ now \in 0 .. MaxTime /\ sent_count \in Nat
        /\ sleep_ms \in MinSleep .. MaxSleep
    BY DEF Init
  <2>2. /\ inbox \in Seq(Req) /\ left \in Seq(LeaderTpuInfo) /\ fetched \in Seq(LeaderTpuInfo)
        /\ pending \in Seq(PendingBatch) /\ jobs \in Seq(Req \X Addr)
    BY DEF Init
  <2>3. /\ reply \in [Req -> {"unsent", "waiting", "ok", "error", "lost"}]
        /\ queuedAt \in [Req -> Nat \cup {None}]
    BY DEF Init
  <2> QED BY <1>2, <2>1, <2>2, <2>3 DEF Init, TypeOK
<1>4. CurIsBusy /\ DownIsJoined
  BY DEF Init, CurIsBusy, Busy, DownIsJoined
<1>5. InboxWaits /\ CountIsCurrent
  BY DEF Init, InboxWaits, CountIsCurrent
<1>6. QueuedIsKept
  BY DEF Init, QueuedIsKept, Queued
<1> QED BY <1>1, <1>3, <1>4, <1>5, <1>6 DEF IInv

(* Types, action by action.                                                *)
LEMMA TypeInv == ASSUME IInv, Next PROVE TypeOK' /\ ListsAreAnswers' /\ CurIsBusy'
<1> USE ForwarderAssumption
<1> USE DEF envVars, clientVars, handlerVars, passVars, sharedVars, serverVars, refreshVars
<1> DEFINE Goal == TypeOK' /\ ListsAreAnswers' /\ CurIsBusy'
<1>1. TypeOK /\ ListsAreAnswers /\ CurIsBusy
  BY DEF IInv
<1>2. CASE Tick
  BY <1>1, <1>2 DEF Tick, TypeOK, ListsAreAnswers, CurIsBusy, Busy
<1>3. CASE Signal
  BY <1>1, <1>3 DEF Signal, TypeOK, ListsAreAnswers, CurIsBusy, Busy
<1>4. ASSUME NEW r \in Req, ClientSend(r) PROVE Goal
  <2>1. inbox' \in Seq(Req)
    BY <1>1, <1>4 DEF ClientSend, TypeOK
  <2> QED BY <1>1, <1>4, <2>1 DEF ClientSend, TypeOK, ListsAreAnswers, CurIsBusy, Busy
<1>5. CASE Check \/ ReceiveNone \/ ReceiveFails
  BY <1>1, <1>5 DEF Check, ReceiveNone, ReceiveFails, TypeOK, ListsAreAnswers, CurIsBusy, Busy
<1>6. CASE Receive
  <2>1. Head(inbox) \in Req /\ Tail(inbox) \in Seq(Req)
    BY <1>1, <1>6 DEF Receive, TypeOK
  <2> QED BY <1>1, <1>6, <2>1 DEF Receive, ResetCount, TypeOK, ListsAreAnswers, CurIsBusy, Busy
<1>7. CASE DecodePanics
  <2>1. Head(inbox) \in Req /\ Tail(inbox) \in Seq(Req)
    BY <1>1, <1>7 DEF DecodePanics, TypeOK
  <2> QED BY <1>1, <1>7, <2>1 DEF DecodePanics, TypeOK, ListsAreAnswers, CurIsBusy, Busy
<1>8. CASE QueuePending
  <2>1. cur \in Req /\ clock \in Nat
    BY <1>1, <1>8 DEF QueuePending, TypeOK, CurIsBusy, Busy
  <2>2. [txs |-> cur, sent_at |-> clock] \in PendingBatch
    BY <2>1 DEF PendingBatch
  <2>3. pending' \in Seq(PendingBatch)
    BY <1>1, <1>8, <2>2 DEF QueuePending, TypeOK
  <2>4. queuedAt' \in [Req -> Nat \cup {None}]
    BY <1>1, <1>8, <2>1 DEF QueuePending, TypeOK
  <2> QED BY <1>1, <1>8, <2>3, <2>4 DEF QueuePending, TypeOK, ListsAreAnswers, CurIsBusy, Busy
<1>9. CASE Snapshot
  BY <1>1, <1>9 DEF Snapshot, TypeOK, ListsAreAnswers, CurIsBusy, Busy
<1>10. CASE SendLeader
  <2>1. cur \in Req /\ left' \in Seq(LeaderTpuInfo)
    BY <1>1, <1>10 DEF SendLeader, TypeOK, CurIsBusy, Busy
  <2>2. sent_count' \in Nat /\ accepted' \in SUBSET Req
    BY <1>1, <1>10, <2>1 DEF SendLeader, TypeOK
  <2> QED BY <1>1, <1>10, <2>1, <2>2 DEF SendLeader, TypeOK, ListsAreAnswers, CurIsBusy, Busy
<1>11. CASE Reply
  <2>1. /\ reply' \in [Req -> {"unsent", "waiting", "ok", "error", "lost"}]
        /\ server' \in {"receive", "drop"} /\ cur' = None
    BY <1>1, <1>11 DEF Reply, Result, TypeOK
  <2> QED BY <1>1, <1>11, <2>1 DEF Reply, TypeOK, ListsAreAnswers, CurIsBusy, Busy
<1>12. CASE DropHandler
  BY <1>1, <1>12 DEF DropHandler, TypeOK, ListsAreAnswers, CurIsBusy, Busy
<1>13. CASE JoinRefresh
  BY <1>1, <1>13 DEF JoinRefresh, TypeOK, ListsAreAnswers, CurIsBusy, Busy
<1>14. CASE SleepStop \/ LastStep \/ SleepDone
  BY <1>1, <1>14 DEF SleepStop, LastStep, SleepDone, TypeOK, ListsAreAnswers, CurIsBusy, Busy
<1>15. CASE FetchOk
  <2>1. fetched' \in Seq(LeaderTpuInfo) /\ fetched' \in LeaderLists
    BY <1>15, LeaderListsType DEF FetchOk
  <2>2. sleep_ms' \in MinSleep .. MaxSleep
    BY <1>15 DEF FetchOk
  <2> QED BY <1>1, <1>15, <2>1, <2>2 DEF FetchOk, TypeOK, ListsAreAnswers, CurIsBusy, Busy
<1>16. CASE FetchErr
  <2>1. sleep_ms' \in MinSleep .. MaxSleep
    BY <1>1, <1>16 DEF FetchErr, Backoff, TypeOK
  <2> QED BY <1>1, <1>16, <2>1 DEF FetchErr, TypeOK, ListsAreAnswers, CurIsBusy, Busy
<1>17. CASE Publish
  BY <1>1, <1>17 DEF Publish, TypeOK, ListsAreAnswers, CurIsBusy, Busy
<1>18. CASE LockPending
  <2>1. pending \in Seq(PendingBatch) /\ fetched \in Seq(LeaderTpuInfo)
    BY <1>1 DEF TypeOK
  <2>2. Retain(pending) \in Seq(PendingBatch)
    BY <2>1, RetainFacts
  <2>3. Jobs(Retain(pending), fetched) \in Seq(Req \X Addr)
    BY <2>1, <2>2, JobsType
  <2> QED BY <1>1, <1>18, <2>2, <2>3 DEF LockPending, TypeOK, ListsAreAnswers, CurIsBusy, Busy
<1>19. CASE Resend
  <2>1. /\ jobs \in Seq(Req \X Addr) /\ jobs # <<>> /\ jobs' = Tail(jobs)
        /\ attempted' = attempted \cup {Head(jobs)}
    BY <1>1, <1>19 DEF Resend, AfterFailure, TypeOK
  <2>2. jobs' \in Seq(Req \X Addr) /\ Head(jobs) \in Req \X Addr
    BY <2>1
  <2>3. attempted' \in SUBSET (Req \X Addr)
    BY <1>1, <2>1, <2>2 DEF TypeOK
  <2> QED BY <1>1, <1>19, <2>2, <2>3 DEF Resend, TypeOK, ListsAreAnswers, CurIsBusy, Busy
<1>20. CASE PassEnd
  BY <1>1, <1>20 DEF PassEnd, TypeOK, ListsAreAnswers, CurIsBusy, Busy
<1>21. CASE Down
  BY <1>1, <1>21 DEF Down, vars, TypeOK, ListsAreAnswers, CurIsBusy, Busy
<1> QED BY <1>2, <1>3, <1>4, <1>5, <1>6, <1>7, <1>8, <1>9, <1>10, <1>11, <1>12, <1>13,
           <1>14, <1>15, <1>16, <1>17, <1>18, <1>19, <1>20, <1>21 DEF Next, Server, Refresh

(* The steps that leave the requests and their answers alone.              *)
AnswersAlone == UNCHANGED <<inbox, reply, cur, sent_count, accepted>>

(* Answers, action by action.                                              *)
LEMMA AnswerInv == ASSUME IInv, Next PROVE InboxWaits' /\ CountIsCurrent'
<1> USE ForwarderAssumption
<1> USE DEF envVars, clientVars, handlerVars, passVars, sharedVars, serverVars, refreshVars
<1> DEFINE Goal == InboxWaits' /\ CountIsCurrent'
<1>1. TypeOK /\ CurIsBusy /\ InboxWaits /\ CountIsCurrent
  BY DEF IInv
<1>2. /\ inbox \in Seq(Req) /\ cur \in Req \cup {None} /\ sent_count \in Nat
      /\ reply \in [Req -> {"unsent", "waiting", "ok", "error", "lost"}]
      /\ accepted \in SUBSET Req
  BY <1>1 DEF TypeOK
<1>3. CASE AnswersAlone
  BY <1>1, <1>3 DEF AnswersAlone, InboxWaits, CountIsCurrent
<1>4. ASSUME NEW r \in Req, ClientSend(r) PROVE Goal
  <2>1. /\ reply[r] = "unsent" /\ inbox' = Append(inbox, r)
        /\ reply' = [reply EXCEPT ![r] = "waiting"]
        /\ cur' = cur /\ sent_count' = sent_count /\ accepted' = accepted
    BY <1>4 DEF ClientSend
  <2>2. r # cur /\ r \notin accepted
    BY <1>1, <1>2, <2>1 DEF CountIsCurrent
  <2>3. \A i \in DOMAIN inbox : inbox[i] \in Req /\ inbox[i] # r
    BY <1>1, <1>2, <2>1 DEF InboxWaits
  <2>4. /\ DOMAIN inbox' = 1 .. Len(inbox) + 1 /\ inbox'[Len(inbox) + 1] = r
        /\ DOMAIN inbox = 1 .. Len(inbox) /\ Len(inbox) \in Nat
        /\ \A i \in DOMAIN inbox : inbox'[i] = inbox[i]
    BY <1>2, <2>1
  <2>5. \A s \in Req : s # r => reply'[s] = reply[s]
    BY <1>2, <2>1
  <2>6. reply'[r] = "waiting"
    BY <1>2, <2>1
  <2>7. ASSUME NEW i \in DOMAIN inbox'
        PROVE  i \in DOMAIN inbox \/ i = Len(inbox) + 1
    BY <2>4
  <2>8. ASSUME NEW i \in DOMAIN inbox'
        PROVE  /\ reply'[inbox'[i]] = "waiting" /\ inbox'[i] # cur'
               /\ \A j \in DOMAIN inbox' : inbox'[i] = inbox'[j] => i = j
    BY <1>1, <2>1, <2>2, <2>3, <2>4, <2>5, <2>6, <2>7 DEF InboxWaits
  <2>9. InboxWaits'
    BY <2>8 DEF InboxWaits
  <2>10. CountIsCurrent'
    BY <1>1, <1>2, <2>1, <2>2, <2>5, <2>6 DEF CountIsCurrent
  <2> QED BY <2>9, <2>10
<1>5. ASSUME inbox # <<>>
      PROVE  /\ Head(inbox) \in Req /\ reply[Head(inbox)] = "waiting" /\ Head(inbox) # cur
             /\ \A i \in DOMAIN Tail(inbox) :
                  /\ Tail(inbox)[i] \in Req
                  /\ reply[Tail(inbox)[i]] = "waiting"
                  /\ Tail(inbox)[i] # cur /\ Tail(inbox)[i] # Head(inbox)
                  /\ \A j \in DOMAIN Tail(inbox) : Tail(inbox)[i] = Tail(inbox)[j] => i = j
  <2>1. /\ Len(inbox) \in Nat /\ Len(inbox) > 0 /\ DOMAIN inbox = 1 .. Len(inbox)
        /\ Head(inbox) = inbox[1] /\ \A i \in DOMAIN inbox : inbox[i] \in Req
    BY <1>2, <1>5
  <2>2. \A i \in DOMAIN Tail(inbox) :
          i \in Nat /\ i + 1 \in DOMAIN inbox /\ i + 1 # 1 /\ Tail(inbox)[i] = inbox[i + 1]
    BY <1>2, <1>5
  <2>3. \A i, j \in DOMAIN Tail(inbox) : i + 1 = j + 1 => i = j
    BY <2>2
  <2> QED BY <1>1, <2>1, <2>2, <2>3 DEF InboxWaits
<1>6. CASE Receive
  <2>1. /\ inbox # <<>> /\ cur' = Head(inbox) /\ inbox' = Tail(inbox) /\ sent_count' = 0
        /\ reply' = reply /\ accepted' = accepted /\ server = "receive"
    BY <1>6 DEF Receive, ResetCount
  <2>2. cur = None
    BY <1>1, <2>1 DEF CurIsBusy, Busy
  <2>3. Head(inbox) \notin accepted
    BY <1>1, <1>2, <1>5, <2>1, <2>2 DEF CountIsCurrent
  <2>4. InboxWaits'
    BY <1>5, <2>1 DEF InboxWaits
  <2>5. CountIsCurrent'
    BY <1>1, <1>2, <1>5, <2>1, <2>2, <2>3 DEF CountIsCurrent
  <2> QED BY <2>4, <2>5
<1>7. CASE DecodePanics
  <2>1. /\ inbox # <<>> /\ inbox' = Tail(inbox) /\ cur' = cur /\ sent_count' = sent_count
        /\ reply' = [reply EXCEPT ![Head(inbox)] = "lost"] /\ accepted' = accepted
    BY <1>7 DEF DecodePanics
  <2>2. \A s \in Req : s # Head(inbox) => reply'[s] = reply[s]
    BY <1>2, <2>1
  <2>3. reply'[Head(inbox)] = "lost"
    BY <1>2, <1>5, <2>1
  <2>4. InboxWaits'
    BY <1>5, <2>1, <2>2 DEF InboxWaits
  <2>5. CountIsCurrent'
    BY <1>1, <1>2, <1>5, <2>1, <2>2, <2>3 DEF CountIsCurrent
  <2> QED BY <2>4, <2>5
<1>8. CASE SendLeader
  <2>1. /\ inbox' = inbox /\ reply' = reply /\ cur' = cur /\ server = "send"
        /\ \/ sent_count' = sent_count + 1 /\ accepted' = accepted \cup {cur}
           \/ sent_count' = sent_count /\ accepted' = accepted
    BY <1>8 DEF SendLeader
  <2>2. cur # None
    BY <1>1, <2>1 DEF CurIsBusy, Busy
  <2>3. InboxWaits'
    BY <1>1, <2>1 DEF InboxWaits
  <2>4. CASE sent_count' = sent_count /\ accepted' = accepted
    BY <1>1, <2>1, <2>3, <2>4 DEF CountIsCurrent
  <2>5. CASE sent_count' = sent_count + 1 /\ accepted' = accepted \cup {cur}
    <3>1. sent_count' > 0 /\ cur' \in accepted'
      BY <1>2, <2>1, <2>5
    <3> QED BY <1>1, <2>1, <2>3, <2>5, <3>1 DEF CountIsCurrent
  <2> QED BY <2>1, <2>4, <2>5
<1>9. CASE Reply
  <2>1. /\ inbox' = inbox /\ cur' = None /\ sent_count' = sent_count /\ accepted' = accepted
        /\ \/ reply' = [reply EXCEPT ![cur] = Result]
           \/ reply' = [reply EXCEPT ![cur] = "lost"]
        /\ server = "send"
    BY <1>9 DEF Reply
  <2>2. cur \in Req /\ cur # None
    BY <1>1, <1>2, <2>1 DEF CurIsBusy, Busy
  <2>3. \A s \in Req : s # cur => reply'[s] = reply[s]
    BY <1>2, <2>1
  <2>4. reply'[cur] = Result \/ reply'[cur] = "lost"
    BY <1>2, <2>1, <2>2
  <2>5. \A i \in DOMAIN inbox : inbox[i] \in Req /\ inbox[i] # cur
    BY <1>1, <1>2 DEF InboxWaits
  <2>6. None \notin Req
    OBVIOUS
  <2>7. InboxWaits'
    BY <1>1, <2>1, <2>3, <2>5, <2>6 DEF InboxWaits
  <2>8. Result = IF cur \in accepted THEN "ok" ELSE "error"
    BY <1>1, <1>2, <2>2 DEF Result, CountIsCurrent
  <2>9. CountIsCurrent'
    BY <1>1, <1>2, <2>1, <2>2, <2>3, <2>4, <2>8 DEF CountIsCurrent
  <2> QED BY <2>7, <2>9
<1>10. CASE Tick \/ Signal \/ Check \/ ReceiveNone \/ ReceiveFails \/ QueuePending \/ Snapshot
  BY <1>3, <1>10 DEF AnswersAlone, Tick, Signal, Check, ReceiveNone, ReceiveFails, QueuePending,
                     Snapshot
<1>11. CASE DropHandler \/ JoinRefresh \/ Down
  BY <1>3, <1>11 DEF AnswersAlone, DropHandler, JoinRefresh, Down, vars
<1>12. CASE Refresh
  BY <1>3, <1>12 DEF AnswersAlone, Refresh, SleepStop, LastStep, SleepDone, FetchOk, FetchErr,
                     Publish, LockPending, Resend, PassEnd
<1> QED BY <1>4, <1>6, <1>7, <1>8, <1>9, <1>10, <1>11, <1>12 DEF Next, Server

(* The steps that leave the retry queue and the clocks alone.              *)
QueueAlone == UNCHANGED <<clock, now, pending, queuedAt>>

(* The retry queue and the join, action by action.                         *)
LEMMA RetryInv == ASSUME IInv, Next PROVE QueuedIsKept' /\ DownIsJoined'
<1> USE ForwarderAssumption
<1> USE DEF envVars, clientVars, handlerVars, passVars, sharedVars, serverVars, refreshVars
<1> DEFINE Goal == QueuedIsKept' /\ DownIsJoined'
           Kept(r) == \E i \in DOMAIN pending :
                        pending[i].txs = r /\ pending[i].sent_at = queuedAt[r]
<1>1. TypeOK /\ CurIsBusy /\ QueuedIsKept /\ DownIsJoined
  BY DEF IInv
<1>2. /\ clock \in Nat /\ now \in Nat /\ now <= clock
      /\ pending \in Seq(PendingBatch) /\ queuedAt \in [Req -> Nat \cup {None}]
      /\ cur \in Req \cup {None}
  BY <1>1 DEF TypeOK, QueuedIsKept
<1>3. \A r \in Req : Queued(r) => Expired(r) \/ Kept(r)
  BY <1>1 DEF QueuedIsKept
<1>4. ASSUME QueueAlone PROVE QueuedIsKept'
  BY <1>1, <1>4 DEF QueueAlone, QueuedIsKept, Queued, Expired
<1>5. CASE Tick
  <2>1. /\ clock' = clock + 1 /\ now' = now /\ pending' = pending /\ queuedAt' = queuedAt
        /\ server' = server /\ refresh' = refresh
    BY <1>5 DEF Tick
  <2>2. \A r \in Req : Queued(r)' = Queued(r) /\ (Expired(r) => Expired(r)')
    BY <1>2, <2>1 DEF Queued, Expired
  <2>3. now' <= clock'
    BY <1>2, <2>1
  <2>4. QueuedIsKept'
    BY <1>3, <2>1, <2>2, <2>3 DEF QueuedIsKept
  <2> QED BY <1>1, <2>1, <2>4 DEF DownIsJoined
<1>6. CASE QueuePending
  <2>1. /\ clock' = clock /\ now' = now /\ server = "queue" /\ server' = "snapshot"
        /\ pending' = Append(pending, [txs |-> cur, sent_at |-> clock])
        /\ queuedAt' = [queuedAt EXCEPT ![cur] = clock]
    BY <1>6 DEF QueuePending
  <2>2. cur \in Req
    BY <1>1, <1>2, <2>1 DEF CurIsBusy, Busy
  <2>3. /\ Len(pending) \in Nat /\ DOMAIN pending = 1 .. Len(pending)
        /\ DOMAIN pending' = 1 .. Len(pending) + 1
        /\ pending'[Len(pending) + 1] = [txs |-> cur, sent_at |-> clock]
        /\ \A i \in DOMAIN pending : pending'[i] = pending[i]
    BY <1>2, <2>1
  <2>4. queuedAt'[cur] = clock /\ \A s \in Req : s # cur => queuedAt'[s] = queuedAt[s]
    BY <1>2, <2>1, <2>2
  <2>5. ASSUME NEW r \in Req, Queued(r)', r # cur
        PROVE  Expired(r)' \/ \E i \in DOMAIN pending' :
                 pending'[i].txs = r /\ pending'[i].sent_at = queuedAt'[r]
    <3>1. queuedAt'[r] = queuedAt[r] /\ Queued(r)
      BY <2>4, <2>5 DEF Queued
    <3>2. CASE Expired(r)
      BY <2>1, <3>1, <3>2 DEF Queued, Expired
    <3>3. CASE Kept(r)
      BY <2>3, <3>1, <3>3
    <3> QED BY <1>3, <3>1, <3>2, <3>3
  <2>6. \E i \in DOMAIN pending' :
          pending'[i].txs = cur /\ pending'[i].sent_at = queuedAt'[cur]
    <3>1. Len(pending) + 1 \in DOMAIN pending'
      BY <2>3
    <3> QED BY <2>3, <2>4, <3>1
  <2>7. QueuedIsKept'
    BY <1>2, <2>1, <2>5, <2>6 DEF QueuedIsKept
  <2> QED BY <2>1, <2>7 DEF DownIsJoined
<1>7. CASE Publish \/ PassEnd
  <2>1. /\ clock' = clock /\ pending' = pending /\ queuedAt' = queuedAt /\ server' = server
        /\ now' = clock \/ now' = 0
        /\ refresh # "exited"
    BY <1>7 DEF Publish, PassEnd
  <2>2. now' <= clock'
    BY <1>2, <2>1
  <2>3. \A r \in Req : Queued(r)' = Queued(r) /\ Expired(r)' = Expired(r)
    BY <2>1 DEF Queued, Expired
  <2>4. QueuedIsKept'
    BY <1>3, <2>1, <2>2, <2>3 DEF QueuedIsKept
  <2> QED BY <1>1, <2>1, <2>4 DEF DownIsJoined
<1>8. CASE LockPending
  <2>1. /\ clock' = clock /\ now' = now /\ pending' = Retain(pending) /\ queuedAt' = queuedAt
        /\ server' = server /\ refresh # "exited"
    BY <1>8 DEF LockPending
  <2>2. ASSUME NEW r \in Req, Queued(r), ~Expired(r), Kept(r)
        PROVE  \E n \in DOMAIN Retain(pending) :
                 Retain(pending)[n].txs = r /\ Retain(pending)[n].sent_at = queuedAt[r]
    <3>1. PICK i \in DOMAIN pending : pending[i].txs = r /\ pending[i].sent_at = queuedAt[r]
      BY <2>2
    <3>2. queuedAt[r] \in Nat /\ clock < queuedAt[r] + TTL
      BY <1>2, <2>2 DEF Queued, Expired
    <3>3. Age(pending[i]) < TTL
      BY <1>2, <3>1, <3>2 DEF Age
    <3>4. \E n \in DOMAIN Retain(pending) : Retain(pending)[n] = pending[i]
      BY <1>2, <3>3, RetainFacts
    <3> QED BY <3>1, <3>4
  <2>3. \A r \in Req : Queued(r)' = Queued(r) /\ Expired(r)' = Expired(r)
    BY <2>1 DEF Queued, Expired
  <2>4. QueuedIsKept'
    BY <1>2, <1>3, <2>1, <2>2, <2>3 DEF QueuedIsKept
  <2> QED BY <1>1, <2>1, <2>4 DEF DownIsJoined
<1>9. CASE Signal \/ Check \/ Receive \/ ReceiveNone \/ ReceiveFails \/ DecodePanics \/ Snapshot
  <2>1. QueueAlone /\ (server' = "down" => server = "down") /\ refresh' = refresh
    BY <1>9 DEF QueueAlone, Signal, Check, Receive, ReceiveNone, ReceiveFails, DecodePanics,
                Snapshot
  <2> QED BY <1>1, <1>4, <2>1 DEF DownIsJoined
<1>10. CASE SendLeader \/ Reply \/ DropHandler \/ Down
  <2>1. QueueAlone /\ (server' = "down" => server = "down") /\ refresh' = refresh
    BY <1>10 DEF QueueAlone, SendLeader, Reply, DropHandler, Down, vars
  <2> QED BY <1>1, <1>4, <2>1 DEF DownIsJoined
<1>11. CASE \E r \in Req : ClientSend(r)
  <2>1. QueueAlone /\ server' = server /\ refresh' = refresh
    BY <1>11 DEF QueueAlone, ClientSend
  <2> QED BY <1>1, <1>4, <2>1 DEF DownIsJoined
<1>12. CASE JoinRefresh
  <2>1. QueueAlone /\ refresh' = "exited"
    BY <1>12 DEF QueueAlone, JoinRefresh, Joined
  <2> QED BY <1>4, <2>1 DEF DownIsJoined
<1>13. CASE SleepStop \/ LastStep \/ SleepDone \/ FetchOk \/ FetchErr \/ Resend
  <2>1. QueueAlone /\ server' = server /\ refresh # "exited"
    BY <1>13 DEF QueueAlone, SleepStop, LastStep, SleepDone, FetchOk, FetchErr, Resend
  <2> QED BY <1>1, <1>4, <2>1 DEF DownIsJoined
<1> QED BY <1>5, <1>6, <1>7, <1>8, <1>9, <1>10, <1>11, <1>12, <1>13 DEF Next, Server, Refresh

(* Every step preserves the invariant.                                     *)
LEMMA NextInv == IInv /\ [Next]_vars => IInv'
<1> SUFFICES ASSUME IInv, [Next]_vars PROVE IInv'
  OBVIOUS
<1>1. CASE Next
  BY <1>1, TypeInv, AnswerInv, RetryInv DEF IInv
<1>2. CASE UNCHANGED vars
  <2>1. /\ UNCHANGED <<clock, shutdown, inbox, reply, server, cur, left, sent_count>>
        /\ UNCHANGED <<l_leader, pending, stop, refresh, sleep_ms, fetched, now, jobs>>
        /\ UNCHANGED <<queuedAt, accepted, attempted>>
    BY <1>2 DEF vars, envVars, clientVars, handlerVars, passVars, sharedVars, serverVars,
                refreshVars
  <2>2. (TypeOK /\ ListsAreAnswers /\ CurIsBusy)'
    BY <2>1 DEF IInv, TypeOK, ListsAreAnswers, CurIsBusy, Busy
  <2>3. (InboxWaits /\ CountIsCurrent)'
    BY <2>1 DEF IInv, InboxWaits, CountIsCurrent
  <2>4. (QueuedIsKept /\ DownIsJoined)'
    BY <2>1 DEF IInv, QueuedIsKept, Queued, Expired, DownIsJoined
  <2> QED BY <2>2, <2>3, <2>4 DEF IInv
<1> QED BY <1>1, <1>2

-----------------------------------------------------------------------------
(* Results.                                                                *)

(***************************************************************************)
(* The invariant holds in every reachable state of catfwd, with any number *)
(* of requests and whatever the RPC node and the leaders answer.           *)
(***************************************************************************)
THEOREM InvariantHolds == Spec => []IInv
<1> QED BY InitInv, NextInv, PTL DEF Spec

(***************************************************************************)
(* The variables of both threads keep their types: no retry addresses a    *)
(* leader or a batch outside the lists of its pass, ports stay in 16 bits, *)
(* and the pause of the background thread stays within its two limits.     *)
(***************************************************************************)
THEOREM TypeCorrect == Spec => []TypeOK
<1>1. IInv => TypeOK
  BY DEF IInv
<1> QED BY <1>1, InvariantHolds, PTL

(***************************************************************************)
(* on_request returns Ok for a batch exactly when a leader took that very  *)
(* batch: the count in the response the handler reuses is of the request   *)
(* being handled.                                                          *)
(***************************************************************************)
THEOREM AnswersAreHonest == Spec => []AnswerIsHonest
<1>1. IInv => AnswerIsHonest
  <2> SUFFICES ASSUME IInv, NEW r \in Req
               PROVE  /\ reply[r] = "ok" => r \in accepted
                      /\ reply[r] = "error" => r \notin accepted
    BY DEF AnswerIsHonest
  <2>1. CountIsCurrent
    BY DEF IInv
  <2>2. None \notin Req
    BY ForwarderAssumption
  <2> QED BY <2>1, <2>2 DEF CountIsCurrent
<1> QED BY <1>1, InvariantHolds, PTL

(***************************************************************************)
(* No pass of the background thread drops a batch before PENDING_TX_TTL is *)
(* over, however old the instant is that it compares with.                 *)
(***************************************************************************)
THEOREM KeptUntilExpired == Spec => []RetainedUntilExpired
<1>1. IInv => RetainedUntilExpired
  BY DEF IInv, QueuedIsKept, RetainedUntilExpired
<1> QED BY <1>1, InvariantHolds, PTL

(* get_current_leader_tpu_address names the first leader or nobody.        *)
LEMMA CurrentLeader == CurrentLeaderIsFirst
<1> SUFFICES ASSUME NEW a \in RpcAnswers, CurrentLeaderTpuAddress(a) # None
             PROVE  \E j \in DOMAIN a.nodes :
                      /\ a.nodes[j].pubkey = a.leaders[1]
                      /\ CurrentLeaderTpuAddress(a) = NodeAddr(a.nodes[j])
  BY DEF CurrentLeaderIsFirst
<1> DEFINE L == IF a.leaders = <<>> THEN <<>> ELSE <<Head(a.leaders)>>
           b == [a EXCEPT !.leaders = L]
           infos == LeaderInfos(b)
<1>1. a \in RpcAnswer /\ a.leaders \in Seq(Pubkey)
  BY ForwarderAssumption DEF RpcAnswer
<1>2. infos # <<>> /\ CurrentLeaderTpuAddress(a) = infos[1].tpu_quic_addr
  BY DEF CurrentLeaderTpuAddress
<1>3. L \in Seq(Pubkey) /\ \A i \in DOMAIN L : i = 1 /\ L[i] = a.leaders[1]
  <2>1. CASE a.leaders = <<>>
    BY <2>1
  <2>2. CASE a.leaders # <<>>
    BY <1>1, <2>2
  <2> QED BY <2>1, <2>2
<1> HIDE DEF L
<1>4. b \in RpcAnswer /\ b.leaders = L /\ b.nodes = a.nodes
  BY <1>1, <1>3 DEF RpcAnswer
<1> HIDE DEF b
<1>5. /\ infos \in Seq(LeaderTpuInfo)
      /\ \A n \in DOMAIN infos : \E i \in DOMAIN b.leaders : Stands(infos[n], b, i)
  BY <1>4, LeaderInfosFacts
<1> HIDE DEF infos
<1>6. 1 \in DOMAIN infos
  BY <1>2, <1>5
<1>7. PICK i \in DOMAIN L : Stands(infos[1], b, i)
  BY <1>4, <1>5, <1>6
<1> QED BY <1>2, <1>3, <1>4, <1>7 DEF Stands

(***************************************************************************)
(* Whatever the RPC node answers, an entry of the shared list is the       *)
(* leader of its own slot with an address of its own node, also behind     *)
(* leaders that were left out; and the lookup of the current leader never  *)
(* falls through to a later one.                                           *)
(***************************************************************************)
THEOREM LeadersInTheirSlots == Spec => []LeadersKeepTheirSlots
<1>1. IInv => LeadersKeepTheirSlots
  <2> SUFFICES ASSUME IInv, NEW i \in DOMAIN l_leader
               PROVE  \E a \in RpcAnswers :
                        /\ \E j \in DOMAIN a.leaders :
                             /\ l_leader[i].slot = a.slot + j - 1
                             /\ l_leader[i].pubkey = a.leaders[j]
                        /\ \E j \in DOMAIN a.nodes :
                             /\ a.nodes[j].pubkey = l_leader[i].pubkey
                             /\ l_leader[i].tpu_quic_addr = NodeAddr(a.nodes[j])
    BY CurrentLeader DEF LeadersKeepTheirSlots
  <2>1. l_leader \in LeaderLists
    BY DEF IInv, ListsAreAnswers
  <2>2. PICK a \in RpcAnswers : l_leader = LeaderInfos(a)
    BY <2>1 DEF LeaderLists
  <2>3. a \in RpcAnswer
    BY ForwarderAssumption
  <2>4. PICK j \in DOMAIN a.leaders : Stands(l_leader[i], a, j)
    BY <2>2, <2>3, LeaderInfosFacts
  <2> QED BY <2>4 DEF Stands
<1> QED BY <1>1, InvariantHolds, PTL

(***************************************************************************)
(* After server has returned, neither thread sends, publishes or touches   *)
(* the retry queue: the drop of the handler has joined the other thread.   *)
(***************************************************************************)
THEOREM QuietWhenDown == Spec => QuietAfterDown
<1> DEFINE Kept == UNCHANGED <<attempted, accepted, l_leader, pending>>
<1>1. ASSUME IInv, [Next]_vars PROVE [server = "down" => Kept]_vars
  <2> USE DEF envVars, clientVars, handlerVars, passVars, sharedVars, serverVars, refreshVars
  <2> SUFFICES ASSUME Next, server = "down" PROVE Kept
    BY <1>1
  <2>1. refresh = "exited"
    BY <1>1 DEF IInv, DownIsJoined
  <2>2. ~Refresh
    BY <2>1 DEF Refresh, SleepStop, LastStep, SleepDone, FetchOk, FetchErr, Publish,
                LockPending, Resend, PassEnd
  <2>3. ~Server /\ ~ReceiveFails /\ ~DecodePanics
    BY DEF Server, Check, Receive, ReceiveNone, QueuePending, Snapshot, SendLeader, Reply,
           DropHandler, JoinRefresh, ReceiveFails, DecodePanics
  <2>4. CASE Tick \/ Signal \/ Down
    BY <2>4 DEF Tick, Signal, Down, vars
  <2>5. CASE \E r \in Req : ClientSend(r)
    BY <2>5 DEF ClientSend
  <2> QED BY <2>2, <2>3, <2>4, <2>5 DEF Next
<1>2. Spec => [][server = "down" => Kept]_vars
  BY <1>1, InvariantHolds, PTL DEF Spec
<1> QED BY <1>2 DEF QuietAfterDown
=============================================================================
