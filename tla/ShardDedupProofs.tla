-------------------------- MODULE ShardDedupProofs --------------------------
(***************************************************************************)
(* Proofs about shard_dedup_pubkeys for every set of keys, every hash      *)
(* function, every number of shards and readers, and every capacity.       *)
(***************************************************************************)
EXTENDS ShardDedup, TLAPS

-----------------------------------------------------------------------------
(* Membership in queues.                                                   *)

(* route always yields the index of an existing channel.                   *)
LEMMA RouteType == ASSUME NEW k \in Key PROVE Route(k) \in Shards
<1>1. Hash[k] \in Nat /\ NShards \in Nat /\ NShards > 0
  BY ShardAssumption
<1> QED BY <1>1 DEF Route, Shards

(* An empty queue holds no key.                                            *)
LEMMA InEmpty == ASSUME NEW k PROVE ~In(k, <<>>)
BY DEF In

(* Append adds one key.                                                    *)
LEMMA InAppend ==
  ASSUME NEW q \in Seq(Key), NEW x \in Key
  PROVE  /\ Append(q, x) \in Seq(Key)
         /\ Len(Append(q, x)) = Len(q) + 1
         /\ \A k \in Key : In(k, Append(q, x)) <=> In(k, q) \/ k = x
<1>1. Append(q, x) \in Seq(Key) /\ Len(Append(q, x)) = Len(q) + 1
  OBVIOUS
<1>2. ASSUME NEW k \in Key PROVE In(k, Append(q, x)) <=> In(k, q) \/ k = x
  <2>1. /\ Append(q, x)[Len(q) + 1] = x
        /\ \A i \in 1 .. Len(q) : Append(q, x)[i] = q[i]
        /\ DOMAIN Append(q, x) = 1 .. Len(q) + 1
        /\ DOMAIN q = 1 .. Len(q)
        /\ Len(q) \in Nat
    OBVIOUS
  <2> QED BY <2>1 DEF In
<1> QED BY <1>1, <1>2

(* The keys of a queue are its head and the keys of its tail.              *)
LEMMA InHeadTail ==
  ASSUME NEW q \in Seq(Key), q # <<>>
  PROVE  /\ Head(q) \in Key
         /\ Tail(q) \in Seq(Key)
         /\ Len(Tail(q)) = Len(q) - 1
         /\ Len(q) \in Nat \ {0}
         /\ \A k \in Key : In(k, q) <=> k = Head(q) \/ In(k, Tail(q))
<1>1. /\ Len(q) \in Nat /\ Len(q) > 0
      /\ Head(q) = q[1] /\ Head(q) \in Key
      /\ Tail(q) \in Seq(Key) /\ Len(Tail(q)) = Len(q) - 1
      /\ \A i \in 1 .. Len(q) - 1 : Tail(q)[i] = q[i + 1]
      /\ DOMAIN q = 1 .. Len(q)
      /\ DOMAIN Tail(q) = 1 .. Len(q) - 1
  OBVIOUS
<1>2. ASSUME NEW k \in Key PROVE In(k, q) <=> k = Head(q) \/ In(k, Tail(q))
  <2>1. ASSUME NEW i \in 1 .. Len(q), q[i] = k, k # Head(q) PROVE In(k, Tail(q))
    <3>1. i - 1 \in 1 .. Len(q) - 1 /\ Tail(q)[i - 1] = q[i]
      BY <1>1, <2>1
    <3> QED BY <3>1, <1>1, <2>1 DEF In
  <2>2. ASSUME NEW i \in 1 .. Len(q) - 1, Tail(q)[i] = k PROVE In(k, q)
    BY <1>1, <2>2 DEF In
  <2>3. ASSUME k = Head(q) PROVE In(k, q)
    BY <1>1, <2>3 DEF In
  <2> QED BY <1>1, <2>1, <2>2, <2>3 DEF In
<1> QED BY <1>1, <1>2

-----------------------------------------------------------------------------
(* The inductive invariant.                                                *)

(* Keys are in the channel, and in the set, of their own shard only.       *)
KeysAreRouted ==
  \A s \in Shards, k \in Key :
    In(k, chan[s]) \/ k \in seen[s] => Route(k) = s

(* on_key has been called exactly for the keys in a worker's set.          *)
CallsMatchSeen ==
  \A k \in Key :
    calls[k] = IF k \in seen[Route(k)] THEN <<Route(k)>> ELSE <<>>

(* Only keys that were pushed travel through the pipeline.                 *)
OnlyOffered ==
  \A k \in Key :
    In(k, queue) \/ (\E r \in Readers : In(k, batch[r])) \/ In(k, chan[Route(k)])
      => k \in Offered

(* A reader drains only after `done`, and leaves nothing behind.           *)
ReadersInv ==
  \A r \in Readers :
    /\ reader[r] \in {"drain", "exited"} => done
    /\ reader[r] = "exited" => queue = <<>> /\ batch[r] = <<>>
    /\ reader[r] = "check" => batch[r] = <<>>

(* The channels are open while a reader lives; a worker finishes on an     *)
(* empty, closed channel and a panicked one discards its channel.          *)
ClosingInv ==
  /\ coord # "readers" => \A r \in Readers : reader[r] = "exited"
  /\ \A s \in Shards :
       /\ worker[s] = "finished" => coord # "readers"
       /\ worker[s] # "running" => chan[s] = <<>>

(* What the coordinator knows of the workers it has joined.                *)
JoinInv ==
  /\ \A s \in Shards : s < joined => worker[s] = "finished"
  /\ coord = "sent" => joined = NShards
  /\ coord = "panicked" => \E s \in Shards : worker[s] = "panicked"

IInv ==
  /\ TypeOK
  /\ KeysAreRouted
  /\ CallsMatchSeen
  /\ OnlyOffered
  /\ NoKeyLost
  /\ ReadersInv
  /\ ClosingInv
  /\ JoinInv

(* Initially the pipeline is empty.                                        *)
LEMMA InitInv == Init => IInv
<1> SUFFICES ASSUME Init PROVE IInv
  OBVIOUS
<1>1. 0 \in 0 .. NShards /\ 0 <= ChannelCap /\ NShards \in Nat
  BY ShardAssumption
<1>2. TypeOK
  <2>1. <<>> \in Seq(Key) /\ <<>> \in Seq(Shards) /\ Len(<<>>) = 0
    OBVIOUS
  <2>2. \A s \in Shards : Len(chan[s]) <= ChannelCap
    BY <1>1, <2>1 DEF Init
  <2>3. chan \in [Shards -> Seq(Key)] /\ calls \in [Key -> Seq(Shards)]
    BY <2>1 DEF Init
  <2>4. queue \in Seq(Key) /\ batch \in [Readers -> Seq(Key)]
    BY <2>1 DEF Init
  <2> QED BY <1>1, <2>2, <2>3, <2>4 DEF Init, TypeOK, ReaderPc
<1>3. KeysAreRouted /\ CallsMatchSeen /\ OnlyOffered /\ NoKeyLost
  BY RouteType, InEmpty DEF Init, KeysAreRouted, CallsMatchSeen, OnlyOffered, NoKeyLost, Offered
<1>4. ReadersInv /\ ClosingInv /\ JoinInv
  BY <1>1 DEF Init, ReadersInv, ClosingInv, JoinInv, Shards
<1> QED BY <1>2, <1>3, <1>4 DEF IInv

-----------------------------------------------------------------------------
(* Steps of the caller.                                                    *)

(* A pushed key is in the queue.                                           *)
LEMMA PushInv == ASSUME IInv, NEW k \in Key, Push(k) PROVE IInv'
<1> USE DEF Push, envVars, workerVars, coordVars
<1>1. /\ queue \in Seq(Key) /\ Append(queue, k) \in Seq(Key)
      /\ \A j \in Key : In(j, Append(queue, k)) <=> In(j, queue) \/ j = k
  BY InAppend DEF IInv, TypeOK
<1>2. TypeOK'
  BY <1>1 DEF IInv, TypeOK
<1>3. Offered' = Offered \cup {k}
  BY DEF IInv, TypeOK, Offered
<1>4. KeysAreRouted' /\ CallsMatchSeen'
  BY DEF IInv, KeysAreRouted, CallsMatchSeen
<1>5. OnlyOffered'
  BY <1>1, <1>3 DEF IInv, OnlyOffered
<1>6. NoKeyLost'
  <2>1. SUFFICES ASSUME NEW j \in Offered', worker'[Route(j)] # "panicked"
                 PROVE  Located(j)'
    BY DEF NoKeyLost
  <2>2. j \in Key
    BY <2>1 DEF Offered
  <2>3. j \in Offered /\ worker[Route(j)] # "panicked" => Located(j)
    BY DEF IInv, NoKeyLost
  <2> QED BY <1>1, <1>3, <2>1, <2>2, <2>3 DEF Located
<1>7. ReadersInv' /\ ClosingInv' /\ JoinInv'
  BY DEF IInv, ReadersInv, ClosingInv, JoinInv
<1> QED BY <1>2, <1>4, <1>5, <1>6, <1>7 DEF IInv

(* Setting `done` moves no key.                                            *)
LEMMA SetDoneInv == ASSUME IInv, SetDone PROVE IInv'
<1> USE DEF SetDone, workerVars, coordVars
<1>1. TypeOK'
  BY DEF IInv, TypeOK
<1>2. KeysAreRouted' /\ CallsMatchSeen' /\ OnlyOffered' /\ NoKeyLost'
  BY DEF IInv, KeysAreRouted, CallsMatchSeen, OnlyOffered, NoKeyLost, Located, Offered
<1>3. ReadersInv' /\ ClosingInv' /\ JoinInv'
  BY DEF IInv, ReadersInv, ClosingInv, JoinInv
<1> QED BY <1>1, <1>2, <1>3 DEF IInv

-----------------------------------------------------------------------------
(* Steps of a reader.                                                      *)

(* A pop moves the head of the queue into the reader's batch.              *)
LEMMA PopInv ==
  ASSUME IInv, NEW r \in Readers, reader[r] \in {"fill", "drain"},
         queue # <<>>, queue' = Tail(queue),
         NEW b \in Seq(Key),
         \A j \in Key : In(j, b) <=> In(j, batch[r]) \/ j = Head(queue),
         batch' = [batch EXCEPT ![r] = b],
         UNCHANGED <<envVars, reader, chan, workerVars, coordVars>>
  PROVE  IInv'
<1> USE DEF envVars, workerVars, coordVars
<1>1. /\ Tail(queue) \in Seq(Key) /\ Head(queue) \in Key
      /\ \A j \in Key : In(j, queue) <=> j = Head(queue) \/ In(j, Tail(queue))
  BY InHeadTail DEF IInv, TypeOK
<1>2. TypeOK'
  BY <1>1 DEF IInv, TypeOK
<1>3. Offered' = Offered
  BY DEF Offered
<1>4. /\ batch'[r] = b
      /\ \A x \in Readers : x # r => batch'[x] = batch[x]
  BY DEF IInv, TypeOK
<1>5. ASSUME NEW j \in Key
      PROVE  (In(j, queue) \/ \E x \in Readers : In(j, batch[x]))
               <=> (In(j, queue') \/ \E x \in Readers : In(j, batch'[x]))
  BY <1>1, <1>4
<1>6. KeysAreRouted' /\ CallsMatchSeen'
  BY DEF IInv, KeysAreRouted, CallsMatchSeen
<1>7. OnlyOffered'
  BY <1>3, <1>5 DEF IInv, OnlyOffered
<1>8. NoKeyLost'
  <2>1. SUFFICES ASSUME NEW j \in Offered', worker'[Route(j)] # "panicked"
                 PROVE  Located(j)'
    BY DEF NoKeyLost
  <2>2. j \in Key
    BY <2>1 DEF Offered
  <2>3. j \in Offered /\ worker[Route(j)] # "panicked" => Located(j)
    BY DEF IInv, NoKeyLost
  <2> QED BY <1>3, <1>5, <2>1, <2>2, <2>3 DEF Located
<1>9. ReadersInv'
  BY <1>4 DEF IInv, ReadersInv
<1>10. ClosingInv' /\ JoinInv'
  BY DEF IInv, ClosingInv, JoinInv
<1> QED BY <1>2, <1>6, <1>7, <1>8, <1>9, <1>10 DEF IInv

(* The pop of the micro-batch loop is a pop into a batch with room.        *)
LEMMA FillPopInv == ASSUME IInv, NEW r \in Readers, FillPop(r) PROVE IInv'
<1> DEFINE b == Append(batch[r], Head(queue))
<1>1. queue \in Seq(Key) /\ batch[r] \in Seq(Key)
  BY DEF IInv, TypeOK
<1>2. queue # <<>> /\ Head(queue) \in Key
  BY <1>1, InHeadTail DEF FillPop
<1>3. b \in Seq(Key) /\ \A j \in Key : In(j, b) <=> In(j, batch[r]) \/ j = Head(queue)
  BY <1>1, <1>2, InAppend
<1>4. batch' = [batch EXCEPT ![r] = b]
  BY DEF FillPop
<1> HIDE DEF b
<1> QED BY <1>2, <1>3, <1>4, PopInv DEF FillPop

(* The pop of the final drain is a pop into an empty batch.                *)
LEMMA DrainPopInv == ASSUME IInv, NEW r \in Readers, DrainPop(r) PROVE IInv'
<1> DEFINE b == <<Head(queue)>>
<1>1. queue \in Seq(Key)
  BY DEF IInv, TypeOK
<1>2. queue # <<>> /\ Head(queue) \in Key /\ batch[r] = <<>>
  BY <1>1, InHeadTail DEF DrainPop
<1>3. b \in Seq(Key) /\ \A j \in Key : In(j, b) <=> In(j, batch[r]) \/ j = Head(queue)
  <2>1. b \in Seq(Key) /\ DOMAIN b = {1} /\ b[1] = Head(queue)
    BY <1>2
  <2>2. \A j \in Key : In(j, b) <=> j = Head(queue)
    BY <2>1 DEF In
  <2> QED BY <1>2, <2>1, <2>2, InEmpty
<1>4. batch' = [batch EXCEPT ![r] = b]
  BY DEF DrainPop
<1> HIDE DEF b
<1> QED BY <1>2, <1>3, <1>4, PopInv DEF DrainPop

(* The steps that only move a reader's program counter.                    *)
LEMMA ReaderPcInv ==
  ASSUME IInv, NEW r \in Readers,
         FillEnd(r) \/ RouteEnd(r) \/ CheckDone(r) \/ DrainExit(r)
  PROVE  IInv'
<1> USE DEF envVars, workerVars, coordVars
<1>1. /\ UNCHANGED <<queue, done, pushed, batch, chan, worker, seen, calls, coord, joined>>
      /\ \E p \in ReaderPc : reader' = [reader EXCEPT ![r] = p]
      /\ reader[r] # "exited"
  BY DEF FillEnd, RouteEnd, CheckDone, DrainExit, ReaderPc
<1>2. TypeOK'
  BY <1>1 DEF IInv, TypeOK
<1>3. KeysAreRouted' /\ CallsMatchSeen' /\ OnlyOffered' /\ NoKeyLost'
  BY <1>1 DEF IInv, KeysAreRouted, CallsMatchSeen, OnlyOffered, NoKeyLost, Located, Offered
<1>4. ReadersInv'
  BY DEF IInv, TypeOK, ReadersInv, FillEnd, RouteEnd, CheckDone, DrainExit, Drained
<1>5. ClosingInv' /\ JoinInv'
  BY <1>1 DEF IInv, TypeOK, ClosingInv, JoinInv
<1> QED BY <1>2, <1>3, <1>4, <1>5 DEF IInv

(* A send moves the head of the batch into the channel of its shard, or    *)
(* drops it when that shard's worker has panicked: a worker that finished  *)
(* is impossible here, because a reader is still alive.                    *)
LEMMA SendInv == ASSUME IInv, NEW r \in Readers, Send(r) PROVE IInv'
<1> DEFINE k == Head(batch[r])
           s == Route(k)
<1>1. batch[r] \in Seq(Key) /\ batch[r] # <<>>
  BY DEF IInv, TypeOK, Send
<1>2. /\ k \in Key /\ Tail(batch[r]) \in Seq(Key)
      /\ \A j \in Key : In(j, batch[r]) <=> j = k \/ In(j, Tail(batch[r]))
  BY <1>1, InHeadTail
<1>3. s \in Shards
  BY <1>2, RouteType
<1>4. /\ batch'[r] = Tail(batch[r])
      /\ \A x \in Readers : x # r => batch'[x] = batch[x]
      /\ batch' \in [Readers -> Seq(Key)]
  BY <1>2 DEF IInv, TypeOK, Send
<1>5. /\ UNCHANGED <<queue, done, pushed, reader, worker, seen, calls, coord, joined>>
      /\ reader[r] \in {"route", "drain"}
  BY DEF Send, envVars, workerVars, coordVars
<1>6. chan[s] \in Seq(Key) /\ Len(chan[s]) \in Nat
  BY <1>3 DEF IInv, TypeOK
<1>7. \/ /\ worker[s] = "running"
         /\ Len(chan[s]) < ChannelCap
         /\ chan' = [chan EXCEPT ![s] = Append(chan[s], k)]
      \/ /\ worker[s] = "panicked"
         /\ chan' = chan
  <2>1. \/ /\ worker[s] = "running"
           /\ Len(chan[s]) < ChannelCap
           /\ chan' = [chan EXCEPT ![s] = Append(chan[s], k)]
        \/ worker[s] # "running" /\ chan' = chan
    BY DEF Send, SendFails, Room
  <2>2. worker[s] # "finished"
    BY <1>3, <1>5 DEF IInv, ClosingInv
  <2> QED BY <2>1, <2>2, <1>3 DEF IInv, TypeOK
<1>8. Offered' = Offered
  BY <1>5 DEF Offered
<1>9. k \in Offered
  BY <1>2 DEF IInv, OnlyOffered
<1> HIDE DEF k, s
<1>10. CASE chan' = chan /\ worker[s] = "panicked"
  <2>1. TypeOK'
    BY <1>4, <1>5, <1>10 DEF IInv, TypeOK
  <2>2. KeysAreRouted' /\ CallsMatchSeen'
    BY <1>5, <1>10 DEF IInv, KeysAreRouted, CallsMatchSeen
  <2>3. OnlyOffered'
    BY <1>2, <1>4, <1>5, <1>8, <1>10 DEF IInv, OnlyOffered
  <2>4. NoKeyLost'
    <3>1. SUFFICES ASSUME NEW j \in Offered', worker'[Route(j)] # "panicked"
                   PROVE  Located(j)'
      BY DEF NoKeyLost
    <3>2. j \in Key
      BY <3>1 DEF Offered
    <3>3. j \in Offered /\ worker[Route(j)] # "panicked" => Located(j)
      BY DEF IInv, NoKeyLost
    <3> QED BY <1>2, <1>4, <1>5, <1>8, <1>10, <3>1, <3>2, <3>3 DEF Located, s
  <2>5. ReadersInv'
    BY <1>4, <1>5 DEF IInv, ReadersInv
  <2>6. ClosingInv' /\ JoinInv'
    BY <1>5, <1>10 DEF IInv, ClosingInv, JoinInv
  <2> QED BY <2>1, <2>2, <2>3, <2>4, <2>5, <2>6 DEF IInv
<1>11. CASE /\ worker[s] = "running"
            /\ Len(chan[s]) < ChannelCap
            /\ chan' = [chan EXCEPT ![s] = Append(chan[s], k)]
  <2>1. /\ Append(chan[s], k) \in Seq(Key)
        /\ Len(Append(chan[s], k)) = Len(chan[s]) + 1
        /\ \A j \in Key : In(j, Append(chan[s], k)) <=> In(j, chan[s]) \/ j = k
    BY <1>2, <1>6, InAppend
  <2>2. /\ chan'[s] = Append(chan[s], k)
        /\ \A t \in Shards : t # s => chan'[t] = chan[t]
        /\ chan' \in [Shards -> Seq(Key)]
    BY <1>3, <1>11, <2>1 DEF IInv, TypeOK
  <2>3. \A t \in Shards : Len(chan'[t]) <= ChannelCap
    BY <1>6, <1>11, <2>1, <2>2, ShardAssumption DEF IInv, TypeOK
  <2>4. TypeOK'
    BY <1>4, <1>5, <2>2, <2>3 DEF IInv, TypeOK
  <2>5. KeysAreRouted'
    BY <1>5, <2>1, <2>2 DEF IInv, KeysAreRouted, s
  <2>6. CallsMatchSeen'
    BY <1>5 DEF IInv, CallsMatchSeen
  <2>7. OnlyOffered'
    BY <1>2, <1>4, <1>5, <1>8, <1>9, <2>1, <2>2, RouteType DEF IInv, OnlyOffered
  <2>8. NoKeyLost'
    <3>1. SUFFICES ASSUME NEW j \in Offered', worker'[Route(j)] # "panicked"
                   PROVE  Located(j)'
      BY DEF NoKeyLost
    <3>2. j \in Key
      BY <3>1 DEF Offered
    <3>3. j \in Offered /\ worker[Route(j)] # "panicked" => Located(j)
      BY DEF IInv, NoKeyLost
    <3> QED BY <1>2, <1>4, <1>5, <1>8, <2>1, <2>2, RouteType, <3>1, <3>2, <3>3 DEF Located, s
  <2>9. ReadersInv'
    BY <1>4, <1>5 DEF IInv, ReadersInv
  <2>10. ClosingInv' /\ JoinInv'
    BY <1>5, <1>11, <2>2 DEF IInv, ClosingInv, JoinInv
  <2> QED BY <2>4, <2>5, <2>6, <2>7, <2>8, <2>9, <2>10 DEF IInv
<1> QED BY <1>7, <1>10, <1>11

-----------------------------------------------------------------------------
(* Steps of a worker.                                                      *)

(* What seen.insert and on_key do for the head of the channel.             *)
LEMMA DedupEffect ==
  ASSUME IInv, NEW s \in Shards, NEW k \in Key, Route(k) = s, Dedup(s, k)
  PROVE  /\ seen' \in [Shards -> SUBSET Key]
         /\ calls' \in [Key -> Seq(Shards)]
         /\ seen'[s] = seen[s] \cup {k}
         /\ \A t \in Shards : t # s => seen'[t] = seen[t]
         /\ CallsMatchSeen'
<1>1. /\ seen' \in [Shards -> SUBSET Key]
      /\ seen'[s] = seen[s] \cup {k}
      /\ \A t \in Shards : t # s => seen'[t] = seen[t]
  BY DEF IInv, TypeOK, Dedup
<1>2. CASE k \in seen[s]
  <2>1. calls' = calls
    BY <1>2 DEF Dedup
  <2>2. \A j \in Key : j \in seen'[Route(j)] <=> j \in seen[Route(j)]
    BY <1>1, <1>2, RouteType
  <2> QED BY <1>1, <2>1, <2>2 DEF IInv, TypeOK, CallsMatchSeen
<1>3. CASE k \notin seen[s]
  <2>1. calls[k] = <<>>
    BY <1>3 DEF IInv, CallsMatchSeen
  <2>2. Append(calls[k], s) = <<s>> /\ <<s>> \in Seq(Shards)
    BY <2>1
  <2>3. calls' = [calls EXCEPT ![k] = <<s>>]
    BY <1>3, <2>2 DEF Dedup
  <2>4. \A j \in Key : j # k => (j \in seen'[Route(j)] <=> j \in seen[Route(j)])
    BY <1>1, RouteType
  <2>5. CallsMatchSeen'
    BY <1>1, <2>3, <2>4 DEF IInv, TypeOK, CallsMatchSeen
  <2> QED BY <1>1, <2>2, <2>3, <2>5 DEF IInv, TypeOK
<1> QED BY <1>2, <1>3

(* Both ways to take the head of the channel: on_key returns, and the rest *)
(* of the channel stays; or it panics, and the channel is discarded.       *)
LEMMA TakeInv ==
  ASSUME IInv, NEW s \in Shards, WorkerRecv(s) \/ WorkerPanic(s)
  PROVE  IInv'
<1> DEFINE k == Head(chan[s])
<1>1. /\ chan[s] \in Seq(Key) /\ chan[s] # <<>>
      /\ Len(chan[s]) <= ChannelCap
      /\ worker[s] = "running"
      /\ Dedup(s, k)
      /\ UNCHANGED <<queue, done, pushed, reader, batch, coord, joined>>
  BY DEF IInv, TypeOK, WorkerRecv, WorkerPanic, envVars, coordVars
<1>2. /\ k \in Key /\ Tail(chan[s]) \in Seq(Key)
      /\ Len(Tail(chan[s])) = Len(chan[s]) - 1 /\ Len(chan[s]) \in Nat \ {0}
      /\ \A j \in Key : In(j, chan[s]) <=> j = k \/ In(j, Tail(chan[s]))
  BY <1>1, InHeadTail
<1>3. Route(k) = s
  BY <1>2 DEF IInv, KeysAreRouted
<1> HIDE DEF k
<1>4. /\ seen' \in [Shards -> SUBSET Key]
      /\ calls' \in [Key -> Seq(Shards)]
      /\ seen'[s] = seen[s] \cup {k}
      /\ \A t \in Shards : t # s => seen'[t] = seen[t]
      /\ CallsMatchSeen'
  BY <1>1, <1>2, <1>3, DedupEffect
<1>5. Offered' = Offered
  BY <1>1 DEF Offered
<1>6. CASE WorkerRecv(s)
  <2>1. /\ chan'[s] = Tail(chan[s])
        /\ \A t \in Shards : t # s => chan'[t] = chan[t]
        /\ chan' \in [Shards -> Seq(Key)]
        /\ worker' = worker
    BY <1>2, <1>6 DEF IInv, TypeOK, WorkerRecv
  <2>2. \A t \in Shards : Len(chan'[t]) <= ChannelCap
    <3>1. Len(Tail(chan[s])) <= ChannelCap
      BY <1>1, <1>2, ShardAssumption
    <3> QED BY <2>1, <3>1 DEF IInv, TypeOK
  <2>3. TypeOK'
    BY <1>1, <1>4, <2>1, <2>2 DEF IInv, TypeOK
  <2>4. KeysAreRouted'
    BY <1>2, <1>3, <1>4, <2>1 DEF IInv, KeysAreRouted
  <2>5. OnlyOffered'
    BY <1>1, <1>2, <1>5, <2>1, RouteType DEF IInv, OnlyOffered
  <2>6. NoKeyLost'
    <3>1. SUFFICES ASSUME NEW j \in Offered', worker'[Route(j)] # "panicked"
                   PROVE  Located(j)'
      BY DEF NoKeyLost
    <3>2. j \in Key /\ Route(j) \in Shards
      BY <3>1, RouteType DEF Offered
    <3>3. Located(j)
      BY <1>5, <2>1, <3>1 DEF IInv, NoKeyLost
    <3> QED BY <1>1, <1>2, <1>4, <2>1, <3>2, <3>3 DEF Located
  <2>7. ReadersInv' /\ ClosingInv' /\ JoinInv'
    BY <1>1, <2>1 DEF IInv, ReadersInv, ClosingInv, JoinInv
  <2> QED BY <1>4, <2>3, <2>4, <2>5, <2>6, <2>7 DEF IInv
<1>7. CASE WorkerPanic(s)
  <2>1. /\ chan'[s] = <<>>
        /\ \A t \in Shards : t # s => chan'[t] = chan[t]
        /\ chan' = [chan EXCEPT ![s] = <<>>]
        /\ worker' = [worker EXCEPT ![s] = "panicked"]
    BY <1>7 DEF IInv, TypeOK, WorkerPanic
  <2>2. <<>> \in Seq(Key) /\ Len(<<>>) = 0 /\ 0 <= ChannelCap
    BY ShardAssumption
  <2>3. chan' \in [Shards -> Seq(Key)] /\ \A t \in Shards : Len(chan'[t]) <= ChannelCap
    BY <2>1, <2>2 DEF IInv, TypeOK
  <2>4. TypeOK'
    BY <1>1, <1>4, <2>1, <2>3 DEF IInv, TypeOK
  <2>5. KeysAreRouted'
    BY <1>3, <1>4, <2>1, InEmpty DEF IInv, KeysAreRouted
  <2>6. OnlyOffered'
    BY <1>1, <1>5, <2>1, InEmpty, RouteType DEF IInv, OnlyOffered
  <2>7. NoKeyLost'
    <3>1. SUFFICES ASSUME NEW j \in Offered', worker'[Route(j)] # "panicked"
                   PROVE  Located(j)'
      BY DEF NoKeyLost
    <3>2. j \in Key /\ Route(j) \in Shards
      BY <3>1, RouteType DEF Offered
    <3>3. Route(j) # s /\ worker[Route(j)] # "panicked"
      BY <2>1, <3>1, <3>2 DEF IInv, TypeOK
    <3>4. Located(j)
      BY <1>5, <3>1, <3>3 DEF IInv, NoKeyLost
    <3> QED BY <1>1, <1>4, <2>1, <3>2, <3>3, <3>4 DEF Located
  <2>8. ReadersInv'
    BY <1>1 DEF IInv, ReadersInv
  <2>9. ClosingInv'
    BY <1>1, <2>1 DEF IInv, TypeOK, ClosingInv
  <2>10. JoinInv'
    BY <1>1, <2>1 DEF IInv, TypeOK, JoinInv
  <2> QED BY <1>4, <2>4, <2>5, <2>6, <2>7, <2>8, <2>9, <2>10 DEF IInv
<1> QED BY <1>6, <1>7

(* A worker finishes on an empty, closed channel and loses no key.         *)
LEMMA WorkerFinishInv ==
  ASSUME IInv, NEW s \in Shards, WorkerFinish(s) PROVE IInv'
<1>1. /\ UNCHANGED <<queue, done, pushed, reader, batch, chan, seen, calls, coord, joined>>
      /\ worker' = [worker EXCEPT ![s] = "finished"]
      /\ worker[s] = "running" /\ chan[s] = <<>> /\ coord # "readers"
  BY DEF WorkerFinish, SendersDropped, envVars, coordVars
<1>2. TypeOK'
  BY <1>1 DEF IInv, TypeOK
<1>3. KeysAreRouted' /\ CallsMatchSeen' /\ OnlyOffered'
  BY <1>1 DEF IInv, KeysAreRouted, CallsMatchSeen, OnlyOffered, Offered
<1>4. \A j \in Key : worker'[Route(j)] # "panicked" => worker[Route(j)] # "panicked"
  BY <1>1, RouteType DEF IInv, TypeOK
<1>5. NoKeyLost'
  BY <1>1, <1>4 DEF IInv, NoKeyLost, Located, Offered
<1>6. ReadersInv' /\ ClosingInv' /\ JoinInv'
  BY <1>1 DEF IInv, TypeOK, ReadersInv, ClosingInv, JoinInv
<1> QED BY <1>2, <1>3, <1>5, <1>6 DEF IInv

-----------------------------------------------------------------------------
(* Steps of the coordinator.                                               *)

(* The coordinator moves no key; it only counts joined workers.            *)
LEMMA CoordinatorInv == ASSUME IInv, Coordinator PROVE IInv'
<1>1. UNCHANGED <<queue, done, pushed, reader, batch, chan, worker, seen, calls>>
  BY DEF Coordinator, JoinReaders, JoinWorker, SendComplete, envVars, workerVars
<1>2. KeysAreRouted' /\ CallsMatchSeen' /\ OnlyOffered' /\ NoKeyLost' /\ ReadersInv'
  BY <1>1 DEF IInv, KeysAreRouted, CallsMatchSeen, OnlyOffered, NoKeyLost, Located,
              Offered, ReadersInv
<1>3. NShards \in Nat /\ joined \in 0 .. NShards
  BY ShardAssumption DEF IInv, TypeOK
<1>4. CASE JoinReaders
  BY <1>1, <1>2, <1>4 DEF IInv, TypeOK, ClosingInv, JoinInv, JoinReaders, ReadersJoined
<1>5. CASE JoinWorker
  <2>1. joined \in Shards
    BY <1>3, <1>5 DEF JoinWorker, Shards
  <2>2. TypeOK'
    BY <1>1, <1>3, <1>5 DEF IInv, TypeOK, JoinWorker
  <2>3. ClosingInv'
    BY <1>1, <1>5 DEF IInv, ClosingInv, JoinWorker
  <2>4. JoinInv'
    BY <1>1, <1>3, <1>5, <2>1 DEF IInv, JoinInv, JoinWorker, Shards
  <2> QED BY <1>2, <2>2, <2>3, <2>4 DEF IInv
<1>6. CASE SendComplete
  BY <1>1, <1>2, <1>6 DEF IInv, TypeOK, ClosingInv, JoinInv, SendComplete
<1> QED BY <1>4, <1>5, <1>6 DEF Coordinator

-----------------------------------------------------------------------------
(* Every step preserves the invariant.                                     *)
LEMMA NextInv == ASSUME IInv, [Next]_vars PROVE IInv'
<1>1. CASE \E k \in Key : Push(k)
  BY <1>1, PushInv
<1>2. CASE SetDone
  BY <1>2, SetDoneInv
<1>3. CASE \E r \in Readers : Reader(r)
  <2>1. PICK r \in Readers : Reader(r)
    BY <1>3
  <2> QED BY <2>1, FillPopInv, DrainPopInv, SendInv, ReaderPcInv DEF Reader
<1>4. CASE \E s \in Shards : Worker(s)
  <2>1. PICK s \in Shards : Worker(s)
    BY <1>4
  <2> QED BY <2>1, TakeInv, WorkerFinishInv DEF Worker
<1>5. CASE Coordinator
  BY <1>5, CoordinatorInv
<1>6. CASE UNCHANGED vars
  BY <1>6 DEF vars, IInv, TypeOK, KeysAreRouted, CallsMatchSeen, OnlyOffered, NoKeyLost,
              Located, Offered, ReadersInv, ClosingInv, JoinInv
<1> QED BY <1>1, <1>2, <1>3, <1>4, <1>5, <1>6 DEF Next, Terminated

-----------------------------------------------------------------------------
(* Every reachable state satisfies the inductive invariant.                *)
THEOREM InvariantHolds == Safety => []IInv
<1>1. IInv /\ [Next]_vars => IInv'
  BY NextInv
<1> QED BY InitInv, <1>1, PTL DEF Safety

(* The state of the pipeline keeps its types, and no channel ever holds    *)
(* more than CHANNEL_CAP keys.                                             *)
THEOREM TypeCorrect == Safety => []TypeOK
<1>1. IInv => TypeOK
  BY DEF IInv
<1> QED BY InvariantHolds, <1>1, PTL

(* on_key is called at most once per key, in the key's own shard.          *)
THEOREM CalledOncePerKey == Safety => []OncePerKey
<1>1. IInv => OncePerKey
  BY DEF IInv, CallsMatchSeen, OncePerKey
<1> QED BY InvariantHolds, <1>1, PTL

(* No key disappears between its push and its shard's worker, unless that  *)
(* worker has panicked.                                                    *)
THEOREM NothingLost == Safety => []NoKeyLost
<1>1. IInv => NoKeyLost
  BY DEF IInv
<1> QED BY InvariantHolds, <1>1, PTL

(* When the channels close, queue and batches are empty.                   *)
LEMMA InvStranded == IInv => NothingStranded
<1> SUFFICES ASSUME IInv, coord # "readers"
             PROVE  queue = <<>> /\ \A r \in Readers : batch[r] = <<>>
  BY DEF NothingStranded
<1>1. \A r \in Readers : reader[r] = "exited"
  BY DEF IInv, ClosingInv
<1> QED BY <1>1, ShardAssumption DEF IInv, ReadersInv

(* Theorem form of the lemma above: one drain per reader leaves no key in  *)
(* the queue or in a batch when the channels close.                        *)
THEOREM DrainIsComplete == Safety => []NothingStranded
BY InvariantHolds, InvStranded, PTL

(* The coordinator signals completion only when every pushed key has been  *)
(* handed to on_key.                                                       *)
LEMMA InvComplete ==
  ASSUME IInv, coord \in {"workers", "sent"}, joined = NShards
  PROVE  /\ \A s \in Shards : worker[s] = "finished"
         /\ \A k \in Offered : calls[k] = <<Route(k)>>
<1>1. \A s \in Shards : worker[s] = "finished"
  BY ShardAssumption DEF IInv, JoinInv, Shards
<1>2. \A s \in Shards : chan[s] = <<>>
  BY <1>1 DEF IInv, ClosingInv
<1>3. queue = <<>> /\ \A r \in Readers : batch[r] = <<>>
  BY InvStranded DEF NothingStranded
<1>4. ASSUME NEW k \in Offered PROVE calls[k] = <<Route(k)>>
  <2>1. k \in Key /\ Route(k) \in Shards
    BY RouteType DEF Offered
  <2>2. Located(k)
    BY <1>1, <2>1 DEF IInv, NoKeyLost
  <2>3. k \in seen[Route(k)]
    BY <1>2, <1>3, <2>1, <2>2, InEmpty DEF Located
  <2> QED BY <2>1, <2>3 DEF IInv, CallsMatchSeen
<1> QED BY <1>1, <1>4

(* The () on the completion channel means every pushed key was handled.    *)
THEOREM CompletionIsSound == Safety => []CompletionMeansAllHandled
<1>1. IInv => CompletionMeansAllHandled
  BY InvComplete DEF IInv, JoinInv, CompletionMeansAllHandled
<1> QED BY InvariantHolds, <1>1, PTL

-----------------------------------------------------------------------------
(* The pipeline implements KeyDedup.                                       *)

(* The refinement mapping, by name.                                        *)
Handled == [k \in Key |-> Len(calls[k])]
Broken  == \E s \in Shards : worker[s] = "panicked"
Outcome == CASE coord = "sent" -> "complete"
             [] coord = "panicked" -> "disconnected"
             [] OTHER -> "pending"

(* The initial states of the pipeline are initial states of the promise.   *)
LEMMA RefineInit == Init => KD!Init
<1> SUFFICES ASSUME Init PROVE KD!Init
  OBVIOUS
<1>1. Offered = {}
  BY DEF Init, Offered
<1>2. Handled = [k \in Key |-> 0]
  BY DEF Init, Handled
<1>3. Broken = FALSE
  BY DEF Init, Broken
<1>4. Outcome = "pending"
  BY DEF Init, Outcome
<1>5. done = FALSE
  BY DEF Init
<1> QED BY <1>1, <1>2, <1>3, <1>4, <1>5 DEF KD!Init, Handled, Broken, Outcome

(* Steps that change nothing the caller can see.                           *)
LEMMA RefineStutter ==
  ASSUME UNCHANGED <<pushed, done, calls>>, Broken' = Broken, Outcome' = Outcome
  PROVE  UNCHANGED KD!vars
<1>1. Offered' = Offered
  BY DEF Offered
<1>2. Handled' = Handled
  BY DEF Handled
<1> QED BY <1>1, <1>2 DEF KD!vars, Handled, Broken, Outcome

(* A push offers the key, or is invisible when the key was offered before. *)
LEMMA RefinePush ==
  ASSUME IInv, NEW k \in Key, Push(k) PROVE KD!Offer(k)
<1>1. Offered' = Offered \cup {k}
  BY DEF IInv, TypeOK, Push, Offered
<1>2. ~done /\ done' = done
  BY DEF Push
<1>3. Handled' = Handled /\ Broken' = Broken /\ Outcome' = Outcome
  BY DEF Push, Handled, Broken, Outcome, workerVars, coordVars
<1> QED BY <1>1, <1>2, <1>3 DEF KD!Offer, Handled, Broken, Outcome

(* Setting `done` closes the source.                                       *)
LEMMA RefineSetDone == ASSUME SetDone PROVE KD!Close
<1>1. Offered' = Offered /\ ~done /\ done' = TRUE
  BY DEF SetDone, Offered
<1>2. Handled' = Handled /\ Broken' = Broken /\ Outcome' = Outcome
  BY DEF SetDone, Handled, Broken, Outcome, workerVars, coordVars
<1> QED BY <1>1, <1>2 DEF KD!Close, Handled, Broken, Outcome

(* The caller sees nothing of what the readers do.                         *)
LEMMA RefineReader ==
  ASSUME NEW r \in Readers, Reader(r) PROVE UNCHANGED KD!vars
<1>1. UNCHANGED <<done, pushed, worker, calls, coord>>
  BY DEF Reader, FillPop, FillEnd, Send, RouteEnd, CheckDone, DrainPop, DrainExit,
         envVars, workerVars, coordVars
<1>2. Broken' = Broken /\ Outcome' = Outcome
  BY <1>1 DEF Broken, Outcome
<1> QED BY <1>1, <1>2, RefineStutter

(* A worker that takes a new key is the abstract call of the callback; one *)
(* that takes a duplicate, or finishes, is invisible.                      *)
LEMMA RefineWorker ==
  ASSUME IInv, NEW s \in Shards, Worker(s) PROVE [KD!Next]_KD!vars
<1> DEFINE k == Head(chan[s])
<1>1. UNCHANGED <<done, pushed, coord>> /\ Offered' = Offered
  BY DEF Worker, WorkerRecv, WorkerPanic, WorkerFinish, envVars, coordVars, Offered
<1>2. Outcome' = Outcome
  BY <1>1 DEF Outcome
<1>3. ASSUME chan[s] # <<>>
      PROVE  /\ k \in Offered /\ k \in Key
             /\ calls[k] = IF k \in seen[s] THEN <<s>> ELSE <<>>
  <2>1. k \in Key /\ In(k, chan[s])
    BY <1>3, InHeadTail DEF IInv, TypeOK
  <2>2. Route(k) = s
    BY <2>1 DEF IInv, KeysAreRouted
  <2> QED BY <2>1, <2>2 DEF IInv, OnlyOffered, CallsMatchSeen
<1>4. ASSUME NEW j \in Key, j = k, chan[s] # <<>>, j \notin seen[s], Dedup(s, j),
             Broken' \in {Broken, TRUE}
      PROVE  KD!Handle(j)
  <2>0. j \in Offered /\ calls[j] = <<>>
    BY <1>3, <1>4
  <2>1. calls' = [calls EXCEPT ![j] = Append(calls[j], s)]
    BY <1>4 DEF Dedup
  <2>2. Append(calls[j], s) = <<s>> /\ Len(<<>>) = 0 /\ Len(<<s>>) = 1
    BY <2>0
  <2>3. /\ calls'[j] = <<s>>
        /\ \A i \in Key : i # j => calls'[i] = calls[i]
    BY <2>1, <2>2 DEF IInv, TypeOK
  <2>4. Handled[j] = 0 /\ Handled' = [Handled EXCEPT ![j] = 1]
    BY <2>0, <2>2, <2>3 DEF Handled
  <2> QED BY <1>1, <1>2, <1>4, <2>0, <2>4 DEF KD!Handle, Handled, Broken, Outcome
<1>5. ASSUME chan[s] # <<>>, k \notin seen[s], Dedup(s, k), Broken' \in {Broken, TRUE}
      PROVE  KD!Next
  <2>1. PICK j \in Key : j = k
    BY <1>3, <1>5
  <2>2. Dedup(s, j)
    BY <1>5, <2>1 DEF Dedup
  <2>3. KD!Handle(j)
    BY <1>4, <1>5, <2>1, <2>2
  <2> QED BY <2>3 DEF KD!Next
<1>6. CASE WorkerRecv(s)
  <2>1. chan[s] # <<>> /\ Dedup(s, k) /\ worker' = worker
    BY <1>6 DEF WorkerRecv
  <2>2. Broken' = Broken
    BY <2>1 DEF Broken
  <2>3. CASE k \in seen[s]
    <3>1. calls' = calls
      BY <2>1, <2>3 DEF Dedup
    <3> QED BY <1>1, <1>2, <2>2, <3>1, RefineStutter
  <2>4. CASE k \notin seen[s]
    BY <1>5, <2>1, <2>2, <2>4
  <2> QED BY <2>3, <2>4
<1>7. CASE WorkerPanic(s)
  <2>1. /\ chan[s] # <<>> /\ Dedup(s, k) /\ k \notin seen[s]
        /\ worker' = [worker EXCEPT ![s] = "panicked"]
    BY <1>7 DEF WorkerPanic
  <2>2. Broken'
    BY <2>1 DEF Broken, IInv, TypeOK
  <2> QED BY <1>5, <2>1, <2>2
<1>8. CASE WorkerFinish(s)
  <2>1. calls' = calls /\ worker[s] = "running" /\ worker' = [worker EXCEPT ![s] = "finished"]
    BY <1>8 DEF WorkerFinish
  <2>2. Broken' = Broken
    BY <2>1 DEF Broken, IInv, TypeOK
  <2> QED BY <1>1, <1>2, <2>1, <2>2, RefineStutter
<1> QED BY <1>6, <1>7, <1>8 DEF Worker

(* Joining a panicked worker disconnects the receiver, the final send      *)
(* completes; the other joins are invisible.                               *)
LEMMA RefineCoordinator ==
  ASSUME IInv, Coordinator PROVE [KD!Next]_KD!vars
<1>1. UNCHANGED <<done, pushed, worker, calls>>
  BY DEF Coordinator, JoinReaders, JoinWorker, SendComplete, envVars, workerVars
<1>2. Broken' = Broken /\ Handled' = Handled /\ Offered' = Offered
  BY <1>1 DEF Broken, Handled, Offered
<1>3. coord # "readers" => done
  BY ShardAssumption DEF IInv, ClosingInv, ReadersInv
<1>4. CASE JoinReaders
  <2>1. Outcome' = Outcome
    BY <1>4 DEF JoinReaders, Outcome
  <2> QED BY <1>1, <1>2, <2>1, RefineStutter
<1>5. CASE JoinWorker
  <2>1. CASE coord' = coord
    <3>1. Outcome' = Outcome
      BY <2>1 DEF Outcome
    <3> QED BY <1>1, <1>2, <3>1, RefineStutter
  <2>2. CASE worker[joined] = "panicked" /\ coord' = "panicked"
    <3>1. joined \in Shards
      BY <1>5, ShardAssumption DEF IInv, TypeOK, JoinWorker, Shards
    <3>2. Broken /\ done
      BY <1>3, <1>5, <2>2, <3>1 DEF Broken, JoinWorker
    <3>3. Outcome = "pending" /\ Outcome' = "disconnected"
      BY <1>5, <2>2 DEF Outcome, JoinWorker
    <3>4. KD!Disconnect
      BY <1>1, <1>2, <3>2, <3>3 DEF KD!Disconnect, Handled, Broken, Outcome
    <3> QED BY <3>4 DEF KD!Next
  <2> QED BY <1>5, <2>1, <2>2 DEF JoinWorker
<1>6. CASE SendComplete
  <2>1. coord = "workers" /\ joined = NShards /\ coord' = "sent"
    BY <1>6 DEF SendComplete
  <2>2. /\ \A s \in Shards : worker[s] = "finished"
        /\ \A k \in Offered : calls[k] = <<Route(k)>>
    BY <2>1, InvComplete
  <2>3. ~Broken /\ done
    BY <1>3, <2>1, <2>2 DEF Broken
  <2>4. \A k \in Offered : Handled[k] = 1
    <3>1. \A k \in Offered : k \in Key
      BY DEF Offered
    <3>2. \A k \in Key : Len(<<Route(k)>>) = 1
      OBVIOUS
    <3> QED BY <2>2, <3>1, <3>2 DEF Handled
  <2>5. Outcome = "pending" /\ Outcome' = "complete"
    BY <2>1 DEF Outcome
  <2>6. KD!Complete
    BY <1>1, <1>2, <2>3, <2>4, <2>5 DEF KD!Complete, Handled, Broken, Outcome
  <2> QED BY <2>6 DEF KD!Next
<1> QED BY <1>4, <1>5, <1>6 DEF Coordinator

(* Every step of the threads is a step of the promise, or a stutter.       *)
LEMMA RefineNext == ASSUME IInv, [Next]_vars PROVE [KD!Next]_KD!vars
<1>1. CASE \E k \in Key : Push(k)
  BY <1>1, RefinePush DEF KD!Next
<1>2. CASE SetDone
  BY <1>2, RefineSetDone DEF KD!Next
<1>3. CASE \E r \in Readers : Reader(r)
  BY <1>3, RefineReader
<1>4. CASE \E s \in Shards : Worker(s)
  BY <1>4, RefineWorker
<1>5. CASE Coordinator
  BY <1>5, RefineCoordinator
<1>6. CASE UNCHANGED vars
  <2>1. UNCHANGED <<done, pushed, worker, calls, coord>>
    BY <1>6 DEF vars
  <2>2. Broken' = Broken /\ Outcome' = Outcome
    BY <2>1 DEF Broken, Outcome
  <2> QED BY <2>1, <2>2, RefineStutter
<1> QED BY <1>1, <1>2, <1>3, <1>4, <1>5, <1>6 DEF Next, Terminated

(* The pipeline keeps the promise made to its caller: every behaviour of   *)
(* the threads is, seen from outside, a behaviour of KeyDedup.             *)
THEOREM PipelineImplementsPromise == Safety => ImplementsKeyDedup
<1>1. Init => KD!Init
  BY RefineInit
<1>2. IInv /\ [Next]_vars => [KD!Next]_KD!vars
  BY RefineNext
<1> QED BY <1>1, <1>2, InvariantHolds, PTL DEF Safety, ImplementsKeyDedup, KD!Safety
=============================================================================
