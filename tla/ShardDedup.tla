----------------------------- MODULE ShardDedup -----------------------------
(***************************************************************************)
(* shard_dedup_pubkeys (src/src/shard.rs): reader threads pop keys from a  *)
(* shared SegQueue and route each to the bounded channel of its shard; one *)
(* worker thread per shard calls on_key for the first occurrence of each   *)
(* key; a coordinator thread joins the readers, closes the channels, joins *)
(* the workers and then signals completion.                                *)
(***************************************************************************)
EXTENDS Naturals, Sequences, FiniteSets

CONSTANTS
  Key,          \* the pubkeys that producers may push
  Hash,         \* XxHash64 with seed 0 (external), as a function of the key
  NShards,      \* n_shards
  Readers,      \* the reader threads (n_readers of them)
  ChannelCap,   \* CHANNEL_CAP
  Batch,        \* BATCH
  MaxCopies     \* bound: how often producers push each key

ASSUME ShardAssumption ==
  /\ Hash \in [Key -> Nat]
  /\ NShards \in Nat \ {0}
  /\ Readers # {}
  /\ ChannelCap \in Nat \ {0}
  /\ Batch \in Nat \ {0}
  /\ MaxCopies \in [Key -> Nat]

Shards == 0 .. NShards - 1

(* The shard index of a key; the hash itself travels with the key.         *)
Route(k) == Hash[k] % NShards

VARIABLES
  queue,    \* the SegQueue: a FIFO of keys
  done,     \* the caller's `done` flag
  pushed,   \* history: how often each key was pushed
  reader,   \* program counter of each reader thread
  batch,    \* keys a reader has popped and not yet sent
  chan,     \* the bounded channel of each shard
  worker,   \* state of each shard worker thread
  seen,     \* the worker's HashSet
  calls,    \* history: the shards in which on_key was called for each key
  coord,    \* program counter of the coordinator
  joined    \* number of shard workers the coordinator has joined

vars == <<queue, done, pushed, reader, batch, chan, worker, seen, calls,
          coord, joined>>

envVars    == <<done, pushed>>
workerVars == <<worker, seen, calls>>
coordVars  == <<coord, joined>>

ReaderPc == {"fill", "route", "check", "drain", "exited"}

TypeOK ==
  /\ queue \in Seq(Key)
  /\ done \in BOOLEAN
  /\ pushed \in [Key -> Nat]
  /\ reader \in [Readers -> ReaderPc]
  /\ batch \in [Readers -> Seq(Key)]
  /\ chan \in [Shards -> Seq(Key)]
  /\ \A s \in Shards : Len(chan[s]) <= ChannelCap
  /\ worker \in [Shards -> {"running", "finished", "panicked"}]
  /\ seen \in [Shards -> SUBSET Key]
  /\ calls \in [Key -> Seq(Shards)]
  /\ coord \in {"readers", "workers", "sent", "panicked"}
  /\ joined \in 0 .. NShards

Init ==
  /\ queue = <<>>
  /\ done = FALSE
  /\ pushed = [k \in Key |-> 0]
  /\ reader = [r \in Readers |-> "fill"]
  /\ batch = [r \in Readers |-> <<>>]
  /\ chan = [s \in Shards |-> <<>>]
  /\ worker = [s \in Shards |-> "running"]
  /\ seen = [s \in Shards |-> {}]
  /\ calls = [k \in Key |-> <<>>]
  /\ coord = "readers"
  /\ joined = 0

-----------------------------------------------------------------------------
(* The caller's side: producers push keys, and `done` is set after the     *)
(* last push.                                                              *)

Push(k) ==
  /\ ~done
  /\ pushed[k] < MaxCopies[k]
  /\ queue' = Append(queue, k)
  /\ pushed' = [pushed EXCEPT ![k] = @ + 1]
  /\ UNCHANGED <<done, reader, batch, chan, workerVars, coordVars>>

SetDone ==
  /\ ~done
  /\ done' = TRUE
  /\ UNCHANGED <<queue, pushed, reader, batch, chan, workerVars, coordVars>>

-----------------------------------------------------------------------------
(* Reader threads.                                                         *)

FillPop(r) ==
  /\ reader[r] = "fill"
  /\ Len(batch[r]) < Batch
  /\ queue # <<>>
  /\ batch' = [batch EXCEPT ![r] = Append(@, Head(queue))]
  /\ queue' = Tail(queue)
  /\ UNCHANGED <<envVars, reader, chan, workerVars, coordVars>>

FillEnd(r) ==
  /\ reader[r] = "fill"
  /\ Len(batch[r]) >= Batch \/ queue = <<>>
  /\ reader' = [reader EXCEPT ![r] = "route"]
  /\ UNCHANGED <<queue, envVars, batch, chan, workerVars, coordVars>>

(* A send fails only when the receiver, which lives in the worker's        *)
(* closure, is gone: the worker has returned or has unwound.               *)
SendFails_TrySend(s) == worker[s] # "running" \/ Len(chan[s]) = ChannelCap
SendFails_Never(s)   == FALSE
SendFails(s) == worker[s] # "running"

(* The channels are bounded.                                               *)
Room_Unbounded(s) == TRUE
Room(s) == Len(chan[s]) < ChannelCap

(* The blocking send of the head of the batch, in the routing loop and in  *)
(* the final drain.  It waits for room in the channel; when the receiver   *)
(* is gone it fails, and `.ok()` drops the key.                            *)
Send(r) ==
  /\ reader[r] \in {"route", "drain"}
  /\ batch[r] # <<>>
  /\ LET k == Head(batch[r])
         s == Route(k)
     IN  \/ /\ ~SendFails(s)
            /\ Room(s)
            /\ chan' = [chan EXCEPT ![s] = Append(@, k)]
         \/ /\ SendFails(s)
            /\ UNCHANGED chan
  /\ batch' = [batch EXCEPT ![r] = Tail(@)]
  /\ UNCHANGED <<queue, envVars, reader, workerVars, coordVars>>

RouteEnd(r) ==
  /\ reader[r] = "route"
  /\ batch[r] = <<>>
  /\ reader' = [reader EXCEPT ![r] = "check"]
  /\ UNCHANGED <<queue, envVars, batch, chan, workerVars, coordVars>>

CheckDone(r) ==
  /\ reader[r] = "check"
  /\ reader' = [reader EXCEPT ![r] = IF done THEN "drain" ELSE "fill"]
  /\ UNCHANGED <<queue, envVars, batch, chan, workerVars, coordVars>>

DrainPop(r) ==
  /\ reader[r] = "drain"
  /\ batch[r] = <<>>
  /\ queue # <<>>
  /\ batch' = [batch EXCEPT ![r] = <<Head(queue)>>]
  /\ queue' = Tail(queue)
  /\ UNCHANGED <<envVars, reader, chan, workerVars, coordVars>>

(* The drain ends at the first pop that finds the queue empty.             *)
Drained_Skipped == TRUE
Drained == queue = <<>>

DrainExit(r) ==
  /\ reader[r] = "drain"
  /\ batch[r] = <<>>
  /\ Drained
  /\ reader' = [reader EXCEPT ![r] = "exited"]
  /\ UNCHANGED <<queue, envVars, batch, chan, workerVars, coordVars>>

-----------------------------------------------------------------------------
(* Shard workers.                                                          *)

Dedup_Forget(s, k) ==
  /\ UNCHANGED seen
  /\ calls' = IF k \in seen[s]
              THEN calls
              ELSE [calls EXCEPT ![k] = Append(@, s)]

(* seen.insert(key), and on_key for a key that was not there.              *)
Dedup(s, k) ==
  /\ seen' = [seen EXCEPT ![s] = @ \cup {k}]
  /\ calls' = IF k \in seen[s]
              THEN calls
              ELSE [calls EXCEPT ![k] = Append(@, s)]

WorkerRecv(s) ==
  /\ worker[s] = "running"
  /\ chan[s] # <<>>
  /\ Dedup(s, Head(chan[s]))
  /\ chan' = [chan EXCEPT ![s] = Tail(@)]
  /\ UNCHANGED <<queue, envVars, reader, batch, worker, coordVars>>

(* on_key panics: the thread unwinds and drops the receiver with whatever  *)
(* the channel still holds.                                                *)
WorkerPanic(s) ==
  /\ worker[s] = "running"
  /\ chan[s] # <<>>
  /\ Head(chan[s]) \notin seen[s]
  /\ Dedup(s, Head(chan[s]))
  /\ chan' = [chan EXCEPT ![s] = <<>>]
  /\ worker' = [worker EXCEPT ![s] = "panicked"]
  /\ UNCHANGED <<queue, envVars, reader, batch, coordVars>>

(* Every sender half sits behind the Arc `txs`, whose last reference the   *)
(* coordinator drops.                                                      *)
SendersDropped == coord # "readers"

WorkerFinish(s) ==
  /\ worker[s] = "running"
  /\ chan[s] = <<>>
  /\ SendersDropped
  /\ worker' = [worker EXCEPT ![s] = "finished"]
  /\ UNCHANGED <<queue, envVars, reader, batch, chan, seen, calls, coordVars>>

-----------------------------------------------------------------------------
(* The coordinator thread.                                                 *)

(* The coordinator joins every reader before it drops `txs`.               *)
ReadersJoined_One == \E r \in Readers : reader[r] = "exited"
ReadersJoined == \A r \in Readers : reader[r] = "exited"

JoinReaders ==
  /\ coord = "readers"
  /\ ReadersJoined
  /\ coord' = "workers"
  /\ UNCHANGED <<queue, envVars, reader, batch, chan, workerVars, joined>>

(* Workers are joined in shard order; `expect` turns the first panicked    *)
(* one into a panic of the coordinator, which drops complete_tx.           *)
JoinWorker ==
  /\ coord = "workers"
  /\ joined < NShards
  /\ \/ /\ worker[joined] = "finished"
        /\ joined' = joined + 1
        /\ UNCHANGED coord
     \/ /\ worker[joined] = "panicked"
        /\ coord' = "panicked"
        /\ UNCHANGED joined
  /\ UNCHANGED <<queue, envVars, reader, batch, chan, workerVars>>

SendComplete ==
  /\ coord = "workers"
  /\ joined = NShards
  /\ coord' = "sent"
  /\ UNCHANGED <<queue, envVars, reader, batch, chan, workerVars, joined>>

(* All threads are gone.                                                   *)
Terminated ==
  /\ coord \in {"sent", "panicked"}
  /\ \A s \in Shards : worker[s] # "running"
  /\ UNCHANGED vars

-----------------------------------------------------------------------------
Reader(r) ==
  \/ FillPop(r) \/ FillEnd(r)
  \/ Send(r) \/ RouteEnd(r)
  \/ CheckDone(r)
  \/ DrainPop(r) \/ DrainExit(r)

Worker(s) == WorkerRecv(s) \/ WorkerPanic(s) \/ WorkerFinish(s)

Coordinator == JoinReaders \/ JoinWorker \/ SendComplete

Next ==
  \/ \E k \in Key : Push(k)
  \/ SetDone
  \/ \E r \in Readers : Reader(r)
  \/ \E s \in Shards : Worker(s)
  \/ Coordinator
  \/ Terminated

(***************************************************************************)
(* Each thread the function spawns is scheduled by the OS; the caller's    *)
(* pushes and its `done` are its own business.                             *)
(***************************************************************************)
Fairness ==
  /\ \A r \in Readers : WF_vars(Reader(r))
  /\ \A s \in Shards : WF_vars(Worker(s))
  /\ WF_vars(Coordinator)

Safety == Init /\ [][Next]_vars

Spec == Safety /\ Fairness

-----------------------------------------------------------------------------
(* Properties.                                                             *)

Offered == {k \in Key : pushed[k] > 0}

(* A key occurs in a sequence of keys.                                     *)
In(k, q) == \E i \in DOMAIN q : q[i] = k

(***************************************************************************)
(* on_key runs at most once for a key over the whole life of the pipeline, *)
(* and in the shard the key's hash selects, whichever reader popped each   *)
(* copy of it and however the copies interleave in the channel.            *)
(***************************************************************************)
OncePerKey == \A k \in Key : calls[k] \in {<<>>, <<Route(k)>>}

(***************************************************************************)
(* The () on the completion channel means that on_key has run for every    *)
(* key that was ever pushed: no key is left in the queue, in a reader's    *)
(* batch, or in a channel that was closed too early.                       *)
(***************************************************************************)
CompletionMeansAllHandled ==
  coord = "sent" => \A k \in Offered : calls[k] = <<Route(k)>>

(***************************************************************************)
(* When the channels are closed, the queue and every reader's batch are    *)
(* empty: one final drain per reader is enough, although `done` is read    *)
(* after the queue was seen empty and other readers pop concurrently.      *)
(***************************************************************************)
NothingStranded ==
  coord # "readers" =>
    /\ queue = <<>>
    /\ \A r \in Readers : batch[r] = <<>>

(***************************************************************************)
(* Until its shard's worker panics, a pushed key is always somewhere: in   *)
(* the queue, in a batch, in its shard's channel, or already in the        *)
(* worker's set.  Back-pressure delays keys and never drops them.          *)
(***************************************************************************)
Located(k) ==
  \/ In(k, queue)
  \/ \E r \in Readers : In(k, batch[r])
  \/ In(k, chan[Route(k)])
  \/ k \in seen[Route(k)]

NoKeyLost ==
  \A k \in Offered : worker[Route(k)] # "panicked" => Located(k)

KD == INSTANCE KeyDedup WITH
        offered <- Offered,
        closed  <- done,
        handled <- [k \in Key |-> Len(calls[k])],
        broken  <- \E s \in Shards : worker[s] = "panicked",
        outcome <- CASE coord = "sent" -> "complete"
                     [] coord = "panicked" -> "disconnected"
                     [] OTHER -> "pending"

(***************************************************************************)
(* The pipeline of threads implements the promise made to its caller.      *)
(***************************************************************************)
ImplementsKeyDedup == KD!Safety

(***************************************************************************)
(* Every key pushed is eventually handled unless a callback panics, and    *)
(* once `done` is set the completion receiver is eventually answered, with *)
(* () or, after a panic, with a disconnection: a panicking callback never  *)
(* leaves readers blocked on a full channel and the caller waiting.        *)
(***************************************************************************)
CallerIsAnswered == KD!Liveness
=============================================================================
