# catscope-zerohop in TLA+

A formal model of the concurrent and the data-structure code of
`catscope-zerohop`: TLA+ modules translated from the Rust sources, TLC
configurations that check them on small instances, and TLAPS proofs that hold for
every size. Paths below are relative to the root of the repository's copy
(`src/src/...` is the crate's `src/`).

`PROJECT.json` lists every component, run, mutant, hazard and theorem, and maps
each definition to the source lines it models.

## 1. Inventory

| Component | State | Operations | What is hard | What makes it correct |
|---|---|---|---|---|
| `shard_dedup_pubkeys` (`shard.rs`) | a lock-free queue, a `done` flag, a batch per reader, a bounded channel and a `HashSet` per shard | readers pop and route, workers deduplicate and call `on_key`, a coordinator joins everyone and signals | final drain against concurrent readers, back-pressure, panicking callbacks, closing order | each key handled once; completion means all handled; the caller is always answered |
| `TransactionRing` (`buffer.rs`) | one atomic write cursor, a slot array without locks, a private cursor per consumer | `push`, `try_push`, `consumer`, `try_pop`, `lag`, `is_lapped` | lost CAS, weak memory order, a copy that outlives its claim, lapped consumers | sequence numbers unique and dense; a pop lands on a live slot; only overwritten transactions are skipped |
| `server` and `QuicRequestHandler` (`txfwd.rs`, `quic.rs`, `bin/catfwd.rs`) | shared leader list, shared retry queue behind a mutex, a stop flag, a response that is reused | receive, queue, send to leaders, reply; refresh leaders, expire, resend; shutdown | two threads and a mutex held during network sends, a clock read before the lock, failing leaders and RPC, shutdown at any moment | answers are truthful; a batch is retried until it expires; shutdown ends both threads |
| `get_leader_tpu_addresses` (`quic.rs`) | none | merges slot, schedule and cluster nodes; the current leader's address | leaders without address, duplicates, port saturation | an entry names the leader of its own slot |
| `TransactionRequest` (`quic.rs`) | a fixed buffer, ends of transactions, a count | `append`; decoding in `on_request` | ends and offsets | what was appended is decoded |
| `LocklessQueue` (`queue.rs`) | a lock-free queue and an atomic counter next to it | `enqueue`, `dequeue`, `len`, `is_empty` | two words updated separately, unsigned underflow repaired by blind stores | no wrap-around; bounded error |
| `QueueRing`, `QueueIterator` (`queue.rs`) | two queues, two length counters, an index | `enqueue`, `dequeue` (switch), `next` | pushes that arrive after their queue was drained | no element lost; lengths add up |
| `CatscopeTransaction` (`store.rs`) | instruction lists, shared account and data arrays, tables of 16-bit chunk ends, a sorted account list | `append_outer`, `append_inner`, the write handle and its `Drop`, the readers, `write_to`, `try_from` | indices into shared arrays, truncation to 16 bits, order and alignment of sections | tables in step, list sorted, reading gives what was written |
| result and status codecs (`store.rs`) | none | `result_to_bytes`, `result_from_bytes`, `convert_slot_status_*` | four tables that must agree, variants of newer builds | round trip; unknown bytes are refused |
| `AccountDeleteNotifier` (`read.rs`) | a status per account | `check_send` | long sequences of updates | one delete announcement per deletion |
| relay capacity service (`relay/server.rs`) | two bounded channels and two tasks per stream | `on_status` | a source that stops, a client that goes away while a task waits, a send that is not awaited | statuses complete and in order; neither end is left hanging |
| `SolanaAccount`, `AccountHeader`, `AccountEdge`, `FilterEdge` (`store.rs`, `edge.rs`) | none | comparisons, accessors | | not modelled, see below |
| `TransactionProcessor::batch` (`write.rs`) | none | default loop over a batch | | not modelled, see below |

Interactions: `catfwd` installs a signal thread that sets `shutdown`, builds a
`QuicRequestHandler` and runs `server`, which calls `on_request` for each request of
the iceoryx2 service. The handler shares the leader list and the retry queue with its
background thread and joins it in `Drop`. Requests carry a `TransactionRequest`. The
ring, the queues and the pipeline are libraries used by plugins that live outside the
repository; their callers are modelled as arbitrary threads.

## 2. Modules

| Module | Models | Kind |
|---|---|---|
| `KeyDedup` | what `shard_dedup_pubkeys` promises its caller | abstract specification |
| `ShardDedup` | its reader, worker and coordinator threads | detailed specification, refines `KeyDedup` |
| `ShardDedupProofs` | | proofs about `ShardDedup` |
| `BroadcastLog` | what the ring promises about positions | abstract specification |
| `TransactionRing` | `buffer.rs` | detailed specification, refines `BroadcastLog` |
| `TransactionRingProofs` | | proofs about `TransactionRing` |
| `Forwarder` | `txfwd.rs` `server`, `quic.rs` `QuicRequestHandler` and the leader lookup, the shutdown of `catfwd.rs` | composition of server thread, background thread, clients and time |
| `ForwarderProofs` | | proofs about `Forwarder` |
| `TransactionRequest` | the bundle of `quic.rs` | specification |
| `LocklessQueue` | the counted queue of `queue.rs` | specification |
| `LocklessQueueProofs` | | proofs about `LocklessQueue` |
| `QueueRing` | the batching queue of `queue.rs` | specification |
| `QueueRingProofs` | | proofs about `QueueRing` |
| `CatscopeTransaction` | the builder, the readers and the wire format of `store.rs` | specification |
| `CatscopeTransactionProofs` | | proofs about `CatscopeTransaction` |
| `CapacityRelay` | `CapacityImpl::on_status` of `relay/server.rs` | specification |
| `CapacityRelayProofs` | | proofs about `CapacityRelay` |
| `ResultCodec` | the result and status encodings of `store.rs` | algorithms, checked over all variants |
| `DeleteNotifier` | `AccountDeleteNotifier` of `read.rs` | specification |
| `Feed` | what an event brings to a client | composition of `ResultCodec` and `DeleteNotifier` |
| `FeedProofs` | | proofs about `Feed` |
| `MC*` | | constants for TLC |

An operator `X_Y` next to `X` is a deliberately wrong variant of `X`. Nothing in a
specification uses it; with `X` replaced by it TLC finds a property violated, which
shows that the property depends on that line of the code.

### ShardDedup

`queue` is the `SegQueue`, `chan[s]` a `sync_channel(CHANNEL_CAP)`, `batch[r]` the
reader's `Vec`. A reader is in `fill` (pop up to `BATCH` keys), `route` (send each
one, blocking on a full channel; the error of a dead worker is ignored), `check`
(the batch was empty: look at `done`), `drain` (the loop after `done`) or
`exited`. A worker takes a key, calls `on_key` for a new one and may panic in it, which drops
its channel. The coordinator joins all readers, drops the senders, joins the workers
in order and sends `()`; a worker that panicked makes the join fail and the receiver
disconnect. The hash is a constant function; producers push while `done` is unset,
which is what the function's contract asks of them.

### TransactionRing

A transaction is its sequence number. `Claim` is the compare-and-swap (which may
also fail spuriously), and the copy into the slot reaches memory part by part after
it: the release fence behind the copy orders it only before that producer's next
store, so `Return` does not wait for the parts and the next claim does (`Fenced`).
The copies on their way are kept per sequence number (`unwritten`), and the history
`owner` says who claimed a number: a model without the fence therefore has several
copies of one producer on their way, and an old one that lands late over a newer
transaction. Stores of one thread to one place stay in their order in any case
(`Coherent`). `held` is the reference that `try_pop` returned and `write_pos` the cursor
value that this pop had read.

Two producers can copy into one slot at once when one is a whole ring behind; the code
has no defence against that. `Overtook(n)` are the claims `n` overtook in this way:
claims of its slot by other producers that had not claimed again when `n` was claimed.
`SlotIntegrity` says that each part of a slot holds its newest transaction, is on its
way, or comes from one of these; a producer that did claim again disturbs nothing, which
is what the fence is good for. `ReferenceIsPublished` says what a reference from `try_pop`
shows, and for how long, when the producer had claimed again before the pop read the
cursor. When it had not, a pop may even see uninitialised memory (the finding
`ring_safety_comment`). Cursor overflow (2^64) is out of reach and not modelled.

`BroadcastLog` is the ring without slots and cursors: a log of which the last
`Window` transactions are retained, and consumers that are given the first retained
one they have not passed. `write_cursor` is its end and `read_cursor` a consumer's
place; claims are its `Publish`, and everything else a producer does is a stutter. The
promise is about positions. What a slot holds at that position is `SlotIntegrity`, and
what it need not hold yet is the finding `ring_safety_comment`.

### Forwarder

One variable per field or local that outlives a step. `PendingLocked` is the mutex of
`pending`: `on_request` holds it for one push, which is one step, and the background
thread for the whole pass `LockPending ... PassEnd`. A request therefore waits for the
retry sends of a pass, although the comment at `quic.rs:450-452` says that retries never
contend with `on_request` sends (true of the connection caches it speaks of, not of the
mutex); `RequestsAreAnswered` says that the wait ends. The 50 ms slices of the pause
are `sleep` (a look at `stop` still follows) and `nap` (the last slice); the length
of the pause is `sleep_ms`, between `MinSleep` and `MaxSleep`. Sends and
RPC calls succeed or fail freely. Receiving and answering may fail, and the server
then returns; a bundle whose ends do not fit its data makes `on_request` panic before
it has queued anything (`DecodePanics`), and unwinding drops the handler in the same
way. `attempted` records which batch was retried with which leader. `Init` covers a failed first lookup. A client's request after the
server came down is not modelled.

`LeaderInfos` is `get_leader_tpu_addresses` as a function of the three RPC answers;
the QUIC address of a node wins over its TPU address plus six, and the last listing
of a public key wins over earlier ones. `CurrentLeaderTpuAddress` is the same lookup
for one leader; the program does not call it, so it is an operator and not an action,
and it has no address for an empty answer of the RPC node. `InOrder` is the filter of
an iterator: it keeps the chosen positions of a list in their order.

### LocklessQueue and QueueRing

Every atomic operation is a step. The underlying queues (crate `lockfree`) are
linearizable FIFOs. `LocklessQueue` keeps the length of its queue only, because none
of its properties speaks of elements. In `QueueRing`, `next_i` is kept modulo the
number of queues, an iterator is drained to its end or given up between two calls of
`next` (`Abandon`), which leaves the rest in its queue, and the field `saftey_count`, which nothing reads, is left out.

### CatscopeTransaction, TransactionRequest

A handle (`CatscopeInstructionWrite`) is open between `append_*` and its `Drop`; the
assertions of the handle are the panicking actions. The 16-bit chunk ends are taken
modulo `U16`, which is small in the instance so that they wrap. The count of inner
instructions in `l1_inner` is a `u8`: at `U8` it wraps (`AppendInner`) or panics
(`AppendInnerPanics`), as the build decides. The buffer is a
sequence of cells with the byte arithmetic of `take_slice`, whose first failing check
decides between `OutofRange` and `UnalignedMemory`; signature and index
travel in the header unchanged and are left out, and the 32-bit lengths of the header
do not reach their limit. `append_inner` with an outer index out of range panics before
it changes anything. `Instructions` are the iterators and accessors of the transaction,
`ViewInstructions` the separate ones of the zero-copy view; the round trip compares
the two. Because the chunk number of an instruction is never stored, every `Drop` merges
the accounts of the first chunk, and `AccountSorted` is about those. A handle that is
dropped without `account` and `data` panics in `Drop`, which is what
`test_append_inner` (`src/src/store.rs:1305`) runs into.

### CapacityRelay

One stream. `usages` is the flume channel, `statuses` the tokio channel, whose receiving
end is the client's stream. The forwarding task is in `recv`, in `send` (waiting for
room) or has ended; `watcher` is the second task, which keeps the other sender of the
channel until it has joined the first. The source of the ratios is an implementation
of `usage::Capacity` outside the repository: it reports any ratios, NaN and values outside
of [0, 1] among them, or drops its sender. Ratios are integers in units of 1/`One`.
The futures of `sx.send(...)` in the watcher (`relay/server.rs:91`, `100`) are never
awaited and send nothing: the client sees the end of its stream and no error
status. No comment of the code promises it one, so this is recorded as a hazard and
not as a finding. A task that waits for the next ratio does not notice that its client
has gone; `DepartureIsNoticed` says when it does.

### ResultCodec and DeleteNotifier

Four tables, two per direction, in the order of their discriminants, and the values
with their payloads. `Foreign` are bytes that another build may have written: they are
refused when a discriminant is unknown, and otherwise read as the variant that this
build writes with these discriminants (`Names`).

`check_send` is split into what it lets through (`MaySend`) and what it records
(`Mark`); an update is passed on to the client when it says so. `Feed` puts both
together: what an event brings to a client.

## 3. Runs

| Run | Instance | Checks |
|---|---|---|
| `shard` | 3 keys (one of them pushed twice, two in one shard), 2 readers, 2 shards, channels of 1, batches of 2 | `OncePerKey`, `CompletionMeansAllHandled`, `NothingStranded`, `NoKeyLost`, the refinement `ImplementsKeyDedup`, the liveness `CallerIsAnswered` |
| `ring` | 2 producers, 1 consumer, 2 slots, 5 pushes, copies in 2 parts | `EachClaimOnce`, `SlotIntegrity`, `ReferenceIsPublished`, `LagIsExact`, the refinement `ImplementsBroadcastLog`, the liveness `PushReturns` |
| `forwarder` | 2 requests, 3 leaders (one without address), time-to-live 1, 2 ticks | `RetainedUntilExpired`, `AnswerIsHonest`, `LeadersKeepTheirSlots`, `QuietAfterDown`, and the liveness `EveryBatchIsRetried`, `ExpiredAreDropped`, `RequestsAreAnswered`, `ShutdownCompletes` |
| `lockless_queue` | 3 threads, at most 4 elements, baseline 10 | `CounterNeverWraps`, `OverestimateBounded` |
| `queue_ring` | 2 producers, 2 consumers, 2 elements | `LenAccounting`, `EveryItemYielded` |
| `transaction` | 3 instructions, 2 accounts, chunk ends modulo 3, counts modulo 2 | `SectionsInStep`, `AccountSorted`, `ChunkTables`, `WireRoundTrip` |
| `relay` | ratios below 0, inside, above 1 and NaN, channels of 1 and 2, 4 reports | `DeliveredInOrder`, and the liveness `StreamEnds`, `DepartureIsNoticed` |
| `feed` | 2 accounts; all variants, payloads at their limits, foreign bytes around the ends of the tables | `OneAnnouncementPerDeletion`, `RoundTrip` |

Each also checks the type invariant of its module, except `lockless_queue`: there it
adds nothing to `CounterNeverWraps` (the counter does not wrap) and is only proved. All
of them pass.

Four runs show a place where the code and a comment of the code disagree:

| Run | Says | TLC shows |
|---|---|---|
| `ring_safety_comment` | `buffer.rs:198`: the producer has written to this slot | the cursor is advanced before the slot is written, and a pop can come in between |
| `queue_is_empty` | `queue.rs:122`: true if the queue is empty | one dequeue from an empty queue, one enqueue: `is_empty` is true with one element |
| `transaction_read` | `store.rs:811`, `829`: the data and the accounts of this instruction | the chunk numbers are never stored, and every instruction reads those of the first |
| `request_append` | `quic.rs:592`: appends a transaction, true if successful | the end of a transaction is never written, and the bundle decodes to empty ones |

### Why the bounds are enough

- `shard`: with channels of one slot and two keys in one shard a reader blocks, with
  two readers one drains while the other still routes, and the repeated key arrives
  through both readers. The proofs remove the bounds for everything but liveness.
- `ring`: five pushes over two slots lap a consumer more than once and let a slow
  producer fall a whole ring behind; two parts let a copy be half done.
- `forwarder`: two requests let one be queued while the other is retried; two ticks
  and a time-to-live of one let a batch be fresh, on the edge and expired, and be
  queued between the background thread's look at the clock and its lock. Of the three
  leaders the second has no address, so that the place of the third shifts, and the
  third has a port so high that the addition saturates. The first has an address, which
  the lookup of the current leader then answers with. Requests are finitely many: clients
  that never pause can keep the receive loop from its look at `shutdown`, so
  `ShutdownCompletes` does not cover an endless stream of requests.
- `lockless_queue`: with three threads two repairs overlap a third operation; the
  proofs cover any number.
- `queue_ring`: two producers and two consumers are needed for a late push that meets
  two switches; two elements for one that is counted in one batch and yielded in
  another.
- `transaction`: three instructions mix an outer one with two inner ones or two outer ones with an inner one,
  two accounts each pass the 16-bit limit of the instance, and the second inner
  instruction of an outer one passes the 8-bit limit.
- `relay`: four reports fill the channel of one, the task's hands and the channel of
  two, so that the task waits for room while another ratio waits for the task, and the
  client can leave or the source stop in each of these states.
- `feed`: two accounts show that an update of one does not disturb the other; the
  table of a notifier has three states per account, so longer sequences repeat them.
- `MaxCopies`, `MaxSeq`, `MaxTime`, `MaxSent`, `MaxLen`, `MaxIx`, `MaxAccount`, `MaxData` are
  bounds of the models and not of the code.

### Fairness

- `ShardDedup`: weak fairness of every spawned thread. Pushes and `done` are not
  fair.
- `TransactionRing`: weak fairness of each producer's steps and of its stores
  becoming visible, and strong fairness of its compare-and-swap: a scheduler does not
  let one producer lose for ever, and a weak compare-and-swap fails spuriously only
  finitely often. Nobody is obliged to start a push.
- `Forwarder`: weak fairness of both threads, which includes that sends and RPC calls
  return, and strong fairness of the server's wait for the mutex: the background
  thread releases it for at least 400 ms between two passes. Time, signals and clients are not
  fair. `EveryBatchIsRetried` and `ExpiredAreDropped` have as their premise that lookups
  keep succeeding (the first, that they keep naming the leader in question): while the RPC node fails there is no pass, nothing is retried, and
  nothing is removed from the retry queue.
- `QueueRing`: a started enqueue is finished, and consumers keep taking batches; the
  premise of `EveryItemYielded` is that they give up finitely many.
- `CapacityRelay`: the runtime polls both tasks, and a client that stays reads its
  stream. The source need not report and need not stop.
- The others have no liveness property.

## 4. Proofs

`ShardDedupProofs`, for any keys, hash, number of readers and shards, channel
capacity and batch size (`ShardAssumption`: positive numbers, at least one reader):

- `InvariantHolds`: the conjunction `IInv` is inductive. Its parts are `TypeOK`;
  `KeysAreRouted` (a channel and a set hold keys of their own shard); `CallsMatchSeen`
  (the calls made for a key are those its worker's set accounts for); `OnlyOffered`
  (nothing in the pipeline was not pushed); `NoKeyLost`; `ReadersInv` (a reader
  drains only after `done`, looks at `done` with an empty batch, and leaves an empty batch
  and an empty queue when it exits); `ClosingInv` (the channels are open while a reader
  lives, and a worker that is not running has an empty channel); `JoinInv` (the workers
  joined so far have finished).
- From it: `TypeCorrect`, `CalledOncePerKey`, `NothingLost`, `DrainIsComplete`,
  `CompletionIsSound`. `CompletionMeansAllHandled` is not inductive: it needs to know
  where each key is (`NoKeyLost`), that nothing is left in queue and batches
  (`ReadersInv`, `ClosingInv`) or in a channel (`JoinInv`), and that a key in a set had
  its call (`CallsMatchSeen`).
- `PipelineImplementsPromise`: the threads implement the safety part of `KeyDedup`.
  Reader steps and most worker steps are stutters; the call of `on_key`, the panic and
  the two ends of the coordinator are the steps of the promise.

`LocklessQueueProofs`, for any number of threads below the baseline
(`QueueAssumption`): `TypeCorrect`, `UnderflowIsBounded`, `OverestimateIsBounded`. The
two bounds are inductive together with the types once they count the threads that are
between their two updates; the lemma `AtStep` says how that count changes.

`TransactionRingProofs`, for any ring size, finite set of producers, set of consumers
and number of pushes (`RingAssumption`):

- `IInv` is `TypeOK`, `Bounded` (claims that may still come fit the bound), `SeqBehind`
  (a claimed number is behind the write cursor), `ReadersBehind`, `HeldBehind`,
  `EachClaimOnce`, `OwnersKnown` (exactly the numbers below the cursor have an owner),
  `LastIsUnwritten` (a copy on its way is of its producer's last claim, the fact the
  fence provides), `Initialised` (a slot whose claim has reached memory never becomes
  uninitialised again) and `SlotIntegrity`. `SlotIntegrity` alone is not inductive: it
  needs to know whose copy may still arrive. The arithmetic of the mask (two positions of
  one slot are a ring apart) is in the lemma `SameSlot`.
- From it: `TypeCorrect`, `ClaimedOnce`, `SlotsKeepNewest`, `ReferencesArePublished`,
  `LagExact`.
- `RingImplementsLog`: the ring implements the safety part of `BroadcastLog`. A claim is
  a `Publish`, a pop the delivery of the first retained transaction (`PopDelivers`), and
  every other step a stutter.

`QueueRingProofs`, for any finite sets of producers and elements and any set of consumers:
`LengthsAddUp`, `TypeCorrect`, and `NothingLost` (every element is with its producer, in
a queue or yielded, and in one of these places only). `IInv` says where an element is
(`WaitsOnce`, `TakenOnce`), that their number is conserved (`Conserved`), and
`LenAccounting`. The bound of the length counters in `TypeOK` is not inductive; it
follows from the accounting (`CountersBounded`).

`CapacityRelayProofs`, for any ratios, channel capacities and number of reports:
`TypeCorrect` and `InOrder`. `DeliveredInOrder` speaks of what the client got; `IInv` adds
where the rest is (`OnTheWay`: in the client's channel, in the hands of the task and in
the usage channel, in this order) and why a task or a stream has ended (`Endings`).

`ForwarderProofs`, for any requests, validators, RPC answers, time-to-live and pauses
(`ForwarderAssumption`):

- `AnswersAreHonest`: the response is reused, so `IInv` says which request its count is
  about (`CountIsCurrent`, `CurIsBusy`, `InboxWaits`).
- `KeptUntilExpired`: from `QueuedIsKept`, in which the clock that the background thread
  read before it took the lock is never ahead of the time (`now <= clock`).
- `LeadersInTheirSlots`: about `LeaderInfos` for every RPC answer. `Ranks` and `Filtered`
  say what a filter does to a list, `TpuMapFacts` what the map of addresses holds.
- `QuietWhenDown`, an action property: from `DownIsJoined`.
- `TypeCorrect`.

`CatscopeTransactionProofs`, for any ids, programs, bytes, widths of the counters, and any
number and length of instructions (`TransactionAssumption`):

- `IInv` is `TypeOK` and the types of the history; `InStep` (the tables in step, also
  while a handle is open); `FirstChunk` (chunk numbers are never stored, and an end lies
  in its array, so that `Drop` merges ids that exist); `WriterIsNewest` (the open
  handle is that of the newest instruction); `Placed` (every instruction has a place of
  its own, with its program); `ChunksFilled` (the chunks set so far lie end to end,
  hold what was given and fill the array, unless it outgrew the 16 bits); and
  `AccountSorted`. `ChunkTables` alone says nothing about an open handle and is not
  inductive.
- `TypeCorrect`, `TablesInStep`, `StaysSorted`, `ChunksHoldWhatWasGiven` follow.
  `InsertFacts` and `MergeFacts` are about the insertion into the sorted list,
  `FilledNext` about the next chunk, `TotalBound` and `TotalRaised` about sums.
- `WireIsFaithful`: `LayoutFacts` says that every section lies in the buffer where
  `try_from` takes it (each section stays where it is when the next is put behind it),
  `AlignFacts` that it starts aligned.
- `Merge` and `Total` are recursive functions over the positions of a list. What is
  said of them is proved along the positions with the least-number principle (lemmas
  `Induction` and `Recursion`), which is a first-order fact.

`FeedProofs`, for any accounts, slots, indices and codes, and any bytes of other
programs: `ReadBackAsWritten` (from `TablesAgree`: what one table writes the other
reads; no two entries share a number), `AnnouncedOnce` (from `RecordsLatest`: an entry of the
map says what the newest update said), and `TypeCorrect`.

Only model-checked: the liveness properties `CallerIsAnswered`, `PushReturns`,
`EveryBatchIsRetried`, `ExpiredAreDropped`, `RequestsAreAnswered`, `ShutdownCompletes`,
`EveryItemYielded`, `StreamEnds` and `DepartureIsNoticed`, because fairness and `ENABLED`
are outside the prover's reach. The four violations are counterexamples and need no
proof. Every invariant and every safety property of the passing runs is a theorem.

## 5. Not modelled

- Traits without an implementation here (plugin interface, `GraphClient`,
  `PubkeyMap`, `CatscopeReader`, `CatscopeWriter`), constants and re-exports.
- `SolanaQuicClient` apart from its batch send, which succeeds or fails as a whole in
  `Forwarder`: certificates and a wrapper around the connection cache.
- `SolanaAccount`, `AccountHeader`, `AccountEdge`, `FilterEdge`: plain data, accessors
  that reinterpret a blob, edges compared field by field and headers by slot. Nothing in the
  repository sorts or searches them, so nothing the system does depends on the order.
- `TransactionProcessor::batch`: the default method of a trait without an
  implementation here, a stateless loop that returns the first error. A model would
  restate it and have nothing to check.
- The set-up of the iceoryx2 service, logging, the protobuf code and `relay/handler.rs`
  (not part of the compiled crate).
- `util.rs`: reinterpretation of bytes and a length check.
- The one-byte codes of `CatscopeZerohopError`: nothing decodes them.

## 6. Plan

Done, in this order: the pipeline and its promise with proofs; the ring; the
forwarder; the two queues, with proofs of the counter; the transaction record, the
bundle and the codecs; the log that the ring implements, the relay, the delete
notifier, and the remaining operations of the forwarder, the batching queue and the
transaction record; the proofs of all safety properties. What is not modelled is listed
above.

Next:

1. What the counted queue promises beyond its bounds: which elements a dequeue may miss
   while a repair is on its way.
2. Sufficient conditions for the liveness properties that are safety properties (a
   thread that waits always has one that can wake it), which can be proved.
3. `TransactionRequest`: what `append` keeps although it does not write the ends.
