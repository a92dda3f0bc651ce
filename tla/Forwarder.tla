------------------------------ MODULE Forwarder -----------------------------
(***************************************************************************)
(* The catfwd process: server (src/src/txfwd.rs) takes requests from an    *)
(* iceoryx2 service one at a time and answers each with the result of      *)
(* QuicRequestHandler::on_request (src/src/quic.rs), which queues the      *)
(* batch for retry and sends it to every known leader.  A background       *)
(* thread refreshes the leader list over RPC, drops expired batches and    *)
(* sends the others again.  Dropping the handler stops and joins it.       *)
(*                                                                         *)
(* A batch is identified with the request that carried it.  Leaders answer *)
(* a send or fail it, the RPC node answers or fails, time passes.  The     *)
(* answers to the three RPC calls of one refresh are taken together.       *)
(***************************************************************************)
EXTENDS Naturals, Sequences, FiniteSets

CONSTANTS
  Req,           \* requests of the clients, each sent at most once
  Pubkey,        \* identities of validators
  Ip,            \* their IP addresses
  RpcAnswers,    \* what the RPC node may say of slot, leaders and nodes
  TTL,           \* PENDING_TX_TTL, in ticks
  MinSleep,      \* the pause between two refreshes, 400 ms
  MaxSleep,      \* its limit while the RPC node fails, 5000 ms
  MaxTime,       \* bound: the last tick
  None           \* no value

MaxPort == 65535
Addr == Ip \X (0 .. MaxPort)

(* A cluster node; a pubkey that does not parse is None.                   *)
Node == [pubkey : Pubkey \cup {None}, tpu_quic : Addr \cup {None},
         tpu : Addr \cup {None}]

RpcAnswer == [slot : Nat, leaders : Seq(Pubkey), nodes : Seq(Node)]

LeaderTpuInfo == [pubkey : Pubkey, slot : Nat, tpu_quic_addr : Addr]

ASSUME ForwarderAssumption ==
  /\ RpcAnswers \subseteq RpcAnswer
  /\ TTL \in Nat \ {0}
  /\ MinSleep \in Nat /\ MaxSleep \in Nat /\ MinSleep <= MaxSleep
  /\ MaxTime \in Nat
  /\ None \notin Req \cup Nat \cup Pubkey \cup Addr

VARIABLES
  clock,        \* Instant::now()
  shutdown,     \* set by the signal thread
  inbox,        \* requests waiting in the service, in order
  reply,        \* what each client has got so far
  server,       \* program counter of the server thread
  cur,          \* the request being handled
  left,         \* leaders of the snapshot still to be sent to
  sent_count,   \* response.sent_count, a field of the handler
  l_leader,     \* the shared leader list
  pending,      \* the shared queue of batches to retry
  stop,         \* refresh_stop
  refresh,      \* program counter of the background thread
  sleep_ms,     \* its current pause
  fetched,      \* the leader list it got last
  now,          \* the instant it read before it locked `pending`
  jobs,         \* the sends it still has to do while it holds that lock
  queuedAt,     \* history: when each batch was queued
  accepted,     \* history: batches some leader took from on_request
  attempted     \* history: the retries made, batch and address

envVars     == <<clock, shutdown>>
clientVars  == <<inbox, reply>>
handlerVars == <<cur, left, sent_count, queuedAt, accepted>>
passVars    == <<sleep_ms, fetched, now, jobs, attempted>>
sharedVars  == <<l_leader, pending, stop>>
serverVars  == <<server, handlerVars>>
refreshVars == <<refresh, passVars>>

vars == <<envVars, clientVars, serverVars, refreshVars, sharedVars>>

PendingBatch == [txs : Req, sent_at : Nat]

TypeOK ==
  /\ clock \in 0 .. MaxTime
  /\ shutdown \in BOOLEAN
  /\ inbox \in Seq(Req)
  /\ reply \in [Req -> {"unsent", "waiting", "ok", "error", "lost"}]
  /\ server \in {"check", "receive", "queue", "snapshot", "send", "drop",
                 "join", "down"}
  /\ cur \in Req \cup {None}
  /\ left \in Seq(LeaderTpuInfo)
  /\ sent_count \in Nat
  /\ l_leader \in Seq(LeaderTpuInfo)
  /\ pending \in Seq(PendingBatch)
  /\ stop \in BOOLEAN
  /\ refresh \in {"sleep", "nap", "fetch", "publish", "lock", "resend", "exited"}
  /\ sleep_ms \in MinSleep .. MaxSleep
  /\ fetched \in Seq(LeaderTpuInfo)
  /\ now \in 0 .. MaxTime
  /\ jobs \in Seq(Req \X Addr)
  /\ queuedAt \in [Req -> Nat \cup {None}]
  /\ accepted \in SUBSET Req
  /\ attempted \in SUBSET (Req \X Addr)

-----------------------------------------------------------------------------
(* get_leader_tpu_addresses.                                               *)

(* Solana validators expose TPU QUIC six ports above TPU; the addition     *)
(* saturates.                                                              *)
TpuQuicPort(port) == IF port + 6 > MaxPort THEN MaxPort ELSE port + 6
ToTpuQuicAddr(a) == <<a[1], TpuQuicPort(a[2])>>

Listed(n) == n.pubkey # None /\ (n.tpu_quic # None \/ n.tpu # None)
NodeAddr(n) == IF n.tpu_quic # None THEN n.tpu_quic ELSE ToTpuQuicAddr(n.tpu)

(* The map of addresses: the last listing of a pubkey counts.              *)
TpuMap(nodes) ==
  LET Of(k) == {j \in DOMAIN nodes : Listed(nodes[j]) /\ nodes[j].pubkey = k}
      Last(k) == CHOOSE j \in Of(k) : \A i \in Of(k) : i <= j
  IN  [k \in {x \in Pubkey : Of(x) # {}} |-> NodeAddr(nodes[Last(k)])]

(* What a filter leaves of a list: f is the list on the positions that are *)
(* kept, and its values move together, in their order.                     *)
Rank(D, i) == Cardinality({j \in D : j <= i})
InOrder(f) ==
  [n \in 1 .. Cardinality(DOMAIN f) |-> f[CHOOSE i \in DOMAIN f : Rank(DOMAIN f, i) = n]]

(* Leaders with a known address, each with the slot it leads.              *)
LeaderInfos_Compact(a) ==
  LET tpu_map == TpuMap(a.nodes)
      known == InOrder([i \in {j \in DOMAIN a.leaders : a.leaders[j] \in DOMAIN tpu_map} |->
                          a.leaders[i]])
  IN  [i \in DOMAIN known |-> [pubkey |-> known[i], slot |-> a.slot + i - 1,
                               tpu_quic_addr |-> tpu_map[known[i]]]]
LeaderInfos(a) ==
  LET tpu_map == TpuMap(a.nodes)
      known == {j \in DOMAIN a.leaders : a.leaders[j] \in DOMAIN tpu_map}
  IN  InOrder([i \in known |-> [pubkey |-> a.leaders[i], slot |-> a.slot + i - 1,
                                tpu_quic_addr |-> tpu_map[a.leaders[i]]]])

LeaderLists == {LeaderInfos(a) : a \in RpcAnswers}

(* get_current_leader_tpu_address asks for one leader only; the answer may *)
(* hold none.                                                              *)
CurrentLeaderTpuAddress(a) ==
  LET infos == LeaderInfos([a EXCEPT !.leaders = IF @ = <<>> THEN <<>> ELSE <<Head(@)>>])
  IN  IF infos = <<>> THEN None ELSE infos[1].tpu_quic_addr

-----------------------------------------------------------------------------
(* The initial leader fetch is best effort.                                *)
Init ==
  /\ clock = 0
  /\ shutdown = FALSE
  /\ inbox = <<>>
  /\ reply = [r \in Req |-> "unsent"]
  /\ server = "check"
  /\ cur = None
  /\ left = <<>>
  /\ sent_count = 0
  /\ l_leader \in LeaderLists \cup {<<>>}
  /\ pending = <<>>
  /\ stop = FALSE
  /\ refresh = "sleep"
  /\ sleep_ms = MinSleep
  /\ fetched = <<>>
  /\ now = 0
  /\ jobs = <<>>
  /\ queuedAt = [r \in Req |-> None]
  /\ accepted = {}
  /\ attempted = {}

-----------------------------------------------------------------------------
(* The environment: time, the signal thread, the clients.                  *)

Tick ==
  /\ clock < MaxTime
  /\ clock' = clock + 1
  /\ UNCHANGED <<shutdown, clientVars, serverVars, refreshVars, sharedVars>>

Signal ==
  /\ ~shutdown
  /\ shutdown' = TRUE
  /\ UNCHANGED <<clock, clientVars, serverVars, refreshVars, sharedVars>>

ClientSend(r) ==
  /\ reply[r] = "unsent"
  /\ server # "down"
  /\ inbox' = Append(inbox, r)
  /\ reply' = [reply EXCEPT ![r] = "waiting"]
  /\ UNCHANGED <<envVars, serverVars, refreshVars, sharedVars>>

-----------------------------------------------------------------------------
(* The mutex around `pending`.  on_request holds it for one push_back; the *)
(* background thread holds it for a whole pass of retries.                 *)
PendingLocked == refresh = "resend"

(* The server thread.                                                      *)

(* The outer loop is the only place that looks at `shutdown`.              *)
Check ==
  /\ server = "check"
  /\ server' = IF shutdown THEN "drop" ELSE "receive"
  /\ UNCHANGED <<envVars, clientVars, handlerVars, refreshVars, sharedVars>>

(* on_request starts with sent_count = 0.                                  *)
ResetCount_Missing == sent_count
ResetCount == 0

Receive ==
  /\ server = "receive"
  /\ inbox # <<>>
  /\ cur' = Head(inbox)
  /\ inbox' = Tail(inbox)
  /\ sent_count' = ResetCount
  /\ server' = "queue"
  /\ UNCHANGED <<envVars, reply, left, queuedAt, accepted,
                 refreshVars, sharedVars>>

(* A bundle whose ends do not fit its data cannot be cut up: on_request    *)
(* panics before it queues anything, and the handler is dropped.           *)
DecodePanics ==
  /\ server = "receive"
  /\ inbox # <<>>
  /\ reply' = [reply EXCEPT ![Head(inbox)] = "lost"]
  /\ inbox' = Tail(inbox)
  /\ server' = "drop"
  /\ UNCHANGED <<envVars, handlerVars, refreshVars, sharedVars>>

(* Nothing to receive: sleep and look at `shutdown` again.                 *)
ReceiveNone ==
  /\ server = "receive"
  /\ inbox = <<>>
  /\ server' = "check"
  /\ UNCHANGED <<envVars, clientVars, handlerVars, refreshVars, sharedVars>>

(* The batch is queued for retry before the first attempt to send it; the  *)
(* instant is read with the lock held.                                     *)
QueuePending ==
  /\ server = "queue"
  /\ ~PendingLocked
  /\ pending' = Append(pending, [txs |-> cur, sent_at |-> clock])
  /\ queuedAt' = [queuedAt EXCEPT ![cur] = clock]
  /\ server' = "snapshot"
  /\ UNCHANGED <<envVars, clientVars, cur, left, sent_count,
                 accepted, refreshVars, l_leader, stop>>

Snapshot ==
  /\ server = "snapshot"
  /\ left' = l_leader
  /\ server' = "send"
  /\ UNCHANGED <<envVars, clientVars, cur, sent_count, queuedAt,
                 accepted, refreshVars, sharedVars>>

(* A batch goes to one address over one connection, as a whole: it is      *)
(* taken, or the connection fails and that is an error.                    *)
SendWireTransactionsBatch == {"Ok", "ConnectionError"}

(* One leader after the other; a failed send is only logged.               *)
SendLeader ==
  /\ server = "send"
  /\ left # <<>>
  /\ left' = Tail(left)
  /\ \E result \in SendWireTransactionsBatch :
       IF result = "Ok" THEN /\ sent_count' = sent_count + 1
                             /\ accepted' = accepted \cup {cur}
                        ELSE UNCHANGED <<sent_count, accepted>>
  /\ UNCHANGED <<envVars, clientVars, server, cur, queuedAt,
                 refreshVars, sharedVars>>

(* What on_request returns, Err(OutofRange) when nobody took the batch.    *)
Result_Silent == IF sent_count = 0 THEN "waiting" ELSE "ok"
Result == IF sent_count = 0 THEN "error" ELSE "ok"

(* Either result goes back to the client.  When send_copy fails the server *)
(* returns that error.                                                     *)
Reply ==
  /\ server = "send"
  /\ left = <<>>
  /\ \/ /\ reply' = [reply EXCEPT ![cur] = Result]
        /\ server' = "receive"
     \/ /\ reply' = [reply EXCEPT ![cur] = "lost"]
        /\ server' = "drop"
  /\ cur' = None
  /\ UNCHANGED <<envVars, inbox, left, sent_count, queuedAt,
                 accepted, refreshVars, sharedVars>>

(* receive() itself fails and ends the server.                             *)
ReceiveFails ==
  /\ server = "receive"
  /\ server' = "drop"
  /\ UNCHANGED <<envVars, clientVars, handlerVars, refreshVars, sharedVars>>

(* server returns and drops the handler: stop the background thread ...    *)
DropHandler ==
  /\ server = "drop"
  /\ stop' = TRUE
  /\ server' = "join"
  /\ UNCHANGED <<envVars, clientVars, handlerVars, refreshVars, l_leader, pending>>

(* ... and wait for it.                                                    *)
Joined_Detached == TRUE
Joined == refresh = "exited"

JoinRefresh ==
  /\ server = "join"
  /\ Joined
  /\ server' = "down"
  /\ UNCHANGED <<envVars, clientVars, handlerVars, refreshVars, sharedVars>>

-----------------------------------------------------------------------------
(* The background thread.                                                  *)

SeesStop_Never == FALSE
SeesStop == stop

(* The pause is cut into 50 ms steps with a look at `stop` before each:    *)
(* "sleep" is every moment of it that such a look still follows.           *)
SleepStop ==
  /\ refresh = "sleep"
  /\ SeesStop
  /\ refresh' = "exited"
  /\ UNCHANGED <<envVars, clientVars, serverVars, sharedVars, passVars>>

LastStep ==
  /\ refresh = "sleep"
  /\ ~SeesStop
  /\ refresh' = "nap"
  /\ UNCHANGED <<envVars, clientVars, serverVars, sharedVars, passVars>>

SleepDone ==
  /\ refresh = "nap"
  /\ refresh' = "fetch"
  /\ UNCHANGED <<envVars, clientVars, serverVars, sharedVars, passVars>>

FetchOk ==
  /\ refresh = "fetch"
  /\ fetched' \in LeaderLists
  /\ sleep_ms' = MinSleep
  /\ refresh' = "publish"
  /\ UNCHANGED <<envVars, clientVars, serverVars, sharedVars,
                 now, jobs, attempted>>

Backoff_Uncapped == sleep_ms * 2
Backoff == IF sleep_ms * 2 < MaxSleep THEN sleep_ms * 2 ELSE MaxSleep

FetchErr ==
  /\ refresh = "fetch"
  /\ sleep_ms' = Backoff
  /\ refresh' = "sleep"
  /\ UNCHANGED <<envVars, clientVars, serverVars, sharedVars,
                 fetched, now, jobs, attempted>>

(* The list is published, and the instant is read before the lock.         *)
Publish ==
  /\ refresh = "publish"
  /\ l_leader' = fetched
  /\ now' = clock
  /\ refresh' = "lock"
  /\ UNCHANGED <<envVars, clientVars, serverVars, pending, stop,
                 sleep_ms, fetched, jobs, attempted>>

(* now.duration_since(sent_at) saturates: a batch queued after `now` was   *)
(* read has age zero.                                                      *)
Age_Wraps(b) == IF now >= b.sent_at THEN now - b.sent_at ELSE MaxTime
Age(b) == IF now >= b.sent_at THEN now - b.sent_at ELSE 0

Retain_All(q) == q
Retain(q) == InOrder([i \in {j \in DOMAIN q : Age(q[j]) < TTL} |-> q[i]])

(* For every batch, every leader, in this order.                           *)
Jobs(q, l) ==
  [i \in 1 .. Len(q) * Len(l) |->
     <<q[((i - 1) \div Len(l)) + 1].txs, l[((i - 1) % Len(l)) + 1].tpu_quic_addr>>]

LockPending ==
  /\ refresh = "lock"
  /\ pending' = Retain(pending)
  /\ jobs' = Jobs(Retain(pending), fetched)
  /\ refresh' = "resend"
  /\ UNCHANGED <<envVars, clientVars, serverVars, l_leader, stop,
                 sleep_ms, fetched, now, attempted>>

(* What is left to do after a send that failed: the error is only logged.  *)
AfterFailure_Abort(js) == <<>>
AfterFailure(js) == Tail(js)

Resend ==
  /\ refresh = "resend"
  /\ jobs # <<>>
  /\ \E result \in SendWireTransactionsBatch :
       jobs' = IF result = "Ok" THEN Tail(jobs) ELSE AfterFailure(jobs)
  /\ attempted' = attempted \cup {Head(jobs)}
  /\ UNCHANGED <<envVars, clientVars, serverVars, sharedVars,
                 refresh, sleep_ms, fetched, now>>

(* End of the pass: the lock is released, the locals go out of scope.      *)
PassEnd ==
  /\ refresh = "resend"
  /\ jobs = <<>>
  /\ refresh' = "sleep"
  /\ fetched' = <<>>
  /\ now' = 0
  /\ UNCHANGED <<envVars, clientVars, serverVars, sharedVars,
                 sleep_ms, jobs, attempted>>

-----------------------------------------------------------------------------
Down ==
  /\ server = "down"
  /\ UNCHANGED vars

Server ==
  \/ Check \/ Receive \/ ReceiveNone
  \/ QueuePending \/ Snapshot \/ SendLeader \/ Reply
  \/ DropHandler \/ JoinRefresh

Refresh ==
  \/ SleepStop \/ LastStep \/ SleepDone
  \/ FetchOk \/ FetchErr
  \/ Publish \/ LockPending \/ Resend \/ PassEnd

Next ==
  \/ Tick \/ Signal
  \/ \E r \in Req : ClientSend(r)
  \/ Server \/ ReceiveFails \/ DecodePanics
  \/ Refresh
  \/ Down

(***************************************************************************)
(* Both threads are scheduled, and every send and RPC call returns.  The   *)
(* background thread pauses at least 400 ms between two passes, so that a  *)
(* server waiting for the mutex gets it in some pause.                     *)
(***************************************************************************)
Fairness ==
  /\ WF_vars(Server)
  /\ SF_vars(QueuePending)
  /\ WF_vars(Refresh)

Spec == Init /\ [][Next]_vars /\ Fairness

-----------------------------------------------------------------------------
(* Properties.                                                             *)

Queued(r)  == queuedAt[r] # None
Expired(r) == Queued(r) /\ clock >= queuedAt[r] + TTL

(***************************************************************************)
(* A batch stays in the retry queue for at least PENDING_TX_TTL after it   *)
(* was queued, also when it was queued between the moment the background   *)
(* thread read the clock and the moment it got the lock.                   *)
(***************************************************************************)
RetainedUntilExpired ==
  \A r \in Req : Queued(r) /\ ~Expired(r) =>
    \E i \in DOMAIN pending : pending[i].txs = r

(***************************************************************************)
(* A client is told success exactly when some leader took its own batch    *)
(* from on_request, whatever the handler's reused response said before.    *)
(***************************************************************************)
AnswerIsHonest ==
  \A r \in Req :
    /\ reply[r] = "ok" => r \in accepted
    /\ reply[r] = "error" => r \notin accepted

(* An address the lookup of the current leader gives is one that the first *)
(* of the slot leaders advertises.                                         *)
CurrentLeaderIsFirst ==
  \A a \in RpcAnswers :
    CurrentLeaderTpuAddress(a) # None =>
      \E j \in DOMAIN a.nodes :
        /\ a.nodes[j].pubkey = a.leaders[1]
        /\ CurrentLeaderTpuAddress(a) = NodeAddr(a.nodes[j])

(***************************************************************************)
(* Whatever the background thread publishes, and also when leaders without *)
(* a known address were left out, an entry of the shared list names the    *)
(* leader of its own slot, with an address its node advertises; and the    *)
(* lookup of the current leader never answers with the address of a later  *)
(* one.                                                                    *)
(***************************************************************************)
LeadersKeepTheirSlots ==
  /\ \A i \in DOMAIN l_leader :
       LET e == l_leader[i] IN
       \E a \in RpcAnswers :
         /\ \E j \in DOMAIN a.leaders :
              e.slot = a.slot + j - 1 /\ e.pubkey = a.leaders[j]
         /\ \E j \in DOMAIN a.nodes :
              a.nodes[j].pubkey = e.pubkey /\ e.tpu_quic_addr = NodeAddr(a.nodes[j])
  /\ CurrentLeaderIsFirst

(***************************************************************************)
(* Once server has returned, no thread sends a batch, publishes leaders or *)
(* touches the retry queue any more.                                       *)
(***************************************************************************)
QuietAfterDown ==
  [][server = "down" => UNCHANGED <<attempted, accepted, l_leader, pending>>]_vars

(* The addresses of a list of leaders, and of all lists there may be.      *)
Addrs(list) == {list[i].tpu_quic_addr : i \in DOMAIN list}
LeaderAddrs == UNION {Addrs(list) : list \in LeaderLists}

(***************************************************************************)
(* As long as the RPC node keeps naming a leader, the background thread    *)
(* tries every queued batch with that leader unless the batch expires      *)
(* first: one that refuses a batch keeps neither the later leaders nor the *)
(* later batches from their turn.                                          *)
(***************************************************************************)
EveryBatchIsRetried ==
  \A a \in LeaderAddrs :
    ([]<><<FetchOk /\ a \in Addrs(fetched')>>_vars) =>
      \A r \in Req : Queued(r) ~> (<<r, a>> \in attempted \/ Expired(r))

(***************************************************************************)
(* As long as lookups succeed, an expired batch leaves the retry queue:    *)
(* the queue does not grow for ever, and a dead batch is not sent again.   *)
(***************************************************************************)
ExpiredAreDropped ==
  ([]<><<FetchOk>>_vars) =>
    \A r \in Req :
      Expired(r) ~> \A i \in DOMAIN pending : pending[i].txs # r

(***************************************************************************)
(* A request in the service is answered while the server lives, whether or *)
(* not a leader took the batch, and however long the background thread     *)
(* keeps the retry queue locked.                                           *)
(***************************************************************************)
RequestsAreAnswered ==
  \A r \in Req : reply[r] = "waiting" ~> (reply[r] # "waiting" \/ server = "down")

(***************************************************************************)
(* After SIGINT or SIGTERM the finitely many requests are served and       *)
(* catfwd comes down, in whatever state the background thread is.          *)
(***************************************************************************)
ShutdownCompletes == shutdown ~> server = "down"
=============================================================================
