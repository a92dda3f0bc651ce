---------------------------- MODULE CapacityRelay ---------------------------
(***************************************************************************)
(* One stream of the relay's Capacity service, CapacityImpl::on_status of  *)
(* src/src/relay/server.rs.  A source of usage ratios feeds a bounded      *)
(* flume channel; a task turns each into the idle ratio and sends it on a  *)
(* bounded tokio channel whose receiving end is the client's stream.  A    *)
(* second task, the watcher, waits for the first one and holds another     *)
(* sender of the second channel until then.                                *)
(*                                                                         *)
(* Ratios are integers in units of 1/One, or NaN.  The source may stop at  *)
(* any moment and the client may leave at any moment.                      *)
(***************************************************************************)
EXTENDS Integers, Sequences, SequencesExt

CONSTANTS
  Usage,        \* the ratios the source may report
  One,          \* the ratio 1.0
  NaN,          \* the ratio that is not a number
  UsageCap,     \* capacity of the flume channel, 64
  StatusCap,    \* capacity of the tokio channel, 64
  MaxSent       \* bound: how many ratios the source reports

ASSUME RelayAssumption ==
  /\ One \in Nat
  /\ Usage \subseteq Int \cup {NaN}
  /\ NaN \notin Int
  /\ UsageCap \in Nat \ {0}
  /\ StatusCap \in Nat \ {0}
  /\ MaxSent \in Nat

VARIABLES
  source,      \* "open", or "dropped": the sender handed to us.on_status
  usages,      \* the flume channel
  task,        \* the forwarding task: "recv", "send" or "ended"
  msg,         \* the status it is sending, as a sequence of at most one
  watcher,     \* "join" while it holds its sender, then "ended"
  statuses,    \* the tokio channel
  client,      \* "reading", "gone", or "ended": the stream is finished
  sent,        \* history: the ratios the source has reported
  got          \* history: the statuses the client has read

vars == <<source, usages, task, msg, watcher, statuses, client, sent, got>>

sourceVars == <<source, sent>>
taskVars   == <<task, msg>>
clientVars == <<client, got>>

Status == 0 .. One \cup {NaN}

TypeOK ==
  /\ source \in {"open", "dropped"}
  /\ usages \in Seq(Usage) /\ Len(usages) <= UsageCap
  /\ task \in {"recv", "send", "ended"}
  /\ msg \in Seq(Status) /\ Len(msg) = IF task = "send" THEN 1 ELSE 0
  /\ watcher \in {"join", "ended"}
  /\ statuses \in Seq(Status) /\ Len(statuses) <= StatusCap
  /\ client \in {"reading", "gone", "ended"}
  /\ sent \in Seq(Usage) /\ Len(sent) <= MaxSent
  /\ got \in Seq(Status)

Init ==
  /\ source = "open"
  /\ usages = <<>>
  /\ task = "recv"
  /\ msg = <<>>
  /\ watcher = "join"
  /\ statuses = <<>>
  /\ client = "reading"
  /\ sent = <<>>
  /\ got = <<>>

-----------------------------------------------------------------------------
(* The source.  A send waits for room, and fails once the task is gone.    *)

Report(u) ==
  /\ source = "open"
  /\ task # "ended"
  /\ Len(sent) < MaxSent
  /\ Len(usages) < UsageCap
  /\ usages' = Append(usages, u)
  /\ sent' = Append(sent, u)
  /\ UNCHANGED <<source, taskVars, watcher, statuses, clientVars>>

DropSource ==
  /\ source = "open"
  /\ source' = "dropped"
  /\ UNCHANGED <<usages, taskVars, watcher, statuses, clientVars, sent>>

-----------------------------------------------------------------------------
(* The forwarding task.                                                    *)

(* The idle ratio, clamped; both comparisons are false of NaN.             *)
Idle_Unclamped(u) == IF u = NaN THEN NaN ELSE One - u
Idle(u) ==
  CASE u = NaN -> NaN
    [] u # NaN /\ u < 0 -> One
    [] u # NaN /\ One < u -> 0
    [] OTHER -> One - u

Recv ==
  /\ task = "recv"
  /\ usages # <<>>
  /\ usages' = Tail(usages)
  /\ msg' = <<Idle(Head(usages))>>
  /\ task' = "send"
  /\ UNCHANGED <<sourceVars, watcher, statuses, clientVars>>

(* recv_async fails when the sender is gone and the channel is empty.      *)
Disconnected_Early == source = "dropped"
Disconnected == source = "dropped" /\ usages = <<>>

RecvFails ==
  /\ task = "recv"
  /\ Disconnected
  /\ task' = "ended"
  /\ usages' = <<>>
  /\ UNCHANGED <<sourceVars, msg, watcher, statuses, clientVars>>

(* send waits for room in the client's channel ...                         *)
SendStatus ==
  /\ task = "send"
  /\ client = "reading"
  /\ Len(statuses) < StatusCap
  /\ statuses' = statuses \o msg
  /\ msg' = <<>>
  /\ task' = "recv"
  /\ UNCHANGED <<sourceVars, usages, watcher, clientVars>>

(* ... and fails when the client has gone: the task returns, and with it   *)
(* the receiver of the usage channel goes.                                 *)
AfterSendFails_Ignored == "recv"
AfterSendFails == "ended"

SendFails ==
  /\ task = "send"
  /\ client = "gone"
  /\ task' = AfterSendFails
  /\ msg' = <<>>
  /\ usages' = IF task' = "ended" THEN <<>> ELSE usages
  /\ UNCHANGED <<sourceVars, watcher, statuses, clientVars>>

-----------------------------------------------------------------------------
(* The watcher always finds an error, since the task has no other result.  *)
(* It makes the future that would send a status about it and drops that    *)
(* unawaited, so nothing is sent; its sender is dropped with it.           *)
WatcherEnds ==
  /\ watcher = "join"
  /\ task = "ended"
  /\ watcher' = "ended"
  /\ UNCHANGED <<sourceVars, usages, taskVars, statuses, clientVars>>

-----------------------------------------------------------------------------
(* The client's stream.                                                    *)

Read ==
  /\ client = "reading"
  /\ statuses # <<>>
  /\ got' = Append(got, Head(statuses))
  /\ statuses' = Tail(statuses)
  /\ UNCHANGED <<sourceVars, usages, taskVars, watcher, client>>

(* The channel is closed when both its senders are gone.                   *)
SendersDropped_Leaked == FALSE
SendersDropped == task = "ended" /\ watcher = "ended"

StreamEnd ==
  /\ client = "reading"
  /\ statuses = <<>>
  /\ SendersDropped
  /\ client' = "ended"
  /\ UNCHANGED <<sourceVars, usages, taskVars, watcher, statuses, got>>

Leave ==
  /\ client = "reading"
  /\ client' = "gone"
  /\ statuses' = <<>>
  /\ UNCHANGED <<sourceVars, usages, taskVars, watcher, got>>

-----------------------------------------------------------------------------
Closed ==
  /\ source = "dropped"
  /\ watcher = "ended"
  /\ client # "reading"
  /\ UNCHANGED vars

Task == Recv \/ RecvFails \/ SendStatus \/ SendFails
Stream == Read \/ StreamEnd

Next ==
  \/ \E u \in Usage : Report(u)
  \/ DropSource
  \/ Task \/ WatcherEnds
  \/ Stream \/ Leave
  \/ Closed

(***************************************************************************)
(* The runtime polls both tasks, and a client that stays reads its stream. *)
(* The source need not report and need not stop; nobody need leave.        *)
(***************************************************************************)
Fairness == WF_vars(Task) /\ WF_vars(WatcherEnds) /\ WF_vars(Stream)

Spec == Init /\ [][Next]_vars /\ Fairness

-----------------------------------------------------------------------------
(* Properties.                                                             *)

Idles(us) == [i \in DOMAIN us |-> Idle(us[i])]

(***************************************************************************)
(* The client reads the idle ratios of what the source reported, in order, *)
(* none left out, whichever channel is full; and its stream ends by itself *)
(* only after the source has stopped and the client has read everything.   *)
(***************************************************************************)
DeliveredInOrder ==
  /\ IsPrefix(got, Idles(sent))
  /\ client = "ended" => source = "dropped" /\ got = Idles(sent)

(***************************************************************************)
(* When the source stops, a client that stays sees the end of its stream:  *)
(* no sender of its channel survives the two tasks.                        *)
(***************************************************************************)
StreamEnds == source = "dropped" ~> client # "reading"

(***************************************************************************)
(* When the client has gone, the first ratio the task gets from then on    *)
(* ends both tasks, also when the task was waiting for room: a departed    *)
(* client does not keep the source, whose later sends fail, occupied.      *)
(***************************************************************************)
DepartureIsNoticed ==
  (client = "gone" /\ (usages # <<>> \/ task = "send"))
    ~> (task = "ended" /\ watcher = "ended")
=============================================================================
