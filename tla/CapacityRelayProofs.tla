------------------------- MODULE CapacityRelayProofs ------------------------
(***************************************************************************)
(* Proofs about CapacityRelay, for any usage ratios, any capacities of the *)
(* two channels and any number of reports.                                 *)
(***************************************************************************)
EXTENDS CapacityRelay, SequenceTheorems, TLAPS

-----------------------------------------------------------------------------
(* The inductive invariant.                                                *)

(* What the client has read are the idle ratios of the first reports.      *)
GotFirst ==
  /\ Len(got) <= Len(sent)
  /\ \A i \in 1 .. Len(got) : got[i] = Idle(sent[i])

(* As long as the client is there, every other report is on its way: in    *)
(* the client's channel, in the hands of the task, or in the usage         *)
(* channel, in this order.                                                 *)
OnTheWay ==
  client # "gone" =>
    /\ Len(sent) = Len(got) + Len(statuses) + Len(msg) + Len(usages)
    /\ \A i \in 1 .. Len(statuses) : statuses[i] = Idle(sent[Len(got) + i])
    /\ \A i \in 1 .. Len(msg) : msg[i] = Idle(sent[Len(got) + Len(statuses) + i])
    /\ \A i \in 1 .. Len(usages) :
         usages[i] = sent[Len(got) + Len(statuses) + Len(msg) + i]

(* Why the tasks and the stream have ended.                                *)
Endings ==
  /\ task = "ended" => usages = <<>> /\ (source = "dropped" \/ client = "gone")
  /\ client = "ended" => task = "ended" /\ statuses = <<>>

IInv == TypeOK /\ GotFirst /\ OnTheWay /\ Endings

(* The clamped idle ratio is a ratio between 0 and 1, or NaN.              *)
LEMMA IdleType == ASSUME NEW u \in Usage PROVE Idle(u) \in Status
<1>1. CASE u = NaN
  BY <1>1 DEF Idle, Status
<1>2. CASE u # NaN
  <2>1. u \in Int /\ One \in Nat
    BY <1>2, RelayAssumption
  <2> QED BY <1>2, <2>1 DEF Idle, Status
<1> QED BY <1>1, <1>2

(* The initial state satisfies the invariant.                              *)
LEMMA InitInv == Init => IInv
<1> SUFFICES ASSUME Init PROVE IInv
  OBVIOUS
<1>1. TypeOK
  BY RelayAssumption DEF Init, TypeOK
<1> QED BY <1>1 DEF Init, IInv, GotFirst, OnTheWay, Endings

(* Types, action by action.                                                *)
LEMMA TypeInv == ASSUME TypeOK, Next PROVE TypeOK'
<1> USE RelayAssumption
<1>1. ASSUME NEW u \in Usage, Report(u) PROVE TypeOK'
  BY <1>1 DEF TypeOK, Report, taskVars, clientVars
<1>2. CASE DropSource
  BY <1>2 DEF TypeOK, DropSource, taskVars, clientVars
<1>3. CASE Recv
  <2>1. Head(usages) \in Usage /\ Tail(usages) \in Seq(Usage) /\ Len(Tail(usages)) <= UsageCap
    BY <1>3 DEF TypeOK, Recv
  <2>2. Idle(Head(usages)) \in Status
    BY <2>1, IdleType
  <2>3. <<Idle(Head(usages))>> \in Seq(Status) /\ Len(<<Idle(Head(usages))>>) = 1
    BY <2>2
  <2> QED BY <1>3, <2>1, <2>3 DEF TypeOK, Recv, sourceVars, clientVars
<1>4. CASE RecvFails
  BY <1>4 DEF TypeOK, RecvFails, sourceVars, clientVars
<1>5. CASE SendStatus
  <2>1. /\ statuses \in Seq(Status) /\ msg \in Seq(Status)
        /\ Len(msg) = 1 /\ Len(statuses) < StatusCap
    BY <1>5 DEF TypeOK, SendStatus
  <2>2. /\ statuses \o msg \in Seq(Status)
        /\ Len(statuses \o msg) = Len(statuses) + Len(msg)
    BY <2>1, ConcatProperties
  <2>3. Len(statuses \o msg) <= StatusCap
    BY <2>1, <2>2
  <2> QED BY <1>5, <2>2, <2>3 DEF TypeOK, SendStatus, sourceVars, clientVars
<1>6. CASE SendFails
  BY <1>6 DEF TypeOK, SendFails, AfterSendFails, sourceVars, clientVars
<1>7. CASE WatcherEnds
  BY <1>7 DEF TypeOK, WatcherEnds, sourceVars, taskVars, clientVars
<1>8. CASE Read
  <2>1. Head(statuses) \in Status /\ Tail(statuses) \in Seq(Status)
        /\ Len(Tail(statuses)) <= StatusCap
    BY <1>8 DEF TypeOK, Read
  <2> QED BY <1>8, <2>1 DEF TypeOK, Read, sourceVars, taskVars
<1>9. CASE StreamEnd
  BY <1>9 DEF TypeOK, StreamEnd, sourceVars, taskVars
<1>10. CASE Leave
  BY <1>10 DEF TypeOK, Leave, sourceVars, taskVars
<1>11. CASE Closed
  BY <1>11 DEF TypeOK, Closed, vars
<1> QED BY <1>1, <1>2, <1>3, <1>4, <1>5, <1>6, <1>7, <1>8, <1>9, <1>10, <1>11
        DEF Next, Task, Stream

-----------------------------------------------------------------------------
(* Order.                                                                  *)

(* What a send does to a channel.                                          *)
LEMMA Appended ==
  ASSUME NEW S, NEW s \in Seq(S), NEW x \in S
  PROVE  /\ Len(s) \in Nat /\ Len(Append(s, x)) = Len(s) + 1
         /\ \A i \in 1 .. Len(s) : Append(s, x)[i] = s[i]
         /\ Append(s, x)[Len(s) + 1] = x
OBVIOUS

(* What a receive does to a channel.                                       *)
LEMMA Received ==
  ASSUME NEW S, NEW s \in Seq(S), s # <<>>
  PROVE  /\ Len(s) \in Nat /\ Len(s) >= 1 /\ Len(Tail(s)) = Len(s) - 1
         /\ Head(s) = s[1] /\ Head(s) \in S
         /\ \A i \in 1 .. Len(s) - 1 : Tail(s)[i] = s[i + 1]
<1>1. Len(s) \in Nat /\ Len(s) >= 1
  OBVIOUS
<1>2. Len(Tail(s)) = Len(s) - 1
  BY <1>1
<1>3. Head(s) = s[1] /\ Head(s) \in S
  BY <1>1
<1>4. \A i \in 1 .. Len(s) - 1 : Tail(s)[i] = s[i + 1]
  BY <1>1
<1> QED BY <1>1, <1>2, <1>3, <1>4

(* Every step keeps the reports in order: what leaves one stage enters the *)
(* next one, at its end.                                                   *)
LEMMA OrderInv == ASSUME IInv, Next PROVE GotFirst' /\ OnTheWay' /\ Endings'
<1> DEFINE Goal == GotFirst' /\ OnTheWay' /\ Endings'
<1>1. /\ TypeOK /\ GotFirst /\ OnTheWay /\ Endings
  BY DEF IInv
<1>2. /\ usages \in Seq(Usage) /\ sent \in Seq(Usage) /\ msg \in Seq(Status)
      /\ statuses \in Seq(Status) /\ got \in Seq(Status)
  BY <1>1 DEF TypeOK
<1>3. /\ Len(usages) \in Nat /\ Len(sent) \in Nat /\ Len(msg) \in Nat
      /\ Len(statuses) \in Nat /\ Len(got) \in Nat
  BY <1>2
<1>4. ASSUME NEW u \in Usage, Report(u) PROVE Goal
  <2>1. /\ task # "ended" /\ usages' = Append(usages, u) /\ sent' = Append(sent, u)
        /\ UNCHANGED <<source, task, msg, watcher, statuses, client, got>>
    BY <1>4 DEF Report, taskVars, clientVars
  <2>2. /\ Len(sent') = Len(sent) + 1 /\ sent'[Len(sent) + 1] = u
        /\ \A i \in 1 .. Len(sent) : sent'[i] = sent[i]
    BY <1>2, <2>1, Appended
  <2>3. /\ Len(usages') = Len(usages) + 1 /\ usages'[Len(usages) + 1] = u
        /\ \A i \in 1 .. Len(usages) : usages'[i] = usages[i]
    BY <1>2, <2>1, Appended
  <2>4. GotFirst'
    BY <1>1, <1>3, <2>1, <2>2 DEF GotFirst
  <2>5. Endings'
    BY <1>1, <2>1 DEF Endings
  <2>6. OnTheWay'
    <3> SUFFICES ASSUME client # "gone"
                 PROVE  /\ Len(sent') = Len(got) + Len(statuses) + Len(msg) + Len(usages')
                        /\ \A i \in 1 .. Len(statuses) : statuses[i] = Idle(sent'[Len(got) + i])
                        /\ \A i \in 1 .. Len(msg) : msg[i] = Idle(sent'[Len(got) + Len(statuses) + i])
                        /\ \A i \in 1 .. Len(usages') :
                             usages'[i] = sent'[Len(got) + Len(statuses) + Len(msg) + i]
      BY <2>1 DEF OnTheWay
    <3>1. /\ Len(sent) = Len(got) + Len(statuses) + Len(msg) + Len(usages)
          /\ \A i \in 1 .. Len(statuses) : statuses[i] = Idle(sent[Len(got) + i])
          /\ \A i \in 1 .. Len(msg) : msg[i] = Idle(sent[Len(got) + Len(statuses) + i])
          /\ \A i \in 1 .. Len(usages) :
               usages[i] = sent[Len(got) + Len(statuses) + Len(msg) + i]
      BY <1>1 DEF OnTheWay
    <3>2. Len(sent') = Len(got) + Len(statuses) + Len(msg) + Len(usages')
      BY <1>3, <2>2, <2>3, <3>1
    <3>3. \A i \in 1 .. Len(statuses) : statuses[i] = Idle(sent'[Len(got) + i])
      BY <1>3, <2>2, <3>1
    <3>4. \A i \in 1 .. Len(msg) : msg[i] = Idle(sent'[Len(got) + Len(statuses) + i])
      BY <1>3, <2>2, <3>1
    <3>5. \A i \in 1 .. Len(usages') :
            usages'[i] = sent'[Len(got) + Len(statuses) + Len(msg) + i]
      <4> SUFFICES ASSUME NEW i \in 1 .. Len(usages')
                   PROVE  usages'[i] = sent'[Len(got) + Len(statuses) + Len(msg) + i]
        OBVIOUS
      <4> DEFINE j == Len(got) + Len(statuses) + Len(msg) + i
      <4>1. CASE i \in 1 .. Len(usages)
        <5>1. j \in 1 .. Len(sent)
          BY <1>3, <3>1, <4>1
        <5>2. usages'[i] = usages[i] /\ usages[i] = sent[j]
          BY <2>3, <3>1, <4>1
        <5> HIDE DEF j
        <5>3. sent'[j] = sent[j]
          BY <2>2, <5>1
        <5> QED BY <5>2, <5>3 DEF j
      <4>2. CASE i \notin 1 .. Len(usages)
        <5>1. i = Len(usages) + 1
          BY <1>3, <2>3, <4>2
        <5>2. j = Len(sent) + 1
          BY <1>3, <3>1, <5>1
        <5> QED BY <2>2, <2>3, <5>1, <5>2
      <4> QED BY <4>1, <4>2
    <3> QED BY <3>2, <3>3, <3>4, <3>5
  <2> QED BY <2>4, <2>5, <2>6
<1>5. CASE DropSource
  <2>1. source' = "dropped" /\ UNCHANGED <<usages, task, msg, statuses, client, sent, got>>
    BY <1>5 DEF DropSource, taskVars, clientVars
  <2> QED BY <1>1, <2>1 DEF GotFirst, OnTheWay, Endings
<1>6. CASE Recv
  <2>1. /\ usages # <<>> /\ task = "recv" /\ task' = "send"
        /\ usages' = Tail(usages) /\ msg' = <<Idle(Head(usages))>>
        /\ UNCHANGED <<source, sent, statuses, client, got>>
    BY <1>6 DEF Recv, sourceVars, clientVars
  <2>2. /\ Len(usages) >= 1 /\ Len(usages') = Len(usages) - 1 /\ Head(usages) = usages[1]
        /\ \A i \in 1 .. Len(usages) - 1 : usages'[i] = usages[i + 1]
    BY <1>2, <2>1, Received
  <2>3. Len(msg) = 0 /\ Len(msg') = 1 /\ msg'[1] = Idle(usages[1])
    BY <1>1, <2>1, <2>2 DEF TypeOK
  <2>4. GotFirst' /\ Endings'
    BY <1>1, <2>1 DEF GotFirst, Endings
  <2>5. OnTheWay'
    <3> SUFFICES ASSUME client # "gone"
                 PROVE  /\ Len(sent) = Len(got) + Len(statuses) + Len(msg') + Len(usages')
                        /\ \A i \in 1 .. Len(statuses) : statuses[i] = Idle(sent[Len(got) + i])
                        /\ \A i \in 1 .. Len(msg') : msg'[i] = Idle(sent[Len(got) + Len(statuses) + i])
                        /\ \A i \in 1 .. Len(usages') :
                             usages'[i] = sent[Len(got) + Len(statuses) + Len(msg') + i]
      BY <2>1 DEF OnTheWay
    <3>1. /\ Len(sent) = Len(got) + Len(statuses) + Len(msg) + Len(usages)
          /\ \A i \in 1 .. Len(statuses) : statuses[i] = Idle(sent[Len(got) + i])
          /\ \A i \in 1 .. Len(usages) :
               usages[i] = sent[Len(got) + Len(statuses) + Len(msg) + i]
      BY <1>1 DEF OnTheWay
    <3>2. usages[1] = sent[Len(got) + Len(statuses) + 1]
      BY <1>3, <2>2, <2>3, <3>1
    <3>3. \A i \in 1 .. Len(msg') : msg'[i] = Idle(sent[Len(got) + Len(statuses) + i])
      BY <1>3, <2>3, <3>2
    <3>4. \A i \in 1 .. Len(usages') :
            usages'[i] = sent[Len(got) + Len(statuses) + Len(msg') + i]
      <4> SUFFICES ASSUME NEW i \in 1 .. Len(usages')
                   PROVE  usages'[i] = sent[Len(got) + Len(statuses) + Len(msg') + i]
        OBVIOUS
      <4>1. i + 1 \in 1 .. Len(usages) /\ usages'[i] = usages[i + 1]
        BY <1>3, <2>2
      <4>2. Len(got) + Len(statuses) + Len(msg) + (i + 1) = Len(got) + Len(statuses) + Len(msg') + i
        BY <1>3, <2>3
      <4> QED BY <3>1, <4>1, <4>2
    <3>5. Len(sent) = Len(got) + Len(statuses) + Len(msg') + Len(usages')
      BY <1>3, <2>2, <2>3, <3>1
    <3> QED BY <3>1, <3>3, <3>4, <3>5
  <2> QED BY <2>4, <2>5
<1>7. CASE RecvFails
  <2>1. /\ usages = <<>> /\ usages' = <<>> /\ source = "dropped" /\ task' = "ended"
        /\ UNCHANGED <<source, sent, msg, statuses, client, got>>
    BY <1>7 DEF RecvFails, Disconnected, sourceVars, clientVars
  <2> QED BY <1>1, <2>1 DEF GotFirst, OnTheWay, Endings
<1>8. CASE SendStatus
  <2>1. /\ task = "send" /\ task' = "recv" /\ client = "reading"
        /\ statuses' = statuses \o msg /\ msg' = <<>>
        /\ UNCHANGED <<source, sent, usages, client, got>>
    BY <1>8 DEF SendStatus, sourceVars, clientVars
  <2>2. Len(msg) = 1 /\ Len(msg') = 0
    BY <1>1, <2>1 DEF TypeOK
  <2>3. /\ Len(statuses') = Len(statuses) + 1
        /\ \A i \in 1 .. Len(statuses') :
             statuses'[i] = IF i <= Len(statuses) THEN statuses[i] ELSE msg[i - Len(statuses)]
    <3>1. /\ Len(statuses \o msg) = Len(statuses) + Len(msg)
          /\ \A i \in 1 .. Len(statuses) + Len(msg) :
               (statuses \o msg)[i] =
                 IF i <= Len(statuses) THEN statuses[i] ELSE msg[i - Len(statuses)]
      BY <1>2, ConcatProperties
    <3> QED BY <2>1, <2>2, <3>1
  <2>4. GotFirst' /\ Endings'
    BY <1>1, <2>1 DEF GotFirst, Endings
  <2>5. /\ Len(sent) = Len(got) + Len(statuses) + Len(msg) + Len(usages)
        /\ \A i \in 1 .. Len(statuses) : statuses[i] = Idle(sent[Len(got) + i])
        /\ \A i \in 1 .. Len(msg) : msg[i] = Idle(sent[Len(got) + Len(statuses) + i])
        /\ \A i \in 1 .. Len(usages) :
             usages[i] = sent[Len(got) + Len(statuses) + Len(msg) + i]
    BY <1>1, <2>1 DEF OnTheWay
  <2>6. \A i \in 1 .. Len(statuses') : statuses'[i] = Idle(sent[Len(got) + i])
    <3> SUFFICES ASSUME NEW i \in 1 .. Len(statuses')
                 PROVE  statuses'[i] = Idle(sent[Len(got) + i])
      OBVIOUS
    <3>1. CASE i <= Len(statuses)
      BY <1>3, <2>3, <2>5, <3>1
    <3>2. CASE ~(i <= Len(statuses))
      <4>1. i = Len(statuses) + 1 /\ i - Len(statuses) = 1 /\ 1 \in 1 .. Len(msg)
        BY <1>3, <2>2, <2>3, <3>2
      <4>2. statuses'[i] = msg[1] /\ Len(got) + Len(statuses) + 1 = Len(got) + i
        BY <1>3, <2>3, <3>2, <4>1
      <4> QED BY <2>5, <4>1, <4>2
    <3> QED BY <3>1, <3>2
  <2>7. Len(got) + Len(statuses') + Len(msg') = Len(got) + Len(statuses) + Len(msg)
    BY <1>3, <2>2, <2>3
  <2>8. OnTheWay'
    <3>1. Len(sent') = Len(got') + Len(statuses') + Len(msg') + Len(usages')
      BY <1>3, <2>1, <2>5, <2>7
    <3>2. \A i \in 1 .. Len(statuses') : statuses'[i] = Idle(sent'[Len(got') + i])
      BY <2>1, <2>6
    <3>3. \A i \in 1 .. Len(msg') : msg'[i] = Idle(sent'[Len(got') + Len(statuses') + i])
      BY <2>2
    <3>4. \A i \in 1 .. Len(usages') :
            usages'[i] = sent'[Len(got') + Len(statuses') + Len(msg') + i]
      BY <2>1, <2>5, <2>7
    <3> QED BY <3>1, <3>2, <3>3, <3>4 DEF OnTheWay
  <2> QED BY <2>4, <2>8
<1>9. CASE SendFails
  <2>1. /\ client = "gone" /\ usages' = <<>> /\ task' = "ended"
        /\ UNCHANGED <<source, sent, client, got>>
    BY <1>9 DEF SendFails, AfterSendFails, sourceVars, clientVars
  <2> QED BY <1>1, <2>1 DEF GotFirst, OnTheWay, Endings
<1>10. CASE WatcherEnds
  <2>1. UNCHANGED <<source, usages, task, msg, statuses, client, sent, got>>
    BY <1>10 DEF WatcherEnds, sourceVars, taskVars, clientVars
  <2> QED BY <1>1, <2>1 DEF GotFirst, OnTheWay, Endings
<1>11. CASE Read
  <2>1. /\ client = "reading" /\ statuses # <<>>
        /\ got' = Append(got, Head(statuses)) /\ statuses' = Tail(statuses)
        /\ UNCHANGED <<source, sent, usages, task, msg, client>>
    BY <1>11 DEF Read, sourceVars, taskVars
  <2>2. /\ Len(statuses) >= 1 /\ Len(statuses') = Len(statuses) - 1
        /\ Head(statuses) = statuses[1] /\ Head(statuses) \in Status
        /\ \A i \in 1 .. Len(statuses) - 1 : statuses'[i] = statuses[i + 1]
    BY <1>2, <2>1, Received
  <2>3. /\ Len(got') = Len(got) + 1 /\ got'[Len(got) + 1] = statuses[1]
        /\ \A i \in 1 .. Len(got) : got'[i] = got[i]
    BY <1>2, <2>1, <2>2, Appended
  <2>4. /\ Len(sent) = Len(got) + Len(statuses) + Len(msg) + Len(usages)
        /\ \A i \in 1 .. Len(statuses) : statuses[i] = Idle(sent[Len(got) + i])
        /\ \A i \in 1 .. Len(msg) : msg[i] = Idle(sent[Len(got) + Len(statuses) + i])
        /\ \A i \in 1 .. Len(usages) :
             usages[i] = sent[Len(got) + Len(statuses) + Len(msg) + i]
    BY <1>1, <2>1 DEF OnTheWay
  <2>5. statuses[1] = Idle(sent[Len(got) + 1])
    BY <1>3, <2>2, <2>4
  <2>6. GotFirst'
    <3>1. Len(got') <= Len(sent)
      BY <1>3, <2>2, <2>3, <2>4
    <3>2. \A i \in 1 .. Len(got') : got'[i] = Idle(sent[i])
      BY <1>1, <1>3, <2>3, <2>5 DEF GotFirst
    <3> QED BY <2>1, <3>1, <3>2 DEF GotFirst
  <2>7. Endings'
    BY <1>1, <2>1 DEF Endings
  <2>8. Len(got') + Len(statuses') = Len(got) + Len(statuses)
    BY <1>3, <2>2, <2>3
  <2>9. \A i \in 1 .. Len(statuses') : statuses'[i] = Idle(sent[Len(got') + i])
    <3> SUFFICES ASSUME NEW i \in 1 .. Len(statuses')
                 PROVE  statuses'[i] = Idle(sent[Len(got') + i])
      OBVIOUS
    <3>1. i + 1 \in 1 .. Len(statuses) /\ statuses'[i] = statuses[i + 1]
      BY <1>3, <2>2
    <3>2. Len(got) + (i + 1) = Len(got') + i
      BY <1>3, <2>3
    <3> QED BY <2>4, <3>1, <3>2
  <2>10. OnTheWay'
    BY <1>3, <2>1, <2>4, <2>8, <2>9 DEF OnTheWay
  <2> QED BY <2>6, <2>7, <2>10
<1>12. CASE StreamEnd
  <2>1. /\ statuses = <<>> /\ task = "ended" /\ client = "reading" /\ client' = "ended"
        /\ UNCHANGED <<source, sent, usages, task, msg, statuses, got>>
    BY <1>12 DEF StreamEnd, SendersDropped, sourceVars, taskVars
  <2> QED BY <1>1, <2>1 DEF GotFirst, OnTheWay, Endings
<1>13. CASE Leave
  <2>1. client' = "gone" /\ UNCHANGED <<source, sent, usages, task, msg, got>>
    BY <1>13 DEF Leave, sourceVars, taskVars
  <2> QED BY <1>1, <2>1 DEF GotFirst, OnTheWay, Endings
<1>14. CASE Closed
  BY <1>1, <1>14 DEF Closed, vars, GotFirst, OnTheWay, Endings
<1> QED BY <1>4, <1>5, <1>6, <1>7, <1>8, <1>9, <1>10, <1>11, <1>12, <1>13, <1>14
        DEF Next, Task, Stream

-----------------------------------------------------------------------------
(* The theorems.                                                           *)

(* The inductive invariant holds in every behaviour of the relay.          *)
THEOREM InvariantHolds == Spec => []IInv
<1>1. IInv /\ [Next]_vars => IInv'
  <2> SUFFICES ASSUME IInv, [Next]_vars PROVE IInv'
    OBVIOUS
  <2>1. CASE Next
    BY <2>1, TypeInv, OrderInv DEF IInv
  <2>2. CASE UNCHANGED vars
    BY <2>2 DEF vars, IInv, TypeOK, GotFirst, OnTheWay, Endings
  <2> QED BY <2>1, <2>2
<1> QED BY <1>1, InitInv, PTL DEF Spec

(* Both channels stay within their capacities, and every status is a ratio *)
(* between 0 and 1 or NaN.                                                 *)
THEOREM TypeCorrect == Spec => []TypeOK
<1>1. IInv => TypeOK
  BY DEF IInv
<1> QED BY <1>1, InvariantHolds, PTL

(* The client of on_status reads the idle ratios in the order of the       *)
(* reports, and its stream ends by itself only after it has read them all. *)
THEOREM InOrder == Spec => []DeliveredInOrder
<1>1. ASSUME IInv PROVE DeliveredInOrder
  <2>1. /\ sent \in Seq(Usage) /\ got \in Seq(Status) /\ Len(got) \in Nat /\ Len(sent) \in Nat
        /\ Len(got) <= Len(sent) /\ \A i \in 1 .. Len(got) : got[i] = Idle(sent[i])
    BY <1>1 DEF IInv, TypeOK, GotFirst
  <2>2. /\ Idles(sent) \in Seq(Status) /\ Len(Idles(sent)) = Len(sent)
        /\ \A i \in 1 .. Len(sent) : Idles(sent)[i] = Idle(sent[i])
    <3>1. DOMAIN sent = 1 .. Len(sent) /\ \A i \in 1 .. Len(sent) : sent[i] \in Usage
      BY <2>1
    <3>2. Idles(sent) = [i \in 1 .. Len(sent) |-> Idle(sent[i])]
      BY <3>1 DEF Idles
    <3>3. \A i \in 1 .. Len(sent) : Idle(sent[i]) \in Status
      BY <3>1, IdleType
    <3> QED BY <2>1, <3>2, <3>3
  <2>3. IsPrefix(got, Idles(sent))
    <3>1. SubSeq(got, 1, Len(got)) = SubSeq(Idles(sent), 1, Len(got))
      BY <2>1, <2>2
    <3> QED BY <2>1, <2>2, <3>1 DEF IsPrefix
  <2>4. ASSUME client = "ended" PROVE source = "dropped" /\ got = Idles(sent)
    <3>1. /\ task = "ended" /\ statuses = <<>> /\ usages = <<>> /\ source = "dropped"
      BY <1>1, <2>4 DEF IInv, Endings
    <3>2. Len(msg) = 0
      BY <1>1, <3>1 DEF IInv, TypeOK
    <3>3. Len(sent) = Len(got)
      BY <1>1, <2>1, <2>4, <3>1, <3>2 DEF IInv, OnTheWay
    <3>4. got = Idles(sent)
      BY <2>1, <2>2, <3>3
    <3> QED BY <3>1, <3>4
  <2> QED BY <2>3, <2>4 DEF DeliveredInOrder
<1>2. IInv => DeliveredInOrder
  BY <1>1
<1> QED BY <1>2, InvariantHolds, PTL
=============================================================================
