------------------------------ MODULE KeyDedup ------------------------------
(***************************************************************************)
(* What shard_dedup_pubkeys promises its caller, without readers, channels *)
(* or workers: every key offered before the source is closed is handed to  *)
(* the callback exactly once, and the completion receiver yields () only   *)
(* when that has happened.  A callback that panics breaks the promise of   *)
(* delivery, and then the receiver reports a disconnection instead.        *)
(***************************************************************************)
EXTENDS Naturals

CONSTANT Key

VARIABLES
  offered,   \* the keys pushed on the source queue so far
  closed,    \* the caller has set `done`
  handled,   \* how often the callback was invoked for each key
  broken,    \* some invocation of the callback panicked
  outcome    \* what the completion receiver yields

vars == <<offered, closed, handled, broken, outcome>>

TypeOK ==
  /\ offered \in SUBSET Key
  /\ closed \in BOOLEAN
  /\ handled \in [Key -> Nat]
  /\ broken \in BOOLEAN
  /\ outcome \in {"pending", "complete", "disconnected"}

Init ==
  /\ offered = {}
  /\ closed = FALSE
  /\ handled = [k \in Key |-> 0]
  /\ broken = FALSE
  /\ outcome = "pending"

Offer(k) ==
  /\ ~closed
  /\ offered' = offered \cup {k}
  /\ UNCHANGED <<closed, handled, broken, outcome>>

Close ==
  /\ ~closed
  /\ closed' = TRUE
  /\ UNCHANGED <<offered, handled, broken, outcome>>

Handle(k) ==
  /\ k \in offered
  /\ handled[k] = 0
  /\ handled' = [handled EXCEPT ![k] = 1]
  /\ broken' \in {broken, TRUE}
  /\ UNCHANGED <<offered, closed, outcome>>

Complete ==
  /\ outcome = "pending"
  /\ closed
  /\ ~broken
  /\ \A k \in offered : handled[k] = 1
  /\ outcome' = "complete"
  /\ UNCHANGED <<offered, closed, handled, broken>>

Disconnect ==
  /\ outcome = "pending"
  /\ closed
  /\ broken
  /\ outcome' = "disconnected"
  /\ UNCHANGED <<offered, closed, handled, broken>>

Next ==
  \/ \E k \in Key : Offer(k) \/ Handle(k)
  \/ Close
  \/ Complete
  \/ Disconnect

Safety == Init /\ [][Next]_vars

(***************************************************************************)
(* As long as nothing is broken, an offered key is eventually handled; and *)
(* once the source is closed the receiver is eventually answered.          *)
(***************************************************************************)
Liveness ==
  /\ \A k \in Key : (k \in offered) ~> (handled[k] = 1 \/ broken)
  /\ closed ~> (outcome # "pending")

Spec == Safety /\ Liveness
=============================================================================
