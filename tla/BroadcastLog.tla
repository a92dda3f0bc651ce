---------------------------- MODULE BroadcastLog ----------------------------
(***************************************************************************)
(* What the broadcast ring of src/src/buffer.rs promises about positions:  *)
(* a log of which the last Window transactions are retained.  A consumer   *)
(* starts at the end of the log and is given retained transactions in the  *)
(* order of the log; it misses one only if that was no longer retained.    *)
(* "Slow consumers can be overwritten (lossy)", and nobody else is.        *)
(***************************************************************************)
EXTENDS Naturals

CONSTANTS
  Consumer,    \* consumer handles
  Window,      \* how many transactions are retained
  None         \* no transaction

VARIABLES
  end,         \* how many transactions have been given a place in the log
  joined,      \* the consumers that take part
  next,        \* the first transaction each of them has not passed yet
  given        \* the transaction each of them is looking at

vars == <<end, joined, next, given>>

Init ==
  /\ end = 0
  /\ joined = {}
  /\ next = [c \in Consumer |-> 0]
  /\ given = [c \in Consumer |-> None]

Retained(n) == n < end /\ end <= n + Window

Publish ==
  /\ end' = end + 1
  /\ UNCHANGED <<joined, next, given>>

Join(c) ==
  /\ c \notin joined
  /\ joined' = joined \cup {c}
  /\ next' = [next EXCEPT ![c] = end]
  /\ UNCHANGED <<end, given>>

Deliver(c) ==
  /\ c \in joined
  /\ given[c] = None
  /\ \E n \in next[c] .. end - 1 :
       /\ Retained(n)
       /\ \A m \in next[c] .. n - 1 : ~Retained(m)
       /\ given' = [given EXCEPT ![c] = n]
       /\ next' = [next EXCEPT ![c] = n + 1]
  /\ UNCHANGED <<end, joined>>

Release(c) ==
  /\ given[c] # None
  /\ given' = [given EXCEPT ![c] = None]
  /\ UNCHANGED <<end, joined, next>>

Next ==
  \/ Publish
  \/ \E c \in Consumer : Join(c) \/ Deliver(c) \/ Release(c)

Spec == Init /\ [][Next]_vars
=============================================================================
