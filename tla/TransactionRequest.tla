------------------------- MODULE TransactionRequest -------------------------
(***************************************************************************)
(* TransactionRequest (src/src/quic.rs): the fixed-size bundle in which a  *)
(* client hands transactions to catfwd.  append copies one transaction     *)
(* into the bundle; on_request cuts the bundle up again by the ends in     *)
(* `list`.  Indices are zero-based, as in the code.                        *)
(***************************************************************************)
EXTENDS Naturals, Sequences, SequencesExt

CONSTANTS
  Byte,                \* values of transaction bytes other than the initial 0
  MAX_TX_BUNDLE_SIZE,  \* the most transactions of a bundle
  MAX_TX_SIZE          \* the most bytes of a transaction

VARIABLES
  count,     \* number of transactions
  list,      \* where each transaction ends in `data`
  data,      \* the bytes of all transactions
  accepted   \* history: the transactions for which append returned true

vars == <<count, list, data, accepted>>

DataSize == MAX_TX_SIZE * MAX_TX_BUNDLE_SIZE

TypeOK ==
  /\ count \in 0 .. MAX_TX_BUNDLE_SIZE
  /\ list \in [0 .. MAX_TX_BUNDLE_SIZE - 1 -> 0 .. DataSize]
  /\ data \in [0 .. DataSize - 1 -> Byte \cup {0}]
  /\ accepted \in Seq(Seq(Byte))

Init ==
  /\ count = 0
  /\ list = [i \in 0 .. MAX_TX_BUNDLE_SIZE - 1 |-> 0]
  /\ data = [j \in 0 .. DataSize - 1 |-> 0]
  /\ accepted = <<>>

(* Where the transaction with number i begins.                             *)
Start(i) == IF i = 0 THEN 0 ELSE list[i - 1]

(* append(d) on a full bundle returns false at once.  Otherwise it counts  *)
(* the transaction, and then returns false if d is too long, or copies d   *)
(* to the place where the last one ended and returns true.                 *)
AppendTx(d) ==
  /\ count < MAX_TX_BUNDLE_SIZE
  /\ count' = count + 1
  /\ IF Len(d) > MAX_TX_SIZE
     THEN UNCHANGED <<data, accepted>>
     ELSE /\ data' = [j \in DOMAIN data |->
                        IF j \in Start(count) .. Start(count) + Len(d) - 1
                        THEN d[j - Start(count) + 1] ELSE data[j]]
          /\ accepted' = Append(accepted, d)
  /\ UNCHANGED list

Next == \E d \in SeqOf(Byte, MAX_TX_SIZE + 1) : AppendTx(d)

Spec == Init /\ [][Next]_vars

(* The transactions on_request finds in the bundle.                        *)
Decoded ==
  [i \in 1 .. count |->
     [j \in 1 .. list[i - 1] - Start(i - 1) |-> data[Start(i - 1) + j - 1]]]

(***************************************************************************)
(* What the doc comment of append says: it appends a transaction and       *)
(* returns true if successful.  So on_request finds in a bundle exactly    *)
(* the transactions for which append returned true.                        *)
(***************************************************************************)
AppendedIsDecoded == Decoded = accepted
=============================================================================
