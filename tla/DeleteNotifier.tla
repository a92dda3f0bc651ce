---------------------------- MODULE DeleteNotifier --------------------------
(***************************************************************************)
(* AccountDeleteNotifier of src/src/read.rs: of the account updates meant  *)
(* for a client, check_send lets through every one with lamports and the   *)
(* first of a run of updates without, which announces the deletion.        *)
(***************************************************************************)
EXTENDS Naturals

CONSTANTS
  AccountId    \* the accounts that are updated

(* Of an AccountHeader, check_send looks at two fields; of the lamports it *)
(* matters whether there are any.                                          *)
AccountHeader == [account_id : AccountId, lamports : {0, 1}]

VARIABLES
  m_account_id,   \* the AccountDeleteSentStatus of the accounts seen so far
  latest,         \* history: what the newest update says of each account
  announced       \* history: how many deletions the client was told in a row

notifierVars == <<m_account_id, latest, announced>>

NotifierInit ==
  /\ m_account_id = <<>>
  /\ latest = [a \in AccountId |-> "none"]
  /\ announced = [a \in AccountId |-> 0]

(* entry(...).or_insert(NotSent).                                          *)
Entry(header) ==
  LET a == header.account_id
  IN  IF a \in DOMAIN m_account_id THEN m_account_id[a] ELSE "NotSent"

(* What is let through.                                                    *)
MaySend(header) == 0 < header.lamports \/ Entry(header) # "DeleteSent"

(* What the entry becomes; a deletion is recorded also for an account the  *)
(* client has not seen.                                                    *)
Mark_OnlySeen(header) ==
  IF 0 < header.lamports THEN "Sent"
  ELSE IF Entry(header) = "NotSent" THEN "NotSent" ELSE "DeleteSent"
Mark_Sticky(header) ==
  IF 0 < header.lamports /\ Entry(header) # "DeleteSent" THEN "Sent" ELSE "DeleteSent"
Mark(header) == IF 0 < header.lamports THEN "Sent" ELSE "DeleteSent"

(* An update is passed on to the client when check_send says so.           *)
CheckSend(header) ==
  LET a == header.account_id
  IN  /\ m_account_id' = [b \in DOMAIN m_account_id \cup {a} |->
                            IF b = a THEN Mark(header) ELSE m_account_id[b]]
      /\ latest' = [latest EXCEPT ![a] = IF 0 < header.lamports THEN "live" ELSE "deleted"]
      /\ announced' = [announced EXCEPT ![a] =
           IF ~MaySend(header) THEN @
           ELSE IF 0 < header.lamports THEN 0 ELSE @ + 1]

NotifierNext == \E header \in AccountHeader : CheckSend(header)

-----------------------------------------------------------------------------
(* Properties.                                                             *)

(* No account that was updated is left in the state NotSent.               *)
NotifierTypeOK ==
  /\ DOMAIN m_account_id = {a \in AccountId : latest[a] # "none"}
  /\ \A a \in DOMAIN m_account_id : m_account_id[a] \in {"Sent", "DeleteSent"}
  /\ latest \in [AccountId -> {"none", "live", "deleted"}]
  /\ announced \in [AccountId -> Nat]

(***************************************************************************)
(* "Make sure multiple delete notifications are not sent": the client is   *)
(* told of a deletion once, however often the account is updated while it  *)
(* is gone, also when it had never seen the account; and it is told again  *)
(* when an account that came back is deleted once more.                    *)
(***************************************************************************)
OneAnnouncementPerDeletion ==
  \A a \in AccountId : announced[a] = IF latest[a] = "deleted" THEN 1 ELSE 0
=============================================================================
