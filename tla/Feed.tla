-------------------------------- MODULE Feed --------------------------------
(***************************************************************************)
(* What an event brings a reader's client: account updates, of which the   *)
(* notifier holds back repeated deletions, and transaction results and     *)
(* slot statuses in their encodings.  The two do not look at each other,   *)
(* and their steps interleave.                                             *)
(***************************************************************************)
EXTENDS ResultCodec, DeleteNotifier

FeedInit == Init /\ NotifierInit
FeedNext ==
  \/ Next /\ UNCHANGED notifierVars
  \/ NotifierNext /\ UNCHANGED vars

feedVars == <<vars, notifierVars>>

FeedSpec == FeedInit /\ [][FeedNext]_feedVars

(***************************************************************************)
(* Every encoded field fits its bytes, and the notifier has an entry, Sent *)
(* or DeleteSent, for exactly the accounts it has seen.                    *)
(***************************************************************************)
FeedTypeOK == TypeOK /\ NotifierTypeOK
=============================================================================
