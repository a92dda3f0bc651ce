----------------------------- MODULE FeedProofs -----------------------------
(***************************************************************************)
(* Proofs about Feed, for any accounts, slots, indices and error codes,    *)
(* and any bytes of other programs.                                        *)
(***************************************************************************)
EXTENDS Feed, TLAPS

-----------------------------------------------------------------------------
(* The notifier.                                                           *)

(* What the map records of an account is what its newest update says.      *)
RecordsLatest ==
  \A a \in DOMAIN m_account_id :
    m_account_id[a] = IF latest[a] = "deleted" THEN "DeleteSent" ELSE "Sent"

NotifierInv == NotifierTypeOK /\ RecordsLatest /\ OneAnnouncementPerDeletion

(* The initial states satisfy the invariant.                               *)
LEMMA NotifierInitInv == NotifierInit => NotifierInv
<1> SUFFICES ASSUME NotifierInit PROVE NotifierInv
  OBVIOUS
<1>1. DOMAIN m_account_id = {}
  BY DEF NotifierInit
<1>2. \A a \in AccountId : latest[a] = "none" /\ announced[a] = 0
  BY DEF NotifierInit
<1>3. NotifierTypeOK
  BY <1>1, <1>2 DEF NotifierInit, NotifierTypeOK
<1> QED BY <1>1, <1>2, <1>3 DEF NotifierInv, RecordsLatest, OneAnnouncementPerDeletion

(* check_send records the update; it announces a deletion only when the    *)
(* entry was not DeleteSent, that is, when the account was not gone yet.   *)
LEMMA CheckSendInv ==
  ASSUME NotifierInv, NEW header \in AccountHeader, CheckSend(header)
  PROVE  NotifierInv'
<1> DEFINE a == header.account_id
           live == 0 < header.lamports
           word == IF live THEN "live" ELSE "deleted"
           D == DOMAIN m_account_id
<1>1. a \in AccountId /\ header.lamports \in {0, 1}
  BY DEF AccountHeader
<1>2. /\ m_account_id' = [b \in D \cup {a} |-> IF b = a THEN Mark(header) ELSE m_account_id[b]]
      /\ latest' = [latest EXCEPT ![a] = word]
      /\ announced' = [announced EXCEPT ![a] =
           IF ~MaySend(header) THEN @ ELSE IF live THEN 0 ELSE @ + 1]
  BY DEF CheckSend
<1>3. /\ latest \in [AccountId -> {"none", "live", "deleted"}]
      /\ announced \in [AccountId -> Nat] /\ D \subseteq AccountId
      /\ D = {b \in AccountId : latest[b] # "none"}
  BY DEF NotifierInv, NotifierTypeOK
<1>4. latest'[a] = word /\ \A b \in AccountId \ {a} : latest'[b] = latest[b]
  BY <1>1, <1>2, <1>3
<1>5. Mark(header) = IF word = "deleted" THEN "DeleteSent" ELSE "Sent"
  BY DEF Mark
<1>6. DOMAIN m_account_id' = D \cup {a}
  BY <1>2
<1>7. NotifierTypeOK'
  <2>1. D \cup {a} = {b \in AccountId : latest'[b] # "none"}
    BY <1>1, <1>3, <1>4
  <2>2. \A b \in D \cup {a} : m_account_id'[b] \in {"Sent", "DeleteSent"}
    BY <1>2, <1>5 DEF NotifierInv, NotifierTypeOK
  <2>3. latest' \in [AccountId -> {"none", "live", "deleted"}]
    BY <1>2, <1>3
  <2>4. announced' \in [AccountId -> Nat]
    BY <1>1, <1>2, <1>3
  <2> QED BY <1>6, <2>1, <2>2, <2>3, <2>4 DEF NotifierTypeOK
<1>8. RecordsLatest'
  BY <1>2, <1>3, <1>4, <1>5, <1>6 DEF NotifierInv, RecordsLatest
<1>9. MaySend(header) <=> live \/ latest[a] # "deleted"
  <2>1. Entry(header) = "DeleteSent" <=> latest[a] = "deleted"
    BY <1>1, <1>3 DEF NotifierInv, RecordsLatest, Entry
  <2> QED BY <2>1 DEF MaySend
<1>10. OneAnnouncementPerDeletion'
  <2>1. announced'[a] = IF word = "deleted" THEN 1 ELSE 0
    <3>1. announced[a] = IF latest[a] = "deleted" THEN 1 ELSE 0
      BY <1>1 DEF NotifierInv, OneAnnouncementPerDeletion
    <3>2. announced'[a] = IF ~MaySend(header) THEN announced[a]
                          ELSE IF live THEN 0 ELSE announced[a] + 1
      BY <1>1, <1>2, <1>3
    <3> QED BY <1>9, <3>1, <3>2
  <2>2. \A b \in AccountId \ {a} : announced'[b] = announced[b]
    BY <1>1, <1>2, <1>3
  <2> QED BY <1>4, <2>1, <2>2 DEF NotifierInv, OneAnnouncementPerDeletion
<1> QED BY <1>7, <1>8, <1>10 DEF NotifierInv

-----------------------------------------------------------------------------
(* The tables.                                                             *)

(* The discriminant of a variant leads back to it.                         *)
LEMMA IndexFacts ==
  ASSUME NEW table, NEW v \in Entries(table)
  PROVE  Index(table, v) \in DOMAIN table /\ table[Index(table, v)] = v
BY DEF Entries, Index

(* Encoders and decoders agree on their tables, and no discriminant of a   *)
(* listed variant is the one of the variants that are not listed.          *)
LEMMA TablesAgree ==
  /\ DecodedTx = EncodedTx /\ DOMAIN EncodedTx = 1 .. 39
  /\ DecodedIx = EncodedIx /\ DOMAIN EncodedIx = 1 .. 54
  /\ DecodedStatus = EncodedStatus /\ DOMAIN EncodedStatus = 1 .. 7
<1>1. DecodedTx = EncodedTx
  BY DEF DecodedTx, EncodedTx
<1>2. DecodedIx = EncodedIx
  BY DEF DecodedIx, EncodedIx
<1>3. DecodedStatus = EncodedStatus
  BY DEF DecodedStatus, EncodedStatus
<1>4. DOMAIN EncodedTx = 1 .. 39
  BY DEF EncodedTx
<1>5. DOMAIN EncodedIx = 1 .. 54
  BY DEF EncodedIx
<1>6. DOMAIN EncodedStatus = 1 .. 7
  BY DEF EncodedStatus
<1> QED BY <1>1, <1>2, <1>3, <1>4, <1>5, <1>6

(* The variants with a payload are listed; the names that stand for no     *)
(* variant are not.                                                        *)
LEMMA TableEntries ==
  /\ WithIndex \subseteq Entries(EncodedTx)
  /\ "InstructionError" \in Entries(EncodedTx)
  /\ Unlisted \notin Entries(EncodedTx)
  /\ "Custom" \in Entries(EncodedIx) /\ "none" \notin Entries(EncodedIx)
  /\ "Dead" \in Entries(EncodedStatus)
<1>1. EncodedTx[9] = "InstructionError" /\ EncodedTx[31] = "DuplicateInstruction"
  BY DEF EncodedTx
<1>2. /\ EncodedTx[32] = "InsufficientFundsForRent"
      /\ EncodedTx[36] = "ProgramExecutionTemporarilyRestricted"
  BY DEF EncodedTx
<1>3. EncodedIx[26] = "Custom" /\ EncodedStatus[7] = "Dead"
  BY DEF EncodedIx, EncodedStatus
<1>4. \A i \in 1 .. 39 : EncodedTx[i] # "Unlisted"
  BY DEF EncodedTx
<1>5. \A i \in 1 .. 54 : EncodedIx[i] # "none"
  BY DEF EncodedIx
<1> QED BY <1>1, <1>2, <1>3, <1>4, <1>5, TablesAgree DEF Entries, WithIndex, Unlisted

-----------------------------------------------------------------------------
(* Encoding and decoding, shape by shape.                                  *)

(* A discriminant fits its byte and leads back to the variant.             *)
LEMMA Discriminants ==
  /\ \A t \in Entries(EncodedTx) :
       TxDisc(t) \in 0 .. 38 /\ TxDisc(t) + 1 \in DOMAIN DecodedTx /\ DecodedTx[TxDisc(t) + 1] = t
  /\ \A w \in Entries(EncodedIx) :
       IxDisc(w) \in 0 .. 53 /\ IxDisc(w) + 1 \in DOMAIN DecodedIx /\ DecodedIx[IxDisc(w) + 1] = w
  /\ \A s \in Entries(EncodedStatus) :
       /\ Index(EncodedStatus, s) \in 1 .. 7
       /\ Index(EncodedStatus, s) \in DOMAIN DecodedStatus
       /\ DecodedStatus[Index(EncodedStatus, s)] = s
  /\ TxDisc(Unlisted) = 255 /\ TxDisc(Unlisted) + 1 \notin DOMAIN DecodedTx
<1>1. ASSUME NEW t \in Entries(EncodedTx)
      PROVE  TxDisc(t) \in 0 .. 38 /\ TxDisc(t) + 1 = Index(EncodedTx, t)
  <2>1. Index(EncodedTx, t) \in 1 .. 39
    BY IndexFacts, TablesAgree
  <2> QED BY <2>1 DEF TxDisc
<1>2. ASSUME NEW w \in Entries(EncodedIx)
      PROVE  IxDisc(w) \in 0 .. 53 /\ IxDisc(w) + 1 = Index(EncodedIx, w)
  <2>1. Index(EncodedIx, w) \in 1 .. 54
    BY IndexFacts, TablesAgree
  <2>2. w # "none"
    BY TableEntries
  <2> QED BY <2>1, <2>2 DEF IxDisc
<1>3. \A s \in Entries(EncodedStatus) : Index(EncodedStatus, s) \in 1 .. 7
  BY IndexFacts, TablesAgree
<1>4. TxDisc(Unlisted) = 255
  BY TableEntries DEF TxDisc, UnlistedDisc
<1>5. 256 \notin 1 .. 39 /\ 255 + 1 = 256
  OBVIOUS
<1>6. \A t \in Entries(EncodedTx) : TxDisc(t) + 1 \in DOMAIN DecodedTx /\ DecodedTx[TxDisc(t) + 1] = t
  BY <1>1, IndexFacts, TablesAgree
<1>7. \A w \in Entries(EncodedIx) : IxDisc(w) + 1 \in DOMAIN DecodedIx /\ DecodedIx[IxDisc(w) + 1] = w
  BY <1>2, IndexFacts, TablesAgree
<1>8. \A s \in Entries(EncodedStatus) :
        /\ Index(EncodedStatus, s) \in DOMAIN DecodedStatus
        /\ DecodedStatus[Index(EncodedStatus, s)] = s
  BY IndexFacts, TablesAgree
<1> QED BY <1>1, <1>2, <1>3, <1>4, <1>5, <1>6, <1>7, <1>8, TablesAgree

(* A slot comes back.                                                      *)
LEMMA OkReturns ==
  ASSUME NEW s
  PROVE  Decode(Encode(Ok(s))) = Ok(s)
BY DEF Decode, Encode, Ok, ResultToBytes, ResultFromBytes, Bytes

(* A transaction error other than InstructionError comes back.             *)
LEMMA TxErrReturns ==
  ASSUME NEW t \in Entries(EncodedTx), t # "InstructionError", NEW ix,
         t \in WithIndex \/ ix = 0
  PROVE  Decode(Encode(Err(t, ix, "none", 0))) = Err(t, ix, "none", 0)
<1>1. TxDisc(t) + 1 \in DOMAIN DecodedTx /\ DecodedTx[TxDisc(t) + 1] = t
  BY Discriminants
<1>2. DecodeTxError(TxDisc(t), ix, IxDisc("none"), 0) = Err(t, ix, "none", 0)
  BY <1>1 DEF DecodeTxError
<1>3. Encode(Err(t, ix, "none", 0)) = Bytes(1, TxDisc(t), IxDisc("none"), ix, 0, 0)
  BY DEF Encode, Err, ResultToBytes
<1> QED BY <1>2, <1>3 DEF Decode, ResultFromBytes, Bytes

(* An instruction error comes back, with its index and its custom code.    *)
LEMMA IxErrReturns ==
  ASSUME NEW w \in Entries(EncodedIx), NEW ix, NEW c, w = "Custom" \/ c = 0
  PROVE  Decode(Encode(Err("InstructionError", ix, w, c))) = Err("InstructionError", ix, w, c)
<1> DEFINE t == "InstructionError"
<1>1. t \in Entries(EncodedTx)
  BY TableEntries
<1>2. TxDisc(t) + 1 \in DOMAIN DecodedTx /\ DecodedTx[TxDisc(t) + 1] = t
  BY <1>1, Discriminants
<1>3. IxDisc(w) + 1 \in DOMAIN DecodedIx /\ DecodedIx[IxDisc(w) + 1] = w
  BY Discriminants
<1>4. DecodeInstructionError(ix, IxDisc(w), c) = Err(t, ix, w, c)
  BY <1>3 DEF DecodeInstructionError
<1>5. DecodeTxError(TxDisc(t), ix, IxDisc(w), c) = Err(t, ix, w, c)
  BY <1>2, <1>4 DEF DecodeTxError
<1>6. Encode(Err(t, ix, w, c)) = Bytes(1, TxDisc(t), IxDisc(w), ix, c, 0)
  BY DEF Encode, Err, ResultToBytes
<1> QED BY <1>5, <1>6 DEF Decode, ResultFromBytes, Bytes

(* A variant that the encoder does not list is refused.                    *)
LEMMA UnlistedRefused ==
  ASSUME NEW ix, NEW w, NEW c
  PROVE  Decode(Encode(Err(Unlisted, ix, w, c))) = OutofRange
<1>1. DecodeTxError(TxDisc(Unlisted), ix, IxDisc(w), c) = OutofRange
  BY Discriminants DEF DecodeTxError
<1>2. Encode(Err(Unlisted, ix, w, c)) = Bytes(1, TxDisc(Unlisted), IxDisc(w), ix, c, 0)
  BY DEF Encode, Err, ResultToBytes
<1> QED BY <1>1, <1>2 DEF Decode, ResultFromBytes, Bytes

(* The reason that is read for a status.                                   *)
Blank(s) == IF s = "Dead" THEN "blank" ELSE "none"

(* A slot status comes back; only Dead has a reason, which is blanked.     *)
LEMMA StatusReturns ==
  ASSUME NEW s \in Entries(EncodedStatus), NEW reason
  PROVE  Decode(Encode(Status(s, reason))) = Status(s, Blank(s))
<1>1. /\ Index(EncodedStatus, s) \in DOMAIN DecodedStatus
      /\ DecodedStatus[Index(EncodedStatus, s)] = s
  BY Discriminants
<1>2. ConvertSlotStatusTo(Index(EncodedStatus, s)) = Status(s, Blank(s))
  BY <1>1 DEF ConvertSlotStatusTo, Blank
<1>3. Encode(Status(s, reason)) = [kind |-> "status", byte |-> Index(EncodedStatus, s)]
  BY DEF Encode, Status, ConvertSlotStatusFrom
<1> QED BY <1>2, <1>3 DEF Decode

-----------------------------------------------------------------------------
(* The values, and what arrives.                                           *)

IsOk(v, S) == \E s \in S : v = Ok(s)
IsTxErr(v, I) ==
  \E t \in Entries(EncodedTx) \ {"InstructionError"}, ix \in I \cup {0} :
    (t \in WithIndex \/ ix = 0) /\ v = Err(t, ix, "none", 0)
IsIxErr(v, I, C) ==
  \E w \in Entries(EncodedIx), ix \in I, c \in C \cup {0} :
    (w = "Custom" \/ c = 0) /\ v = Err("InstructionError", ix, w, c)
IsUnlisted(v) == v = Err(Unlisted, 0, "none", 0)
IsStatus(v, R) ==
  \E s \in Entries(EncodedStatus), r \in R :
    (s # "Dead" => r = "none") /\ v = Status(s, r)

(* The values that are sent have one of these shapes.                      *)
LEMMA OwnShapes ==
  ASSUME NEW v \in Results \cup SlotStatuses
  PROVE  \/ IsOk(v, Slot) \/ IsTxErr(v, U8) \/ IsIxErr(v, U8, U32) \/ IsUnlisted(v)
         \/ IsStatus(v, {"none", "blank", "duplicate block"})
<1>1. CASE v \in SlotStatuses
  <2>1. CASE v \in {Status(s, "none") : s \in Entries(EncodedStatus) \ {"Dead"}}
    BY <2>1 DEF IsStatus
  <2>2. CASE v \in {Status("Dead", r) : r \in {"blank", "duplicate block"}}
    BY <2>2, TableEntries DEF IsStatus
  <2> QED BY <1>1, <2>1, <2>2 DEF SlotStatuses
<1>2. CASE v \in {Ok(s) : s \in Slot}
  BY <1>2 DEF IsOk
<1>3. CASE v \in PlainErrors
  <2>1. PICK t \in Entries(EncodedTx) \cup {Unlisted} :
          t # "InstructionError" /\ v = Err(t, 0, "none", 0)
    BY <1>3 DEF PlainErrors
  <2> QED BY <2>1 DEF IsTxErr, IsUnlisted
<1>4. CASE v \in IndexedErrors
  <2>1. PICK t \in WithIndex, ix \in U8 : v = Err(t, ix, "none", 0)
    BY <1>4 DEF IndexedErrors
  <2>2. t \in Entries(EncodedTx) /\ t # "InstructionError"
    BY TableEntries DEF WithIndex
  <2> QED BY <2>1, <2>2 DEF IsTxErr
<1>5. CASE v \in InstructionErrors
  <2>1. PICK ix \in U8, w \in Entries(EncodedIx) \ {"Custom"} :
          v = Err("InstructionError", ix, w, 0)
    BY <1>5 DEF InstructionErrors
  <2>2. 0 \in U32 \cup {0} /\ w \in Entries(EncodedIx)
    OBVIOUS
  <2> QED BY <2>1, <2>2 DEF IsIxErr
<1>6. CASE v \in CustomErrors
  <2>1. PICK ix \in U8, c \in U32 : v = Err("InstructionError", ix, "Custom", c)
    BY <1>6 DEF CustomErrors
  <2>2. "Custom" \in Entries(EncodedIx) /\ c \in U32 \cup {0}
    BY TableEntries
  <2> QED BY <2>1, <2>2 DEF IsIxErr
<1> QED BY <1>1, <1>2, <1>3, <1>4, <1>5, <1>6 DEF Results, TransactionErrors

(* What a decoder accepts of foreign bytes has one of these shapes, too:   *)
(* the listed variant of its discriminants, and the fields that the        *)
(* variant does not have blank.                                            *)
LEMMA ForeignShapes ==
  ASSUME NEW b \in Foreign, Decode(b) # OutofRange
  PROVE  /\ Names(b, Decode(b))
         /\ \/ IsOk(Decode(b), Slot) \/ IsTxErr(Decode(b), U8) \/ IsIxErr(Decode(b), U8, U32)
            \/ IsStatus(Decode(b), {"none", "blank"}) /\ Decode(b) # Status("Dead", "none")
<1>1. CASE b \in {[kind |-> "status", byte |-> d] : d \in Disc}
  <2>1. PICK d \in Disc : b = [kind |-> "status", byte |-> d]
    BY <1>1
  <2>2. Decode(b) = ConvertSlotStatusTo(d)
    BY <2>1 DEF Decode
  <2>3. d \in DOMAIN EncodedStatus /\ Decode(b) = Status(EncodedStatus[d], Blank(EncodedStatus[d]))
    BY <2>2, TablesAgree DEF ConvertSlotStatusTo, Blank
  <2>4. EncodedStatus[d] \in Entries(EncodedStatus)
    BY <2>3 DEF Entries
  <2>5. PICK s : s = EncodedStatus[d]
    OBVIOUS
  <2>6. IsStatus(Status(s, Blank(s)), {"none", "blank"})
    BY <2>4, <2>5 DEF IsStatus, Blank
  <2>7. Status(s, Blank(s)) # Status("Dead", "none")
    BY DEF Status, Blank
  <2>8. Names(b, Status(s, Blank(s)))
    BY <2>1, <2>3, <2>5 DEF Names, Status
  <2> QED BY <2>3, <2>5, <2>6, <2>7, <2>8
<1>2. CASE \E k \in {0, 1, 2}, x \in Disc, i \in Disc, a \in U8, c \in U32, s \in Slot :
             b = Bytes(k, x, i, a, c, s)
  <2>1. PICK k \in {0, 1, 2}, x \in Disc, i \in Disc, a \in U8, c \in U32, s \in Slot :
          b = Bytes(k, x, i, a, c, s)
    BY <1>2
  <2>2. Decode(b) = CASE k = 0 -> Ok(s) [] k = 1 -> DecodeTxError(x, a, i, c) [] OTHER -> OutofRange
    BY <2>1 DEF Decode, ResultFromBytes, Bytes
  <2>3. CASE k = 0
    <3>1. Names(b, Ok(s))
      BY <2>1, <2>3 DEF Names, Bytes
    <3> QED BY <2>2, <2>3, <3>1 DEF IsOk
  <2>4. CASE k = 1
    <3>1. Decode(b) = DecodeTxError(x, a, i, c)
      BY <2>2, <2>4
    <3>2. x + 1 \in DOMAIN EncodedTx
      BY <3>1, TablesAgree DEF DecodeTxError
    <3>3. PICK t \in Entries(EncodedTx) : t = EncodedTx[x + 1]
      BY <3>2 DEF Entries
    <3>4. CASE t # "InstructionError"
      <4>1. Decode(b) = Err(t, IF t \in WithIndex THEN a ELSE 0, "none", 0)
        BY <3>1, <3>2, <3>3, <3>4, TablesAgree DEF DecodeTxError
      <4>2. Names(b, Decode(b))
        BY <2>1, <2>4, <3>2, <3>3, <3>4, <4>1 DEF Names, Bytes, Err
      <4> QED BY <3>4, <4>1, <4>2 DEF IsTxErr
    <3>5. CASE t = "InstructionError"
      <4>1. Decode(b) = DecodeInstructionError(a, i, c)
        BY <3>1, <3>2, <3>3, <3>5, TablesAgree DEF DecodeTxError
      <4>2. i + 1 \in DOMAIN EncodedIx
        BY <4>1, TablesAgree DEF DecodeInstructionError
      <4>3. PICK w \in Entries(EncodedIx) : w = EncodedIx[i + 1]
        BY <4>2 DEF Entries
      <4>4. Decode(b) = Err("InstructionError", a, w, IF w = "Custom" THEN c ELSE 0)
        BY <4>1, <4>2, <4>3, TablesAgree DEF DecodeInstructionError
      <4>5. Names(b, Decode(b))
        <5>1. /\ b.kind = "result" /\ b.tag = 1 /\ b.tx_disc = x /\ b.ie_disc = i
          BY <2>1, <2>4 DEF Bytes
        <5>2. /\ Decode(b).kind = "err" /\ Decode(b).tx = "InstructionError"
              /\ Decode(b).ie = w
          BY <4>4 DEF Err
        <5> QED BY <3>2, <3>3, <3>5, <4>2, <4>3, <5>1, <5>2 DEF Names
      <4> QED BY <4>4, <4>5 DEF IsIxErr
    <3> QED BY <3>4, <3>5
  <2>5. CASE k = 2
    BY <2>2, <2>5
  <2> QED BY <2>1, <2>3, <2>4, <2>5
<1> QED BY <1>1, <1>2 DEF Foreign

(* What was decoded from foreign bytes is decoded the same when passed on. *)
LEMMA PassedOn ==
  ASSUME NEW b \in Foreign, Decode(b) # OutofRange
  PROVE  Decode(Encode(Decode(b))) = Decode(b)
<1>1. PICK v : v = Decode(b)
  OBVIOUS
<1>2. CASE IsOk(v, Slot)
  BY <1>1, <1>2, OkReturns DEF IsOk
<1>3. CASE IsTxErr(v, U8)
  BY <1>1, <1>3, TxErrReturns DEF IsTxErr
<1>4. CASE IsIxErr(v, U8, U32)
  BY <1>1, <1>4, IxErrReturns DEF IsIxErr
<1>5. CASE IsStatus(v, {"none", "blank"}) /\ v # Status("Dead", "none")
  <2>1. PICK s \in Entries(EncodedStatus), r \in {"none", "blank"} :
          (s # "Dead" => r = "none") /\ v = Status(s, r)
    BY <1>5 DEF IsStatus
  <2>2. r = Blank(s)
    BY <1>5, <2>1 DEF Blank
  <2> QED BY <1>1, <2>1, <2>2, StatusReturns
<1> QED BY <1>1, <1>2, <1>3, <1>4, <1>5, ForeignShapes

(* What comes out when v was sent.                                         *)
Received(v) ==
  CASE v.kind = "err" /\ v.tx = Unlisted -> OutofRange
    [] v.kind = "status" /\ v.status = "Dead" -> Status("Dead", "blank")
    [] OTHER -> v

(* What is sent comes out as it should, and is no foreign value.           *)
LEMMA OwnReturns ==
  ASSUME NEW v \in Results \cup SlotStatuses
  PROVE  Decode(Encode(v)) = Received(v) /\ v # None
<1>1. CASE IsOk(v, Slot)
  <2>1. PICK s \in Slot : v = Ok(s)
    BY <1>1 DEF IsOk
  <2>2. v.kind = "ok"
    BY <2>1 DEF Ok
  <2> QED BY <2>1, <2>2, OkReturns DEF Received, None
<1>2. CASE IsTxErr(v, U8)
  <2>1. PICK t \in Entries(EncodedTx) \ {"InstructionError"}, ix \in U8 \cup {0} :
          (t \in WithIndex \/ ix = 0) /\ v = Err(t, ix, "none", 0)
    BY <1>2 DEF IsTxErr
  <2>2. v.kind = "err" /\ v.tx = t /\ t # Unlisted
    BY <2>1, TableEntries DEF Err
  <2>3. Decode(Encode(v)) = v
    BY <2>1, TxErrReturns
  <2> QED BY <2>2, <2>3 DEF Received, None
<1>3. CASE IsIxErr(v, U8, U32)
  <2>1. PICK w \in Entries(EncodedIx), ix \in U8, c \in U32 \cup {0} :
          (w = "Custom" \/ c = 0) /\ v = Err("InstructionError", ix, w, c)
    BY <1>3 DEF IsIxErr
  <2>2. v.kind = "err" /\ v.tx = "InstructionError" /\ v.tx # Unlisted
    BY <2>1 DEF Err, Unlisted
  <2>3. Decode(Encode(v)) = v
    BY <2>1, IxErrReturns
  <2> QED BY <2>2, <2>3 DEF Received, None
<1>4. CASE IsUnlisted(v)
  <2>1. v.kind = "err" /\ v.tx = Unlisted
    BY <1>4 DEF IsUnlisted, Err
  <2>2. Decode(Encode(v)) = OutofRange
    BY <1>4, UnlistedRefused DEF IsUnlisted
  <2> QED BY <2>1, <2>2 DEF Received, None
<1>5. CASE IsStatus(v, {"none", "blank", "duplicate block"})
  <2>0. PICK s \in Entries(EncodedStatus) :
          \E r : (s # "Dead" => r = "none") /\ v = Status(s, r)
    BY <1>5 DEF IsStatus
  <2>1. PICK r : (s # "Dead" => r = "none") /\ v = Status(s, r)
    BY <2>0
  <2>2. v.kind = "status" /\ v.status = s
    BY <2>1 DEF Status
  <2>3. Decode(Encode(v)) = Status(s, Blank(s))
    BY <2>1, StatusReturns
  <2>4. v # None
    BY <2>2 DEF None
  <2>5. CASE s = "Dead"
    BY <2>2, <2>3, <2>4, <2>5 DEF Received, Blank
  <2>6. CASE s # "Dead"
    BY <2>1, <2>2, <2>3, <2>4, <2>6 DEF Received, Blank
  <2> QED BY <2>5, <2>6
<1> QED BY <1>1, <1>2, <1>3, <1>4, <1>5, OwnShapes

-----------------------------------------------------------------------------
(* The inductive invariant.                                                *)

(* The fields of an encoded value fit their bytes.                         *)
Fits(w) ==
  /\ w.kind = "result" =>
       /\ {w.tag, w.tx_disc, w.ie_disc, w.aux} \subseteq 0 .. 255
       /\ {w.custom, w.slot} \subseteq Nat
  /\ w.kind = "status" => w.byte \in 0 .. 255

(* The encoders write what fits.                                           *)
LEMMA EncodedFits ==
  ASSUME NEW v \in Results \cup SlotStatuses
  PROVE  Fits(Encode(v))
<1> USE CodecAssumption
<1>1. ASSUME NEW k \in {0, 1}, NEW x \in 0 .. 255, NEW i \in 0 .. 255, NEW a \in 0 .. 255,
             NEW c \in Nat, NEW s \in Nat
      PROVE  Fits(Bytes(k, x, i, a, c, s))
  BY DEF Fits, Bytes
<1>2. ASSUME NEW t, NEW w, NEW ix \in 0 .. 255, NEW c \in Nat,
             TxDisc(t) \in 0 .. 255, IxDisc(w) \in 0 .. 255
      PROVE  Fits(Encode(Err(t, ix, w, c)))
  <2>1. Encode(Err(t, ix, w, c)) = Bytes(1, TxDisc(t), IxDisc(w), ix, c, 0)
    BY DEF Encode, Err, ResultToBytes
  <2>2. Fits(Bytes(1, TxDisc(t), IxDisc(w), ix, c, 0))
    BY <1>1, <1>2
  <2> QED BY <2>1, <2>2
<1>3. IxDisc("none") \in 0 .. 255
  BY DEF IxDisc
<1>4. /\ \A t \in Entries(EncodedTx) \cup {Unlisted} : TxDisc(t) \in 0 .. 255
      /\ \A w \in Entries(EncodedIx) : IxDisc(w) \in 0 .. 255
  BY Discriminants
<1>5. CASE IsOk(v, Slot)
  <2>1. PICK s \in Slot : v = Ok(s)
    BY <1>5 DEF IsOk
  <2>2. Encode(v) = Bytes(0, 0, 0, 0, 0, s)
    BY <2>1 DEF Encode, Ok, ResultToBytes
  <2>3. 0 \in 0 .. 255 /\ 0 \in Nat /\ s \in Nat
    OBVIOUS
  <2>4. Fits(Bytes(0, 0, 0, 0, 0, s))
    BY <1>1, <2>3
  <2> QED BY <2>2, <2>4
<1>6. CASE IsTxErr(v, U8)
  <2>1. PICK t \in Entries(EncodedTx), ix \in U8 \cup {0} : v = Err(t, ix, "none", 0)
    BY <1>6 DEF IsTxErr
  <2>2. TxDisc(t) \in 0 .. 255 /\ ix \in 0 .. 255 /\ 0 \in Nat
    BY <1>4
  <2> QED BY <1>2, <1>3, <2>1, <2>2
<1>7. CASE IsIxErr(v, U8, U32)
  <2>1. PICK w \in Entries(EncodedIx), ix \in U8, c \in U32 \cup {0} :
          v = Err("InstructionError", ix, w, c)
    BY <1>7 DEF IsIxErr
  <2>2. "InstructionError" \in Entries(EncodedTx)
    BY TableEntries
  <2> QED BY <1>2, <1>4, <2>1, <2>2
<1>8. CASE IsUnlisted(v)
  <2>1. TxDisc(Unlisted) \in 0 .. 255 /\ 0 \in 0 .. 255 /\ 0 \in Nat
    BY <1>4
  <2> QED BY <1>2, <1>3, <1>8, <2>1 DEF IsUnlisted
<1>9. CASE IsStatus(v, {"none", "blank", "duplicate block"})
  <2>0. PICK s \in Entries(EncodedStatus) : \E r : v = Status(s, r)
    BY <1>9 DEF IsStatus
  <2>1. PICK r : v = Status(s, r)
    BY <2>0
  <2>2. Encode(v) = [kind |-> "status", byte |-> Index(EncodedStatus, s)]
    BY <2>1 DEF Encode, Status, ConvertSlotStatusFrom
  <2>3. Index(EncodedStatus, s) \in 0 .. 255
    BY Discriminants
  <2> QED BY <2>2, <2>3 DEF Fits
<1> QED BY <1>5, <1>6, <1>7, <1>8, <1>9, OwnShapes

(* Foreign bytes are bytes, too.                                           *)
LEMMA ForeignFits ==
  ASSUME NEW b \in Foreign
  PROVE  Fits(b)
<1> USE CodecAssumption
<1>1. CASE b \in {[kind |-> "status", byte |-> d] : d \in Disc}
  BY <1>1 DEF Fits
<1>2. CASE \E k \in {0, 1, 2}, x \in Disc, i \in Disc, a \in U8, c \in U32, s \in Slot :
             b = Bytes(k, x, i, a, c, s)
  BY <1>2 DEF Fits, Bytes
<1> QED BY <1>1, <1>2 DEF Foreign

(* What is on the wire was encoded here or is foreign, and what came out   *)
(* is what the decoder makes of it.                                        *)
CodecInv ==
  /\ stage \in {"idle", "encoded", "decoded"}
  /\ stage = "idle" => value = None /\ wire = None
  /\ stage # "idle" =>
       \/ value = None /\ wire \in Foreign
       \/ value \in Results \cup SlotStatuses /\ wire = Encode(value)
  /\ stage = "decoded" => out = Decode(wire)

(* The steps of the codec preserve its invariant.                          *)
LEMMA CodecNextInv == ASSUME CodecInv, Next PROVE CodecInv'
<1>1. ASSUME NEW v \in Results \cup SlotStatuses, Send(v) PROVE CodecInv'
  BY <1>1 DEF CodecInv, Send
<1>2. ASSUME NEW b \in Foreign, Arrive(b) PROVE CodecInv'
  BY <1>2 DEF CodecInv, Arrive
<1>3. CASE Receive
  BY <1>3 DEF CodecInv, Receive
<1>4. CASE Finished
  BY <1>4 DEF CodecInv, Finished, vars
<1> QED BY <1>1, <1>2, <1>3, <1>4 DEF Next

(* The properties of the codec follow from its invariant.                  *)
LEMMA CodecSafe == CodecInv => TypeOK /\ RoundTrip
<1> SUFFICES ASSUME CodecInv PROVE TypeOK /\ RoundTrip
  OBVIOUS
<1>1. Fits(wire)
  <2>1. Fits(None)
    BY DEF Fits, None
  <2> QED BY <2>1, EncodedFits, ForeignFits DEF CodecInv
<1>2. TypeOK
  BY <1>1 DEF Fits, CodecInv, TypeOK
<1>3. ASSUME stage = "decoded", value = None, out # OutofRange
      PROVE  Names(wire, out) /\ Decode(Encode(out)) = out
  <2>1. wire \in Foreign /\ out = Decode(wire)
    BY <1>3, OwnReturns DEF CodecInv
  <2> QED BY <1>3, <2>1, PassedOn, ForeignShapes
<1>4. ASSUME stage = "decoded", value # None PROVE out = Received(value)
  <2>1. value \in Results \cup SlotStatuses /\ out = Decode(Encode(value))
    BY <1>4 DEF CodecInv
  <2> QED BY <2>1, OwnReturns
<1>5. RoundTrip
  BY <1>3, <1>4 DEF RoundTrip, Received
<1> QED BY <1>2, <1>5

(* The invariant of the feed.                                              *)
IInv == CodecInv /\ NotifierInv

-----------------------------------------------------------------------------
(* Results.                                                                *)

(***************************************************************************)
(* The invariant holds in every state of a feed, whatever the order of     *)
(* updates, values and foreign bytes.                                      *)
(***************************************************************************)
THEOREM InvariantHolds == FeedSpec => []IInv
<1>1. FeedInit => IInv
  BY NotifierInitInv DEF FeedInit, Init, IInv, CodecInv
<1>2. IInv /\ [FeedNext]_feedVars => IInv'
  <2> SUFFICES ASSUME IInv, [FeedNext]_feedVars PROVE IInv'
    OBVIOUS
  <2>1. ASSUME UNCHANGED vars PROVE CodecInv'
    BY <2>1 DEF vars, IInv, CodecInv
  <2>2. ASSUME UNCHANGED notifierVars PROVE NotifierInv'
    BY <2>2 DEF notifierVars, IInv, NotifierInv, NotifierTypeOK, RecordsLatest,
                OneAnnouncementPerDeletion
  <2>3. CASE Next /\ UNCHANGED notifierVars
    BY <2>2, <2>3, CodecNextInv DEF IInv
  <2>4. CASE NotifierNext /\ UNCHANGED vars
    BY <2>1, <2>4, CheckSendInv DEF NotifierNext, IInv
  <2>5. CASE UNCHANGED feedVars
    BY <2>1, <2>2, <2>5 DEF feedVars, IInv
  <2> QED BY <2>3, <2>4, <2>5 DEF FeedNext
<1> QED BY <1>1, <1>2, PTL DEF FeedSpec

(* Every encoded field fits its bytes, and the notifier has an entry, Sent *)
(* or DeleteSent, for exactly the accounts it has seen an update of.       *)
THEOREM TypeCorrect == FeedSpec => []FeedTypeOK
<1>1. IInv => FeedTypeOK
  BY CodecSafe DEF IInv, NotifierInv, FeedTypeOK
<1> QED BY <1>1, InvariantHolds, PTL

(***************************************************************************)
(* What result_to_bytes and convert_slot_status_from write, their readers  *)
(* read back, for every variant and every payload; of bytes from elsewhere *)
(* a reader makes the variant of their discriminants or nothing, and that  *)
(* is stable when it is passed on.                                         *)
(***************************************************************************)
THEOREM ReadBackAsWritten == FeedSpec => []RoundTrip
<1>1. IInv => RoundTrip
  BY CodecSafe DEF IInv
<1> QED BY <1>1, InvariantHolds, PTL

(* The client is told of each deletion once: check_send lets exactly one   *)
(* update through while an account stays deleted, and one more after the   *)
(* account has come back and is deleted again.                             *)
THEOREM AnnouncedOnce == FeedSpec => []OneAnnouncementPerDeletion
<1>1. IInv => OneAnnouncementPerDeletion
  BY DEF IInv, NotifierInv
<1> QED BY <1>1, InvariantHolds, PTL
=============================================================================
