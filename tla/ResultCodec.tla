----------------------------- MODULE ResultCodec ----------------------------
(***************************************************************************)
(* The fixed-size encodings of src/src/store.rs: a Result<Slot,            *)
(* TransactionError> in 16 bytes and a SlotStatus in one.  A value is      *)
(* encoded by one program and decoded by another one, which may also meet  *)
(* bytes of a program built from other tables.                             *)
(*                                                                         *)
(* The encoders and the decoders have tables of their own, given here in   *)
(* the order of their discriminants.  The little-endian fields of the 16   *)
(* bytes are disjoint and are kept as the fields of a record.              *)
(***************************************************************************)
EXTENDS Naturals, Sequences

CONSTANTS
  U8,      \* the indices of instructions and accounts that occur
  U32,     \* the custom error codes that occur
  Slot,    \* the slots that occur
  Disc     \* the first bytes that foreign buffers may hold

ASSUME CodecAssumption ==
  /\ U8 \subseteq 0 .. 255
  /\ Disc \subseteq 0 .. 255
  /\ U32 \subseteq Nat
  /\ Slot \subseteq Nat

VARIABLES
  stage,   \* "idle", "encoded" or "decoded"
  value,   \* the value that was encoded, None for foreign bytes
  wire,    \* the bytes
  out      \* what the decoder made of them

vars == <<stage, value, wire, out>>

None == [kind |-> "none"]
OutofRange == [kind |-> "OutofRange"]

-----------------------------------------------------------------------------
(* The tables of encode_tx_error and encode_instruction_error.             *)

EncodedTx ==
  << "AccountInUse", "AccountLoadedTwice", "AccountNotFound",
     "ProgramAccountNotFound", "InsufficientFundsForFee",
     "InvalidAccountForFee", "AlreadyProcessed", "BlockhashNotFound",
     "InstructionError", "CallChainTooDeep", "MissingSignatureForFee",
     "InvalidAccountIndex", "SignatureFailure", "InvalidProgramForExecution",
     "SanitizeFailure", "ClusterMaintenance", "AccountBorrowOutstanding",
     "WouldExceedMaxBlockCostLimit", "UnsupportedVersion",
     "InvalidWritableAccount", "WouldExceedMaxAccountCostLimit",
     "WouldExceedAccountDataBlockLimit", "TooManyAccountLocks",
     "AddressLookupTableNotFound", "InvalidAddressLookupTableOwner",
     "InvalidAddressLookupTableData", "InvalidAddressLookupTableIndex",
     "InvalidRentPayingAccount", "WouldExceedMaxVoteCostLimit",
     "WouldExceedAccountDataTotalLimit", "DuplicateInstruction",
     "InsufficientFundsForRent", "MaxLoadedAccountsDataSizeExceeded",
     "InvalidLoadedAccountsDataSizeLimit", "ResanitizationNeeded",
     "ProgramExecutionTemporarilyRestricted", "UnbalancedTransaction",
     "ProgramCacheHitMaxLimit", "CommitCancelled" >>

EncodedIx ==
  << "GenericError", "InvalidArgument", "InvalidInstructionData",
     "InvalidAccountData", "AccountDataTooSmall", "InsufficientFunds",
     "IncorrectProgramId", "MissingRequiredSignature",
     "AccountAlreadyInitialized", "UninitializedAccount",
     "UnbalancedInstruction", "ModifiedProgramId",
     "ExternalAccountLamportSpend", "ExternalAccountDataModified",
     "ReadonlyLamportChange", "ReadonlyDataModified", "DuplicateAccountIndex",
     "ExecutableModified", "RentEpochModified", "NotEnoughAccountKeys",
     "AccountDataSizeChanged", "AccountNotExecutable", "AccountBorrowFailed",
     "AccountBorrowOutstanding", "DuplicateAccountOutOfSync", "Custom",
     "InvalidError", "ExecutableDataModified", "ExecutableLamportChange",
     "ExecutableAccountNotRentExempt", "UnsupportedProgramId", "CallDepth",
     "MissingAccount", "ReentrancyNotAllowed", "MaxSeedLengthExceeded",
     "InvalidSeeds", "InvalidRealloc", "ComputationalBudgetExceeded",
     "PrivilegeEscalation", "ProgramEnvironmentSetupFailure",
     "ProgramFailedToComplete", "ProgramFailedToCompile", "Immutable",
     "IncorrectAuthority", "BorshIoError", "AccountNotRentExempt",
     "InvalidAccountOwner", "ArithmeticOverflow", "UnsupportedSysvar",
     "IllegalOwner", "MaxAccountsDataAllocationsExceeded",
     "MaxAccountsExceeded", "MaxInstructionTraceLengthExceeded",
     "BuiltinProgramsMustConsumeComputeUnits" >>

(* The tables of decode_tx_error and decode_instruction_error.             *)

DecodedTx_Swapped ==
  [EncodedTx EXCEPT ![31] = EncodedTx[32], ![32] = EncodedTx[31]]
DecodedTx ==
  << "AccountInUse", "AccountLoadedTwice", "AccountNotFound",
     "ProgramAccountNotFound", "InsufficientFundsForFee",
     "InvalidAccountForFee", "AlreadyProcessed", "BlockhashNotFound",
     "InstructionError", "CallChainTooDeep", "MissingSignatureForFee",
     "InvalidAccountIndex", "SignatureFailure", "InvalidProgramForExecution",
     "SanitizeFailure", "ClusterMaintenance", "AccountBorrowOutstanding",
     "WouldExceedMaxBlockCostLimit", "UnsupportedVersion",
     "InvalidWritableAccount", "WouldExceedMaxAccountCostLimit",
     "WouldExceedAccountDataBlockLimit", "TooManyAccountLocks",
     "AddressLookupTableNotFound", "InvalidAddressLookupTableOwner",
     "InvalidAddressLookupTableData", "InvalidAddressLookupTableIndex",
     "InvalidRentPayingAccount", "WouldExceedMaxVoteCostLimit",
     "WouldExceedAccountDataTotalLimit", "DuplicateInstruction",
     "InsufficientFundsForRent", "MaxLoadedAccountsDataSizeExceeded",
     "InvalidLoadedAccountsDataSizeLimit", "ResanitizationNeeded",
     "ProgramExecutionTemporarilyRestricted", "UnbalancedTransaction",
     "ProgramCacheHitMaxLimit", "CommitCancelled" >>

DecodedIx ==
  << "GenericError", "InvalidArgument", "InvalidInstructionData",
     "InvalidAccountData", "AccountDataTooSmall", "InsufficientFunds",
     "IncorrectProgramId", "MissingRequiredSignature",
     "AccountAlreadyInitialized", "UninitializedAccount",
     "UnbalancedInstruction", "ModifiedProgramId",
     "ExternalAccountLamportSpend", "ExternalAccountDataModified",
     "ReadonlyLamportChange", "ReadonlyDataModified", "DuplicateAccountIndex",
     "ExecutableModified", "RentEpochModified", "NotEnoughAccountKeys",
     "AccountDataSizeChanged", "AccountNotExecutable", "AccountBorrowFailed",
     "AccountBorrowOutstanding", "DuplicateAccountOutOfSync", "Custom",
     "InvalidError", "ExecutableDataModified", "ExecutableLamportChange",
     "ExecutableAccountNotRentExempt", "UnsupportedProgramId", "CallDepth",
     "MissingAccount", "ReentrancyNotAllowed", "MaxSeedLengthExceeded",
     "InvalidSeeds", "InvalidRealloc", "ComputationalBudgetExceeded",
     "PrivilegeEscalation", "ProgramEnvironmentSetupFailure",
     "ProgramFailedToComplete", "ProgramFailedToCompile", "Immutable",
     "IncorrectAuthority", "BorshIoError", "AccountNotRentExempt",
     "InvalidAccountOwner", "ArithmeticOverflow", "UnsupportedSysvar",
     "IllegalOwner", "MaxAccountsDataAllocationsExceeded",
     "MaxAccountsExceeded", "MaxInstructionTraceLengthExceeded",
     "BuiltinProgramsMustConsumeComputeUnits" >>

EncodedStatus ==
  << "Processed", "Rooted", "Confirmed", "FirstShredReceived", "Completed",
     "CreatedBank", "Dead" >>

DecodedStatus ==
  << "Processed", "Rooted", "Confirmed", "FirstShredReceived", "Completed",
     "CreatedBank", "Dead" >>

-----------------------------------------------------------------------------
(* The values.  A field that a variant does not have is 0 or "none".       *)

WithIndex == {"DuplicateInstruction", "InsufficientFundsForRent",
              "ProgramExecutionTemporarilyRestricted"}

Entries(table) == {table[i] : i \in DOMAIN table}

(* A variant that the tables do not list: TransactionError may grow.       *)
Unlisted == "Unlisted"

Ok(slot) == [kind |-> "ok", slot |-> slot]
Err(tx, ix, ie, code) ==
  [kind |-> "err", tx |-> tx, ix |-> ix, ie |-> ie, code |-> code]
Status(s, reason) == [kind |-> "status", status |-> s, reason |-> reason]

PlainErrors ==
  {Err(v, 0, "none", 0) : v \in (Entries(EncodedTx) \cup {Unlisted})
                                  \ (WithIndex \cup {"InstructionError"})}
IndexedErrors == {Err(v, ix, "none", 0) : v \in WithIndex, ix \in U8}
InstructionErrors ==
  {Err("InstructionError", ix, v, 0) : ix \in U8, v \in Entries(EncodedIx) \ {"Custom"}}
CustomErrors == {Err("InstructionError", ix, "Custom", c) : ix \in U8, c \in U32}

TransactionErrors == PlainErrors \cup IndexedErrors \cup InstructionErrors \cup CustomErrors

Results == {Ok(s) : s \in Slot} \cup TransactionErrors

SlotStatuses ==
  {Status(s, "none") : s \in Entries(EncodedStatus) \ {"Dead"}}
    \cup {Status("Dead", r) : r \in {"blank", "duplicate block"}}

Bytes(tag, tx, ie, aux, custom, slot) ==
  [kind |-> "result", tag |-> tag, tx_disc |-> tx, ie_disc |-> ie,
   aux |-> aux, custom |-> custom, slot |-> slot]

(* Bytes of programs with other tables: any discriminants.                 *)
Foreign ==
  {Bytes(t, x, i, a, c, s) :
     t \in {0, 1, 2}, x \in Disc, i \in Disc, a \in U8, c \in U32, s \in Slot}
    \cup {[kind |-> "status", byte |-> d] : d \in Disc}

-----------------------------------------------------------------------------
(* Encoding.                                                               *)

Index(table, v) == CHOOSE i \in DOMAIN table : table[i] = v

UnlistedDisc_Wide == 256
UnlistedDisc == 255

TxDisc(v) == IF v \in Entries(EncodedTx) THEN Index(EncodedTx, v) - 1
                                         ELSE UnlistedDisc
IxDisc(v) == IF v = "none" THEN 0 ELSE Index(EncodedIx, v) - 1

ResultToBytes(r) ==
  IF r.kind = "ok" THEN Bytes(0, 0, 0, 0, 0, r.slot)
  ELSE Bytes(1, TxDisc(r.tx), IxDisc(r.ie), r.ix, r.code, 0)

ConvertSlotStatusFrom(s) ==
  [kind |-> "status", byte |-> Index(EncodedStatus, s.status)]

(* Decoding.  Bytes a variant does not use are ignored.                    *)

DecodeInstructionError(ix, disc, custom) ==
  IF disc + 1 \notin DOMAIN DecodedIx THEN OutofRange
  ELSE LET v == DecodedIx[disc + 1]
       IN  Err("InstructionError", ix, v, IF v = "Custom" THEN custom ELSE 0)

DecodeTxError(disc, aux, ie_disc, custom) ==
  IF disc + 1 \notin DOMAIN DecodedTx THEN OutofRange
  ELSE LET v == DecodedTx[disc + 1]
       IN  IF v = "InstructionError"
           THEN DecodeInstructionError(aux, ie_disc, custom)
           ELSE Err(v, IF v \in WithIndex THEN aux ELSE 0, "none", 0)

ResultFromBytes(b) ==
  CASE b.tag = 0 -> Ok(b.slot)
    [] b.tag = 1 -> DecodeTxError(b.tx_disc, b.aux, b.ie_disc, b.custom)
    [] OTHER -> OutofRange

(* The reason of a dead slot is not encoded.                               *)
ConvertSlotStatusTo(d) ==
  IF d \notin DOMAIN DecodedStatus THEN OutofRange
  ELSE Status(DecodedStatus[d], IF DecodedStatus[d] = "Dead" THEN "blank" ELSE "none")

Encode(v) == IF v.kind = "status" THEN ConvertSlotStatusFrom(v)
                                  ELSE ResultToBytes(v)
Decode(b) == IF b.kind = "status" THEN ConvertSlotStatusTo(b.byte)
                                  ELSE ResultFromBytes(b)

-----------------------------------------------------------------------------
Init ==
  /\ stage = "idle"
  /\ value = None
  /\ wire = None
  /\ out = None

Send(v) ==
  /\ stage = "idle"
  /\ value' = v
  /\ wire' = Encode(v)
  /\ stage' = "encoded"
  /\ UNCHANGED out

Arrive(b) ==
  /\ stage = "idle"
  /\ wire' = b
  /\ stage' = "encoded"
  /\ UNCHANGED <<value, out>>

Receive ==
  /\ stage = "encoded"
  /\ out' = Decode(wire)
  /\ stage' = "decoded"
  /\ UNCHANGED <<value, wire>>

Finished ==
  /\ stage = "decoded"
  /\ UNCHANGED vars

Next ==
  \/ \E v \in Results \cup SlotStatuses : Send(v)
  \/ \E b \in Foreign : Arrive(b)
  \/ Receive
  \/ Finished

Spec == Init /\ [][Next]_vars

-----------------------------------------------------------------------------
(* Properties.                                                             *)

(* Every field fits its bytes.                                             *)
TypeOK ==
  /\ stage \in {"idle", "encoded", "decoded"}
  /\ wire.kind = "result" =>
       /\ {wire.tag, wire.tx_disc, wire.ie_disc, wire.aux} \subseteq 0 .. 255
       /\ {wire.custom, wire.slot} \subseteq Nat
  /\ wire.kind = "status" => wire.byte \in 0 .. 255
  /\ value \in Results \cup SlotStatuses \cup {None}

(* v is the variant that the encoders here write with b's discriminants.   *)
Names(b, v) ==
  \/ /\ b.kind = "status" /\ v.kind = "status"
     /\ b.byte \in DOMAIN EncodedStatus /\ v.status = EncodedStatus[b.byte]
  \/ /\ b.kind = "result" /\ b.tag = 0
     /\ v = Ok(b.slot)
  \/ /\ b.kind = "result" /\ b.tag = 1 /\ v.kind = "err"
     /\ b.tx_disc + 1 \in DOMAIN EncodedTx /\ v.tx = EncodedTx[b.tx_disc + 1]
     /\ v.tx = "InstructionError" =>
          b.ie_disc + 1 \in DOMAIN EncodedIx /\ v.ie = EncodedIx[b.ie_disc + 1]

(***************************************************************************)
(* What result_to_bytes and convert_slot_status_from write is read back as *)
(* it was, payloads included; a dead slot loses its reason, and a variant  *)
(* that the encoder does not list is refused by the decoder and never read *)
(* as another error.  Bytes nobody here has written are refused when their *)
(* discriminants are unknown and are otherwise read as the variant they    *)
(* are the discriminants of, which the next decoder reads again.           *)
(***************************************************************************)
RoundTrip ==
  stage = "decoded" =>
    IF value = None
    THEN out # OutofRange => Names(wire, out) /\ Decode(Encode(out)) = out
    ELSE out = CASE value.kind = "err" /\ value.tx = Unlisted -> OutofRange
                 [] value.kind = "status" /\ value.status = "Dead" ->
                      Status("Dead", "blank")
                 [] OTHER -> value
=============================================================================
