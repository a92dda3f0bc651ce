------------------------- MODULE CatscopeTransaction ------------------------
(***************************************************************************)
(* CatscopeTransaction (src/src/store.rs): a transaction is built one      *)
(* instruction at a time through a write handle that borrows it.  The      *)
(* accounts and the data of all instructions lie in two shared arrays,     *)
(* with a table of the u16 ends of the chunks, and the Drop of a handle    *)
(* merges accounts into the sorted list of the transaction.  A finished    *)
(* transaction is written to a buffer and read back as a zero-copy view.   *)
(*                                                                         *)
(* One building thread.  Indices are zero-based, as in the code.           *)
(***************************************************************************)
EXTENDS Naturals, Sequences, FiniteSets, SequencesExt

CONSTANTS
  AccountId,   \* account ids, numbers other than the default 0
  Program,     \* account ids of programs
  Byte,        \* values of instruction data
  U16,         \* 2^16: the ends of the chunks are stored as u16
  U8,          \* 2^8: the inner instructions of an outer one are counted in a u8
  MaxIx,       \* bound: instructions per transaction
  MaxAccount,  \* bound: accounts of one instruction
  MaxData      \* bound: bytes of data of one instruction

ASSUME TransactionAssumption ==
  /\ AccountId \cup Program \subseteq Nat \ {0}
  /\ U16 \in Nat \ {0}
  /\ U8 \in Nat \ {0}
  /\ {MaxIx, MaxAccount, MaxData} \subseteq Nat

NoWriter == [list |-> "none"]

VARIABLES
  tx,        \* the CatscopeTransaction
  writer,    \* the open CatscopeInstructionWrite, or NoWriter
  given,     \* history: what the caller gave each instruction, oldest first
  panicked   \* an assertion failed and the thread unwinds

vars == <<tx, writer, given, panicked>>

Instruction == [program : Program \cup {0}, data_chunk_i : Nat, account_chunk_i : Nat]
Writer == [list : {"outer", "inner"}, i : Nat, account_chunk_i : Nat,
           data_chunk_i : Nat, account_set : BOOLEAN, data_set : BOOLEAN]

TypeOK ==
  /\ tx \in [outer : Seq(Instruction), inner : Seq(Instruction),
             l1_inner : Seq(0 .. U8 - 1),
             account_chunk_last : Seq(0 .. U16 - 1), account_chunk : Seq(AccountId),
             data_chunk_last : Seq(0 .. U16 - 1), data_chunk : Seq(Byte),
             account : Seq(AccountId)]
  /\ writer \in Writer \cup {NoWriter}
  /\ panicked \in BOOLEAN

(* The sum of a sequence of numbers.                                       *)
Total(s) ==
  LET sum[k \in 0 .. Len(s)] == IF k = 0 THEN 0 ELSE sum[k - 1] + s[k]
  IN  sum[Len(s)]

DefaultInstruction == [program |-> 0, data_chunk_i |-> 0, account_chunk_i |-> 0]

Init ==
  /\ tx = [outer |-> <<>>, inner |-> <<>>, l1_inner |-> <<>>,
           account_chunk_last |-> <<>>, account_chunk |-> <<>>,
           data_chunk_last |-> <<>>, data_chunk |-> <<>>, account |-> <<>>]
  /\ writer = NoWriter
  /\ given = <<>>
  /\ panicked = FALSE

Idle == writer = NoWriter /\ ~panicked

-----------------------------------------------------------------------------
(* Building.                                                               *)

(* The part append_outer and append_inner share: a default instruction at  *)
(* the end of a list, two open chunks, and a handle that remembers them.   *)
Grow_OneTable(t, list) ==
  [t EXCEPT ![list] = Append(@, DefaultInstruction),
            !.account_chunk_last = Append(@, 0)]
Grow(t, list) ==
  [t EXCEPT ![list] = Append(@, DefaultInstruction),
            !.account_chunk_last = Append(@, 0),
            !.data_chunk_last = Append(@, 0)]

Open(list) ==
  /\ Idle
  /\ Len(tx.outer) + Len(tx.inner) < MaxIx
  /\ writer' = [list |-> list, i |-> Len(tx[list]),
                account_chunk_i |-> Len(tx.account_chunk_last),
                data_chunk_i |-> Len(tx.data_chunk_last),
                account_set |-> FALSE, data_set |-> FALSE]
  /\ given' = Append(given, [list |-> list, i |-> Len(tx[list]), program |-> 0,
                             account |-> <<>>, data |-> <<>>])
  /\ UNCHANGED panicked

AppendOuter ==
  /\ Open("outer")
  /\ tx' = [Grow(tx, "outer") EXCEPT !.l1_inner = Append(@, 0)]

(* The count wraps, in a build without overflow checks.                    *)
AppendInner(outer_idx) ==
  /\ outer_idx < Len(tx.outer)
  /\ Open("inner")
  /\ tx' = [Grow(tx, "inner") EXCEPT !.l1_inner[outer_idx + 1] = (@ + 1) % U8]

Remember(field, x) == given' = [given EXCEPT ![Len(given)][field] = x]

SetProgram(p) ==
  /\ writer # NoWriter
  /\ tx' = [tx EXCEPT ![writer.list][writer.i + 1].program = p]
  /\ Remember("program", p)
  /\ UNCHANGED <<writer, panicked>>

(* The end of a chunk in the shared array, cut to a u16.                   *)
ChunkEnd_Size(chunk, s) == Len(s) % U16
ChunkEnd_Wide(chunk, s) == Len(chunk) + Len(s)
ChunkEnd(chunk, s) == (Len(chunk) + Len(s)) % U16

(* account(size), and the caller fills the slice it gets.                  *)
SetAccount(ids) ==
  /\ writer # NoWriter
  /\ ~writer.account_set
  /\ tx' = [tx EXCEPT
              !.account_chunk = @ \o ids,
              !.account_chunk_last[writer.account_chunk_i + 1] =
                  ChunkEnd(tx.account_chunk, ids)]
  /\ writer' = [writer EXCEPT !.account_set = TRUE]
  /\ Remember("account", ids)
  /\ UNCHANGED panicked

SetData(bytes) ==
  /\ writer # NoWriter
  /\ ~writer.data_set
  /\ tx' = [tx EXCEPT
              !.data_chunk = @ \o bytes,
              !.data_chunk_last[writer.data_chunk_i + 1] =
                  ChunkEnd(tx.data_chunk, bytes)]
  /\ writer' = [writer EXCEPT !.data_set = TRUE]
  /\ Remember("data", bytes)
  /\ UNCHANGED panicked

-----------------------------------------------------------------------------
(* Chunks.                                                                 *)

(* The chunk with number c of an array, by the table of its ends.          *)
Chunk(last, chunk, c) ==
  LET start == IF c = 0 THEN 0 ELSE last[c]
  IN  SubSeq(chunk, start + 1, last[c + 1])

(* binary_search finds the place of a new id in the sorted list.           *)
Place_Last(s, id) == Len(s) + 1
Place(s, id) == Cardinality({j \in DOMAIN s : s[j] < id}) + 1

Insert(s, id) == IF Contains(s, id) THEN s ELSE InsertAt(s, Place(s, id), id)

(* The ids of a chunk are merged one after the other.                      *)
Merge(s, ids) ==
  LET merged[k \in 0 .. Len(ids)] == IF k = 0 THEN s ELSE Insert(merged[k - 1], ids[k])
  IN  merged[Len(ids)]

(* Drop: both fields were set; the accounts of the chunk that the          *)
(* instruction itself names are merged into the transaction's list.        *)
DropWriter ==
  /\ writer # NoWriter
  /\ writer.account_set /\ writer.data_set
  /\ LET ix  == tx[writer.list][writer.i + 1]
         ids == Chunk(tx.account_chunk_last, tx.account_chunk, ix.account_chunk_i)
     IN  tx' = [tx EXCEPT !.account = Merge(@, ids)]
  /\ writer' = NoWriter
  /\ UNCHANGED <<given, panicked>>

(* An assertion fails, and the borrowed transaction is lost.               *)
Panic ==
  /\ panicked' = TRUE
  /\ writer' = NoWriter
  /\ UNCHANGED <<tx, given>>

(* Drop asserts that account and data were called ...                      *)
DropPanics ==
  /\ writer # NoWriter
  /\ ~(writer.account_set /\ writer.data_set)
  /\ Panic

(* ... and each of the two that it was not called before.                  *)
SecondCallPanics ==
  /\ writer # NoWriter
  /\ writer.account_set \/ writer.data_set
  /\ Panic

(* append_inner raises the count of the caller's outer instruction first   *)
(* of all: there may be none, and with overflow checks it may be full.     *)
AppendInnerPanics(outer_idx) ==
  /\ Idle
  /\ outer_idx < Len(tx.outer) => tx.l1_inner[outer_idx + 1] = U8 - 1
  /\ Panic

(* The transaction is complete, or was lost to a panic.                    *)
Finished ==
  /\ panicked \/ (Idle /\ Len(tx.outer) + Len(tx.inner) = MaxIx)
  /\ UNCHANGED vars

Next ==
  \/ AppendOuter
  \/ \E o \in 0 .. MaxIx - 1 : AppendInner(o) \/ AppendInnerPanics(o)
  \/ \E p \in Program : SetProgram(p)
  \/ \E ids \in SeqOf(AccountId, MaxAccount) : SetAccount(ids)
  \/ \E bytes \in SeqOf(Byte, MaxData) : SetData(bytes)
  \/ DropWriter
  \/ DropPanics
  \/ SecondCallPanics
  \/ Finished

Spec == Init /\ [][Next]_vars

-----------------------------------------------------------------------------
(* Reading.  An accessor follows the chunk number in the instruction.      *)

ReadAccount(t, ix) == Chunk(t.account_chunk_last, t.account_chunk, ix.account_chunk_i)
ReadData(t, ix) == Chunk(t.data_chunk_last, t.data_chunk, ix.data_chunk_i)

(* What the iterators outer() and inner() of a transaction yield, as their *)
(* items read: the list counted up from 0 to its length.                   *)
Instructions(t, list) ==
  [i \in DOMAIN t[list] |->
     [program |-> t[list][i].program,
      account |-> ReadAccount(t, t[list][i]), data |-> ReadData(t, t[list][i])]]

(* The same on a view, which has accessors of its own over its slices.     *)
ViewInstructions(view, list) ==
  [i \in DOMAIN view[list] |->
     [program |-> view[list][i].program,
      account |-> Chunk(view.account_chunk_last, view.account_chunk,
                        view[list][i].account_chunk_i),
      data |-> Chunk(view.data_chunk_last, view.data_chunk,
                     view[list][i].data_chunk_i)]]

-----------------------------------------------------------------------------
(* The wire format.  A buffer is the header and the cells after it, a cell *)
(* being one element of one section.                                       *)

HeaderBytes == 96

WriteTo(t) ==
  [hdr |-> [outer_len |-> Len(t.outer), inner_len |-> Len(t.inner),
            account_len |-> Len(t.account),
            account_chunk_len |-> Len(t.account_chunk),
            data_chunk_len |-> Len(t.data_chunk)],
   cells |-> t.outer \o t.inner \o t.account \o t.account_chunk
               \o t.account_chunk_last \o t.data_chunk_last
               \o t.l1_inner \o t.data_chunk]

(* The sections try_from takes in turn: name, element count, size in bytes *)
(* (which is also the alignment, except for the 16-byte instructions).     *)
Sections_Swapped(h) ==
  LET ix_count == h.outer_len + h.inner_len IN
  << <<"outer", h.outer_len, 16>>, <<"inner", h.inner_len, 16>>,
     <<"account", h.account_len, 8>>, <<"account_chunk", h.account_chunk_len, 8>>,
     <<"data_chunk_last", ix_count, 2>>, <<"account_chunk_last", ix_count, 2>>,
     <<"l1_inner", h.outer_len, 1>>, <<"data_chunk", h.data_chunk_len, 1>> >>
Sections(h) ==
  LET ix_count == h.outer_len + h.inner_len IN
  << <<"outer", h.outer_len, 16>>, <<"inner", h.inner_len, 16>>,
     <<"account", h.account_len, 8>>, <<"account_chunk", h.account_chunk_len, 8>>,
     <<"account_chunk_last", ix_count, 2>>, <<"data_chunk_last", ix_count, 2>>,
     <<"l1_inner", h.outer_len, 1>>, <<"data_chunk", h.data_chunk_len, 1>> >>

Align(size) == IF size = 16 THEN 8 ELSE size

(* Cells and bytes before section k.                                       *)
CellsBefore(h, k) == Total([j \in 1 .. k - 1 |-> Sections(h)[j][2]])
BytesBefore(h, k) ==
  HeaderBytes + Total([j \in 1 .. k - 1 |-> Sections(h)[j][2] * Sections(h)[j][3]])

(* The errors of try_from.                                                 *)
OutofRange      == [error |-> "OutofRange"]
UnalignedMemory == [error |-> "UnalignedMemory"]

(* try_from of the first n bytes of a buffer that starts at address base.  *)
(* The header and then the sections are taken in turn, the length of each  *)
(* checked before its alignment: the first check that fails is the answer. *)
TryFrom(buf, base, n) ==
  LET h == buf.hdr
      Sec == DOMAIN Sections(h)
      Name(k) == Sections(h)[k][1]
      Taken(k) == SubSeq(buf.cells, CellsBefore(h, k) + 1, CellsBefore(h, k + 1))
      Short(k) == IF k = 0 THEN n < HeaderBytes ELSE BytesBefore(h, k + 1) > n
      Unaligned(k) ==
        IF k = 0 THEN base % 8 # 0
        ELSE (base + BytesBefore(h, k)) % Align(Sections(h)[k][3]) # 0
      refused == {k \in Sec \cup {0} : Short(k) \/ Unaligned(k)}
  IN  IF refused # {}
      THEN IF Short(Min(refused)) THEN OutofRange ELSE UnalignedMemory
      ELSE [f \in {Name(k) : k \in Sec} |-> Taken(CHOOSE k \in Sec : Name(k) = f)]

WireBytes(t) == BytesBefore(WriteTo(t).hdr, 9)

-----------------------------------------------------------------------------
(* Properties of a transaction between two instructions.                   *)

(***************************************************************************)
(* The tables grow in step with the instruction lists: what write_to and   *)
(* try_from take for granted (the debug assertions of write_to).  And the  *)
(* counts per outer instruction add up to the inner list, as long as it is *)
(* shorter than 2^8.                                                       *)
(***************************************************************************)
SectionsInStep ==
  Idle =>
    /\ Len(tx.account_chunk_last) = Len(tx.outer) + Len(tx.inner)
    /\ Len(tx.data_chunk_last) = Len(tx.outer) + Len(tx.inner)
    /\ Len(tx.l1_inner) = Len(tx.outer)
    /\ Len(tx.inner) < U8 => Total(tx.l1_inner) = Len(tx.inner)

(***************************************************************************)
(* The account list stays strictly sorted, without duplicates, whatever    *)
(* accounts an instruction merges into it, and in whatever order;          *)
(* binary_search relies on it.  (Every instruction keeps chunk number 0,   *)
(* so that what is merged are the accounts of the first chunk.)            *)
(***************************************************************************)
AccountSorted ==
  \A i, j \in DOMAIN tx.account : i < j => tx.account[i] < tx.account[j]

(***************************************************************************)
(* As long as the arrays are shorter than 2^16, the chunk opened by the    *)
(* c-th instruction holds exactly what the caller gave it, inner and outer *)
(* instructions mixed in any order; and the program is the one it set.     *)
(***************************************************************************)
ChunkTables ==
  Idle =>
    \A c \in 0 .. Len(given) - 1 :
      /\ tx[given[c + 1].list][given[c + 1].i + 1].program = given[c + 1].program
      /\ Len(tx.account_chunk) < U16 =>
           Chunk(tx.account_chunk_last, tx.account_chunk, c) = given[c + 1].account
      /\ Len(tx.data_chunk) < U16 =>
           Chunk(tx.data_chunk_last, tx.data_chunk, c) = given[c + 1].data

(***************************************************************************)
(* try_from gives back every section that write_to wrote when the buffer   *)
(* is aligned and complete, so that the view's accessors yield for every   *)
(* instruction what the transaction's own do; OutofRange when the last     *)
(* byte is missing and UnalignedMemory when the buffer is not aligned:     *)
(* never a view of other cells.                                            *)
(***************************************************************************)
WireRoundTrip ==
  Idle =>
    LET buf  == WriteTo(tx)
        n    == WireBytes(tx)
        view == TryFrom(buf, 0, n)
    IN  /\ view = tx
        /\ \A list \in {"outer", "inner"} :
             ViewInstructions(view, list) = Instructions(tx, list)
        /\ TryFrom(buf, 0, n - 1) = OutofRange
        /\ TryFrom(buf, 4, n) = UnalignedMemory

(***************************************************************************)
(* What the doc comments of data() and account() say: an instruction of a  *)
(* finished transaction is read back with the data and the accounts that   *)
(* were given for it.                                                      *)
(***************************************************************************)
ReadsBack ==
  Idle =>
    \A c \in DOMAIN given :
      Instructions(tx, given[c].list)[given[c].i + 1] =
        [program |-> given[c].program, account |-> given[c].account,
         data |-> given[c].data]
=============================================================================
