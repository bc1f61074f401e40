---------------------------- MODULE OmegaEngine ----------------------------
(*****************************************************************************)
(* The cell index of the Python extension (src/omega/src/lib.rs): which slot *)
(* of a pool of equally sized cells holds the value of a (db, table, row,    *)
(* column), the list of cells of each table, and the byte formats in which a *)
(* table leaves it.  The pool itself is the caller's.  Methods run one at a  *)
(* time: none of them releases the interpreter's lock.                       *)
(*                                                                           *)
(* A Table stands for a db and a table, a Pair for a row and a column; names *)
(* are sequences of bytes.  spec_idx, which is only handed through, is left  *)
(* out.                                                                      *)
(*****************************************************************************)
EXTENDS Bytes

CONSTANTS Table,
          Pair,       \* records [row, col] of two names
          NoSlot,     \* the cell is not in the index
          MaxByte,    \* the largest byte, 255
          CellSize,   \* bytes of a cell in the pool (max_len, cell_size)
          PoolValue,  \* what the caller keeps in each slot of its pool
          SetSlots,   \* the slots callers pass to set
          MaxSlots,   \* bound: slots given out
          MaxListed,  \* bound: pairs listed in a table
          MaxBatch    \* bound: cells of a register_batch

Byte == 0 .. MaxByte
HeaderSize == 5

ASSUME EngineAssumption ==
    /\ NoSlot \notin Nat
    /\ MaxByte \in Nat
    /\ CellSize \in Nat /\ CellSize >= HeaderSize
    /\ SetSlots \subseteq Nat
    /\ MaxSlots \in Nat /\ MaxListed \in Nat /\ MaxBatch \in Nat
    /\ \A p \in Pair : p.row \in Seq(Byte) /\ p.col \in Seq(Byte)
    /\ PoolValue \in [0 .. MaxSlots - 1 -> Seq(Byte)]

VARIABLES
    index,         \* index[<<t, p>>]: its pool_idx
    table_index,   \* table_index[t]: the pairs of t, in the order listed
    next_pool_idx,
    given,         \* history: slots that set was told to use
    unlisted       \* history: cells stored by set or by a batch that failed

engineVars == <<index, table_index, next_pool_idx, given, unlisted>>

Cell == Table \X Pair

EngineTypeOK ==
    /\ index \in [Cell -> (0 .. next_pool_idx - 1) \cup {NoSlot}]
    /\ table_index \in [Table -> Seq(Pair)]
    /\ next_pool_idx \in Nat
    /\ given \in SUBSET Nat
    /\ unlisted \in SUBSET Cell

EngineInit ==
    /\ index = [c \in Cell |-> NoSlot]
    /\ table_index = [t \in Table |-> <<>>]
    /\ next_pool_idx = 0
    /\ given = {}
    /\ unlisted = {}

(*****************************************************************************)
(* register_cell: the next slot; the pair is listed, again if it was.        *)
(*****************************************************************************)
RegisterCell(t, p) ==
    /\ next_pool_idx < MaxSlots /\ Len(table_index[t]) < MaxListed
    /\ next_pool_idx' = next_pool_idx + 1
    /\ table_index' = [table_index EXCEPT ![t] = Append(@, p)]
    /\ index' = [index EXCEPT ![<<t, p>>] = next_pool_idx]
    /\ UNCHANGED <<given, unlisted>>

\* mutant of SetCell: the counter moves only past slots strictly above it
SetCellAbove(t, p, slot) ==
    /\ slot < MaxSlots
    /\ index' = [index EXCEPT ![<<t, p>>] = slot]
    /\ next_pool_idx' = IF slot > next_pool_idx THEN slot + 1 ELSE next_pool_idx
    /\ given' = given \cup {slot}
    /\ unlisted' = unlisted \cup {<<t, p>>}
    /\ UNCHANGED table_index

(*****************************************************************************)
(* set: the slot the caller names, in use or not; the table does not list it.*)
(*****************************************************************************)
SetCell(t, p, slot) ==
    /\ slot < MaxSlots
    /\ index' = [index EXCEPT ![<<t, p>>] = slot]
    /\ next_pool_idx' = IF slot >= next_pool_idx THEN slot + 1 ELSE next_pool_idx
    /\ given' = given \cup {slot}
    /\ unlisted' = unlisted \cup {<<t, p>>}
    /\ UNCHANGED table_index

(*****************************************************************************)
(* register_batch takes as many slots as there are specs, and stores the     *)
(* cells one by one; a later cell of the batch replaces an earlier one.  With*)
(* fewer pairs than specs it panics at the first that is missing: the cells  *)
(* before it stay in the index and the table lists none of them.             *)
(*****************************************************************************)
Batches == UNION {[1 .. n -> Pair] : n \in 0 .. MaxBatch}

LastOf(pairs, count, p, i) ==
    /\ i \in 1 .. count /\ i <= Len(pairs) /\ pairs[i] = p
    /\ \A j \in i + 1 .. count : j <= Len(pairs) => pairs[j] # p

StoreBatch(t, pairs, count) ==
    [c \in Cell |->
        IF c[1] = t /\ \E i \in 1 .. count : LastOf(pairs, count, c[2], i)
        THEN next_pool_idx + (CHOOSE i \in 1 .. count : LastOf(pairs, count, c[2], i)) - 1
        ELSE index[c]]

\* mutant of RegisterBatch: the counter is read, not advanced by the batch's length
RegisterBatchOfOne(t, pairs, count) ==
    /\ next_pool_idx + count <= MaxSlots
    /\ next_pool_idx' = next_pool_idx + 1
    /\ index' = StoreBatch(t, pairs, count)
    /\ count <= Len(pairs)
    /\ Len(table_index[t]) + count <= MaxListed
    /\ table_index' = [table_index EXCEPT ![t] = @ \o SubSeq(pairs, 1, count)]
    /\ UNCHANGED <<given, unlisted>>

RegisterBatch(t, pairs, count) ==
    /\ next_pool_idx + count <= MaxSlots
    /\ next_pool_idx' = next_pool_idx + count
    /\ index' = StoreBatch(t, pairs, count)
    /\ \/ /\ count <= Len(pairs)
          /\ Len(table_index[t]) + count <= MaxListed
          /\ table_index' = [table_index EXCEPT ![t] = @ \o SubSeq(pairs, 1, count)]
          /\ UNCHANGED unlisted
       \/ /\ count > Len(pairs)
          /\ unlisted' = unlisted \cup {<<t, pairs[i]>> : i \in 1 .. Len(pairs)}
          /\ UNCHANGED table_index
    /\ UNCHANGED given

\* mutant of Remove: one of several listings is removed
RemoveFirstListing(t, p) ==
    /\ index' = [index EXCEPT ![<<t, p>>] = NoSlot]
    /\ \E i \in 0 .. Len(table_index[t]) :
          /\ \A j \in 1 .. i : table_index[t][j] # p
          /\ i < Len(table_index[t]) => table_index[t][i + 1] = p
          /\ table_index' = [table_index EXCEPT ![t] =
                                SubSeq(@, 1, i) \o SubSeq(@, i + 2, Len(@))]
    /\ UNCHANGED <<next_pool_idx, given, unlisted>>

(*****************************************************************************)
(* remove: every listing of the pair goes; its slot is not used again.       *)
(*****************************************************************************)
Only(pairs, these) ==
    LET kept[n \in 0 .. Len(pairs)] ==
            IF n = 0 THEN <<>>
            ELSE IF pairs[n] \in these THEN Append(kept[n - 1], pairs[n])
            ELSE kept[n - 1]
    IN  kept[Len(pairs)]

Remove(t, p) ==
    /\ index' = [index EXCEPT ![<<t, p>>] = NoSlot]
    /\ table_index' = [table_index EXCEPT ![t] = Only(@, Pair \ {p})]
    /\ UNCHANGED <<next_pool_idx, given, unlisted>>

Clear ==
    /\ index' = [c \in Cell |-> NoSlot]
    /\ table_index' = [t \in Table |-> <<>>]
    /\ next_pool_idx' = 0
    /\ given' = {}
    /\ unlisted' = {}

EngineNext ==
    \/ \E t \in Table, p \in Pair :
          \/ RegisterCell(t, p)
          \/ Remove(t, p)
          \/ \E slot \in SetSlots : SetCell(t, p, slot)
    \/ \E t \in Table, pairs \in Batches, count \in 0 .. MaxBatch :
          RegisterBatch(t, pairs, count)
    \/ Clear

EngineSpec == EngineInit /\ [][EngineNext]_engineVars
-----------------------------------------------------------------------------
(*****************************************************************************)
(* A table on its way out.  get_table_data lists the names, each behind a    *)
(* byte with its length (of a longer name, 255 and the whole name), and the  *)
(* slots of the cells that are in the index.                                 *)
(*****************************************************************************)
LengthByte(s) == IF Len(s) < MaxByte THEN Len(s) ELSE MaxByte

Named(s) == <<LengthByte(s)>> \o s

Found(t) == Only(table_index[t], {p \in Pair : index[<<t, p>>] # NoSlot})

MetaBlob(t) ==
    Joined([i \in 1 .. Len(Found(t)) |-> Named(Found(t)[i].row) \o Named(Found(t)[i].col)])

PoolIndices(t) == [i \in 1 .. Len(Found(t)) |-> index[<<t, Found(t)[i]>>]]

(*****************************************************************************)
(* pack_cells_to_bytes, with which the caller fills its pool: a tag, the     *)
(* length in four bytes, as much of the value as fits, zeros.                *)
(*****************************************************************************)
Fits(v) == IF Len(v) < CellSize - HeaderSize THEN Len(v) ELSE CellSize - HeaderSize

\* mutant of PackCell: the length is written lowest byte first, as for a blob
PackCellLowestFirst(v) ==
    <<1>> \o LittleEndian(Fits(v)) \o SubSeq(v, 1, Fits(v))
        \o [i \in 1 .. CellSize - HeaderSize - Fits(v) |-> 0]

PackCell(v) ==
    <<1>> \o BigEndian(Fits(v)) \o SubSeq(v, 1, Fits(v))
        \o [i \in 1 .. CellSize - HeaderSize - Fits(v) |-> 0]

(*****************************************************************************)
(* batch_decode_to_blob: each value behind its length in four bytes, the     *)
(* lowest first; a length that leads out of its cell is cut.                 *)
(*****************************************************************************)
CellAt(buffer, i) == SubSeq(buffer, (i - 1) * CellSize + 1, i * CellSize)

Decoded(cell) ==
    LET length == FromBigEndian(cell, 2)
    IN  SubSeq(cell, HeaderSize + 1,
               IF HeaderSize + length < CellSize THEN HeaderSize + length ELSE CellSize)

DecodeToBlob(buffer) ==
    Joined([i \in 1 .. Len(buffer) \div CellSize |->
               LittleEndian(Len(Decoded(CellAt(buffer, i)))) \o Decoded(CellAt(buffer, i))])

(*****************************************************************************)
(* pack_columnar_data_blobs walks both blobs in step; its result is given as *)
(* the cells it holds.  A round takes a byte of meta at least.               *)
(*****************************************************************************)
NextCell(meta, values, walk) ==
    LET col    == walk.m + 1 + meta[walk.m]
        val    == walk.v + 4
        length == FromLittleEndian(values, walk.v)
    IN  IF walk.m > Len(meta) \/ col > Len(meta) THEN walk
        ELSE [m |-> col + 1 + meta[col], v |-> val + length,
              cells |-> Append(walk.cells,
                               [row |-> SubSeq(meta, walk.m + 1, col - 1),
                                col |-> SubSeq(meta, col + 1, col + meta[col]),
                                val |-> SubSeq(values, val, val + length - 1)])]

PackColumnar(meta, values) ==
    LET walk[n \in 0 .. Len(meta)] ==
            IF n = 0 THEN [m |-> 1, v |-> 1, cells |-> <<>>]
            ELSE NextCell(meta, values, walk[n - 1])
    IN  walk[Len(meta)].cells

Export(t) ==
    PackColumnar(MetaBlob(t),
                 DecodeToBlob(Joined([i \in 1 .. Len(PoolIndices(t)) |->
                                         PackCell(PoolValue[PoolIndices(t)[i]])])))
-----------------------------------------------------------------------------
(*****************************************************************************)
(* Two cells never have the same slot, in which one would overwrite the      *)
(* other, unless a caller of set asked for that slot: a slot set was given   *)
(* is never handed out again, nor one of a batch that failed                 *)
(* (lib.rs:62, 72-75, 80).                                                   *)
(*****************************************************************************)
SlotsNotShared ==
    \A c, d \in Cell :
        c # d /\ index[c] # NoSlot /\ index[c] = index[d] => index[c] \in given

(*****************************************************************************)
(* A table lists no cell that is not in the index, so that what is removed   *)
(* does not come back when it is registered again; and it lists every cell   *)
(* but those stored by set or by a batch that failed (lib.rs:63, 71, 92,     *)
(* 133-138).                                                                 *)
(*****************************************************************************)
Listed(t, p) == \E i \in 1 .. Len(table_index[t]) : table_index[t][i] = p

TableListsItsCells ==
    \A t \in Table, p \in Pair :
        /\ Listed(t, p) => index[<<t, p>>] # NoSlot
        /\ index[<<t, p>>] # NoSlot => Listed(t, p) \/ <<t, p>> \in unlisted

(*****************************************************************************)
(* A table arrives at the caller cell by cell: each name and each value, cut *)
(* to what a cell holds, in its place, provided no name is longer than its   *)
(* length byte can say (lib.rs:120-123, 162-166, 211-231).                   *)
(*****************************************************************************)
Short(p) == Len(p.row) <= MaxByte /\ Len(p.col) <= MaxByte

Kept(v) == SubSeq(v, 1, Fits(v))

TablesArrive ==
    \A t \in Table :
        LET pairs == table_index[t]
        IN  (\A i \in 1 .. Len(pairs) : Short(pairs[i])) =>
                Export(t) = [i \in 1 .. Len(pairs) |->
                                [row |-> pairs[i].row, col |-> pairs[i].col,
                                 val |-> Kept(PoolValue[index[<<t, pairs[i]>>]])]]
=============================================================================
