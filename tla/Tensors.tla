------------------------------ MODULE Tensors ------------------------------
(* The tensors of linalg behind their common interface NDIndex: dense ones,  *)
(* CSR ones (the last axis stored, the others flattened into a compound row) *)
(* and block-sparse ones.  An index is a sequence with the outermost axis    *)
(* first, counted from 0; a set of at most one value stands for Option.      *)
EXTENDS Integers, Sequences, FiniteSets, SequencesExt

CONSTANTS Zero,   \* T::default()
          N       \* side of a block

Product(dims) == FoldLeft(LAMBDA p, d : p * d, 1, dims)
CeilDiv(x, y) == (x + y - 1) \div y
Lead(s) == SubSeq(s, 1, Len(s) - 1)
AxesFromLast(shape) == Reverse([k \in 1 .. Len(shape) |-> k])

(* Every index of a shape, the last axis running fastest *)
RowMajor(shape) ==
  FoldLeft(LAMBDA some, d : FlattenSeq([i \in 1 .. Len(some) |-> [j \in 1 .. d |-> Append(some[i], j - 1)]]),
           << <<>> >>, shape)

----------------------------------------------------------------------------
(* Dense *)
Zeros(shape) == [kind |-> "dense", shape |-> shape, data |-> [i \in 1 .. Product(shape) |-> Zero]]

LinearIndex(t, ix) ==
  FoldLeft(LAMBDA p, k : [idx |-> p.idx + ix[k] * p.stride, stride |-> p.stride * t.shape[k]],
           [idx |-> 0, stride |-> 1], AxesFromLast(t.shape)).idx
FillFrom(t, src) == [t EXCEPT !.data = src]

----------------------------------------------------------------------------
(* CSR *)
FromParts(shape, row_ptr, col_idx, values) ==
  [kind |-> "csr", shape |-> shape, row_ptr |-> row_ptr, col_idx |-> col_idx, values |-> values]
CompoundRow(t, ix) == FoldLeft(LAMBDA r, k : r * t.shape[k] + ix[k], 0, [k \in 1 .. Len(t.shape) - 1 |-> k])
RowNnz(t, row) == t.row_ptr[row + 2] - t.row_ptr[row + 1]
RowEntry(t, row, i) == LET k == t.row_ptr[row + 1] + i + 1 IN [col |-> t.col_idx[k], val |-> t.values[k]]
(* The binary search within a row, whose columns ascend *)
Stored(t, ix) ==
  LET row == CompoundRow(t, ix)
  IN  {RowEntry(t, row, i).val : i \in {j \in 0 .. RowNnz(t, row) - 1 : RowEntry(t, row, j).col = ix[Len(ix)]}}

----------------------------------------------------------------------------
(* Block-sparse: the last two axes are cut into N x N blocks. *)
BlockRows(t) == CeilDiv(t.shape[Len(t.shape) - 1], N)
BlockCols(t) == CeilDiv(t.shape[Len(t.shape)], N)
OuterShape(t) == SubSeq(t.shape, 1, Len(t.shape) - 2)
WithShape(shape) ==
  LET t == [kind |-> "blocked", shape |-> shape, blocks |-> <<>>]
  IN  [t EXCEPT !.blocks = [i \in 1 .. Product(OuterShape(t)) * BlockRows(t) * BlockCols(t) |-> {}]]
OuterLinearIndex(t, ix) == LinearIndex([shape |-> OuterShape(t)], SubSeq(ix, 1, Len(ix) - 2))

BlockCoords(t, ix) ==
  LET r == ix[Len(ix) - 1]
      c == ix[Len(ix)]
  IN  [block |-> OuterLinearIndex(t, ix) * (BlockRows(t) * BlockCols(t))
                  + (r \div N) * BlockCols(t) + (c \div N) + 1,
       cell |-> (r % N) * N + (c % N) + 1]
BlockedGet(t, ix) ==
  LET at == BlockCoords(t, ix) IN {b[at.cell] : b \in t.blocks[at.block]} \ {Zero}
BlockedSet(t, ix, v) ==
  LET at == BlockCoords(t, ix)
      old == IF t.blocks[at.block] = {} THEN [i \in 1 .. N * N |-> Zero]
             ELSE CHOOSE b \in t.blocks[at.block] : TRUE
  IN  [t EXCEPT !.blocks[at.block] = {[old EXCEPT ![at.cell] = v]}]

----------------------------------------------------------------------------
(* NDIndex, whatever the tensor is *)
Ndim(t) == Len(t.shape)
AsSparse2D(t) == t.kind = "csr"
GetOpt(t, ix) ==
  CASE t.kind = "dense" -> {t.data[LinearIndex(t, ix) + 1]}
    [] t.kind = "csr" -> Stored(t, ix)
    [] t.kind = "blocked" -> BlockedGet(t, ix)
Get(t, ix) == LET v == GetOpt(t, ix) IN IF v = {} THEN Zero ELSE CHOOSE x \in v : TRUE
(* Set panics on a CSR tensor: it is never an output. *)
Set(t, ix, v) ==
  IF t.kind = "dense" THEN [t EXCEPT !.data[LinearIndex(t, ix) + 1] = v] ELSE BlockedSet(t, ix, v)
=============================================================================
