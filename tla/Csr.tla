-------------------------------- MODULE Csr --------------------------------
(* Square sparse matrices: built from triplets, merged element by element,   *)
(* multiplied by one thread or by many, and looked at as graphs.             *)
EXTENDS Tensors, ParallelProduct

CONSTANT Givens     \* [n, a, b, op, arith]: two lists of triplets and what to do with them

sat_sub(x, y) == IF given.arith = "saturating" THEN (IF x < y THEN 0 ELSE x - y) ELSE x - y
Combine(op, x, y) == CASE op = "add" -> sat_add(x, y) [] op = "sub" -> sat_sub(x, y) [] op = "mul" -> sat_mul(x, y)

Entry(c, v) == [col |-> c, val |-> v]
Row(t, r) == [i \in 1 .. RowNnz(t, r) |-> RowEntry(t, r, i - 1)]
FromRows(n, some) ==
  LET all == FlattenSeq(some)
      ptr == [r \in 1 .. n + 1 |-> Len(FlattenSeq(SubSeq(some, 1, r - 1)))]
  IN  FromParts(<<n, n>>, ptr, [k \in 1 .. Len(all) |-> all[k].col], [k \in 1 .. Len(all) |-> all[k].val])
ByColumn(row) == SortSeq(row, LAMBDA x, y : x.col < y.col)

(* The entries of a row, sorted, duplicates summed *)
Summed(triplets, r) ==
  LET mine == SelectSeq(triplets, LAMBDA t : t[1] = r)
      merge(row, e) == IF row # <<>> /\ row[Len(row)].col = e.col
                       THEN Append(Lead(row), Entry(e.col, sat_add(row[Len(row)].val, e.val))) ELSE Append(row, e)
  IN  FoldLeft(merge, <<>>, ByColumn([k \in 1 .. Len(mine) |-> Entry(mine[k][2], mine[k][3])]))

(* Built from triplets; what sums to zero is dropped. *)
from_coo(n, triplets) ==
  FromRows(n, [r \in 1 .. n |-> SelectSeq(Summed(triplets, r - 1), LAMBDA e : e.val # Zero)])

(* The sorted merge of two rows; what combines to zero is dropped. *)
RECURSIVE Merge(_, _, _)
Merge(op, x, y) ==
  LET emit(c, v) == IF v = Zero THEN <<>> ELSE <<Entry(c, v)>>
  IN  CASE x = <<>> /\ y = <<>> -> <<>>
        [] x # <<>> /\ (y = <<>> \/ x[1].col < y[1].col) ->
             emit(x[1].col, Combine(op, x[1].val, Zero)) \o Merge(op, Tail(x), y)
        [] y # <<>> /\ (x = <<>> \/ y[1].col < x[1].col) ->
             emit(y[1].col, Combine(op, Zero, y[1].val)) \o Merge(op, x, Tail(y))
        [] OTHER -> emit(x[1].col, Combine(op, x[1].val, y[1].val)) \o Merge(op, Tail(x), Tail(y))
zip_assign_with(op, x, y) == FromRows(given.n, [r \in 1 .. given.n |-> Merge(op, Row(x, r - 1), Row(y, r - 1))])

----------------------------------------------------------------------------
(* Row i of a product, in a dense accumulator with the columns it touched:   *)
(* a column whose partial sum is zero when it is met is noted again.         *)
Products(x, y, i) ==
  FlattenSeq([k \in 1 .. RowNnz(x, i) |->
    LET e == RowEntry(x, i, k - 1)
    IN  [j \in 1 .. RowNnz(y, e.col) |-> Entry(RowEntry(y, e.col, j - 1).col, sat_mul(e.val, RowEntry(y, e.col, j - 1).val))]])
Accumulate(s, some) ==
  FoldLeft(LAMBDA t, e : [acc |-> [t.acc EXCEPT ![e.col] = sat_add(@, e.val)],
                          nz_cols |-> IF t.acc[e.col] = Zero THEN Append(t.nz_cols, e.col) ELSE t.nz_cols], s, some)
Ascending(cols) == SortSeq(cols, LAMBDA x, y : x < y)

(* The columns in order, each emitted the first time only: the accumulator   *)
(* is cleared behind it.                                                     *)
matmul(x, y) ==
  LET row(i) ==
        LET s == Accumulate([acc |-> Clean, nz_cols |-> <<>>], Products(x, y, i))
            cols == Ascending(s.nz_cols)
            fresh == SelectSeq([k \in 1 .. Len(cols) |-> k], LAMBDA k : (k = 1 \/ cols[k - 1] # cols[k]) /\ s.acc[cols[k]] # Zero)
        IN  [k \in 1 .. Len(fresh) |-> Entry(cols[fresh[k]], s.acc[cols[fresh[k]]])]
  IN  FromRows(given.n, [r \in 1 .. given.n |-> row(r - 1)])

----------------------------------------------------------------------------
(* Union-find with path halving, by rank *)
RECURSIVE Find(_, _)
Find(parent, x) ==
  IF parent[x] = x THEN [parent |-> parent, root |-> x]
  ELSE LET halved == [parent EXCEPT ![x] = parent[parent[x]]] IN Find(halved, halved[x])

Union(s, x, y) ==
  LET fx == Find(s.parent, x)
      fy == Find(fx.parent, y)
      rx == s.rank[fx.root]
      ry == s.rank[fy.root]
  IN  IF fx.root = fy.root THEN [s EXCEPT !.parent = fy.parent]
      ELSE IF rx < ry THEN [s EXCEPT !.parent = [fy.parent EXCEPT ![fx.root] = fy.root]]
      ELSE [parent |-> [fy.parent EXCEPT ![fy.root] = fx.root],
            rank |-> IF rx = ry THEN [s.rank EXCEPT ![fx.root] = @ + 1] ELSE s.rank]
connected_components(t) ==
  LET nodes == 0 .. given.n - 1
      edges == FlattenSeq([r \in 1 .. given.n |-> [i \in 1 .. RowNnz(t, r - 1) |-> <<r - 1, RowEntry(t, r - 1, i - 1).col>>]])
      joined == FoldLeft(LAMBDA s, e : Union(s, e[1], e[2]), [parent |-> [x \in nodes |-> x], rank |-> [x \in nodes |-> 0]], edges)
      root(x) == Find(joined.parent, x).root
      roots == FoldLeft(LAMBDA seen, x : IF Contains(seen, root(x - 1)) THEN seen ELSE Append(seen, root(x - 1)),
                        <<>>, [x \in 1 .. given.n |-> x])
  IN  [x \in nodes |-> (CHOOSE k \in 1 .. Len(roots) : roots[k] = root(x)) - 1]

----------------------------------------------------------------------------
(* Reverse Cuthill-McKee *)
Neighbours(t, u) == [i \in 1 .. RowNnz(t, u) |-> RowEntry(t, u, i - 1).col]
(* A breadth-first walk: one node popped, its new neighbours pushed, as they *)
(* are stored or by ascending degree                                         *)
ByDegree(t, nbrs) == SortSeq(nbrs, LAMBDA u, v : RowNnz(t, u) < RowNnz(t, v))
Pop(t, s, sorted) ==
  IF s.queue = <<>> THEN s
  ELSE LET u == s.queue[1]
           nbrs == IF sorted THEN ByDegree(t, Neighbours(t, u)) ELSE Neighbours(t, u)
           new == SelectSeq(nbrs, LAMBDA v : v \notin s.visited)
       IN  [queue |-> Tail(s.queue) \o new, visited |-> s.visited \cup ToSet(new), order |-> Append(s.order, u)]
Walk(t, start, visited, sorted) ==
  FoldLeft(LAMBDA s, k : Pop(t, s, sorted), [queue |-> <<start>>, visited |-> visited \cup {start}, order |-> <<>>],
           [k \in 1 .. given.n |-> k])
(* From each node not yet visited: a walk to find one far away, and the walk *)
(* that counts from there                                                    *)
Order(t) ==
  LET seeded(s, seed) ==
        IF seed \in s.visited THEN s
        ELSE LET far == Walk(t, seed, {}, FALSE).order
                 walk == Walk(t, far[Len(far)], s.visited, TRUE)
             IN  [visited |-> walk.visited, order |-> s.order \o walk.order]
  IN  FoldLeft(seeded, [visited |-> {}, order |-> <<>>], [x \in 1 .. given.n |-> x - 1]).order

(* permute: perm[new] = old, refused if it has not every node's place *)
permute(t, perm) ==
  LET inv(old) == (CHOOSE k \in 1 .. Len(perm) : perm[k] = old) - 1
      row(r) == Row(t, perm[r])
  IN  FromRows(given.n, [r \in 1 .. given.n |->
                ByColumn([k \in 1 .. Len(row(r)) |-> Entry(inv(row(r)[k].col), row(r)[k].val)])])
Panicked == [kind |-> "panic"]
rcm(t) == IF Len(Order(t)) # given.n THEN Panicked ELSE permute(t, Reverse(Order(t)))

----------------------------------------------------------------------------
(* The machine: the operands are built, then one operation is done.          *)
Init ==
  /\ given \in Givens /\ self = <<>> /\ other = <<>> /\ phase = "new" /\ matrix = <<>>
  /\ counts = <<>> /\ row_ptr = <<>> /\ out = <<>> /\ rows = {} /\ busy = <<>>

Build ==
  /\ phase = "new" /\ phase' = "built"
  /\ self' = from_coo(given.n, given.a) /\ other' = from_coo(given.n, given.b)
  /\ UNCHANGED <<given, matrix, counts, row_ptr, out, rows, busy>>

Sequentially ==
  /\ phase = "built" /\ given.op # "matmul_par" /\ phase' = "done"
  /\ matrix' = CASE given.op \in {"add", "sub", "mul"} -> zip_assign_with(given.op, self, other)
                 [] given.op = "matmul" -> matmul(self, other)
                 [] given.op = "components" -> connected_components(self)
                 [] given.op = "rcm" -> rcm(self)
  /\ UNCHANGED <<given, self, other, counts, row_ptr, out, rows, busy>>

Next == Build \/ Sequentially \/ PNext
Spec == Init /\ [][Next]_pvars

----------------------------------------------------------------------------
ValueAt(t, r, c) == LET v == Stored(t, <<r, c>>) IN IF v = {} THEN Zero ELSE CHOOSE x \in v : TRUE
(* What the merges and the searches rely on *)
IsCanonical(t) ==
  \A r \in Nodes : LET row == Row(t, r)
                   IN  /\ \A i \in 1 .. Len(row) : row[i].val # Zero /\ row[i].col \in Nodes
                       /\ \A i \in 1 .. Len(row) - 1 : row[i].col < row[i + 1].col
SumOf(r, c, triplets) == FoldLeft(LAMBDA s, t : IF t[1] = r /\ t[2] = c THEN s + t[3] ELSE s, 0, triplets)
Dot(r, c) == FoldLeft(LAMBDA s, k : s + ValueAt(self, r, k - 1) * ValueAt(other, k - 1, c), 0, [k \in 1 .. given.n |-> k])

(* A matrix is the one written as triplets, and every operation gives the    *)
(* matrix it should, in the form (sorted rows without zeros) the next one    *)
(* needs, at every bound of the saturating types.                            *)
OperationsAreExact ==
  /\ phase # "new" =>
       /\ \A t \in {self, other} : IsMatrix(t) /\ IsCanonical(t)
       /\ \A r, c \in Nodes : ValueAt(self, r, c) = Capped(SumOf(r, c, given.a))
  /\ (phase = "done" /\ given.op \in {"add", "sub", "mul", "matmul"}) =>
       /\ IsCanonical(matrix)
       /\ \A r, c \in Nodes :
            ValueAt(matrix, r, c) = IF given.op = "matmul" THEN Capped(Dot(r, c))
                                    ELSE Combine(given.op, ValueAt(self, r, c), ValueAt(other, r, c))

(* Whatever the rows' order and the threads' interleaving, the parallel      *)
(* product's entries are the sequential one's, in the same order; a row in   *)
(* which products cancelled keeps room at its end, filled with zeros, and    *)
(* without cancellation the two results are the same arrays.                 *)
ParallelAgrees ==
  (phase = "done" /\ given.op = "matmul_par") =>
    \A r \in Nodes :
      LET row == Row(matrix, r)
          meant == Row(matmul(self, other), r)
      IN  /\ Len(meant) <= Len(row) /\ SubSeq(row, 1, Len(meant)) = meant
          /\ \A i \in Len(meant) + 1 .. Len(row) : row[i] = Entry(0, Zero)
          /\ given.arith = "saturating" => row = meant

(* Two nodes have the same component number exactly if they are connected,   *)
(* and the reordering of an undirected graph only renames its nodes.         *)
Edge(t, u, v) == Stored(t, <<u, v>>) # {}
Reachable(u) ==
  LET reach[k \in 0 .. given.n] ==
        IF k = 0 THEN {u}
        ELSE reach[k - 1] \cup {v \in Nodes : \E x \in reach[k - 1] : Edge(self, x, v) \/ Edge(self, v, x)}
  IN  reach[given.n]
Undirected == \A u, v \in Nodes : Edge(self, u, v) <=> Edge(self, v, u)
GraphsAreUnderstood ==
  phase = "done" =>
    /\ given.op = "components" => \A u, v \in Nodes : (matrix[u] = matrix[v]) <=> v \in Reachable(u)
    /\ (given.op = "rcm" /\ Undirected) =>
         /\ matrix # Panicked /\ IsCanonical(matrix)
         /\ \E p \in [Nodes -> Nodes] :
              /\ \A u, v \in Nodes : u # v => p[u] # p[v]
              /\ \A u, v \in Nodes : ValueAt(matrix, p[u], p[v]) = ValueAt(self, u, v)
=============================================================================
