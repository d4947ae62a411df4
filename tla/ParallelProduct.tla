--------------------------- MODULE ParallelProduct ---------------------------
(* CsrTensor::matmul_par (linalg/src/csr.rs): one pass counts what each row  *)
(* of the product may hold, another lets threads fill rows through a raw     *)
(* pointer, each from where the counts say that its row begins.              *)
EXTENDS Integers, Sequences, FiniteSets, SequencesExt

CONSTANTS Workers,  \* the threads of the second pass
          Limit     \* the greatest value of the saturating types

VARIABLES given,        \* [n, op, arith, ...]: what is asked, of n x n matrices
          self, other,  \* the operands
          phase,        \* "built", "count", "sum", "fill" or "done"
          counts,       \* per row, -1 where it was not counted
          row_ptr,      \* where rows begin, as far as it is known
          out,          \* [col, val]: the arrays the rows are written into
          rows,         \* rows nobody has begun to fill
          busy,         \* per worker: its row and what it knows of it
          matrix        \* what the operation returned

pvars == <<given, self, other, phase, counts, row_ptr, out, rows, busy, matrix>>

Capped(v) == IF given.arith = "saturating" /\ v > Limit THEN Limit ELSE v
sat_add(x, y) == Capped(x + y)
sat_mul(x, y) == Capped(x * y)

Nodes == 0 .. given.n - 1

\* What from_coo and the other operations build: rows end where the next one
\* begins, and columns are in range.
IsMatrix(t) ==
  /\ t.row_ptr \in [1 .. given.n + 1 -> Nat]
  /\ \A r, s \in 1 .. given.n + 1 : r <= s => t.row_ptr[r] <= t.row_ptr[s]
  /\ \A k \in 1 .. t.row_ptr[given.n + 1] : t.col_idx[k] \in Nodes

(* The entries of a row by their places in the arrays, counted from 1        *)
Places(t, r) == t.row_ptr[r + 1] + 1 .. t.row_ptr[r + 2]
(* Both loops of a row of the product: an entry of self's row, and one of    *)
(* other's row that it selects.                                              *)
Terms(r) == UNION {{<<i, j>> : j \in Places(other, self.col_idx[i])} : i \in Places(self, r)}
First(some) == CHOOSE p \in some : \A q \in some : p[1] < q[1] \/ (p[1] = q[1] /\ p[2] <= q[2])
Touched(r) == {other.col_idx[p[2]] : p \in Terms(r)}

Clean == [c \in Nodes |-> 0]
Idle  == [row |-> -1, left |-> {}, pos |-> 0, nz_cols |-> <<>>, acc |-> Clean]

PInit ==
  /\ given.n \in Nat /\ given.op = "matmul_par"
  /\ IsMatrix(self) /\ IsMatrix(other)
  /\ phase = "built"
  /\ counts = <<>> /\ row_ptr = <<>> /\ out = <<>> /\ rows = {} /\ busy = <<>> /\ matrix = <<>>

Begin ==
  /\ phase = "built" /\ given.op = "matmul_par" /\ phase' = "count"
  /\ counts' = [r \in Nodes |-> -1]
  /\ UNCHANGED <<given, self, other, row_ptr, out, rows, busy, matrix>>

\* Faulty CountRow: the mask is not cleared for the next row.
CountRowKeepsMask(r) ==
  /\ phase = "count" /\ counts[r] = -1
  /\ counts' = [counts EXCEPT ![r] = Cardinality(Touched(r) \ UNION {Touched(q) : q \in {q \in Nodes : counts[q] # -1}})]
  /\ UNCHANGED <<given, self, other, phase, row_ptr, out, rows, busy, matrix>>

(* The symbolic pass: the columns a row touches, each once (mask)            *)
CountRow(r) ==
  /\ phase = "count" /\ counts[r] = -1
  /\ counts' = [counts EXCEPT ![r] = Cardinality(Touched(r))]
  /\ UNCHANGED <<given, self, other, phase, row_ptr, out, rows, busy, matrix>>
AllCounted ==
  /\ phase = "count" /\ \A r \in Nodes : counts[r] # -1
  /\ phase' = "sum" /\ row_ptr' = <<0>>
  /\ UNCHANGED <<given, self, other, counts, out, rows, busy, matrix>>

(* row_ptr.push(row_ptr.last().unwrap() + c)                                 *)
Push ==
  /\ phase = "sum" /\ Len(row_ptr) <= given.n
  /\ row_ptr' = Append(row_ptr, row_ptr[Len(row_ptr)] + counts[Len(row_ptr) - 1])
  /\ UNCHANGED <<given, self, other, phase, counts, out, rows, busy, matrix>>
(* The arrays are filled with zeros.                                         *)
LayOut ==
  /\ phase = "sum" /\ Len(row_ptr) = given.n + 1
  /\ phase' = "fill" /\ rows' = Nodes
  /\ LET total == row_ptr[given.n + 1]
     IN  out' = [col |-> [k \in 1 .. total |-> 0], val |-> [k \in 1 .. total |-> 0]]
  /\ busy' = [w \in Workers |-> Idle]
  /\ UNCHANGED <<given, self, other, counts, row_ptr, matrix>>

(* A worker takes a row. Its scratch is as the row before has left it.       *)
TakeRow(w) ==
  /\ phase = "fill" /\ busy[w].row = -1
  /\ \E r \in rows :
       /\ rows' = rows \ {r}
       /\ busy' = [busy EXCEPT ![w] = [@ EXCEPT !.row = r, !.left = Terms(r), !.pos = row_ptr[r + 1]]]
  /\ UNCHANGED <<given, self, other, phase, counts, row_ptr, out, matrix>>

(* One product is added; a column whose sum is zero is noted, again if it    *)
(* was noted before.                                                         *)
AddTerm(w) ==
  /\ phase = "fill" /\ busy[w].row # -1 /\ busy[w].left # {}
  /\ LET p == First(busy[w].left)
         j == other.col_idx[p[2]]
         s == busy[w]
     IN  busy' = [busy EXCEPT ![w] =
           [s EXCEPT !.left = @ \ {p},
                     !.acc[j] = sat_add(@, sat_mul(self.values[p[1]], other.values[p[2]])),
                     !.nz_cols = IF s.acc[j] = 0 THEN Append(@, j) ELSE @]]
  /\ UNCHANGED <<given, self, other, phase, counts, row_ptr, out, rows, matrix>>

(* sort_unstable, and the loop over what is sorted: the least column next    *)
Lowest(cols) == CHOOSE k \in DOMAIN cols : \A m \in DOMAIN cols : cols[k] <= cols[m]
IsWriting(w) == busy[w].row # -1 /\ busy[w].left = {} /\ busy[w].nz_cols # <<>>
Column(w)    == busy[w].nz_cols[Lowest(busy[w].nz_cols)]

\* Faulty WriteEntry: the scratch is not cleared behind an entry.
WriteEntryLeavesScratch(w) ==
  /\ phase = "fill" /\ IsWriting(w)
  /\ LET s == busy[w]
         j == Column(w)
         k == s.pos + 1
     IN  /\ busy' = [busy EXCEPT ![w] = [s EXCEPT !.nz_cols = RemoveAt(@, Lowest(@)), !.pos = IF s.acc[j] # 0 THEN k ELSE @]]
         /\ out' = IF s.acc[j] # 0 THEN [out EXCEPT !.col[k] = j, !.val[k] = s.acc[j]] ELSE out
  /\ UNCHANGED <<given, self, other, phase, counts, row_ptr, rows, matrix>>

(* A column is written through the raw pointers unless its sum is zero, and  *)
(* its scratch cleared.                                                      *)
WriteEntry(w) ==
  /\ phase = "fill" /\ IsWriting(w)
  /\ LET s == busy[w]
         j == Column(w)
         k == s.pos + 1
     IN  /\ busy' = [busy EXCEPT ![w] = [s EXCEPT !.nz_cols = RemoveAt(@, Lowest(@)), !.acc[j] = 0,
                                                  !.pos = IF s.acc[j] # 0 THEN k ELSE @]]
         /\ out' = IF s.acc[j] # 0 THEN [out EXCEPT !.col[k] = j, !.val[k] = s.acc[j]] ELSE out
  /\ UNCHANGED <<given, self, other, phase, counts, row_ptr, rows, matrix>>

RowDone(w) ==
  /\ phase = "fill" /\ busy[w].row # -1 /\ busy[w].left = {} /\ busy[w].nz_cols = <<>>
  /\ busy' = [busy EXCEPT ![w] = [@ EXCEPT !.row = -1]]
  /\ UNCHANGED <<given, self, other, phase, counts, row_ptr, out, rows, matrix>>

Collect ==
  /\ phase = "fill" /\ rows = {} /\ \A w \in Workers : busy[w].row = -1
  /\ phase' = "done" /\ out' = <<>> /\ busy' = <<>>
  /\ matrix' = [kind |-> "csr", shape |-> <<given.n, given.n>>, row_ptr |-> row_ptr, col_idx |-> out.col, values |-> out.val]
  /\ UNCHANGED <<given, self, other, counts, row_ptr, rows>>

PNext == \/ Begin \/ AllCounted \/ Push \/ LayOut \/ Collect
         \/ \E r \in DOMAIN counts : CountRow(r)
         \/ \E w \in DOMAIN busy : TakeRow(w) \/ AddTerm(w) \/ WriteEntry(w) \/ RowDone(w)
PSpec == PInit /\ [][PNext]_pvars

----------------------------------------------------------------------------
(* An entry is written to the room that was counted for its row, where       *)
(* nobody has written yet and no other thread is about to, and behind all    *)
(* entries of its row with smaller columns, without a gap.  So what the      *)
(* threads do through the raw pointers does not depend on their order.       *)
IsEmitting(w) == IsWriting(w) /\ busy[w].acc[Column(w)] # 0
EntriesFit ==
  phase = "fill" => \A w \in Workers : IsEmitting(w) =>
    LET r == busy[w].row
        k == busy[w].pos + 1
    IN  /\ k \in row_ptr[r + 1] + 1 .. row_ptr[r + 2]
        /\ k \in DOMAIN out.val /\ out.val[k] = 0
        /\ \A i \in row_ptr[r + 1] + 1 .. k - 1 : out.val[i] # 0 /\ out.col[i] < Column(w)
        /\ \A v \in Workers \ {w} : IsEmitting(v) => busy[v].pos + 1 # k
=============================================================================
