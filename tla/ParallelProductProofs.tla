----------------------- MODULE ParallelProductProofs -----------------------
(***************************************************************************)
(* For matrices of every size and any number of threads, the entries that  *)
(* the threads write through the raw pointers stay in the rows' rooms and  *)
(* out of each other's way.                                                *)
(***************************************************************************)
EXTENDS ParallelProduct, FiniteSetTheorems, SequenceTheorems, WellFoundedInduction, TLAPS

(***************************************************************************)
(* The invariant.  Every row has as much room as it touches columns, rooms *)
(* follow one another, and what a worker has written and still may write   *)
(* (its non-zero sums, all of them noted) together fit the room: a column  *)
(* that was noted twice is written once, since its sum is cleared.         *)
(***************************************************************************)
Operands == given.n \in Nat /\ IsMatrix(self) /\ IsMatrix(other)

CountsAreRight ==
  phase \in {"count", "sum", "fill"} =>
    /\ DOMAIN counts = Nodes
    /\ \A r \in Nodes : (phase = "count" /\ counts[r] = -1) \/ counts[r] = Cardinality(Touched(r))

RoomsFollow ==
  /\ row_ptr \in Seq(Nat) /\ Len(row_ptr) \in 1 .. given.n + 1
  /\ \A i, j \in 1 .. Len(row_ptr) : i <= j => row_ptr[i] <= row_ptr[j]
  /\ \A r \in Nodes : r + 2 <= Len(row_ptr) => row_ptr[r + 2] = row_ptr[r + 1] + Cardinality(Touched(r))
Room(r) == row_ptr[r + 1] + 1 .. row_ptr[r + 2]

Full(s)  == {c \in Nodes : s.acc[c] # 0}
Noted(s) == {s.nz_cols[m] : m \in 1 .. Len(s.nz_cols)}
IsScratch(s) == DOMAIN s = {"row", "left", "pos", "nz_cols", "acc"} /\ DOMAIN s.acc = Nodes
Resting(s)   == s.row = -1 /\ s.left = {} /\ s.nz_cols = <<>> /\ Full(s) = {}

Filling(s, o) ==
  /\ s.row \in Nodes
  /\ s.left \in SUBSET Terms(s.row)
  /\ s.nz_cols \in Seq(Touched(s.row))
  /\ Full(s) \in SUBSET Noted(s)
  /\ s.pos \in Nat /\ row_ptr[s.row + 1] <= s.pos
  /\ s.pos + Cardinality(Full(s)) <= row_ptr[s.row + 2]
  /\ s.left # {} => s.pos = row_ptr[s.row + 1]
  /\ \A i \in row_ptr[s.row + 1] + 1 .. s.pos :
       o.val[i] # 0 /\ o.col[i] \in Nodes \ Full(s) /\ \A c \in Noted(s) : o.col[i] <= c
  /\ \A i \in s.pos + 1 .. row_ptr[s.row + 2] : o.val[i] = 0

IsOut(o) ==
  /\ DOMAIN o = {"col", "val"}
  /\ DOMAIN o.col = 1 .. row_ptr[given.n + 1] /\ DOMAIN o.val = 1 .. row_ptr[given.n + 1]

Worker(w) == IsScratch(busy[w]) /\ (Resting(busy[w]) \/ (Filling(busy[w], out) /\ busy[w].row \notin rows))
Apart(v, w) == busy[v].row # -1 => busy[v].row # busy[w].row

Filled ==
  /\ Len(row_ptr) = given.n + 1
  /\ IsOut(out)
  /\ DOMAIN busy = Workers
  /\ rows \in SUBSET Nodes
  /\ \A r \in rows : \A k \in Room(r) : out.val[k] = 0
  /\ \A w \in Workers : Worker(w)
  /\ \A v, w \in Workers : v # w => Apart(v, w)

PInv ==
  /\ Operands
  /\ CountsAreRight
  /\ phase \in {"sum", "fill"} => RoomsFollow
  /\ phase = "fill" => Filled

-----------------------------------------------------------------------------
(* Rows, terms and columns *)

LEMMA LeastNumber ==
  ASSUME NEW T \in SUBSET Nat, T # {}
  PROVE  \E n \in T : \A k \in T : n <= k
<1>1. PICK n \in T : \A k \in T : ~(<<k, n>> \in OpToRel(<, Nat))
  BY WFMin, NatLessThanWellFounded, Zenon
<1>2. ASSUME NEW k \in T PROVE n <= k
  <2>1. ~(<<k, n>> \in {w \in Nat \X Nat : w[1] < w[2]})
    BY <1>1, Zenon DEF OpToRel
  <2> QED BY <2>1
<1> QED BY <1>2

(* The places of a row of a matrix are places of its arrays.                 *)
LEMMA PlacesInRange ==
  ASSUME given.n \in Nat, NEW t, IsMatrix(t), NEW r \in Nodes
  PROVE  \A i \in Places(t, r) : i \in Nat /\ t.col_idx[i] \in Nodes
<1>1. r + 1 \in 1 .. given.n + 1 /\ r + 2 \in 1 .. given.n + 1 /\ given.n + 1 \in 1 .. given.n + 1 /\ r + 2 <= given.n + 1
  BY DEF Nodes
<1>2. t.row_ptr[r + 1] \in Nat /\ t.row_ptr[r + 2] \in Nat /\ t.row_ptr[given.n + 1] \in Nat
  BY <1>1 DEF IsMatrix
<1>3. t.row_ptr[r + 2] <= t.row_ptr[given.n + 1]
  BY <1>1, Zenon DEF IsMatrix
<1>4. ASSUME NEW i \in Places(t, r) PROVE i \in Nat /\ i \in 1 .. t.row_ptr[given.n + 1]
  BY <1>2, <1>3 DEF Places
<1> QED BY <1>4, Zenon DEF IsMatrix

LEMMA TermsInRange ==
  ASSUME Operands, NEW r \in Nodes, NEW p \in Terms(r)
  PROVE  p[1] \in Nat /\ p[2] \in Nat /\ other.col_idx[p[2]] \in Touched(r)
<1>1. PICK i \in Places(self, r) : \E j \in Places(other, self.col_idx[i]) : p = <<i, j>>
  BY DEF Terms
<1>2. PICK j \in Places(other, self.col_idx[i]) : p = <<i, j>>
  BY <1>1
<1>3. i \in Nat /\ self.col_idx[i] \in Nodes
  BY PlacesInRange, Zenon DEF Operands
<1>4. j \in Nat
  BY <1>3, PlacesInRange, Zenon DEF Operands
<1>5. other.col_idx[p[2]] \in Touched(r)
  BY Zenon DEF Touched
<1> QED BY <1>2, <1>3, <1>4, <1>5

LEMMA TouchedAreNodes ==
  ASSUME Operands, NEW r \in Nodes
  PROVE  Touched(r) \in SUBSET Nodes
<1>1. ASSUME NEW c \in Touched(r) PROVE c \in Nodes
  <2>1. PICK p \in Terms(r) : c = other.col_idx[p[2]]
    BY <1>1, Zenon DEF Touched
  <2>2. PICK i \in Places(self, r) : \E j \in Places(other, self.col_idx[i]) : p = <<i, j>>
    BY DEF Terms
  <2>3. PICK j \in Places(other, self.col_idx[i]) : p = <<i, j>>
    BY <2>2
  <2>4. self.col_idx[i] \in Nodes
    BY PlacesInRange, Zenon DEF Operands
  <2>5. other.col_idx[j] \in Nodes
    BY <2>4, PlacesInRange, Zenon DEF Operands
  <2> QED BY <2>1, <2>3, <2>5
<1> QED BY <1>1, Zenon

LEMMA NodesAreFinite ==
  ASSUME given.n \in Nat, NEW S \in SUBSET Nodes
  PROVE  IsFiniteSet(S) /\ Cardinality(S) \in Nat
<1>1. IsFiniteSet(Nodes)
  <2>1. 0 \in Int /\ given.n - 1 \in Int
    OBVIOUS
  <2> QED BY <2>1, FS_Interval, Zenon DEF Nodes
<1> QED BY <1>1, FS_Subset, FS_CardinalityType, Zenon

LEMMA FirstIsOne ==
  ASSUME NEW some, some # {}, \A p \in some : p[1] \in Nat /\ p[2] \in Nat
  PROVE  First(some) \in some
<1>1. PICK a \in {p[1] : p \in some} : \A b \in {p[1] : p \in some} : a <= b
  BY LeastNumber
<1> DEFINE same == {p \in some : p[1] = a}
<1>2. PICK b \in {p[2] : p \in same} : \A c \in {p[2] : p \in same} : b <= c
  <2>1. same # {} /\ \A p \in same : p[2] \in Nat
    BY <1>1
  <2> HIDE DEF same
  <2> QED BY <2>1, LeastNumber
<1>3. PICK p \in some : p[1] = a /\ p[2] = b
  BY <1>2
<1>4. ASSUME NEW q \in some PROVE p[1] < q[1] \/ (p[1] = q[1] /\ p[2] <= q[2])
  <2>1. a <= q[1] /\ a \in Nat /\ b \in Nat /\ q[1] \in Nat
    BY <1>1, <1>3
  <2>2. q[1] = a => b <= q[2]
    BY <1>2
  <2> QED BY <1>3, <2>1, <2>2
<1> QED BY <1>3, <1>4, Zenon DEF First

LEMMA LowestIsLeast ==
  ASSUME NEW S \in SUBSET Nat, NEW cols \in Seq(S), cols # <<>>
  PROVE  /\ Lowest(cols) \in 1 .. Len(cols)
         /\ \A m \in 1 .. Len(cols) : cols[Lowest(cols)] <= cols[m]
<1>1. Len(cols) \in Nat /\ Len(cols) # 0 /\ DOMAIN cols = 1 .. Len(cols) /\ \A m \in 1 .. Len(cols) : cols[m] \in S
  BY LenProperties, EmptySeq
<1>2. PICK a \in {cols[m] : m \in 1 .. Len(cols)} : \A b \in {cols[m] : m \in 1 .. Len(cols)} : a <= b
  <2>1. \A m \in 1 .. Len(cols) : cols[m] \in Nat
    BY <1>1, Zenon
  <2>2. 1 \in 1 .. Len(cols)
    BY <1>1
  <2>3. {cols[m] : m \in 1 .. Len(cols)} \in SUBSET Nat /\ {cols[m] : m \in 1 .. Len(cols)} # {}
    BY <2>1, <2>2, Zenon
  <2> QED BY <2>3, LeastNumber, Zenon
<1>3. PICK k \in 1 .. Len(cols) : cols[k] = a
  BY <1>2
<1>4. \E k1 \in DOMAIN cols : \A m \in DOMAIN cols : cols[k1] <= cols[m]
  BY <1>1, <1>2, <1>3
<1> QED BY <1>1, <1>4, Zenon DEF Lowest

(* What is left of a list when one of its places is taken out                *)
LEMMA Removed ==
  ASSUME NEW S, NEW s \in Seq(S), NEW k \in 1 .. Len(s)
  PROVE  /\ RemoveAt(s, k) \in Seq(S)
         /\ {RemoveAt(s, k)[m] : m \in 1 .. Len(RemoveAt(s, k))} = {s[m] : m \in (1 .. Len(s)) \ {k}}
<1> DEFINE a == SubSeq(s, 1, k - 1)
           b == SubSeq(s, k + 1, Len(s))
           n == Len(s)
<1>1. n \in Nat /\ k \in Nat /\ DOMAIN s = 1 .. n /\ \A m \in 1 .. n : s[m] \in S
  BY LenProperties
<1>2. a \in Seq(S) /\ Len(a) = k - 1 /\ \A m \in 1 .. k - 1 : a[m] = s[m]
  BY <1>1, SubSeqProperties
<1>3. b \in Seq(S) /\ Len(b) = n - k /\ \A m \in 1 .. n - k : b[m] = s[k + m]
  <2>1. k + 1 \in Int /\ n \in Int /\ \A m \in k + 1 .. n : s[m] \in S
    BY <1>1
  <2>2. /\ b \in Seq(S)
        /\ Len(b) = IF k + 1 <= n THEN n - (k + 1) + 1 ELSE 0
        /\ \A m \in 1 .. n - (k + 1) + 1 : b[m] = s[k + 1 + m - 1]
    <3> HIDE DEF n
    <3> SUFFICES /\ SubSeq(s, k + 1, n) \in Seq(S)
                 /\ Len(SubSeq(s, k + 1, n)) = IF k + 1 <= n THEN n - (k + 1) + 1 ELSE 0
                 /\ \A m \in 1 .. n - (k + 1) + 1 : SubSeq(s, k + 1, n)[m] = s[k + 1 + m - 1]
      BY Zenon DEF n
    <3> QED BY <2>1, SubSeqProperties
  <2> HIDE DEF b
  <2>3. ASSUME NEW m \in 1 .. n - k PROVE m \in 1 .. n - (k + 1) + 1 /\ k + 1 + m - 1 = k + m
    BY <1>1
  <2>4. \A m \in 1 .. n - k : b[m] = s[k + m]
    BY <2>2, <2>3, Zenon
  <2>5. Len(b) = n - k
    <3> HIDE DEF n
    <3>1. n \in Nat /\ k \in Nat /\ k <= n
      BY <1>1 DEF n
    <3> QED BY <2>2, <3>1
  <2> QED BY <2>2, <2>4, <2>5, Zenon
<1> HIDE DEF a, b
<1>4. a \o b \in Seq(S) /\ Len(a \o b) = n - 1
      /\ \A m \in 1 .. n - 1 : (a \o b)[m] = IF m <= k - 1 THEN a[m] ELSE b[m - (k - 1)]
  <2>1. /\ a \o b \in Seq(S) /\ Len(a \o b) = Len(a) + Len(b)
        /\ \A m \in 1 .. Len(a) + Len(b) : (a \o b)[m] = IF m <= Len(a) THEN a[m] ELSE b[m - Len(a)]
    BY <1>2, <1>3, ConcatProperties, Zenon
  <2>2. Len(a) + Len(b) = n - 1
    BY <1>1, <1>2, <1>3
  <2> QED BY <1>2, <2>1, <2>2, Zenon
<1>5. \A m \in 1 .. n - 1 : (a \o b)[m] = IF m <= k - 1 THEN s[m] ELSE s[m + 1]
  <2>1. ASSUME NEW m \in 1 .. n - 1, m <= k - 1 PROVE (a \o b)[m] = s[m]
    BY <1>1, <1>2, <1>4, <2>1
  <2>2. ASSUME NEW m \in 1 .. n - 1, ~(m <= k - 1) PROVE (a \o b)[m] = s[m + 1]
    <3>1. m - (k - 1) \in 1 .. n - k /\ k + (m - (k - 1)) = m + 1
      BY <1>1, <2>2
    <3> QED BY <1>3, <1>4, <2>2, <3>1, Zenon
  <2> QED BY <2>1, <2>2
<1>6. {(a \o b)[m] : m \in 1 .. n - 1} = {s[m] : m \in (1 .. n) \ {k}}
  <2>1. ASSUME NEW m \in 1 .. n - 1 PROVE \E j \in (1 .. n) \ {k} : (a \o b)[m] = s[j]
    <3>1. CASE m <= k - 1
      <4>1. m \in (1 .. n) \ {k}
        BY <1>1, <3>1
      <4> QED BY <1>5, <3>1, <4>1
    <3>2. CASE ~(m <= k - 1)
      <4>1. m + 1 \in (1 .. n) \ {k}
        BY <1>1, <3>2
      <4> QED BY <1>5, <3>2, <4>1
    <3> QED BY <3>1, <3>2
  <2>2. ASSUME NEW j \in (1 .. n) \ {k} PROVE \E m \in 1 .. n - 1 : (a \o b)[m] = s[j]
    <3>1. CASE j <= k - 1
      <4>1. j \in 1 .. n - 1
        BY <1>1, <3>1
      <4> QED BY <1>5, <3>1, <4>1
    <3>2. CASE ~(j <= k - 1)
      <4>1. j - 1 \in 1 .. n - 1 /\ ~(j - 1 <= k - 1) /\ (j - 1) + 1 = j
        BY <1>1, <3>2
      <4> QED BY <1>5, <4>1, Zenon
    <3> QED BY <3>1, <3>2
  <2> HIDE DEF n
  <2>3. ASSUME NEW c \in {(a \o b)[m] : m \in 1 .. n - 1} PROVE c \in {s[m] : m \in (1 .. n) \ {k}}
    <3>1. PICK m \in 1 .. n - 1 : c = (a \o b)[m]
      BY Zenon
    <3>2. PICK j \in (1 .. n) \ {k} : (a \o b)[m] = s[j]
      BY <2>1, Zenon
    <3> QED BY <3>1, <3>2, Zenon
  <2>4. ASSUME NEW c \in {s[m] : m \in (1 .. n) \ {k}} PROVE c \in {(a \o b)[m] : m \in 1 .. n - 1}
    <3>1. PICK j \in (1 .. n) \ {k} : c = s[j]
      BY Zenon
    <3>2. PICK m \in 1 .. n - 1 : (a \o b)[m] = s[j]
      BY <2>2, Zenon
    <3> QED BY <3>1, <3>2, Zenon
  <2> QED BY <2>3, <2>4
<1>7. RemoveAt(s, k) = a \o b
  BY Zenon DEF RemoveAt, a, b
<1> HIDE DEF n
<1>8. Len(RemoveAt(s, k)) = n - 1 /\ RemoveAt(s, k) \in Seq(S)
  BY <1>4, <1>7, Zenon
<1>9. {RemoveAt(s, k)[m] : m \in 1 .. n - 1} = {s[m] : m \in (1 .. n) \ {k}}
  BY <1>6, <1>7, Zenon
<1>10. {RemoveAt(s, k)[m] : m \in 1 .. Len(RemoveAt(s, k))} = {s[m] : m \in (1 .. n) \ {k}}
  BY <1>8, <1>9, Zenon
<1> QED BY <1>8, <1>10, Zenon DEF n

-----------------------------------------------------------------------------
(* Rooms *)

LEMMA RoomFacts ==
  ASSUME Operands, RoomsFollow, Len(row_ptr) = given.n + 1, NEW r \in Nodes
  PROVE  /\ row_ptr[r + 1] \in Nat /\ row_ptr[r + 2] \in Nat /\ row_ptr[given.n + 1] \in Nat
         /\ row_ptr[r + 1] <= row_ptr[r + 2] /\ row_ptr[r + 2] <= row_ptr[given.n + 1]
         /\ row_ptr[r + 2] = row_ptr[r + 1] + Cardinality(Touched(r))
         /\ Room(r) \in SUBSET (1 .. row_ptr[given.n + 1])
<1>1. /\ given.n \in Nat /\ r \in Nat /\ r + 2 <= Len(row_ptr)
      /\ r + 1 \in 1 .. Len(row_ptr) /\ r + 2 \in 1 .. Len(row_ptr) /\ given.n + 1 \in 1 .. Len(row_ptr)
      /\ r + 1 <= r + 2 /\ r + 2 <= given.n + 1
  BY DEF Nodes, Operands
<1>2. \A i \in 1 .. Len(row_ptr) : row_ptr[i] \in Nat
  BY LenProperties DEF RoomsFollow
<1>3. row_ptr[r + 1] \in Nat /\ row_ptr[r + 2] \in Nat /\ row_ptr[given.n + 1] \in Nat
  BY <1>1, <1>2, Zenon
<1>4. row_ptr[r + 1] <= row_ptr[r + 2] /\ row_ptr[r + 2] <= row_ptr[given.n + 1]
  BY <1>1, Zenon DEF RoomsFollow
<1>5. row_ptr[r + 2] = row_ptr[r + 1] + Cardinality(Touched(r))
  BY <1>1, Zenon DEF RoomsFollow
<1>6. Room(r) \in SUBSET (1 .. row_ptr[given.n + 1])
  BY <1>3, <1>4 DEF Room
<1> QED BY <1>3, <1>4, <1>5, <1>6

LEMMA RoomsApart ==
  ASSUME Operands, RoomsFollow, Len(row_ptr) = given.n + 1, NEW r \in Nodes, NEW q \in Nodes, r # q
  PROVE  \A k \in Room(r) : k \notin Room(q)
<1>1. ASSUME NEW a \in Nodes, NEW b \in Nodes, a < b, NEW k \in Room(a), k \in Room(b) PROVE FALSE
  <2>1. a + 2 \in 1 .. Len(row_ptr) /\ b + 1 \in 1 .. Len(row_ptr) /\ a + 2 <= b + 1
    BY <1>1 DEF Nodes, Operands
  <2>2. row_ptr[a + 2] <= row_ptr[b + 1]
    BY <2>1, Zenon DEF RoomsFollow
  <2>3. /\ row_ptr[a + 1] \in Nat /\ row_ptr[a + 2] \in Nat
        /\ row_ptr[b + 1] \in Nat /\ row_ptr[b + 2] \in Nat
    BY RoomFacts, Zenon
  <2> QED BY <1>1, <2>2, <2>3 DEF Room
<1>2. r < q \/ q < r
  BY DEF Nodes, Operands
<1> QED BY <1>1, <1>2, Zenon

(* What one row's worker relies on is in its own row's room.                 *)
LEMMA FillingElsewhere ==
  ASSUME Operands, RoomsFollow, Len(row_ptr) = given.n + 1, NEW s, NEW o, NEW u, Filling(s, o),
         \A i \in Room(s.row) : u.val[i] = o.val[i] /\ u.col[i] = o.col[i]
  PROVE  Filling(s, u)
<1>1. /\ s.row \in Nodes /\ s.pos \in Nat /\ row_ptr[s.row + 1] <= s.pos
      /\ s.pos + Cardinality(Full(s)) <= row_ptr[s.row + 2]
  BY DEF Filling
<1>2. row_ptr[s.row + 1] \in Nat /\ row_ptr[s.row + 2] \in Nat
  BY <1>1, RoomFacts, Zenon
<1>3. Cardinality(Full(s)) \in Nat
  BY NodesAreFinite, Zenon DEF Operands, Full
<1>4. \A i \in row_ptr[s.row + 1] + 1 .. s.pos : i \in Room(s.row)
  BY <1>1, <1>2, <1>3 DEF Room
<1>5. \A i \in s.pos + 1 .. row_ptr[s.row + 2] : i \in Room(s.row)
  BY <1>1, <1>2 DEF Room
<1>6. /\ \A i \in row_ptr[s.row + 1] + 1 .. s.pos :
            u.val[i] # 0 /\ u.col[i] \in Nodes \ Full(s) /\ \A c \in Noted(s) : u.col[i] <= c
      /\ \A i \in s.pos + 1 .. row_ptr[s.row + 2] : u.val[i] = 0
  <2>1. ASSUME NEW i \in row_ptr[s.row + 1] + 1 .. s.pos
        PROVE  u.val[i] # 0 /\ u.col[i] \in Nodes \ Full(s) /\ \A c \in Noted(s) : u.col[i] <= c
    <3>1. u.val[i] = o.val[i] /\ u.col[i] = o.col[i]
      BY <1>4, Zenon
    <3>2. o.val[i] # 0 /\ o.col[i] \in Nodes \ Full(s) /\ \A c \in Noted(s) : o.col[i] <= c
      BY Zenon DEF Filling
    <3> QED BY <3>1, <3>2, Zenon
  <2>2. ASSUME NEW i \in s.pos + 1 .. row_ptr[s.row + 2] PROVE u.val[i] = 0
    BY <1>5, Zenon DEF Filling
  <2> QED BY <2>1, <2>2, Zenon
<1> QED BY <1>6, Zenon DEF Filling

-----------------------------------------------------------------------------
(* A worker's steps *)

LEMMA FewerFit ==
  ASSUME NEW a \in Nat, NEW some \in Nat, NEW more \in Nat, some <= more
  PROVE  a + some <= a + more
OBVIOUS

Added(s, v) ==
  LET j == other.col_idx[First(s.left)[2]]
  IN  [s EXCEPT !.left = @ \ {First(s.left)}, !.acc[j] = v,
                !.nz_cols = IF s.acc[j] = 0 THEN Append(@, j) ELSE @]

LEMMA Adding ==
  ASSUME Operands, RoomsFollow, Len(row_ptr) = given.n + 1,
         NEW s, NEW o, IsScratch(s), Filling(s, o), s.left # {}, NEW v
  PROVE  IsScratch(Added(s, v)) /\ Filling(Added(s, v), o) /\ Added(s, v).row = s.row
<1> DEFINE r == s.row
<1>1. PICK j : j = other.col_idx[First(s.left)[2]]
  OBVIOUS
<1>2. PICK t : t = Added(s, v)
  OBVIOUS
<1>3. t = [s EXCEPT !.left = @ \ {First(s.left)}, !.acc[j] = v,
                    !.nz_cols = IF s.acc[j] = 0 THEN Append(@, j) ELSE @]
  BY <1>1, <1>2, Zenon DEF Added
<1> USE <1>1, <1>3
<1>4. /\ r \in Nodes /\ s.left \in SUBSET Terms(r) /\ s.nz_cols \in Seq(Touched(r))
      /\ Full(s) \in SUBSET Noted(s) /\ s.pos = row_ptr[r + 1] /\ s.pos \in Nat
  BY DEF Filling
<1>5. j \in Touched(r)
  <2>1. First(s.left) \in s.left
    <3>1. \A p \in s.left : p[1] \in Nat /\ p[2] \in Nat
      BY <1>4, TermsInRange, Zenon
    <3> QED BY <3>1, FirstIsOne, Zenon
  <2> QED BY <1>4, <2>1, TermsInRange, Zenon
<1>6. Touched(r) \in SUBSET Nodes
  BY <1>4, TouchedAreNodes, Zenon
<1>7. /\ DOMAIN t = DOMAIN s /\ t.row = s.row /\ t.pos = s.pos
      /\ t.left = s.left \ {First(s.left)}
      /\ t.acc = [s.acc EXCEPT ![j] = v]
      /\ t.nz_cols = IF s.acc[j] = 0 THEN Append(s.nz_cols, j) ELSE s.nz_cols
  BY DEF IsScratch
<1>8. DOMAIN t.acc = Nodes /\ \A c \in Nodes : c # j => t.acc[c] = s.acc[c]
  BY <1>7 DEF IsScratch
<1>9. t.nz_cols \in Seq(Touched(r)) /\ Noted(s) \in SUBSET Noted(t) /\ (s.acc[j] = 0 => j \in Noted(t))
  <2>1. CASE s.acc[j] = 0
    <3>1. /\ Append(s.nz_cols, j) \in Seq(Touched(r))
          /\ Len(Append(s.nz_cols, j)) = Len(s.nz_cols) + 1
          /\ \A m \in 1 .. Len(s.nz_cols) : Append(s.nz_cols, j)[m] = s.nz_cols[m]
          /\ Append(s.nz_cols, j)[Len(s.nz_cols) + 1] = j
      BY <1>4, <1>5, AppendProperties
    <3>2. t.nz_cols = Append(s.nz_cols, j)
      BY <1>7, <2>1, Zenon
    <3>3. /\ Len(s.nz_cols) + 1 \in 1 .. Len(s.nz_cols) + 1
          /\ \A m \in 1 .. Len(s.nz_cols) : m \in 1 .. Len(s.nz_cols) + 1
      BY <1>4, LenProperties
    <3>4. j \in Noted(t)
      BY <3>1, <3>2, <3>3, Zenon DEF Noted
    <3>5. ASSUME NEW c \in Noted(s) PROVE c \in Noted(t)
      <4>1. PICK m \in 1 .. Len(s.nz_cols) : c = s.nz_cols[m]
        BY Zenon DEF Noted
      <4> QED BY <3>1, <3>2, <3>3, <4>1, Zenon DEF Noted
    <3> QED BY <3>1, <3>2, <3>4, <3>5, Zenon
  <2>2. CASE s.acc[j] # 0
    <3>1. t.nz_cols = s.nz_cols
      BY <1>7, <2>2, Zenon
    <3> QED BY <1>4, <2>2, <3>1, Zenon DEF Noted
  <2> QED BY <2>1, <2>2
<1>10. Full(t) \in SUBSET Noted(t)
  <2>1. ASSUME NEW c \in Full(t) PROVE c \in Noted(t)
    <3>1. CASE c = j
      <4>1. s.acc[j] # 0 => j \in Full(s)
        BY <1>5, <1>6 DEF Full
      <4> QED BY <1>4, <1>9, <3>1, <4>1, Zenon
    <3>2. CASE c # j
      <4>1. c \in Full(s)
        BY <1>8, <3>2 DEF Full
      <4> QED BY <1>4, <1>9, <4>1, Zenon
    <3> QED BY <3>1, <3>2
  <2> QED BY <2>1, Zenon
<1>11. t.pos + Cardinality(Full(t)) <= row_ptr[r + 2]
  <2>1. Noted(t) \in SUBSET Touched(r)
    <3>1. \A m \in 1 .. Len(t.nz_cols) : t.nz_cols[m] \in Touched(r)
      BY <1>9, LenProperties
    <3> QED BY <3>1, Zenon DEF Noted
  <2>2. Full(t) \in SUBSET Touched(r)
    BY <1>10, <2>1, Zenon
  <2>3. IsFiniteSet(Touched(r)) /\ Cardinality(Touched(r)) \in Nat /\ Cardinality(Full(t)) \in Nat
    BY <1>6, NodesAreFinite, Zenon DEF Operands, Full
  <2>4. Cardinality(Full(t)) <= Cardinality(Touched(r))
    BY <2>2, <2>3, FS_Subset, Zenon
  <2>5. row_ptr[r + 2] = row_ptr[r + 1] + Cardinality(Touched(r)) /\ row_ptr[r + 1] \in Nat
    BY <1>4, RoomFacts, Zenon
  <2> HIDE DEF r
  <2>6. row_ptr[r + 1] + Cardinality(Full(t)) <= row_ptr[r + 1] + Cardinality(Touched(r))
    BY <2>3, <2>4, <2>5, FewerFit, Zenon
  <2>7. t.pos = row_ptr[r + 1]
    BY <1>4, <1>7, Zenon
  <2> QED BY <2>5, <2>6, <2>7, Zenon
<1>12. /\ t.left \in SUBSET Terms(r)
       /\ \A i \in row_ptr[r + 1] + 1 .. t.pos : FALSE
       /\ \A i \in t.pos + 1 .. row_ptr[r + 2] : o.val[i] = 0
  <2>1. \A i \in row_ptr[r + 1] + 1 .. t.pos : FALSE
    BY <1>4, <1>7
  <2>2. \A i \in t.pos + 1 .. row_ptr[r + 2] : o.val[i] = 0
    BY <1>7, Zenon DEF Filling
  <2>3. t.left \in SUBSET Terms(r)
    BY <1>4, <1>7, Zenon
  <2> QED BY <2>1, <2>2, <2>3
<1>13. row_ptr[r + 1] <= s.pos
  BY DEF Filling
<1>14. IsScratch(t)
  BY <1>7, <1>8, Zenon DEF IsScratch
<1>15. t.row = r /\ t.pos = s.pos
  BY <1>7
<1>16. Filling(t, o)
  <2> HIDE DEF r
  <2> QED BY <1>4, <1>9, <1>10, <1>11, <1>12, <1>13, <1>15, Zenon DEF Filling
<1> QED BY <1>2, <1>14, <1>15, <1>16, Zenon

(* A room that holds what is written and some more has one more place.       *)
LEMMA OneMoreFits ==
  ASSUME NEW a \in Nat, NEW b \in Nat, NEW pos \in Nat, NEW more \in Nat,
         more # 0, a <= pos, pos + more <= b
  PROVE  pos + 1 \in a + 1 .. b /\ pos + 1 \in pos + 1 .. b
OBVIOUS

LEMMA OneLessWaits ==
  ASSUME NEW b \in Nat, NEW pos \in Nat, NEW more \in Nat, pos + more <= b
  PROVE  pos + 1 + (more - 1) <= b
OBVIOUS

(* The least noted column, where its sum is not zero: there is room for it,  *)
(* where nothing is written yet, behind the smaller ones.                    *)
LEMMA Emitting ==
  ASSUME Operands, RoomsFollow, Len(row_ptr) = given.n + 1,
         NEW s, NEW o, IsScratch(s), Filling(s, o), s.nz_cols # <<>>,
         NEW j, j = s.nz_cols[Lowest(s.nz_cols)]
  PROVE  /\ j \in Nodes /\ j \in Noted(s) /\ \A c \in Noted(s) : j <= c
         /\ s.acc[j] # 0 =>
              /\ s.pos + 1 \in Room(s.row) /\ o.val[s.pos + 1] = 0
              /\ \A i \in row_ptr[s.row + 1] + 1 .. s.pos : o.val[i] # 0 /\ o.col[i] < j
<1> DEFINE r == s.row
<1>1. /\ r \in Nodes /\ s.nz_cols \in Seq(Touched(r)) /\ s.pos \in Nat /\ row_ptr[r + 1] <= s.pos
      /\ s.pos + Cardinality(Full(s)) <= row_ptr[r + 2]
  BY DEF Filling
<1>2. Touched(r) \in SUBSET Nodes /\ Nodes \in SUBSET Nat /\ Touched(r) \in SUBSET Nat
  <2>1. Nodes \in SUBSET Nat
    BY DEF Nodes, Operands
  <2> QED BY <1>1, <2>1, TouchedAreNodes, Zenon
<1>3. /\ Lowest(s.nz_cols) \in 1 .. Len(s.nz_cols)
      /\ \A m \in 1 .. Len(s.nz_cols) : j <= s.nz_cols[m]
  <2> HIDE DEF r
  <2> QED BY <1>1, <1>2, LowestIsLeast, Zenon
<1>4. j \in Nodes
  <2>1. s.nz_cols[Lowest(s.nz_cols)] \in Touched(r)
    BY <1>1, <1>3, LenProperties
  <2> QED BY <1>2, <2>1, Zenon
<1>5. j \in Noted(s) /\ \A c \in Noted(s) : j <= c
  BY <1>3, Zenon DEF Noted
<1>6. ASSUME s.acc[j] # 0
      PROVE  /\ s.pos + 1 \in Room(r) /\ o.val[s.pos + 1] = 0
             /\ \A i \in row_ptr[r + 1] + 1 .. s.pos : o.val[i] # 0 /\ o.col[i] < j
  <2>1. j \in Full(s)
    BY <1>4, <1>6, Zenon DEF Full
  <2>2. Cardinality(Full(s)) \in Nat /\ Cardinality(Full(s)) # 0
    <3>1. IsFiniteSet(Full(s)) /\ Cardinality(Full(s)) \in Nat
      BY NodesAreFinite, Zenon DEF Operands, Full
    <3> QED BY <2>1, <3>1, FS_EmptySet, Zenon
  <2>3. row_ptr[r + 1] \in Nat /\ row_ptr[r + 2] \in Nat
    BY <1>1, RoomFacts, Zenon
  <2>4. s.pos + 1 \in Room(r) /\ s.pos + 1 \in s.pos + 1 .. row_ptr[r + 2]
    <3>1. s.pos + 1 \in row_ptr[r + 1] + 1 .. row_ptr[r + 2] /\ s.pos + 1 \in s.pos + 1 .. row_ptr[r + 2]
      BY <1>1, <2>2, <2>3, OneMoreFits, Zenon
    <3> QED BY <3>1, Zenon DEF Room
  <2>5. o.val[s.pos + 1] = 0
    BY <2>4, Zenon DEF Filling
  <2>6. ASSUME NEW i \in row_ptr[r + 1] + 1 .. s.pos PROVE o.val[i] # 0 /\ o.col[i] < j
    <3>1. o.val[i] # 0 /\ o.col[i] \in Nodes /\ o.col[i] \notin Full(s) /\ o.col[i] <= j
      BY <1>5, Zenon DEF Filling
    <3>2. o.col[i] # j /\ o.col[i] \in Nat /\ j \in Nat
      BY <1>2, <1>4, <2>1, <3>1, Zenon
    <3> QED BY <3>1, <3>2
  <2> QED BY <2>4, <2>5, <2>6
<1> QED BY <1>4, <1>5, <1>6

Written(s) ==
  LET j == s.nz_cols[Lowest(s.nz_cols)]
  IN  [s EXCEPT !.nz_cols = RemoveAt(@, Lowest(@)), !.acc[j] = 0,
                !.pos = IF s.acc[j] # 0 THEN s.pos + 1 ELSE @]
WrittenOut(s, o) ==
  LET j == s.nz_cols[Lowest(s.nz_cols)]
      k == s.pos + 1
  IN  IF s.acc[j] # 0 THEN [o EXCEPT !.col[k] = j, !.val[k] = s.acc[j]] ELSE o

LEMMA Writing ==
  ASSUME Operands, RoomsFollow, Len(row_ptr) = given.n + 1,
         NEW s, NEW o, IsScratch(s), IsOut(o), Filling(s, o), s.left = {}, s.nz_cols # <<>>
  PROVE  /\ IsScratch(Written(s)) /\ IsOut(WrittenOut(s, o))
         /\ Filling(Written(s), WrittenOut(s, o)) /\ Written(s).row = s.row
         /\ \A i \in (1 .. row_ptr[given.n + 1]) \ Room(s.row) :
              WrittenOut(s, o).val[i] = o.val[i] /\ WrittenOut(s, o).col[i] = o.col[i]
<1> DEFINE r == s.row
           rest == RemoveAt(s.nz_cols, Lowest(s.nz_cols))
<1>1. PICK j : j = s.nz_cols[Lowest(s.nz_cols)]
  OBVIOUS
<1>2. PICK k : k = s.pos + 1
  OBVIOUS
<1>3. PICK t : t = Written(s)
  OBVIOUS
<1>4. PICK u : u = WrittenOut(s, o)
  OBVIOUS
<1>5. t = [s EXCEPT !.nz_cols = RemoveAt(@, Lowest(@)), !.acc[j] = 0,
                    !.pos = IF s.acc[j] # 0 THEN k ELSE @]
  BY <1>1, <1>2, <1>3, Zenon DEF Written
<1>6. u = IF s.acc[j] # 0 THEN [o EXCEPT !.col[k] = j, !.val[k] = s.acc[j]] ELSE o
  BY <1>1, <1>2, <1>4, Zenon DEF WrittenOut
<1> SUFFICES /\ IsScratch(t) /\ IsOut(u) /\ Filling(t, u) /\ t.row = s.row
             /\ \A i \in (1 .. row_ptr[given.n + 1]) \ Room(s.row) : u.val[i] = o.val[i] /\ u.col[i] = o.col[i]
  BY <1>3, <1>4, Zenon
<1>7. /\ r \in Nodes /\ s.nz_cols \in Seq(Touched(r)) /\ s.pos \in Nat /\ row_ptr[r + 1] <= s.pos
      /\ Full(s) \in SUBSET Noted(s) /\ s.pos + Cardinality(Full(s)) <= row_ptr[r + 2]
  BY DEF Filling
<1>8. Touched(r) \in SUBSET Nodes /\ Nodes \in SUBSET Nat /\ Touched(r) \in SUBSET Nat
  <2>1. Nodes \in SUBSET Nat
    BY DEF Nodes, Operands
  <2> QED BY <1>7, <2>1, TouchedAreNodes, Zenon
<1>9. /\ Lowest(s.nz_cols) \in 1 .. Len(s.nz_cols)
      /\ rest \in Seq(Touched(r))
      /\ {rest[m] : m \in 1 .. Len(rest)} = {s.nz_cols[m] : m \in (1 .. Len(s.nz_cols)) \ {Lowest(s.nz_cols)}}
  <2>1. Lowest(s.nz_cols) \in 1 .. Len(s.nz_cols)
    <3> HIDE DEF r, rest
    <3> QED BY <1>7, <1>8, LowestIsLeast, Zenon
  <2> HIDE DEF r
  <2>2. PICK low \in 1 .. Len(s.nz_cols) : low = Lowest(s.nz_cols)
    BY <2>1, Zenon
  <2>3. PICK cols \in Seq(Touched(r)) : cols = s.nz_cols
    BY <1>7, Zenon
  <2>4. low \in 1 .. Len(cols)
    BY <2>2, <2>3, Zenon
  <2>5. /\ RemoveAt(cols, low) \in Seq(Touched(r))
        /\ {RemoveAt(cols, low)[m] : m \in 1 .. Len(RemoveAt(cols, low))} = {cols[m] : m \in (1 .. Len(cols)) \ {low}}
    <3> HIDE <2>2, <2>3
    <3> QED BY <2>4, Removed, Zenon
  <2>6. rest = RemoveAt(cols, low)
    BY <2>2, <2>3, Zenon
  <2> HIDE DEF rest
  <2>7. rest \in Seq(Touched(r)) /\ {rest[m] : m \in 1 .. Len(rest)} = {cols[m] : m \in (1 .. Len(cols)) \ {low}}
    BY <2>5, <2>6, Zenon
  <2> QED BY <2>1, <2>2, <2>3, <2>7, Zenon
<1> USE <1>1, <1>2, <1>5, <1>6
<1>10. /\ j \in Nodes /\ j \in Noted(s) /\ \A c \in Noted(s) : j <= c
       /\ s.acc[j] # 0 =>
            /\ k \in Room(r) /\ o.val[k] = 0
            /\ \A i \in row_ptr[r + 1] + 1 .. s.pos : o.val[i] # 0 /\ o.col[i] < j
  <2>1. /\ j \in Nodes /\ j \in Noted(s) /\ \A c \in Noted(s) : j <= c
        /\ s.acc[j] # 0 =>
             /\ s.pos + 1 \in Room(r) /\ o.val[s.pos + 1] = 0
             /\ \A i \in row_ptr[r + 1] + 1 .. s.pos : o.val[i] # 0 /\ o.col[i] < j
    <3> HIDE DEF rest
    <3> QED BY Emitting
  <2>2. s.pos + 1 = k
    OBVIOUS
  <2> HIDE DEF r, rest
  <2> QED BY <2>1, <2>2, Zenon
<1>11. row_ptr[r + 1] \in Nat /\ row_ptr[r + 2] \in Nat /\ Room(r) \in SUBSET (1 .. row_ptr[given.n + 1])
  BY <1>7, RoomFacts, Zenon
<1>12. /\ DOMAIN t = DOMAIN s /\ t.row = r /\ t.left = {}
       /\ t.nz_cols = rest
       /\ t.acc = [s.acc EXCEPT ![j] = 0]
       /\ t.pos = IF s.acc[j] # 0 THEN k ELSE s.pos
  <2> HIDE DEF rest
  <2>1. t = [s EXCEPT !.nz_cols = rest, !.acc[j] = 0, !.pos = IF s.acc[j] # 0 THEN k ELSE s.pos]
    BY Zenon DEF rest
  <2> QED BY <2>1 DEF IsScratch
<1>13. DOMAIN t.acc = Nodes /\ t.acc[j] = 0 /\ \A c \in Nodes : c # j => t.acc[c] = s.acc[c]
  BY <1>10, <1>12 DEF IsScratch
<1>14. rest \in Seq(Touched(r)) /\ Noted(t) = {s.nz_cols[m] : m \in (1 .. Len(s.nz_cols)) \ {Lowest(s.nz_cols)}}
  <2> HIDE DEF rest
  <2>3. t.nz_cols = rest
    BY <1>12
  <2>4. Noted(t) = {rest[m] : m \in 1 .. Len(rest)}
    BY <2>3, Zenon DEF Noted
  <2> QED BY <1>9, <2>4, Zenon
<1>15. Full(t) = Full(s) \ {j}
  BY <1>10, <1>13 DEF Full
<1>16. Noted(t) \in SUBSET Noted(s) /\ \A c \in Noted(s) : c # j => c \in Noted(t)
  <2>1. ASSUME NEW c \in Noted(t) PROVE c \in Noted(s)
    BY <1>14, <2>1, Zenon DEF Noted
  <2>2. ASSUME NEW c \in Noted(s), c # j PROVE c \in Noted(t)
    <3>1. PICK m \in 1 .. Len(s.nz_cols) : c = s.nz_cols[m]
      BY Zenon DEF Noted
    <3>2. m # Lowest(s.nz_cols)
      BY <2>2, <3>1, Zenon
    <3> QED BY <1>14, <3>1, <3>2
  <2> QED BY <2>1, <2>2, Zenon
<1>17. Full(t) \in SUBSET Noted(t)
  BY <1>7, <1>15, <1>16, Zenon
<1>18. IsScratch(t)
  BY <1>12, <1>13, Zenon DEF IsScratch
<1>19. IsFiniteSet(Full(s)) /\ Cardinality(Full(s)) \in Nat
  BY NodesAreFinite, Zenon DEF Operands, Full
<1>20. CASE s.acc[j] = 0
  <2>1. u = o /\ t.pos = s.pos
    BY <1>12, <1>20, Zenon
  <2>2. Full(t) = Full(s)
    <3>1. j \notin Full(s)
      BY <1>20, Zenon DEF Full
    <3> QED BY <1>15, <3>1
  <2>3. \A i \in row_ptr[r + 1] + 1 .. s.pos :
          o.val[i] # 0 /\ o.col[i] \in Nodes \ Full(t) /\ \A c \in Noted(t) : o.col[i] <= c
    BY <1>16, <2>2, Zenon DEF Filling
  <2>4. \A i \in s.pos + 1 .. row_ptr[r + 2] : o.val[i] = 0
    BY Zenon DEF Filling
  <2>5. Filling(t, u)
    <3>1. t.row \in Nodes /\ t.left \in SUBSET Terms(t.row) /\ t.nz_cols \in Seq(Touched(t.row)) /\ t.left = {}
      BY <1>7, <1>12, <1>14, Zenon
    <3>2. t.row = r
      BY <1>12
    <3> HIDE DEF r, rest
    <3> QED BY <1>7, <1>17, <2>1, <2>2, <2>3, <2>4, <3>1, <3>2, Zenon DEF Filling
  <2> QED BY <1>12, <1>18, <2>1, <2>5, Zenon
<1>21. CASE s.acc[j] # 0
  <2>1. k \in Room(r) /\ k \in 1 .. row_ptr[given.n + 1] /\ t.pos = k
    BY <1>10, <1>11, <1>12, <1>21, Zenon
  <2>2. /\ DOMAIN u = DOMAIN o
        /\ u.col = [o.col EXCEPT ![k] = j]
        /\ u.val = [o.val EXCEPT ![k] = s.acc[j]]
    <3>1. u = [o EXCEPT !.col[k] = j, !.val[k] = s.acc[j]]
      BY <1>21, Zenon
    <3> QED BY <3>1 DEF IsOut
  <2>3. /\ IsOut(u) /\ u.col[k] = j /\ u.val[k] # 0
        /\ \A i \in 1 .. row_ptr[given.n + 1] : i # k => u.col[i] = o.col[i] /\ u.val[i] = o.val[i]
    BY <1>21, <2>1, <2>2 DEF IsOut
  <2>4. \A i \in (1 .. row_ptr[given.n + 1]) \ Room(r) : u.val[i] = o.val[i] /\ u.col[i] = o.col[i]
    BY <2>1, <2>3, Zenon
  <2>5. t.pos + Cardinality(Full(t)) <= row_ptr[r + 2]
    <3>1. j \in Full(s)
      BY <1>10, <1>21, Zenon DEF Full
    <3>2. Cardinality(Full(t)) = Cardinality(Full(s)) - 1
      <4>1. Cardinality(Full(s) \ {j}) = Cardinality(Full(s)) - 1
        BY <1>19, <3>1, FS_RemoveElement, Zenon
      <4> QED BY <1>15, <4>1, Zenon
    <3>3. t.pos = s.pos + 1
      BY <1>2, <2>1, Zenon
    <3> HIDE DEF r, rest
    <3>4. s.pos + 1 + (Cardinality(Full(s)) - 1) <= row_ptr[r + 2]
      BY <1>7, <1>11, <1>19, OneLessWaits, Zenon
    <3> QED BY <3>2, <3>3, <3>4, Zenon
  <2>6. ASSUME NEW i \in row_ptr[r + 1] + 1 .. k
        PROVE  u.val[i] # 0 /\ u.col[i] \in Nodes \ Full(t) /\ \A c \in Noted(t) : u.col[i] <= c
    <3>1. CASE i = k
      BY <1>10, <1>15, <1>16, <2>3, <3>1, Zenon
    <3>2. CASE i # k
      <4>1. i \in row_ptr[r + 1] + 1 .. s.pos /\ i \in Room(r)
        BY <1>7, <1>11, <2>1, <3>2 DEF Room
      <4>2. u.col[i] = o.col[i] /\ u.val[i] = o.val[i]
        BY <1>11, <2>3, <3>2, <4>1, Zenon
      <4>3. o.val[i] # 0 /\ o.col[i] \in Nodes \ Full(s) /\ \A c \in Noted(s) : o.col[i] <= c
        BY <4>1, Zenon DEF Filling
      <4> QED BY <1>15, <1>16, <4>2, <4>3, Zenon
    <3> QED BY <3>1, <3>2
  <2>7. ASSUME NEW i \in k + 1 .. row_ptr[r + 2] PROVE u.val[i] = 0
    <3>1. i \in s.pos + 1 .. row_ptr[r + 2] /\ i \in Room(r) /\ i # k
      BY <1>7, <1>11 DEF Room
    <3>2. o.val[i] = 0
      BY <3>1, Zenon DEF Filling
    <3> QED BY <1>11, <2>3, <3>1, <3>2, Zenon
  <2>8. t.pos \in Nat /\ row_ptr[r + 1] <= t.pos
    BY <1>7, <1>11, <2>1
  <2>9. Filling(t, u)
    <3>1. t.row \in Nodes /\ t.left \in SUBSET Terms(t.row) /\ t.nz_cols \in Seq(Touched(t.row)) /\ t.left = {}
      BY <1>7, <1>12, <1>14, Zenon
    <3>2. t.row = r
      BY <1>12
    <3>3. /\ \A i \in row_ptr[r + 1] + 1 .. t.pos :
               u.val[i] # 0 /\ u.col[i] \in Nodes \ Full(t) /\ \A c \in Noted(t) : u.col[i] <= c
          /\ \A i \in t.pos + 1 .. row_ptr[r + 2] : u.val[i] = 0
      BY <2>1, <2>6, <2>7, Zenon
    <3> HIDE DEF r, rest
    <3> QED BY <1>17, <2>5, <2>8, <3>1, <3>2, <3>3, Zenon DEF Filling
  <2> QED BY <1>12, <1>18, <2>3, <2>4, <2>9, Zenon
<1> QED BY <1>20, <1>21, Zenon

-----------------------------------------------------------------------------
(* What does not change while the rows are filled                            *)

LEMMA Fixed ==
  ASSUME UNCHANGED <<given, self, other>>
  PROVE  /\ Operands' <=> Operands
         /\ Nodes' = Nodes
         /\ \A r \in Nodes : Touched(r)' = Touched(r)
<1>1. given' = given /\ self' = self /\ other' = other
  OBVIOUS
<1>2. Operands' <=> Operands
  BY <1>1 DEF Operands, IsMatrix, Nodes
<1>3. Nodes' = Nodes
  BY <1>1, Zenon DEF Nodes
<1>4. ASSUME NEW r \in Nodes PROVE Touched(r)' = Touched(r)
  BY <1>1 DEF Touched, Terms, Places
<1> QED BY <1>2, <1>3, <1>4

LEMMA RoomsFixed ==
  ASSUME UNCHANGED <<given, self, other, row_ptr>>, RoomsFollow
  PROVE  RoomsFollow' /\ \A r \in Nodes : Room(r)' = Room(r)
<1>1. given' = given /\ row_ptr' = row_ptr
  OBVIOUS
<1>2. Nodes' = Nodes /\ \A r \in Nodes : Touched(r)' = Touched(r)
  BY Fixed
<1>3. /\ row_ptr' \in Seq(Nat) /\ Len(row_ptr') \in 1 .. given'.n + 1
      /\ \A i, j \in 1 .. Len(row_ptr') : i <= j => row_ptr'[i] <= row_ptr'[j]
  BY <1>1 DEF RoomsFollow
<1>4. ASSUME NEW r \in Nodes, r + 2 <= Len(row_ptr)
      PROVE  row_ptr'[r + 2] = row_ptr'[r + 1] + Cardinality(Touched(r)')
  BY <1>1, <1>2, <1>4, Zenon DEF RoomsFollow
<1>5. RoomsFollow'
  BY <1>1, <1>2, <1>3, <1>4, Zenon DEF RoomsFollow
<1> QED BY <1>1, <1>5 DEF Room

LEMMA WorkerFixed ==
  ASSUME UNCHANGED <<given, self, other, row_ptr>>, NEW w
  PROVE  Worker(w)' <=>
           /\ IsScratch(busy'[w])
           /\ Resting(busy'[w]) \/ (Filling(busy'[w], out') /\ busy'[w].row \notin rows')
<1>1. given' = given /\ self' = self /\ other' = other /\ row_ptr' = row_ptr
  OBVIOUS
<1> QED BY <1>1 DEF Worker, IsScratch, Resting, Filling, Full, Noted, Terms, Touched, Places, Nodes

-----------------------------------------------------------------------------
(* The steps *)

LEMMA PInvInit == PInit => PInv
BY DEF PInit, PInv, Operands, CountsAreRight

LEMMA CountRowStep == ASSUME PInv, NEW r \in DOMAIN counts, CountRow(r) PROVE PInv'
<1>1. phase = "count" /\ phase' = phase /\ counts' = [counts EXCEPT ![r] = Cardinality(Touched(r))]
      /\ UNCHANGED <<given, self, other>>
  BY DEF CountRow
<1>2. Operands' /\ Nodes' = Nodes /\ \A q \in Nodes : Touched(q)' = Touched(q)
  BY <1>1, Fixed DEF PInv
<1>3. DOMAIN counts = Nodes /\ \A q \in Nodes : counts[q] = -1 \/ counts[q] = Cardinality(Touched(q))
  BY <1>1 DEF PInv, CountsAreRight
<1>4. DOMAIN counts' = Nodes /\ \A q \in Nodes : counts'[q] = -1 \/ counts'[q] = Cardinality(Touched(q))
  BY <1>1, <1>3
<1>5. CountsAreRight'
  BY <1>1, <1>2, <1>4 DEF CountsAreRight
<1> QED BY <1>1, <1>2, <1>5 DEF PInv

LEMMA BeginStep == ASSUME PInv, Begin PROVE PInv'
<1>1. phase' = "count" /\ counts' = [r \in Nodes |-> -1] /\ UNCHANGED <<given, self, other>>
  BY DEF Begin
<1>2. Operands' /\ Nodes' = Nodes
  BY <1>1, Fixed DEF PInv
<1>3. CountsAreRight'
  BY <1>1, <1>2 DEF CountsAreRight
<1> QED BY <1>1, <1>2, <1>3 DEF PInv

(* All rows counted stay counted.                                            *)
LEMMA CountsKept ==
  ASSUME CountsAreRight, phase \in {"count", "sum", "fill"}, \A r \in Nodes : counts[r] # -1 \/ phase # "count",
         UNCHANGED <<given, self, other, counts>>
  PROVE  CountsAreRight'
<1>1. Nodes' = Nodes /\ \A r \in Nodes : Touched(r)' = Touched(r)
  BY Fixed
<1>2. DOMAIN counts = Nodes /\ \A r \in Nodes : counts[r] = Cardinality(Touched(r))
  BY DEF CountsAreRight
<1>3. DOMAIN counts' = Nodes' /\ \A r \in Nodes' : counts'[r] = Cardinality(Touched(r)')
  BY <1>1, <1>2
<1> QED BY <1>3 DEF CountsAreRight

LEMMA AllCountedStep == ASSUME PInv, AllCounted PROVE PInv'
<1>1. /\ phase = "count" /\ phase' = "sum" /\ row_ptr' = <<0>> /\ \A r \in Nodes : counts[r] # -1
      /\ UNCHANGED <<given, self, other, counts>>
  BY DEF AllCounted
<1>2. Operands' /\ Nodes' = Nodes /\ given' = given /\ given.n \in Nat
  BY <1>1, Fixed DEF PInv, Operands
<1>3. CountsAreRight'
  BY <1>1, CountsKept DEF PInv
<1>4. RoomsFollow'
  <2>1. row_ptr' \in Seq(Nat) /\ Len(row_ptr') = 1
    BY <1>1
  <2>2. \A r \in Nodes : r + 2 > 1
    BY <1>2 DEF Nodes
  <2>3. \A i, j \in 1 .. 1 : row_ptr'[i] <= row_ptr'[j]
    BY <1>1
  <2>4. \A r \in Nodes' : ~(r + 2 <= Len(row_ptr'))
    BY <1>2, <2>1, <2>2 DEF Nodes
  <2>5. Len(row_ptr') \in 1 .. given'.n + 1
    BY <1>2, <2>1
  <2> QED BY <2>1, <2>3, <2>4, <2>5 DEF RoomsFollow
<1> QED BY <1>1, <1>2, <1>3, <1>4 DEF PInv

LEMMA PushStep == ASSUME PInv, Push PROVE PInv'
<1> DEFINE n == Len(row_ptr)
           c == counts[n - 1]
<1>1. /\ phase = "sum" /\ phase' = "sum" /\ n <= given.n
      /\ row_ptr' = Append(row_ptr, row_ptr[n] + c)
      /\ UNCHANGED <<given, self, other, counts>>
  BY DEF Push
<1>2. Operands' /\ Nodes' = Nodes /\ given' = given /\ given.n \in Nat /\ \A r \in Nodes : Touched(r)' = Touched(r)
  BY <1>1, Fixed DEF PInv, Operands
<1>3. CountsAreRight'
  BY <1>1, CountsKept DEF PInv
<1>4. /\ row_ptr \in Seq(Nat) /\ n \in 1 .. given.n + 1 /\ n \in Nat
      /\ \A i, j \in 1 .. n : i <= j => row_ptr[i] <= row_ptr[j]
      /\ \A r \in Nodes : r + 2 <= n => row_ptr[r + 2] = row_ptr[r + 1] + Cardinality(Touched(r))
  BY <1>1, LenProperties DEF PInv, RoomsFollow
<1>5. n - 1 \in Nodes
  BY <1>1, <1>2, <1>4 DEF Nodes
<1>6. c = Cardinality(Touched(n - 1)) /\ c \in Nat
  <2>1. c = Cardinality(Touched(n - 1))
    BY <1>1, <1>5, Zenon DEF PInv, CountsAreRight
  <2>2. Touched(n - 1) \in SUBSET Nodes
    BY <1>5, TouchedAreNodes, Zenon DEF PInv
  <2> QED BY <1>2, <2>1, <2>2, NodesAreFinite, Zenon
<1>7. row_ptr[n] \in Nat
  BY <1>4, LenProperties
<1>8. /\ row_ptr' \in Seq(Nat) /\ Len(row_ptr') = n + 1
      /\ \A i \in 1 .. n : row_ptr'[i] = row_ptr[i]
      /\ row_ptr'[n + 1] = row_ptr[n] + c
  <2> HIDE DEF c, n
  <2>1. row_ptr[n] + c \in Nat
    BY <1>6, <1>7
  <2>2. n = Len(row_ptr)
    BY DEF n
  <2> QED BY <1>1, <1>4, <2>1, <2>2, AppendProperties
<1> HIDE DEF c, n
<1>9. ASSUME NEW i \in 1 .. n + 1, NEW j \in 1 .. n + 1, i <= j PROVE row_ptr'[i] <= row_ptr'[j]
  <2>1. \A m \in 1 .. n : row_ptr[m] \in Nat /\ row_ptr[m] <= row_ptr[n]
    <3>1. \A m \in 1 .. n : row_ptr[m] \in Nat
      BY <1>4, LenProperties DEF n
    <3>2. n \in 1 .. n /\ \A m \in 1 .. n : m <= n
      BY <1>4
    <3> QED BY <1>4, <3>1, <3>2, Zenon
  <2>2. CASE j = n + 1 /\ i = n + 1
    BY <1>6, <1>7, <1>8, <2>2
  <2>3. CASE j = n + 1 /\ i # n + 1
    <3>1. i \in 1 .. n
      BY <1>4, <2>3
    <3>2. row_ptr[i] <= row_ptr[n] /\ row_ptr[i] \in Nat /\ row_ptr'[i] = row_ptr[i]
      BY <1>8, <2>1, <3>1, Zenon
    <3> QED BY <1>6, <1>7, <1>8, <2>3, <3>2
  <2>4. CASE j # n + 1
    <3>1. i \in 1 .. n /\ j \in 1 .. n
      BY <1>4, <1>9, <2>4
    <3> QED BY <1>4, <1>8, <1>9, <3>1, Zenon
  <2> QED BY <2>2, <2>3, <2>4
<1>10. ASSUME NEW r \in Nodes, r + 2 <= n + 1
       PROVE  row_ptr'[r + 2] = row_ptr'[r + 1] + Cardinality(Touched(r))
  <2>1. r \in Nat
    BY <1>2 DEF Nodes
  <2>2. CASE r = n - 1
    <3>1. r + 2 = n + 1 /\ r + 1 = n /\ n \in 1 .. n
      BY <1>4, <2>1, <2>2
    <3>2. row_ptr'[n + 1] = row_ptr[n] + Cardinality(Touched(r)) /\ row_ptr'[n] = row_ptr[n]
      BY <1>6, <1>8, <2>2, <3>1, Zenon
    <3> QED BY <3>1, <3>2, Zenon
  <2>3. CASE r # n - 1
    <3>1. r + 2 <= n /\ r + 1 \in 1 .. n /\ r + 2 \in 1 .. n
      BY <1>4, <1>10, <2>1, <2>3
    <3> QED BY <1>4, <1>8, <3>1, Zenon
  <2> QED BY <2>2, <2>3
<1>11. RoomsFollow'
  <2>1. n + 1 \in 1 .. given'.n + 1
    BY <1>1, <1>2, <1>4
  <2>2. \A r \in Nodes' : r + 2 <= n + 1 => row_ptr'[r + 2] = row_ptr'[r + 1] + Cardinality(Touched(r)')
    BY <1>2, <1>10, Zenon
  <2> QED BY <1>8, <1>9, <2>1, <2>2, Zenon DEF RoomsFollow
<1> QED BY <1>1, <1>2, <1>3, <1>11 DEF PInv

LEMMA LayOutStep == ASSUME PInv, LayOut PROVE PInv'
<1> DEFINE total == row_ptr[given.n + 1]
<1>1. /\ phase = "sum" /\ phase' = "fill" /\ Len(row_ptr) = given.n + 1 /\ rows' = Nodes
      /\ out' = [col |-> [k \in 1 .. total |-> 0], val |-> [k \in 1 .. total |-> 0]]
      /\ busy' = [w \in Workers |-> Idle]
      /\ UNCHANGED <<given, self, other, counts, row_ptr>>
  BY DEF LayOut
<1>2. Operands' /\ Nodes' = Nodes /\ given' = given /\ row_ptr' = row_ptr
  BY <1>1, Fixed DEF PInv
<1>3. CountsAreRight'
  BY <1>1, CountsKept DEF PInv
<1>4. RoomsFollow /\ RoomsFollow' /\ \A r \in Nodes : Room(r)' = Room(r)
  BY <1>1, RoomsFixed DEF PInv
<1>5. IsOut(out)'
  BY <1>1, <1>2 DEF IsOut
<1>6. \A r \in rows' : \A k \in Room(r)' : out'.val[k] = 0
  <2>1. ASSUME NEW r \in Nodes, NEW k \in Room(r) PROVE out'.val[k] = 0
    <3>1. k \in 1 .. total
      BY <1>1, <1>4, RoomFacts DEF PInv
    <3> QED BY <1>1, <3>1
  <2> QED BY <1>1, <1>4, <2>1, Zenon
<1>7. ASSUME NEW w \in Workers PROVE Worker(w)' /\ busy'[w].row = -1
  <2>1. busy'[w] = Idle
    BY <1>1
  <2>2. IsScratch(Idle) /\ Resting(Idle)
    BY DEF IsScratch, Resting, Idle, Clean, Full
  <2>3. Worker(w)'
    BY <1>1, <2>1, <2>2, WorkerFixed
  <2> QED BY <2>1, <2>3 DEF Idle
<1>8. Filled'
  <2>1. DOMAIN busy' = Workers /\ Len(row_ptr') = given'.n + 1 /\ rows' \in SUBSET Nodes'
    BY <1>1, <1>2
  <2>2. \A v, w \in Workers : v # w => Apart(v, w)'
    BY <1>7 DEF Apart
  <2> QED BY <1>5, <1>6, <1>7, <2>1, <2>2 DEF Filled
<1> QED BY <1>1, <1>2, <1>3, <1>4, <1>8 DEF PInv

(* What a worker's step owes the others                                      *)
LEMMA OneWorker ==
  ASSUME PInv, phase = "fill", phase' = "fill", UNCHANGED <<given, self, other, counts, row_ptr>>,
         NEW w \in Workers, NEW t, busy' = [busy EXCEPT ![w] = t],
         IsOut(out'), rows' \in SUBSET rows,
         IsScratch(t), Resting(t) \/ (Filling(t, out') /\ t.row \notin rows'),
         \A v \in Workers \ {w} : busy[v].row # -1 => (Filling(busy[v], out') /\ busy[v].row # t.row),
         \A r \in rows' : \A k \in Room(r) : out'.val[k] = 0
  PROVE  PInv'
<1>1. Operands' /\ Nodes' = Nodes /\ given' = given /\ row_ptr' = row_ptr
  BY Fixed DEF PInv
<1>2. CountsAreRight'
  BY CountsKept DEF PInv
<1>3. RoomsFollow' /\ \A r \in Nodes : Room(r)' = Room(r)
  BY RoomsFixed DEF PInv
<1>4. /\ Len(row_ptr) = given.n + 1 /\ DOMAIN busy = Workers /\ rows \in SUBSET Nodes
      /\ \A v \in Workers : Worker(v)
      /\ \A v, x \in Workers : v # x => Apart(v, x)
  BY DEF PInv, Filled
<1>5. DOMAIN busy' = Workers /\ busy'[w] = t /\ \A v \in Workers \ {w} : busy'[v] = busy[v]
  BY <1>4
<1>6. IsOut(out)'
  BY <1>1 DEF IsOut
<1>7. \A r \in rows' : \A k \in Room(r)' : out'.val[k] = 0
  BY <1>3, <1>4, Zenon
<1>8. Worker(w)'
  BY <1>5, WorkerFixed
<1>9. ASSUME NEW v \in Workers \ {w} PROVE Worker(v)'
  <2>1. Worker(v) /\ busy'[v] = busy[v]
    BY <1>4, <1>5, Zenon
  <2>2. CASE busy[v].row # -1
    <3>1. Filling(busy[v], out') /\ busy[v].row \notin rows' /\ IsScratch(busy[v])
      BY <2>1, <2>2, Zenon DEF Worker, Resting
    <3> QED BY <2>1, <3>1, WorkerFixed
  <2>3. CASE busy[v].row = -1
    <3>1. ~(-1 \in Nodes)
      BY DEF Nodes, PInv, Operands
    <3>2. Resting(busy[v]) /\ IsScratch(busy[v])
      BY <2>1, <2>3, <3>1, Zenon DEF Worker, Filling
    <3> QED BY <2>1, <3>2, WorkerFixed
  <2> QED BY <2>2, <2>3
<1>10. ASSUME NEW v \in Workers, NEW x \in Workers, v # x PROVE Apart(v, x)'
  <2>1. CASE v = w
    <3>1. busy'[v] = t /\ busy'[x] = busy[x]
      BY <1>5, <1>10, <2>1, Zenon
    <3>2. busy[x].row # -1 => busy[x].row # t.row
      BY <1>10, <2>1, Zenon
    <3> QED BY <3>1, <3>2, Zenon DEF Apart
  <2>2. CASE x = w
    <3>1. busy'[x] = t /\ busy'[v] = busy[v] /\ (busy[v].row # -1 => busy[v].row # t.row)
      BY <1>5, <1>10, <2>2, Zenon
    <3> QED BY <3>1, Zenon DEF Apart
  <2>3. CASE v # w /\ x # w
    <3>1. busy'[x] = busy[x] /\ busy'[v] = busy[v] /\ Apart(v, x)
      BY <1>4, <1>5, <1>10, <2>3, Zenon
    <3> QED BY <3>1, Zenon DEF Apart
  <2> QED BY <2>1, <2>2, <2>3
<1>11. \A v \in Workers : Worker(v)'
  BY <1>8, <1>9
<1>12. Len(row_ptr') = given'.n + 1 /\ rows' \in SUBSET Nodes'
  BY <1>1, <1>4, Zenon
<1>13. Filled'
  BY <1>5, <1>6, <1>7, <1>10, <1>11, <1>12, Zenon DEF Filled
<1> QED BY <1>1, <1>2, <1>3, <1>13 DEF PInv

(* What the invariant says of a worker and of the others                     *)
LEMMA WorkerFacts ==
  ASSUME PInv, phase = "fill", NEW w \in Workers
  PROVE  /\ Operands /\ RoomsFollow /\ Len(row_ptr) = given.n + 1 /\ IsOut(out) /\ rows \in SUBSET Nodes
         /\ IsScratch(busy[w])
         /\ busy[w].row = -1 => Resting(busy[w])
         /\ busy[w].row # -1 => Filling(busy[w], out) /\ busy[w].row \notin rows /\ busy[w].row \in Nodes
         /\ \A r \in rows : \A k \in Room(r) : out.val[k] = 0
         /\ \A v \in Workers \ {w} : busy[v].row # -1 =>
              /\ Filling(busy[v], out) /\ busy[v].row \notin rows /\ busy[v].row \in Nodes
              /\ busy[v].row # busy[w].row
<1>1. /\ Operands /\ RoomsFollow /\ Len(row_ptr) = given.n + 1 /\ IsOut(out) /\ rows \in SUBSET Nodes
      /\ \A r \in rows : \A k \in Room(r) : out.val[k] = 0
  BY DEF PInv, Filled
<1>2. ~(-1 \in Nodes)
  BY <1>1 DEF Nodes, Operands
<1>3. ASSUME NEW v \in Workers
      PROVE  /\ IsScratch(busy[v])
             /\ busy[v].row = -1 => Resting(busy[v])
             /\ busy[v].row # -1 => Filling(busy[v], out) /\ busy[v].row \notin rows /\ busy[v].row \in Nodes
  <2>1. Worker(v)
    BY Zenon DEF PInv, Filled
  <2> QED BY <1>2, <2>1, Zenon DEF Worker, Resting, Filling
<1>4. ASSUME NEW v \in Workers \ {w}, busy[v].row # -1 PROVE busy[v].row # busy[w].row
  BY <1>4, Zenon DEF PInv, Filled, Apart
<1> QED BY <1>1, <1>3, <1>4, Zenon

LEMMA TakeRowStep == ASSUME PInv, NEW w \in DOMAIN busy, TakeRow(w) PROVE PInv'
<1>1. phase = "fill" /\ phase' = "fill" /\ busy[w].row = -1 /\ UNCHANGED <<given, self, other, counts, row_ptr, out>>
  BY DEF TakeRow
<1>2. w \in Workers
  BY <1>1 DEF PInv, Filled
<1> DEFINE s == busy[w]
<1>3. PICK r \in rows : rows' = rows \ {r}
                        /\ busy' = [busy EXCEPT ![w] = [s EXCEPT !.row = r, !.left = Terms(r), !.pos = row_ptr[r + 1]]]
  BY Zenon DEF TakeRow
<1>4. PICK t : t = [s EXCEPT !.row = r, !.left = Terms(r), !.pos = row_ptr[r + 1]]
  OBVIOUS
<1>5. /\ Operands /\ RoomsFollow /\ Len(row_ptr) = given.n + 1 /\ IsOut(out) /\ r \in Nodes
      /\ IsScratch(s) /\ Resting(s)
      /\ \A q \in rows : \A k \in Room(q) : out.val[k] = 0
      /\ \A v \in Workers \ {w} : busy[v].row # -1 => Filling(busy[v], out) /\ busy[v].row \notin rows
  <2>1. /\ Operands /\ RoomsFollow /\ Len(row_ptr) = given.n + 1 /\ IsOut(out) /\ rows \in SUBSET Nodes
        /\ IsScratch(s) /\ Resting(s)
        /\ \A q \in rows : \A k \in Room(q) : out.val[k] = 0
        /\ \A v \in Workers \ {w} : busy[v].row # -1 => Filling(busy[v], out) /\ busy[v].row \notin rows
    BY <1>1, <1>2, WorkerFacts, Zenon
  <2> QED BY <2>1
<1>6. /\ DOMAIN t = DOMAIN s /\ t.row = r /\ t.left = Terms(r) /\ t.pos = row_ptr[r + 1]
      /\ t.nz_cols = <<>> /\ t.acc = s.acc
  BY <1>4, <1>5 DEF IsScratch, Resting
<1>7. IsScratch(t) /\ Full(t) = {}
  BY <1>5, <1>6, Zenon DEF IsScratch, Resting, Full
<1>8. /\ row_ptr[r + 1] \in Nat /\ row_ptr[r + 2] \in Nat /\ row_ptr[r + 1] <= row_ptr[r + 2]
      /\ Cardinality(Full(t)) = 0
  BY <1>5, <1>7, RoomFacts, FS_EmptySet
<1>9. Filling(t, out)
  <2>1. t.nz_cols \in Seq(Touched(t.row))
    BY <1>6
  <2>2. \A i \in row_ptr[r + 1] + 1 .. t.pos : FALSE
    BY <1>6, <1>8
  <2>3. \A i \in t.pos + 1 .. row_ptr[r + 2] : out.val[i] = 0
    BY <1>5, <1>6, Zenon DEF Room
  <2>4. t.pos \in Nat /\ row_ptr[r + 1] <= t.pos /\ t.pos + Cardinality(Full(t)) <= row_ptr[r + 2]
    BY <1>6, <1>8
  <2>5. t.row \in Nodes /\ t.left \in SUBSET Terms(t.row) /\ Full(t) \in SUBSET Noted(t)
    BY <1>5, <1>6, <1>7, Zenon
  <2> QED BY <1>6, <2>1, <2>2, <2>3, <2>4, <2>5, Zenon DEF Filling
<1>10. t.row \notin rows' /\ rows' \in SUBSET rows /\ out' = out /\ busy' = [busy EXCEPT ![w] = t]
  <2>1. t.row \notin rows' /\ rows' \in SUBSET rows
    BY <1>3, <1>6
  <2>2. out' = out
    BY <1>1
  <2>3. busy' = [busy EXCEPT ![w] = t]
    BY <1>3, <1>4, Zenon
  <2> QED BY <2>1, <2>2, <2>3
<1>11. \A v \in Workers \ {w} : busy[v].row # -1 => (Filling(busy[v], out') /\ busy[v].row # t.row)
  BY <1>5, <1>6, <1>10, Zenon
<1>12. \A q \in rows' : \A k \in Room(q) : out'.val[k] = 0
  BY <1>5, <1>10, Zenon
<1>13. IsOut(out') /\ Filling(t, out')
  BY <1>5, <1>9, <1>10, Zenon
<1> HIDE DEF s
<1> QED BY <1>1, <1>2, <1>7, <1>10, <1>11, <1>12, <1>13, OneWorker

LEMMA AddTermStep == ASSUME PInv, NEW w \in DOMAIN busy, AddTerm(w) PROVE PInv'
<1>1. /\ phase = "fill" /\ phase' = "fill" /\ busy[w].row # -1 /\ busy[w].left # {}
      /\ UNCHANGED <<given, self, other, counts, row_ptr, out, rows>>
  BY DEF AddTerm
<1>2. w \in Workers
  BY <1>1 DEF PInv, Filled
<1>3. PICK s : s = busy[w]
  OBVIOUS
<1>4. PICK p : p = First(s.left)
  OBVIOUS
<1>5. PICK v : v = sat_add(s.acc[other.col_idx[p[2]]], sat_mul(self.values[p[1]], other.values[p[2]]))
  OBVIOUS
<1>6. PICK t : t = Added(s, v)
  OBVIOUS
<1>7. busy' = [busy EXCEPT ![w] = t]
  BY <1>3, <1>4, <1>5, <1>6, Zenon DEF AddTerm, Added
<1>8. /\ Operands /\ RoomsFollow /\ Len(row_ptr) = given.n + 1 /\ IsOut(out)
      /\ IsScratch(s) /\ Filling(s, out) /\ s.row \notin rows
      /\ \A q \in rows : \A k \in Room(q) : out.val[k] = 0
      /\ \A x \in Workers \ {w} : busy[x].row # -1 => Filling(busy[x], out) /\ busy[x].row # s.row
  BY <1>1, <1>2, <1>3, WorkerFacts, Zenon
<1>9. IsScratch(t) /\ Filling(t, out) /\ t.row = s.row
  <2>1. s.left # {}
    BY <1>1, <1>3
  <2> QED BY <1>6, <1>8, <2>1, Adding, Zenon
<1>10. out' = out /\ rows' = rows
  BY <1>1
<1>11. /\ IsOut(out') /\ rows' \in SUBSET rows
       /\ Filling(t, out') /\ t.row \notin rows'
       /\ \A x \in Workers \ {w} : busy[x].row # -1 => (Filling(busy[x], out') /\ busy[x].row # t.row)
       /\ \A r \in rows' : \A k \in Room(r) : out'.val[k] = 0
  BY <1>8, <1>9, <1>10, Zenon
<1> QED BY <1>1, <1>2, <1>7, <1>9, <1>11, OneWorker

LEMMA WriteEntryStep == ASSUME PInv, NEW w \in DOMAIN busy, WriteEntry(w) PROVE PInv'
<1>1. /\ phase = "fill" /\ phase' = "fill" /\ IsWriting(w)
      /\ UNCHANGED <<given, self, other, counts, row_ptr, rows>>
  BY DEF WriteEntry
<1>2. w \in Workers
  BY <1>1 DEF PInv, Filled
<1>3. PICK s : s = busy[w]
  OBVIOUS
<1>4. PICK t : t = Written(s)
  OBVIOUS
<1>5. PICK o : o = out
  OBVIOUS
<1>6. PICK u : u = WrittenOut(s, o)
  OBVIOUS
<1>7. busy' = [busy EXCEPT ![w] = t]
  BY <1>3, <1>4, Zenon DEF WriteEntry, Written, Column
<1>8. out' = u
  BY <1>3, <1>5, <1>6, Zenon DEF WriteEntry, WrittenOut, Column
<1>9. /\ Operands /\ RoomsFollow /\ Len(row_ptr) = given.n + 1 /\ IsOut(out) /\ rows \in SUBSET Nodes
      /\ IsScratch(s) /\ Filling(s, out) /\ s.row \notin rows /\ s.row \in Nodes
      /\ \A q \in rows : \A i \in Room(q) : out.val[i] = 0
      /\ \A x \in Workers \ {w} : busy[x].row # -1 =>
           Filling(busy[x], out) /\ busy[x].row \in Nodes /\ busy[x].row # s.row
  <2>1. s.row # -1
    BY <1>1, <1>3, Zenon DEF IsWriting
  <2> QED BY <1>1, <1>2, <1>3, <2>1, WorkerFacts, Zenon
<1>10. s.left = {} /\ s.nz_cols # <<>>
  BY <1>1, <1>3, Zenon DEF IsWriting
<1>11. IsOut(o) /\ Filling(s, o)
  BY <1>5, <1>9, Zenon
<1>12. /\ IsScratch(t) /\ IsOut(u) /\ Filling(t, u) /\ t.row = s.row
       /\ \A i \in (1 .. row_ptr[given.n + 1]) \ Room(s.row) : u.val[i] = o.val[i] /\ u.col[i] = o.col[i]
  <2>1. /\ IsScratch(Written(s)) /\ IsOut(WrittenOut(s, o))
        /\ Filling(Written(s), WrittenOut(s, o)) /\ Written(s).row = s.row
        /\ \A i \in (1 .. row_ptr[given.n + 1]) \ Room(s.row) :
             WrittenOut(s, o).val[i] = o.val[i] /\ WrittenOut(s, o).col[i] = o.col[i]
    BY <1>9, <1>10, <1>11, Writing
  <2> QED BY <1>4, <1>6, <2>1, Zenon
<1>13. ASSUME NEW q \in Nodes, q # s.row
       PROVE  \A i \in Room(q) : u.val[i] = out.val[i] /\ u.col[i] = out.col[i]
  <2>1. Room(q) \in SUBSET (1 .. row_ptr[given.n + 1])
    BY <1>9, RoomFacts, Zenon
  <2>2. \A i \in Room(q) : i \notin Room(s.row)
    BY <1>9, <1>13, RoomsApart, Zenon
  <2>3. ASSUME NEW i \in Room(q) PROVE i \in (1 .. row_ptr[given.n + 1]) \ Room(s.row)
    BY <2>1, <2>2
  <2> QED BY <1>5, <1>12, <2>3, Zenon
<1>14. ASSUME NEW x \in Workers \ {w}, busy[x].row # -1
       PROVE  Filling(busy[x], u) /\ busy[x].row # t.row
  <2>1. Filling(busy[x], out) /\ busy[x].row \in Nodes /\ busy[x].row # s.row
    BY <1>9, <1>14, Zenon
  <2>2. \A i \in Room(busy[x].row) : u.val[i] = out.val[i] /\ u.col[i] = out.col[i]
    BY <1>13, <2>1, Zenon
  <2>3. Filling(busy[x], u)
    BY <1>9, <2>1, <2>2, FillingElsewhere, Zenon
  <2> QED BY <1>12, <2>1, <2>3, Zenon
<1>15. \A r \in rows' : \A i \in Room(r) : u.val[i] = 0
  <2>1. ASSUME NEW r \in rows, NEW i \in Room(r) PROVE u.val[i] = 0
    <3>1. r \in Nodes /\ r # s.row
      BY <1>9, Zenon
    <3>2. u.val[i] = out.val[i] /\ out.val[i] = 0
      BY <1>9, <1>13, <3>1, Zenon
    <3> QED BY <3>2
  <2>2. rows' = rows
    BY <1>1
  <2> QED BY <2>1, <2>2, Zenon
<1>16. /\ IsOut(out') /\ rows' \in SUBSET rows
       /\ Filling(t, out') /\ t.row \notin rows'
       /\ \A x \in Workers \ {w} : busy[x].row # -1 => (Filling(busy[x], out') /\ busy[x].row # t.row)
       /\ \A r \in rows' : \A i \in Room(r) : out'.val[i] = 0
  <2>1. rows' = rows
    BY <1>1
  <2> QED BY <1>8, <1>9, <1>12, <1>14, <1>15, <2>1, Zenon
<1> QED BY <1>1, <1>2, <1>7, <1>12, <1>16, OneWorker

LEMMA RowDoneStep == ASSUME PInv, NEW w \in DOMAIN busy, RowDone(w) PROVE PInv'
<1>1. /\ phase = "fill" /\ phase' = "fill" /\ busy[w].row # -1 /\ busy[w].left = {} /\ busy[w].nz_cols = <<>>
      /\ UNCHANGED <<given, self, other, counts, row_ptr, out, rows>>
  BY DEF RowDone
<1>2. w \in Workers
  BY <1>1 DEF PInv, Filled
<1>3. PICK s : s = busy[w]
  OBVIOUS
<1>4. PICK t : t = [s EXCEPT !.row = -1]
  OBVIOUS
<1>5. busy' = [busy EXCEPT ![w] = t]
  BY <1>3, <1>4, Zenon DEF RowDone
<1>6. /\ Operands /\ RoomsFollow /\ Len(row_ptr) = given.n + 1 /\ IsOut(out)
      /\ IsScratch(s) /\ Filling(s, out)
      /\ \A q \in rows : \A k \in Room(q) : out.val[k] = 0
      /\ \A x \in Workers \ {w} : busy[x].row # -1 => Filling(busy[x], out) /\ busy[x].row \in Nodes
  BY <1>1, <1>2, <1>3, WorkerFacts, Zenon
<1>7. DOMAIN t = DOMAIN s /\ t.row = -1 /\ t.left = {} /\ t.nz_cols = <<>> /\ t.acc = s.acc
  BY <1>1, <1>3, <1>4, <1>6 DEF IsScratch
<1>8. Full(s) = {}
  <2>1. \A c \in Noted(s) : FALSE
    <3>1. s.nz_cols = <<>> /\ Len(<<>>) = 0
      BY <1>1, <1>3
    <3> QED BY <3>1 DEF Noted
  <2>2. Full(s) \in SUBSET Noted(s)
    BY <1>6, Zenon DEF Filling
  <2> QED BY <2>1, <2>2, Zenon
<1>9. IsScratch(t) /\ Resting(t)
  BY <1>6, <1>7, <1>8, Zenon DEF IsScratch, Resting, Full
<1>10. ~(-1 \in Nodes)
  BY <1>6 DEF Nodes, Operands
<1>11. out' = out /\ rows' = rows
  BY <1>1
<1>12. /\ IsOut(out') /\ rows' \in SUBSET rows
       /\ \A x \in Workers \ {w} : busy[x].row # -1 => (Filling(busy[x], out') /\ busy[x].row # t.row)
       /\ \A r \in rows' : \A k \in Room(r) : out'.val[k] = 0
  BY <1>6, <1>7, <1>10, <1>11, Zenon
<1> QED BY <1>1, <1>2, <1>5, <1>9, <1>12, OneWorker

LEMMA CollectStep == ASSUME PInv, Collect PROVE PInv'
<1>1. phase' = "done" /\ UNCHANGED <<given, self, other>>
  BY DEF Collect
<1>2. Operands'
  BY <1>1, Fixed DEF PInv
<1> QED BY <1>1, <1>2 DEF PInv, CountsAreRight

LEMMA PInvStutters == ASSUME PInv, UNCHANGED pvars PROVE PInv'
<1>1. /\ given' = given /\ self' = self /\ other' = other /\ phase' = phase /\ counts' = counts
      /\ row_ptr' = row_ptr /\ out' = out /\ rows' = rows /\ busy' = busy
  BY Zenon DEF pvars
<1>2. Operands' /\ Nodes' = Nodes /\ \A r \in Nodes : Touched(r)' = Touched(r)
  BY <1>1, Fixed DEF PInv
<1>3. CountsAreRight'
  BY <1>1, <1>2 DEF PInv, CountsAreRight
<1>4. (phase \in {"sum", "fill"}) => RoomsFollow' /\ \A r \in Nodes : Room(r)' = Room(r)
  BY <1>1, RoomsFixed DEF PInv
<1>5. ASSUME phase = "fill" PROVE Filled'
  <2>1. Filled
    BY <1>5, Zenon DEF PInv
  <2>2. \A w \in Workers : Worker(w)'
    BY <1>1, <2>1, WorkerFixed, Zenon DEF Filled, Worker
  <2>3. \A v, w \in Workers : v # w => Apart(v, w)'
    BY <1>1, <2>1, Zenon DEF Filled, Apart
  <2>4. IsOut(out)'
    BY <1>1, <2>1 DEF Filled, IsOut
  <2>5. \A r \in rows' : \A k \in Room(r)' : out'.val[k] = 0
    BY <1>1, <1>4, <1>5, <2>1, Zenon DEF Filled
  <2>6. Len(row_ptr') = given'.n + 1 /\ DOMAIN busy' = Workers /\ rows' \in SUBSET Nodes'
    BY <1>1, <1>2, <2>1, Zenon DEF Filled
  <2> QED BY <2>2, <2>3, <2>4, <2>5, <2>6, Zenon DEF Filled
<1> QED BY <1>1, <1>2, <1>3, <1>4, <1>5 DEF PInv

LEMMA PInvInductive == PInv /\ [PNext]_pvars => PInv'
<1> SUFFICES ASSUME PInv, [PNext]_pvars PROVE PInv'
  OBVIOUS
<1>1. CASE Begin
  BY <1>1, BeginStep
<1>2. CASE AllCounted
  BY <1>2, AllCountedStep
<1>3. CASE Push
  BY <1>3, PushStep
<1>4. CASE LayOut
  BY <1>4, LayOutStep
<1>5. CASE Collect
  BY <1>5, CollectStep
<1>6. CASE \E r \in DOMAIN counts : CountRow(r)
  BY <1>6, CountRowStep
<1>7. CASE \E w \in DOMAIN busy : TakeRow(w) \/ AddTerm(w) \/ WriteEntry(w) \/ RowDone(w)
  BY <1>7, TakeRowStep, AddTermStep, WriteEntryStep, RowDoneStep
<1>8. CASE UNCHANGED pvars
  BY <1>8, PInvStutters
<1> QED BY <1>1, <1>2, <1>3, <1>4, <1>5, <1>6, <1>7, <1>8, Zenon DEF PNext

LEMMA EntriesFitFromPInv == PInv => EntriesFit
<1> SUFFICES ASSUME PInv, phase = "fill", NEW w \in Workers, IsEmitting(w)
             PROVE  LET r == busy[w].row
                        k == busy[w].pos + 1
                    IN  /\ k \in row_ptr[r + 1] + 1 .. row_ptr[r + 2]
                        /\ k \in DOMAIN out.val /\ out.val[k] = 0
                        /\ \A i \in row_ptr[r + 1] + 1 .. k - 1 : out.val[i] # 0 /\ out.col[i] < Column(w)
                        /\ \A v \in Workers \ {w} : IsEmitting(v) => busy[v].pos + 1 # k
  BY Zenon DEF EntriesFit
<1>1. /\ Operands /\ RoomsFollow /\ Len(row_ptr) = given.n + 1 /\ IsOut(out)
      /\ \A v \in Workers : IsScratch(busy[v]) /\ (busy[v].row # -1 => Filling(busy[v], out) /\ busy[v].row \in Nodes)
      /\ \A v \in Workers \ {w} : busy[v].row # -1 => busy[v].row # busy[w].row
  BY WorkerFacts, Zenon
<1>2. ASSUME NEW v \in Workers, IsEmitting(v)
      PROVE  /\ busy[v].row # -1 /\ busy[v].row \in Nodes /\ Filling(busy[v], out)
             /\ busy[v].pos + 1 \in Room(busy[v].row) /\ out.val[busy[v].pos + 1] = 0
             /\ \A i \in row_ptr[busy[v].row + 1] + 1 .. busy[v].pos : out.val[i] # 0 /\ out.col[i] < Column(v)
  <2>1. busy[v].row # -1 /\ busy[v].nz_cols # <<>> /\ busy[v].acc[Column(v)] # 0
    BY <1>2, Zenon DEF IsEmitting, IsWriting
  <2>2. PICK s : s = busy[v]
    OBVIOUS
  <2>3. PICK o : o = out
    OBVIOUS
  <2>4. PICK j : j = s.nz_cols[Lowest(s.nz_cols)]
    OBVIOUS
  <2>5. Column(v) = j
    BY <2>2, <2>4, Zenon DEF Column
  <2>6. s.row \in Nodes /\ IsScratch(s) /\ Filling(s, o) /\ s.nz_cols # <<>> /\ s.acc[j] # 0
    BY <1>1, <2>1, <2>2, <2>3, <2>5, Zenon
  <2>7. /\ s.pos + 1 \in Room(s.row) /\ o.val[s.pos + 1] = 0
        /\ \A i \in row_ptr[s.row + 1] + 1 .. s.pos : o.val[i] # 0 /\ o.col[i] < j
    BY <1>1, <2>4, <2>6, Emitting
  <2> QED BY <2>1, <2>2, <2>3, <2>5, <2>6, <2>7, Zenon
<1> DEFINE r == busy[w].row
           k == busy[w].pos + 1
<1>3. k \in DOMAIN out.val /\ k \in row_ptr[r + 1] + 1 .. row_ptr[r + 2]
  <2>1. k \in Room(r) /\ r \in Nodes
    BY <1>2, Zenon
  <2>2. k \in 1 .. row_ptr[given.n + 1]
    BY <1>1, <2>1, RoomFacts, Zenon
  <2> QED BY <1>1, <2>1, <2>2, Zenon DEF IsOut, Room
<1>4. k - 1 = busy[w].pos
  <2>1. busy[w].pos \in Nat
    BY <1>2, Zenon DEF Filling
  <2> QED BY <2>1
<1>5. ASSUME NEW v \in Workers \ {w}, IsEmitting(v) PROVE busy[v].pos + 1 # k
  <2>1. /\ busy[v].pos + 1 \in Room(busy[v].row) /\ busy[v].row \in Nodes
        /\ k \in Room(r) /\ r \in Nodes /\ busy[v].row # r
    BY <1>1, <1>2, <1>5, Zenon
  <2> QED BY <1>1, <2>1, RoomsApart, Zenon
<1>6. out.val[k] = 0 /\ \A i \in row_ptr[r + 1] + 1 .. k - 1 : out.val[i] # 0 /\ out.col[i] < Column(w)
  BY <1>2, <1>4, Zenon
<1> QED BY <1>3, <1>5, <1>6

-----------------------------------------------------------------------------

(* The invariant holds of the parallel product of any matrices, whatever the *)
(* order of its threads' steps.                                              *)
THEOREM ProductInvariant == PSpec => []PInv
BY PInvInit, PInvInductive, PTL DEF PSpec

(* No write through the raw pointers of matmul_par misses the room of its    *)
(* row, hits what is written already, or meets another thread's.             *)
THEOREM WritesCorrectness == PSpec => []EntriesFit
BY ProductInvariant, EntriesFitFromPInv, PTL
=============================================================================
