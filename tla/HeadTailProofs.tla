--------------------------- MODULE HeadTailProofs ---------------------------
(***************************************************************************)
(* The head and tail sinks select the first (last) max paths, for every    *)
(* count, every set of paths and every order in which they are sunk.       *)
(***************************************************************************)
EXTENDS HeadTail, FiniteSetTheorems, WellFoundedInduction, TLAPS

LEMMA LeastNat ==
  ASSUME NEW T \in SUBSET Nat, T # {}
  PROVE  \E x \in T : \A y \in T : x <= y
<1>1. \E x \in T : \A y \in T : ~(<<y, x>> \in OpToRel(<, Nat))
  BY WFMin, NatLessThanWellFounded, Zenon
<1>2. PICK x \in T : \A y \in T : ~(<<y, x>> \in OpToRel(<, Nat))
  BY <1>1
<1>3. ASSUME NEW y \in T PROVE ~(y < x)
  <2>1. ~(<<y, x>> \in {ss \in Nat \X Nat : ss[1] < ss[2]})
    BY <1>2, Zenon DEF OpToRel
  <2>2. <<y, x>> \in Nat \X Nat
    OBVIOUS
  <2>3. ~(<<y, x>>[1] < <<y, x>>[2])
    BY <2>1, <2>2
  <2> QED BY <2>3
<1> QED BY <1>3

LEMMA GreatestNat ==
  ASSUME NEW T \in SUBSET Nat, T # {}, NEW b \in Nat, \A y \in T : y <= b
  PROVE  \E x \in T : \A y \in T : y <= x
<1> DEFINE D == {d \in Nat : \E y \in T : d = b - y}
<1>1. D # {} /\ D \in SUBSET Nat
  <2>1. PICK y \in T : TRUE
    OBVIOUS
  <2>2. b - y \in Nat
    OBVIOUS
  <2> QED BY <2>1, <2>2
<1>2. PICK d \in D : \A e \in D : d <= e
  BY <1>1, LeastNat
<1>3. PICK x \in T : d = b - x
  OBVIOUS
<1>4. ASSUME NEW y \in T PROVE y <= x
  <2>1. b - y \in D
    OBVIOUS
  <2> QED BY <1>2, <1>3, <2>1
<1> QED BY <1>4

LEMMA BeforeIsOrder ==
  ASSUME head \in BOOLEAN, NEW p \in Nat, NEW q \in Nat, NEW r \in Nat
  PROVE  /\ Before(p, q) /\ Before(q, r) => Before(p, r)
         /\ p = q \/ Before(p, q) \/ Before(q, p)
         /\ ~(Before(p, q) /\ Before(q, p))
         /\ ~Before(p, p)
<1>1. CASE head
  BY <1>1 DEF Before
<1>2. CASE ~head
  BY <1>2 DEF Before
<1> QED BY <1>1, <1>2

LEMMA LastOfIsLast ==
  ASSUME head \in BOOLEAN, NEW S \in SUBSET Nat, S # {},
         NEW b \in Nat, \A q \in S : q = b \/ Before(q, b)
  PROVE  LastOf(S) \in S /\ \A q \in S : q = LastOf(S) \/ Before(q, LastOf(S))
<1>1. \E p \in S : \A q \in S : q = p \/ Before(q, p)
  <2>1. CASE head
    <3>1. \A q \in S : q <= b
      BY <2>1 DEF Before
    <3>2. PICK p \in S : \A q \in S : q <= p
      BY <3>1, GreatestNat
    <3>3. \A q \in S : q = p \/ Before(q, p)
      BY <2>1, <3>2 DEF Before
    <3> QED BY <3>3
  <2>2. CASE ~head
    <3>1. PICK p \in S : \A q \in S : p <= q
      BY LeastNat
    <3>2. \A q \in S : q = p \/ Before(q, p)
      BY <2>2, <3>1 DEF Before
    <3> QED BY <3>2
  <2> QED BY <2>1, <2>2
<1> QED BY <1>1 DEF LastOf

-----------------------------------------------------------------------------
(* The inductive invariant: extremum is the last kept path, and everything  *)
(* that was dropped comes after it.                                         *)
Kept ==
  /\ extrema \subseteq seen
  /\ IsFiniteSet(seen)
  /\ extrema # {} =>
       extremum \in extrema /\ \A q \in extrema : q = extremum \/ Before(q, extremum)
  /\ extrema = {} => extremum = Empty
  /\ \A s \in seen \ extrema : count = max /\ Before(extremum, s)

Landed == space = IF pc = "done" THEN initial \cup extrema ELSE initial

IInv == TypeOK /\ Kept /\ Landed

LEMMA KeptFinite == IInv => IsFiniteSet(extrema)
BY FS_Subset DEF IInv, Kept

LEMMA KeptIsSelection == IInv => extrema = Selection(seen)
<1> SUFFICES ASSUME IInv PROVE extrema = Selection(seen)
  OBVIOUS
<1>0. /\ seen \subseteq Nat /\ head \in BOOLEAN /\ max \in Nat \ {0} /\ count \in 0 .. max
      /\ extrema \subseteq seen /\ IsFiniteSet(seen) /\ IsFiniteSet(extrema)
      /\ Cardinality(extrema) = count
      /\ extrema # {} =>
           extremum \in extrema /\ \A q \in extrema : q = extremum \/ Before(q, extremum)
      /\ \A s \in seen \ extrema : count = max /\ Before(extremum, s)
  BY KeptFinite, PathsAssumption DEF IInv, TypeOK, Kept
<1> DEFINE B(p) == {q \in seen : Before(q, p)}
<1>1. ASSUME NEW p \in extrema PROVE Cardinality(B(p)) < max
  <2>1. ASSUME NEW q \in B(p) PROVE q \in extrema \ {p}
    <3>1. q # p
      BY <1>0, BeforeIsOrder
    <3>2. ASSUME q \notin extrema PROVE FALSE
      <4>1. q \in seen /\ Before(q, p) /\ Before(extremum, q)
        BY <1>0, <3>2
      <4>2. p = extremum \/ Before(p, extremum)
        BY <1>0
      <4>3. p \in Nat /\ q \in Nat /\ extremum \in Nat
        BY <1>0
      <4> QED BY <1>0, <4>1, <4>2, <4>3, BeforeIsOrder
    <3> QED BY <3>1, <3>2
  <2>2. IsFiniteSet(extrema \ {p}) /\ Cardinality(extrema \ {p}) = count - 1
    BY <1>0, FS_RemoveElement
  <2>3. B(p) \in SUBSET (extrema \ {p})
    BY <2>1
  <2>4. Cardinality(B(p)) <= count - 1 /\ IsFiniteSet(B(p))
    BY <2>2, <2>3, FS_Subset
  <2>5. Cardinality(B(p)) \in Nat
    BY <2>4, FS_CardinalityType
  <2> QED BY <1>0, <2>4, <2>5
<1>2. ASSUME NEW p \in seen \ extrema PROVE ~(Cardinality(B(p)) < max)
  <2>1. count = max /\ Before(extremum, p) /\ extrema # {}
    BY <1>0, FS_EmptySet
  <2>2. ASSUME NEW q \in extrema PROVE q \in B(p)
    <3>1. q = extremum \/ Before(q, extremum)
      BY <1>0, <2>1
    <3>2. p \in Nat /\ q \in Nat /\ extremum \in Nat /\ q \in seen
      BY <1>0, <2>1
    <3> QED BY <1>0, <2>1, <3>1, <3>2, BeforeIsOrder
  <2>3. IsFiniteSet(B(p))
    BY <1>0, FS_Subset
  <2>4. extrema \in SUBSET B(p)
    BY <2>2
  <2>5. Cardinality(extrema) <= Cardinality(B(p)) /\ Cardinality(B(p)) \in Nat
    BY <2>3, <2>4, FS_Subset, FS_CardinalityType
  <2> QED BY <1>0, <2>1, <2>5
<1>3. Selection(seen) = {p \in seen : Cardinality(B(p)) < max}
  BY DEF Selection
<1> QED BY <1>0, <1>1, <1>2, <1>3

LEMMA InitIInv == Init => IInv
BY FS_EmptySet, PathsAssumption DEF Init, IInv, TypeOK, Kept, Landed

LEMMA SeenGrows ==
  ASSUME IInv, NEW p \in Paths
  PROVE  IsFiniteSet(seen \cup {p}) /\ p \in Nat /\ p # Empty /\ seen \subseteq Nat
BY FS_AddElement, PathsAssumption DEF IInv, TypeOK, Kept

LEMMA IgnoreIInv == ASSUME NEW p \in Paths PROVE IInv /\ SinkIgnore(p) => IInv'
<1> SUFFICES ASSUME IInv, SinkIgnore(p) PROVE IInv'
  OBVIOUS
<1>1. /\ IsFiniteSet(seen \cup {p}) /\ p \in Nat /\ seen \subseteq Nat /\ head \in BOOLEAN
      /\ count = max /\ max \in Nat \ {0} /\ ~Before(p, extremum)
      /\ Cardinality(extrema) = count
  BY SeenGrows, PathsAssumption DEF IInv, TypeOK, Kept, SinkIgnore
<1>2. extrema # {} /\ extremum \in extrema /\ extremum \in Nat
  BY <1>1, FS_EmptySet DEF IInv, Kept
<1>3. p \notin extrema => Before(extremum, p)
  BY <1>1, <1>2, BeforeIsOrder
<1>4. \A s \in (seen \cup {p}) \ extrema : count = max /\ Before(extremum, s)
  BY <1>1, <1>3 DEF IInv, Kept
<1> QED BY <1>1, <1>4 DEF IInv, TypeOK, Kept, Landed, SinkIgnore, Before

LEMMA ReplaceIInv == ASSUME NEW p \in Paths PROVE IInv /\ SinkReplace(p) => IInv'
<1> SUFFICES ASSUME IInv, SinkReplace(p) PROVE IInv'
  OBVIOUS
<1> DEFINE E == (extrema \cup {p}) \ {extremum}
<1>1. /\ IsFiniteSet(seen \cup {p}) /\ p \in Nat /\ seen \subseteq Nat /\ head \in BOOLEAN
      /\ extrema \subseteq seen /\ IsFiniteSet(extrema) /\ Cardinality(extrema) = count
      /\ count = max /\ max \in Nat \ {0} /\ Before(p, extremum) /\ p \notin extrema
      /\ \A s \in seen \ extrema : Before(extremum, s)
  BY SeenGrows, KeptFinite, PathsAssumption DEF IInv, TypeOK, Kept, SinkReplace
<1>2. /\ extrema # {} /\ extremum \in extrema /\ extremum \in Nat /\ p # extremum
      /\ \A q \in extrema : q = extremum \/ Before(q, extremum)
  BY <1>1, FS_EmptySet DEF IInv, Kept
<1>3. Cardinality(E) = count
  <2>1. IsFiniteSet(extrema \cup {p}) /\ Cardinality(extrema \cup {p}) = count + 1
    BY <1>1, FS_AddElement
  <2>2. extremum \in extrema \cup {p}
    BY <1>2
  <2>3. Cardinality(E) = Cardinality(extrema \cup {p}) - 1
    BY <2>1, <2>2, FS_RemoveElement
  <2> QED BY <1>1, <2>1, <2>3
<1>4. E \subseteq Nat /\ E # {} /\ p \in E /\ \A q \in E : Before(q, extremum)
  BY <1>1, <1>2
<1>5. LastOf(E) \in E /\ \A q \in E : q = LastOf(E) \/ Before(q, LastOf(E))
  BY <1>1, <1>2, <1>4, LastOfIsLast
<1>6. ASSUME NEW s \in (seen \cup {p}) \ E PROVE Before(LastOf(E), s)
  <2>1. Before(LastOf(E), extremum) /\ LastOf(E) \in Nat
    BY <1>4, <1>5
  <2>2. s = extremum \/ s \in seen \ extrema
    BY <1>1
  <2>3. s \in Nat /\ (s = extremum \/ Before(extremum, s))
    BY <1>1, <1>2, <2>2
  <2> QED BY <1>1, <1>2, <2>1, <2>3, BeforeIsOrder
<1>7. /\ extrema' = E /\ extremum' = LastOf(extrema') /\ seen' = seen \cup {p}
      /\ head' = head /\ max' = max /\ count' = count /\ pc' = pc /\ pc = "sink"
      /\ space' = space /\ initial' = initial
  BY DEF SinkReplace
<1>8. extremum' = LastOf(E)
  BY <1>7
<1>9. TypeOK'
  BY <1>1, <1>3, <1>5, <1>7, <1>8 DEF IInv, TypeOK
<1>10. Kept'
  BY <1>1, <1>2, <1>4, <1>5, <1>6, <1>7, <1>8 DEF Kept, Before
<1> QED BY <1>7, <1>9, <1>10 DEF IInv, Landed

LEMMA PanicIInv == ASSUME NEW p \in Paths PROVE IInv /\ SinkPanic(p) => IInv'
<1> SUFFICES ASSUME IInv, SinkPanic(p) PROVE IInv'
  OBVIOUS
<1>1. seen' = seen
  BY DEF IInv, Kept, SinkPanic
<1> QED BY <1>1 DEF IInv, TypeOK, Kept, Landed, SinkPanic, Before

LEMMA AddIInv == ASSUME NEW p \in Paths PROVE IInv /\ SinkAdd(p) => IInv'
<1> SUFFICES ASSUME IInv, SinkAdd(p) PROVE IInv'
  OBVIOUS
<1>1. /\ IsFiniteSet(seen \cup {p}) /\ p \in Nat /\ p # Empty /\ seen \subseteq Nat
      /\ head \in BOOLEAN /\ IsFiniteSet(extrema) /\ Cardinality(extrema) = count
      /\ count < max /\ max \in Nat \ {0} /\ count \in Nat /\ extrema \subseteq Nat
      /\ extrema \subseteq seen /\ seen \ extrema = {}
  BY SeenGrows, KeptFinite, PathsAssumption DEF IInv, TypeOK, Kept, SinkAdd
<1>2. /\ seen' = seen \cup {p} /\ head' = head /\ max' = max /\ pc' = pc /\ pc = "sink"
      /\ space' = space /\ initial' = initial
  BY DEF SinkAdd
<1>3. CASE p \in extrema
  <2>1. seen' = seen /\ extrema' = extrema /\ count' = count /\ extremum' = extremum
    BY <1>1, <1>2, <1>3 DEF SinkAdd
  <2> QED BY <1>2, <2>1 DEF IInv, TypeOK, Kept, Landed, Before
<1>4. CASE p \notin extrema
  <2>1. /\ extrema' = extrema \cup {p} /\ count' = count + 1
        /\ extremum' = IF extremum = Empty \/ Before(extremum, p) THEN p ELSE extremum
    BY <1>4 DEF SinkAdd
  <2>2. Cardinality(extrema') = count'
    BY <1>1, <1>4, <2>1, FS_AddElement
  <2>3. extremum' \in extrema' /\ \A q \in extrema' : q = extremum' \/ Before(q, extremum')
    <3>1. CASE extrema = {}
      BY <2>1, <3>1 DEF IInv, Kept
    <3>2. CASE extrema # {}
      <4>1. /\ extremum \in extrema /\ extremum # Empty /\ extremum \in Nat
            /\ \A q \in extrema : q = extremum \/ Before(q, extremum)
        BY <1>1, <3>2, PathsAssumption DEF IInv, TypeOK, Kept
      <4>2. CASE Before(extremum, p)
        <5>1. \A q \in extrema : Before(q, p)
          BY <1>1, <4>1, <4>2, BeforeIsOrder
        <5> QED BY <2>1, <4>2, <5>1
      <4>3. CASE ~Before(extremum, p)
        <5>1. Before(p, extremum)
          BY <1>1, <1>4, <4>1, <4>3, BeforeIsOrder
        <5> QED BY <2>1, <4>1, <4>3, <5>1
      <4> QED BY <4>2, <4>3
    <3> QED BY <3>1, <3>2
  <2>4. TypeOK'
    BY <1>1, <1>2, <2>1, <2>2, <2>3 DEF IInv, TypeOK
  <2>5. seen' \ extrema' = {} /\ extrema' \subseteq seen' /\ extrema' # {}
    BY <1>1, <1>2, <2>1
  <2>6. Kept'
    BY <1>1, <1>2, <2>3, <2>5 DEF Kept, Before
  <2> QED BY <1>2, <2>4, <2>6 DEF IInv, Landed
<1> QED BY <1>3, <1>4

LEMMA FinalizeIInv == IInv /\ Finalize => IInv'
BY DEF IInv, TypeOK, Kept, Landed, Finalize, Before

(* The bookkeeping invariant of the sink. *)
THEOREM Invariant == Spec => []IInv
<1>1. IInv /\ [Next]_vars => IInv'
  <2> SUFFICES ASSUME IInv, [Next]_vars PROVE IInv'
    OBVIOUS
  <2>1. CASE UNCHANGED vars
    BY <2>1 DEF vars, IInv, TypeOK, Kept, Landed, Before
  <2> QED BY <2>1, IgnoreIInv, ReplaceIInv, PanicIInv, AddIInv, FinalizeIInv DEF Next
<1> QED BY <1>1, InitIInv, PTL DEF Spec

(* The sink holds exactly count paths, and never more than max.             *)
THEOREM Typed == Spec => []TypeOK
BY Invariant, PTL DEF IInv

(* At every moment the sink holds the first (last) max of the paths seen,   *)
(* and finalize adds them to the space and loses nothing of it.             *)
THEOREM Selects == Spec => []KeepsSelection
<1>1. IInv => KeepsSelection
  BY KeptIsSelection DEF IInv, Landed, KeepsSelection
<1> QED BY <1>1, Invariant, PTL
=============================================================================
