-------------------------- MODULE ResourcesProofs --------------------------
(***************************************************************************)
(* For every space, batch and number of execs: a factor holds what its     *)
(* source stands for, and no query waits for a line that will not come.    *)
(* The first half is about expressions, the second about the pipes.        *)
(***************************************************************************)
EXTENDS Resources, SequenceTheorems, FiniteSetTheorems, WellFoundedInduction, TLAPS

LEMMA LeastNumber ==
  ASSUME NEW T \in SUBSET Nat, T # {}
  PROVE  \E n \in T : \A k \in T : ~(k < n)
<1>1. PICK n \in T : \A k \in T : ~(<<k, n>> \in OpToRel(<, Nat))
  BY WFMin, NatLessThanWellFounded, Zenon
<1>2. ASSUME NEW k \in T PROVE ~(k < n)
  <2>1. ~(<<k, n>> \in {w \in Nat \X Nat : w[1] < w[2]})
    BY <1>1, Zenon DEF OpToRel
  <2> QED BY <2>1
<1> QED BY <1>2

-----------------------------------------------------------------------------
(* Levels *)

LEMMA DomainOfExpression ==
  ASSUME NEW x, IsExpression(x)
  PROVE  /\ Len(x) \in Nat
         /\ DOMAIN x = 1 .. Len(x)
         /\ x \in Seq(ToSet(x))
<1>1. x \in Seq(ToSet(x))
  BY DEF IsExpression
<1> QED BY <1>1, LenProperties

(* New items before one are counted by their places.                         *)
LEMMA CountedInSequence ==
  ASSUME NEW x, x \in Seq(ToSet(x)), NEW i \in 1 .. Len(x) + 1
  PROVE  /\ NewBefore(x, i) = Cardinality({j \in 1 .. i - 1 : IsNew(x[j])})
         /\ NewBefore(x, i) \in Nat
         /\ IsFiniteSet({j \in 1 .. i - 1 : IsNew(x[j])})
<1> DEFINE part == SubSeq(x, 1, i - 1)
           places == {j \in 1 .. i - 1 : IsNew(x[j])}
<1>1. Len(x) \in Nat /\ DOMAIN x = 1 .. Len(x) /\ \A j \in 1 .. i - 1 : x[j] \in ToSet(x)
  BY LenProperties DEF ToSet
<1> DEFINE n == i - 1
<1>2. /\ part \in Seq(ToSet(x))
      /\ Len(part) = i - 1
      /\ \A j \in 1 .. i - 1 : part[j] = x[j]
  <2>1. n \in Nat /\ \A j \in 1 .. n : x[j] \in ToSet(x)
    BY <1>1
  <2>2. part = SubSeq(x, 1, n)
    OBVIOUS
  <2> HIDE DEF part, n
  <2>3. /\ SubSeq(x, 1, n) \in Seq(ToSet(x))
        /\ Len(SubSeq(x, 1, n)) = IF 1 <= n THEN n - 1 + 1 ELSE 0
        /\ \A j \in 1 .. n - 1 + 1 : SubSeq(x, 1, n)[j] = x[1 + j - 1]
    BY <2>1, SubSeqProperties
  <2>4. Len(SubSeq(x, 1, n)) = n
    BY <2>1, <2>3
  <2>5. \A j \in 1 .. n : SubSeq(x, 1, n)[j] = x[j]
    <3>1. ASSUME NEW j \in 1 .. n PROVE j \in 1 .. n - 1 + 1 /\ 1 + j - 1 = j
      BY <2>1
    <3> QED BY <2>3, <3>1, Zenon
  <2>6. n = i - 1
    BY DEF n
  <2> QED BY <2>2, <2>3, <2>4, <2>5, <2>6, Zenon
<1>3. DOMAIN part = 1 .. i - 1
  BY <1>2, LenProperties
<1>4. {j \in DOMAIN part : IsNew(part[j])} = places
  <2>1. \A j \in 1 .. i - 1 : IsNew(part[j]) <=> IsNew(x[j])
    <3> HIDE DEF part
    <3> QED BY <1>2, Zenon
  <2> HIDE DEF part
  <2> QED BY <1>3, <2>1
<1>5. NewBefore(x, i) = Cardinality(places)
  BY <1>4, Zenon DEF NewBefore, NewVars
<1>6. IsFiniteSet(1 .. i - 1) /\ places \in SUBSET (1 .. i - 1)
  <2>1. 1 \in Int /\ i - 1 \in Int
    BY <1>1
  <2>2. IsFiniteSet(1 .. i - 1)
    BY <2>1, FS_Interval, Zenon
  <2> QED BY <2>2, Zenon
<1>7. IsFiniteSet(places) /\ Cardinality(places) \in Nat
  BY <1>6, FS_Subset, FS_CardinalityType, Zenon
<1> QED BY <1>5, <1>7

LEMMA CountedByPlaces ==
  ASSUME NEW x, IsExpression(x), NEW i \in 1 .. Len(x) + 1
  PROVE  /\ NewBefore(x, i) = Cardinality({j \in 1 .. i - 1 : IsNew(x[j])})
         /\ NewBefore(x, i) \in Nat
         /\ IsFiniteSet({j \in 1 .. i - 1 : IsNew(x[j])})
BY DomainOfExpression, CountedInSequence

LEMMA Counting ==
  ASSUME NEW x, IsExpression(x)
  PROVE  /\ NewBefore(x, 1) = 0
         /\ NewBefore(x, Len(x) + 1) = NewVars(x)
         /\ NewVars(x) \in Nat
         /\ \A i \in DOMAIN x : NewBefore(x, i + 1) = NewBefore(x, i) + IF IsNew(x[i]) THEN 1 ELSE 0
         /\ \A i, j \in 1 .. Len(x) + 1 : i <= j => NewBefore(x, i) <= NewBefore(x, j)
<1> DEFINE Places(i) == {j \in 1 .. i - 1 : IsNew(x[j])}
<1>1. Len(x) \in Nat /\ DOMAIN x = 1 .. Len(x)
  BY DomainOfExpression
<1>2. ASSUME NEW i \in 1 .. Len(x) + 1
      PROVE  NewBefore(x, i) = Cardinality(Places(i)) /\ NewBefore(x, i) \in Nat /\ IsFiniteSet(Places(i))
  BY CountedByPlaces
<1>3. NewBefore(x, 1) = 0
  <2>1. Places(1) = {}
    OBVIOUS
  <2> QED BY <1>1, <1>2, <2>1, FS_EmptySet
<1>4. NewBefore(x, Len(x) + 1) = NewVars(x)
  <2>1. Places(Len(x) + 1) = {j \in DOMAIN x : IsNew(x[j])}
    BY <1>1
  <2>2. Len(x) + 1 \in 1 .. Len(x) + 1
    BY <1>1
  <2>3. NewBefore(x, Len(x) + 1) = Cardinality(Places(Len(x) + 1))
    BY <1>2, <2>2
  <2> QED BY <2>1, <2>3, Zenon DEF NewVars
<1>5. NewVars(x) \in Nat
  <2>1. Len(x) + 1 \in 1 .. Len(x) + 1
    BY <1>1
  <2> QED BY <1>2, <1>4, <2>1, Zenon
<1>6. ASSUME NEW i \in DOMAIN x
      PROVE  NewBefore(x, i + 1) = NewBefore(x, i) + IF IsNew(x[i]) THEN 1 ELSE 0
  <2>1. i \in 1 .. Len(x) + 1 /\ i + 1 \in 1 .. Len(x) + 1 /\ i \notin Places(i)
    BY <1>1
  <2>2. Places(i + 1) = IF IsNew(x[i]) THEN Places(i) \cup {i} ELSE Places(i)
    BY <1>1
  <2>3. IsFiniteSet(Places(i)) /\ Cardinality(Places(i)) = NewBefore(x, i) /\ NewBefore(x, i) \in Nat
        /\ NewBefore(x, i + 1) = Cardinality(Places(i + 1))
    BY <1>2, <2>1
  <2>4. Cardinality(Places(i) \cup {i}) = Cardinality(Places(i)) + 1
    <3> HIDE DEF Places
    <3> QED BY <2>1, <2>3, FS_AddElement, Zenon
  <2> HIDE DEF Places
  <2> QED BY <2>2, <2>3, <2>4
<1>7. ASSUME NEW i \in 1 .. Len(x) + 1, NEW j \in 1 .. Len(x) + 1, i <= j
      PROVE  NewBefore(x, i) <= NewBefore(x, j)
  <2>1. Places(i) \in SUBSET Places(j)
    BY <1>1, <1>7
  <2>2. Cardinality(Places(i)) <= Cardinality(Places(j))
    <3>1. IsFiniteSet(Places(j))
      BY <1>2
    <3> HIDE DEF Places
    <3> QED BY <2>1, <3>1, FS_Subset, Zenon
  <2> QED BY <1>2, <2>2, Zenon
<1> QED BY <1>3, <1>4, <1>5, <1>6, <1>7

(* Every level below the count was introduced by an item before.             *)
LEMMA Introduced ==
  ASSUME NEW x, IsExpression(x), NEW i \in 1 .. Len(x) + 1, NEW k \in Nat, k < NewBefore(x, i)
  PROVE  \E j \in 1 .. i - 1 : IsNew(x[j]) /\ NewBefore(x, j) = k
<1> DEFINE above == {m \in 1 .. i : NewBefore(x, m) > k}
<1>1. Len(x) \in Nat /\ DOMAIN x = 1 .. Len(x)
  BY DomainOfExpression
<1>2. \A m \in 1 .. Len(x) + 1 : NewBefore(x, m) \in Nat
  BY CountedByPlaces
<1>3. i \in above /\ above \in SUBSET Nat
  BY <1>1, <1>2
<1>4. PICK m \in above : \A n \in above : ~(n < m)
  <2> HIDE DEF above
  <2> QED BY <1>3, LeastNumber, Zenon
<1>5. m # 1
  BY <1>1, <1>2, Counting
<1>6. m - 1 \in 1 .. i - 1 /\ m - 1 \in DOMAIN x /\ m - 1 \in 1 .. i /\ m - 1 < m /\ (m - 1) + 1 = m
      /\ m \in 1 .. Len(x) + 1 /\ m - 1 \in 1 .. Len(x) + 1
  BY <1>1, <1>5
<1>7. ~(NewBefore(x, m - 1) > k)
  BY <1>4, <1>6
<1>8. NewBefore(x, m) = NewBefore(x, m - 1) + IF IsNew(x[m - 1]) THEN 1 ELSE 0
  <2>1. NewBefore(x, (m - 1) + 1) = NewBefore(x, m - 1) + IF IsNew(x[m - 1]) THEN 1 ELSE 0
    BY <1>6, Counting, Zenon
  <2> QED BY <2>1, <1>6, Zenon
<1>9. NewBefore(x, m) \in Nat /\ NewBefore(x, m - 1) \in Nat /\ NewBefore(x, m) > k
  BY <1>2, <1>4, <1>6
<1>10. IsNew(x[m - 1]) /\ NewBefore(x, m - 1) = k
  BY <1>7, <1>8, <1>9
<1> QED BY <1>6, <1>10

(* A variable's level is below the count, and not above what its item saw.   *)
LEMMA LevelsAreBounded ==
  ASSUME NEW x, IsExpression(x), NEW i \in DOMAIN x, IsVar(x[i])
  PROVE  /\ LevelAt(x, i) \in 0 .. NewVars(x) - 1
         /\ IsNew(x[i]) => LevelAt(x, i) = NewBefore(x, i)
         /\ ~IsNew(x[i]) => LevelAt(x, i) = x[i].val /\ x[i].val \in Nat /\ x[i].val < NewBefore(x, i)
<1>1. Len(x) \in Nat /\ DOMAIN x = 1 .. Len(x)
  BY DomainOfExpression
<1>2. NewBefore(x, i) \in Nat /\ NewVars(x) \in Nat /\ NewBefore(x, i) <= NewVars(x)
  <2>1. i \in 1 .. Len(x) + 1 /\ Len(x) + 1 \in 1 .. Len(x) + 1 /\ i <= Len(x) + 1
    BY <1>1
  <2> QED BY <2>1, CountedByPlaces, Counting
<1>3. CASE IsNew(x[i])
  <2>1. LevelAt(x, i) = NewBefore(x, i)
    BY <1>3 DEF LevelAt
  <2>2. NewBefore(x, i + 1) = NewBefore(x, i) + 1
    BY <1>3, Counting
  <2>3. NewBefore(x, i + 1) <= NewVars(x)
    <3>1. i + 1 \in 1 .. Len(x) + 1 /\ Len(x) + 1 \in 1 .. Len(x) + 1 /\ i + 1 <= Len(x) + 1
      BY <1>1
    <3> QED BY <3>1, Counting
  <2> QED BY <1>2, <1>3, <2>1, <2>2, <2>3
<1>4. CASE ~IsNew(x[i])
  <2>1. x[i].tag = "ref"
    BY <1>4 DEF IsVar, IsNew
  <2>2. LevelAt(x, i) = x[i].val /\ x[i].val \in Nat
    BY <1>4, <2>1 DEF LevelAt, IsExpression
  <2>3. ~(x[i].val >= NewBefore(x, i))
    BY <2>1 DEF IsExpression, HasUnbound
  <2> QED BY <1>2, <1>4, <2>2, <2>3
<1> QED BY <1>3, <1>4

(* The first occurrence of a level is where it is introduced.                *)
LEMMA FirstIsNew ==
  ASSUME NEW x, IsExpression(x), NEW i \in DOMAIN x, IsNew(x[i]),
         NEW j \in DOMAIN x, IsVar(x[j]), LevelAt(x, j) = NewBefore(x, i)
  PROVE  i <= j /\ (IsNew(x[j]) => i = j)
<1>1. Len(x) \in Nat /\ DOMAIN x = 1 .. Len(x) /\ i \in 1 .. Len(x) + 1 /\ j \in 1 .. Len(x) + 1
      /\ i + 1 \in 1 .. Len(x) + 1 /\ j + 1 \in 1 .. Len(x) + 1
  BY DomainOfExpression
<1>2. NewBefore(x, i) \in Nat /\ NewBefore(x, j) \in Nat
  BY <1>1, CountedByPlaces
<1>3. NewBefore(x, i + 1) = NewBefore(x, i) + 1
      /\ NewBefore(x, j + 1) = NewBefore(x, j) + IF IsNew(x[j]) THEN 1 ELSE 0
  BY Counting
<1>4. /\ j + 1 <= i => NewBefore(x, j + 1) <= NewBefore(x, i)
      /\ j <= i => NewBefore(x, j) <= NewBefore(x, i)
      /\ i + 1 <= j => NewBefore(x, i + 1) <= NewBefore(x, j)
  BY <1>1, Counting
<1>5. IF IsNew(x[j]) THEN NewBefore(x, i) = NewBefore(x, j)
      ELSE x[j].val \in Nat /\ x[j].val < NewBefore(x, j) /\ x[j].val = NewBefore(x, i)
  BY LevelsAreBounded
<1> QED BY <1>1, <1>2, <1>3, <1>4, <1>5

(* Levels named one to one, and in order, are what Canonical and Encode      *)
(* find again.                                                               *)
LEMMA Renamed ==
  ASSUME NEW z, IsExpression(z), NEW m, NEW g,
         DOMAIN m = DOMAIN z,
         \A i \in DOMAIN z : m[i] = IF IsVar(z[i]) THEN Var(g[LevelAt(z, i)]) ELSE z[i],
         \A k, l \in 0 .. NewVars(z) - 1 : g[k] = g[l] => k = l
  PROVE  /\ Encode(m) = z
         /\ Canonical(m) = [i \in DOMAIN z |-> IF IsVar(z[i]) THEN Var(LevelAt(z, i)) ELSE z[i]]
<1> DEFINE N == NewVars(z)
           D == DOMAIN z
           P(l) == CHOOSE i \in D : IsNew(z[i]) /\ NewBefore(z, i) = l
<1>1. N \in Nat /\ Len(z) \in Nat /\ D = 1 .. Len(z)
  BY Counting, DomainOfExpression
<1>2. ASSUME NEW l \in 0 .. N - 1
      PROVE  P(l) \in D /\ IsNew(z[P(l)]) /\ NewBefore(z, P(l)) = l
  <2>1. Len(z) + 1 \in 1 .. Len(z) + 1 /\ l \in Nat /\ l < NewBefore(z, Len(z) + 1)
    BY <1>1, <1>2, Counting
  <2>2. \E i \in 1 .. (Len(z) + 1) - 1 : IsNew(z[i]) /\ NewBefore(z, i) = l
    BY <2>1, Introduced
  <2>3. \E i \in D : IsNew(z[i]) /\ NewBefore(z, i) = l
    BY <1>1, <2>2
  <2> QED BY <2>3, Zenon
<1>3. ASSUME NEW i \in D
      PROVE  /\ m[i].tag = "var" <=> IsVar(z[i])
             /\ IsVar(z[i]) => m[i].val = g[LevelAt(z, i)] /\ LevelAt(z, i) \in 0 .. N - 1
             /\ ~IsVar(z[i]) => m[i] = z[i]
  <2>1. z[i].tag # "var"
    BY DEF IsExpression
  <2>2. \A v : Var(v).tag = "var" /\ Var(v).val = v
    BY DEF Var
  <2>3. IsVar(z[i]) => LevelAt(z, i) \in 0 .. N - 1
    BY LevelsAreBounded
  <2> QED BY <2>1, <2>2, <2>3
<1> HIDE DEF P
<1>4. ASSUME NEW l \in 0 .. N - 1, NEW j \in D
      PROVE  At(m, j, g[l]) <=> IsVar(z[j]) /\ LevelAt(z, j) = l
  BY <1>3 DEF At
<1>5. ASSUME NEW l \in 0 .. N - 1
      PROVE  First(m, g[l]) = P(l)
  <2>1. IsVar(z[P(l)]) /\ LevelAt(z, P(l)) = l
    <3>1. IsNew(z[P(l)]) /\ NewBefore(z, P(l)) = l
      BY <1>2
    <3> QED BY <3>1 DEF IsNew, IsVar, LevelAt
  <2>2. P(l) \in D /\ At(m, P(l), g[l])
    BY <1>2, <1>4, <2>1
  <2>3. ASSUME NEW j \in D, At(m, j, g[l])
        PROVE  P(l) <= j
    <3>1. IsVar(z[j]) /\ LevelAt(z, j) = NewBefore(z, P(l)) /\ IsNew(z[P(l)]) /\ P(l) \in D
      BY <1>2, <1>4, <2>3
    <3> QED BY <3>1, FirstIsNew
  <2>4. \A j \in 1 .. P(l) - 1 : ~At(m, j, g[l])
    <3>1. ASSUME NEW j \in 1 .. P(l) - 1 PROVE j \in D /\ ~(P(l) <= j)
      BY <1>1, <2>2
    <3> QED BY <2>3, <3>1
  <2>5. ASSUME NEW i \in D, At(m, i, g[l]), \A j \in 1 .. i - 1 : ~At(m, j, g[l])
        PROVE  i = P(l)
    <3>1. P(l) <= i
      BY <2>3, <2>5
    <3>2. P(l) \notin 1 .. i - 1
      BY <2>2, <2>5
    <3> QED BY <1>1, <2>2, <3>1, <3>2
  <2> QED BY <2>2, <2>4, <2>5, Zenon DEF First
<1>6. Names(m) = {g[l] : l \in 0 .. N - 1}
  <2>1. ASSUME NEW l \in 0 .. N - 1 PROVE P(l) \in D /\ m[P(l)].tag = "var" /\ m[P(l)].val = g[l]
    <3>1. P(l) \in D /\ IsNew(z[P(l)]) /\ NewBefore(z, P(l)) = l
      BY <1>2
    <3>2. IsVar(z[P(l)]) /\ LevelAt(z, P(l)) = l
      BY <3>1 DEF IsNew, IsVar, LevelAt
    <3> QED BY <1>3, <3>1, <3>2
  <2>2. ASSUME NEW i \in D, m[i].tag = "var" PROVE \E l \in 0 .. N - 1 : m[i].val = g[l]
    BY <1>3, <2>2
  <2> QED BY <2>1, <2>2 DEF Names
<1>7. ASSUME NEW k \in 0 .. N - 1, NEW l \in 0 .. N - 1
      PROVE  P(k) < P(l) <=> k < l
  <2>1. /\ P(k) \in D /\ IsNew(z[P(k)]) /\ NewBefore(z, P(k)) = k
        /\ P(l) \in D /\ IsNew(z[P(l)]) /\ NewBefore(z, P(l)) = l
    BY <1>2
  <2>2. NewBefore(z, P(k) + 1) = k + 1
    BY <2>1, Counting
  <2>3. P(k) \in 1 .. Len(z) + 1 /\ P(l) \in 1 .. Len(z) + 1 /\ P(k) + 1 \in 1 .. Len(z) + 1
    BY <1>1, <2>1
  <2>4. P(k) + 1 <= P(l) => k + 1 <= l
    BY <2>1, <2>2, <2>3, Counting
  <2>5. P(l) <= P(k) => l <= k
    BY <2>1, <2>3, Counting
  <2> QED BY <2>3, <2>4, <2>5
<1>8. ASSUME NEW l \in 0 .. N - 1
      PROVE  Rank(m, g[l]) = l
  <2> DEFINE S == {n \in Names(m) : First(m, n) < First(m, g[l])}
  <2>1. S = {g[k] : k \in 0 .. l - 1}
    <3>1. ASSUME NEW k \in 0 .. N - 1 PROVE First(m, g[k]) < First(m, g[l]) <=> k < l
      BY <1>5, <1>7
    <3>2. \A k \in 0 .. N - 1 : k < l <=> k \in 0 .. l - 1
      BY <1>1
    <3>3. \A k \in 0 .. l - 1 : k \in 0 .. N - 1
      BY <1>1
    <3> QED BY <1>6, <3>1, <3>2, <3>3
  <2>2. Cardinality({g[k] : k \in 0 .. l - 1}) = l
    <3> DEFINE I == 0 .. l - 1
               T == {g[k] : k \in I}
               f == [k \in I |-> g[k]]
    <3>1. f \in [I -> T]
      OBVIOUS
    <3>2. \A k \in I : k \in 0 .. N - 1
      BY <1>1
    <3>3. f \in Bijection(I, T)
      BY <3>1, <3>2 DEF Bijection, Injection, Surjection, IsInjective
    <3>4. IsFiniteSet(I) /\ Cardinality(I) = l
      <4>1. 0 \in Int /\ l - 1 \in Int /\ (IF 0 > l - 1 THEN 0 ELSE (l - 1) - 0 + 1) = l
        BY <1>1
      <4> QED BY <4>1, FS_Interval
    <3>5. ExistsBijection(I, T)
      BY <3>3, Zenon DEF ExistsBijection
    <3> HIDE DEF I, T
    <3> QED BY <3>4, <3>5, FS_Bijection, Zenon DEF T, I
  <2> QED BY <2>1, <2>2, Zenon DEF Rank
<1>9. ASSUME NEW i \in D
      PROVE  /\ IsVar(z[i]) => Rank(m, m[i].val) = LevelAt(z, i)
             /\ IsVar(z[i]) => First(m, m[i].val) = P(LevelAt(z, i))
  BY <1>3, <1>5, <1>8
<1>10. Canonical(m) = [i \in D |-> IF IsVar(z[i]) THEN Var(LevelAt(z, i)) ELSE z[i]]
  BY <1>3, <1>9 DEF Canonical
<1>11. Encode(m) = z
  <2>1. ASSUME NEW i \in D
        PROVE  (IF m[i].tag # "var" THEN m[i]
                ELSE IF First(m, m[i].val) = i THEN New ELSE Ref(Rank(m, m[i].val))) = z[i]
    <3>1. CASE ~IsVar(z[i])
      BY <1>3, <3>1
    <3>2. CASE IsVar(z[i]) /\ IsNew(z[i])
      <4>1. LevelAt(z, i) = NewBefore(z, i) /\ LevelAt(z, i) \in 0 .. N - 1
        BY <3>2, LevelsAreBounded
      <4>2. P(LevelAt(z, i)) = i
        <5>1. P(LevelAt(z, i)) \in D /\ IsNew(z[P(LevelAt(z, i))]) /\ NewBefore(z, P(LevelAt(z, i))) = LevelAt(z, i)
          BY <1>2, <4>1
        <5>2. LevelAt(z, i) = NewBefore(z, P(LevelAt(z, i)))
          BY <5>1, Zenon
        <5> QED BY <3>2, <5>1, <5>2, FirstIsNew
      <4>3. z[i] = New
        BY <3>2 DEF IsNew, New, IsExpression
      <4> QED BY <1>3, <1>9, <3>2, <4>2, <4>3
    <3>3. CASE IsVar(z[i]) /\ ~IsNew(z[i])
      <4>1. LevelAt(z, i) = z[i].val /\ LevelAt(z, i) \in 0 .. N - 1
        BY <3>3, LevelsAreBounded
      <4>2. P(LevelAt(z, i)) # i
        BY <1>2, <3>3, <4>1
      <4>3. z[i] = Ref(LevelAt(z, i))
        <5>1. z[i].tag = "ref"
          BY <3>3 DEF IsVar, IsNew
        <5>2. z[i] = [tag |-> z[i].tag, val |-> z[i].val]
          BY DEF IsExpression
        <5> QED BY <4>1, <5>1, <5>2, Zenon DEF Ref
      <4> QED BY <1>3, <1>9, <3>3, <4>2, <4>3
    <3> QED BY <3>1, <3>2, <3>3
  <2>2. z = [i \in D |-> z[i]]
    <3>1. z \in [1 .. Len(z) -> ToSet(z)]
      BY DomainOfExpression, LenProperties
    <3> QED BY <1>1, <3>1
  <2>3. Encode(m) = [i \in D |-> IF m[i].tag # "var" THEN m[i]
                ELSE IF First(m, m[i].val) = i THEN New ELSE Ref(Rank(m, m[i].val))]
    BY DEF Encode
  <2>4. Encode(m) = [i \in D |-> z[i]]
    BY <2>1, <2>3
  <2> QED BY <2>2, <2>4
<1> QED BY <1>10, <1>11

(* An expression behind another one, with variables of its own, is an        *)
(* expression; its levels follow those of the first.                         *)
Beside(x, y) == x \o Shift(y, NewVars(x))

LEMMA Joined ==
  ASSUME NEW x, IsExpression(x), NEW y, IsExpression(y)
  PROVE  /\ IsExpression(Beside(x, y))
         /\ DOMAIN Beside(x, y) = 1 .. Len(x) + Len(y)
         /\ NewVars(Beside(x, y)) = NewVars(x) + NewVars(y)
         /\ \A i \in DOMAIN x : Beside(x, y)[i] = x[i]
         /\ \A i \in DOMAIN x : IsVar(x[i]) => LevelAt(Beside(x, y), i) = LevelAt(x, i)
         /\ \A i \in DOMAIN y : Beside(x, y)[Len(x) + i] = Shift(y, NewVars(x))[i]
         /\ \A i \in DOMAIN y : IsVar(y[i]) => LevelAt(Beside(x, y), Len(x) + i) = NewVars(x) + LevelAt(y, i)
<1> DEFINE z == Beside(x, y)
<1> DEFINE n == NewVars(x)
           s == Shift(y, n)
           T == ToSet(x) \cup ToSet(s)
<1>1. /\ Len(x) \in Nat /\ DOMAIN x = 1 .. Len(x) /\ x \in Seq(ToSet(x))
      /\ Len(y) \in Nat /\ DOMAIN y = 1 .. Len(y)
      /\ n \in Nat
  BY DomainOfExpression, Counting
<1>2. /\ s \in Seq(ToSet(s)) /\ Len(s) = Len(y)
      /\ \A i \in DOMAIN y : s[i] = IF y[i].tag = "ref" THEN Ref(y[i].val + n) ELSE y[i]
  <2>1. /\ DOMAIN s = 1 .. Len(y)
        /\ s = [i \in 1 .. Len(y) |-> s[i]]
        /\ \A i \in DOMAIN y : s[i] = IF y[i].tag = "ref" THEN Ref(y[i].val + n) ELSE y[i]
    BY <1>1 DEF Shift
  <2>2. s \in [1 .. Len(y) -> ToSet(s)]
    <3> HIDE DEF s
    <3> QED BY <2>1 DEF ToSet
  <2>3. s \in Seq(ToSet(s))
    <3> HIDE DEF s
    <3> QED BY <1>1, <2>2, SeqDef, Zenon
  <2>4. Len(s) = Len(y)
    <3>1. Len(s) \in Nat /\ DOMAIN s = 1 .. Len(s)
      <4> HIDE DEF s
      <4> QED BY <2>3, LenProperties
    <3> HIDE DEF s
    <3> QED BY <1>1, <2>1, <3>1
  <2> QED BY <2>1, <2>3, <2>4, Zenon
<1> HIDE DEF s
<1>3. z = x \o s
  BY DEF s, Beside
<1> HIDE DEF z
<1>4. x \in Seq(T) /\ s \in Seq(T)
  BY <1>1, <1>2, SeqMonotonic
<1>5. /\ z \in Seq(T) /\ Len(z) = Len(x) + Len(y)
      /\ \A i \in 1 .. Len(x) + Len(y) : z[i] = IF i <= Len(x) THEN x[i] ELSE s[i - Len(x)]
  <2> HIDE DEF T
  <2>1. /\ x \o s \in Seq(T) /\ Len(x \o s) = Len(x) + Len(s)
        /\ \A i \in 1 .. Len(x) + Len(s) : (x \o s)[i] = IF i <= Len(x) THEN x[i] ELSE s[i - Len(x)]
    BY <1>4, ConcatProperties
  <2>2. Len(s) = Len(y)
    BY <1>2
  <2> QED BY <1>3, <2>1, <2>2, Zenon
<1>6. DOMAIN z = 1 .. Len(x) + Len(y) /\ z \in Seq(ToSet(z))
  <2>1. ToSet(z) = Range(z)
    BY DEF ToSet, Range
  <2>2. z \in Seq(Range(z)) /\ DOMAIN z = 1 .. Len(z)
    <3> HIDE DEF T
    <3> QED BY <1>5, SeqOfRange, LenProperties, Zenon
  <2> QED BY <1>5, <2>1, <2>2, Zenon
<1>7. \A i \in DOMAIN x : z[i] = x[i]
  BY <1>1, <1>5
<1>8. \A i \in DOMAIN y : z[Len(x) + i] = s[i]
  <2>1. ASSUME NEW i \in DOMAIN y
        PROVE  Len(x) + i \in 1 .. Len(x) + Len(y) /\ ~(Len(x) + i <= Len(x)) /\ (Len(x) + i) - Len(x) = i
    BY <1>1
  <2> QED BY <1>5, <2>1, Zenon
<1>9. \A i \in DOMAIN y : IsNew(s[i]) <=> IsNew(y[i])
  <2>1. \A k : Ref(k).tag = "ref"
    BY DEF Ref
  <2> QED BY <1>2, <2>1 DEF IsNew
<1>10. ASSUME NEW i \in 1 .. Len(x) + 1
       PROVE  NewBefore(z, i) = NewBefore(x, i)
  <2>1. i \in 1 .. Len(z) + 1
    BY <1>1, <1>5
  <2>2. {j \in 1 .. i - 1 : IsNew(z[j])} = {j \in 1 .. i - 1 : IsNew(x[j])}
    <3>1. \A j \in 1 .. i - 1 : z[j] = x[j]
      BY <1>1, <1>7
    <3> QED BY <3>1
  <2>3. NewBefore(x, i) = Cardinality({j \in 1 .. i - 1 : IsNew(x[j])})
    BY CountedByPlaces
  <2>4. NewBefore(z, i) = Cardinality({j \in 1 .. i - 1 : IsNew(z[j])})
    BY <1>6, <2>1, CountedInSequence
  <2> QED BY <2>2, <2>3, <2>4, Zenon
<1>11. ASSUME NEW i \in 1 .. Len(y) + 1
       PROVE  NewBefore(z, Len(x) + i) = n + NewBefore(y, i)
  <2> DEFINE X == {j \in 1 .. Len(x) : IsNew(x[j])}
             Y == {j \in 1 .. i - 1 : IsNew(y[j])}
             Z == {j \in 1 .. (Len(x) + i) - 1 : IsNew(z[j])}
             Moved == {Len(x) + j : j \in Y}
             f == [j \in Y |-> Len(x) + j]
  <2>1. Len(x) + i \in 1 .. Len(z) + 1 /\ Len(x) + 1 \in 1 .. Len(x) + 1 /\ (Len(x) + 1) - 1 = Len(x)
    BY <1>1, <1>5
  <2>2. NewBefore(z, Len(x) + i) = Cardinality(Z)
    BY <1>6, <2>1, CountedInSequence
  <2>3. IsFiniteSet(Y) /\ NewBefore(y, i) = Cardinality(Y) /\ NewBefore(y, i) \in Nat
    BY CountedByPlaces
  <2>4. IsFiniteSet(X) /\ n = Cardinality(X)
    <3>1. IsFiniteSet({j \in 1 .. (Len(x) + 1) - 1 : IsNew(x[j])})
          /\ NewBefore(x, Len(x) + 1) = Cardinality({j \in 1 .. (Len(x) + 1) - 1 : IsNew(x[j])})
      BY <2>1, CountedByPlaces
    <3>2. NewBefore(x, Len(x) + 1) = n
      BY Counting
    <3> QED BY <2>1, <3>1, <3>2
  <2>5. Z = X \cup Moved
    <3>1. ASSUME NEW j \in 1 .. Len(x)
          PROVE  j \in 1 .. (Len(x) + i) - 1 /\ (IsNew(z[j]) <=> IsNew(x[j]))
      BY <1>1, <1>7
    <3>2. ASSUME NEW j \in 1 .. i - 1
          PROVE  Len(x) + j \in 1 .. (Len(x) + i) - 1 /\ (IsNew(z[Len(x) + j]) <=> IsNew(y[j]))
      <4>1. j \in DOMAIN y /\ Len(x) + j \in 1 .. (Len(x) + i) - 1
        BY <1>1
      <4> QED BY <1>8, <1>9, <4>1
    <3>3. ASSUME NEW k \in 1 .. (Len(x) + i) - 1
          PROVE  k \in 1 .. Len(x) \/ \E j \in 1 .. i - 1 : k = Len(x) + j
      <4>1. CASE k <= Len(x)
        BY <1>1, <4>1
      <4>2. CASE ~(k <= Len(x))
        <5>1. k - Len(x) \in 1 .. i - 1 /\ k = Len(x) + (k - Len(x))
          BY <1>1, <4>2
        <5> QED BY <5>1
      <4> QED BY <4>1, <4>2
    <3>4. X \subseteq Z
      BY <3>1
    <3>5. Moved \subseteq Z
      BY <3>2
    <3>6. ASSUME NEW k \in Z PROVE k \in X \/ k \in Moved
      <4>1. CASE k \in 1 .. Len(x)
        BY <3>1, <4>1
      <4>2. CASE k \notin 1 .. Len(x)
        <5>1. PICK j \in 1 .. i - 1 : k = Len(x) + j
          BY <3>3, <4>2
        <5> QED BY <3>2, <5>1
      <4> QED BY <4>1, <4>2
    <3> HIDE DEF X, Z, Moved
    <3> QED BY <3>4, <3>5, <3>6
  <2>6. X \cap Moved = {}
    BY <1>1
  <2>7. IsFiniteSet(Moved) /\ Cardinality(Moved) = Cardinality(Y)
    <3>1. f \in [Y -> Moved]
      OBVIOUS
    <3>2. f \in Bijection(Y, Moved)
      BY <1>1, <3>1 DEF Bijection, Injection, Surjection, IsInjective
    <3>3. ExistsBijection(Y, Moved)
      BY <3>2, Zenon DEF ExistsBijection
    <3> HIDE DEF Y, Moved
    <3> QED BY <2>3, <3>3, FS_Bijection, Zenon
  <2>8. Cardinality(X \cup Moved) = Cardinality(X) + Cardinality(Moved) - Cardinality(X \cap Moved)
    <3> HIDE DEF X, Moved
    <3> QED BY <2>4, <2>7, FS_Union, Zenon
  <2>9. Cardinality(X \cap Moved) = 0
    <3> HIDE DEF X, Moved
    <3> QED BY <2>6, FS_EmptySet, Zenon
  <2> HIDE DEF X, Y, Z, Moved
  <2> QED BY <1>1, <2>2, <2>3, <2>4, <2>5, <2>7, <2>8, <2>9
<1>12. NewVars(z) = n + NewVars(y)
  <2>1. NewBefore(z, Len(x) + (Len(y) + 1)) = n + NewBefore(y, Len(y) + 1)
    BY <1>1, <1>11
  <2>2. NewBefore(y, Len(y) + 1) = NewVars(y)
    BY Counting
  <2>3. NewBefore(z, Len(z) + 1) = NewVars(z)
    <3>1. Len(z) + 1 \in 1 .. Len(z) + 1 /\ DOMAIN z = 1 .. (Len(z) + 1) - 1
      BY <1>1, <1>5, <1>6
    <3>2. NewBefore(z, Len(z) + 1) = Cardinality({j \in 1 .. (Len(z) + 1) - 1 : IsNew(z[j])})
      BY <1>6, <3>1, CountedInSequence
    <3>3. NewVars(z) = Cardinality({j \in DOMAIN z : IsNew(z[j])})
      BY DEF NewVars
    <3> QED BY <3>1, <3>2, <3>3, Zenon
  <2>4. Len(z) + 1 = Len(x) + (Len(y) + 1)
    BY <1>1, <1>5
  <2> QED BY <2>1, <2>2, <2>3, <2>4, Zenon
<1>13. ASSUME NEW i \in DOMAIN x, IsVar(x[i])
       PROVE  LevelAt(z, i) = LevelAt(x, i)
  <2>1. NewBefore(z, i) = NewBefore(x, i) /\ z[i] = x[i]
    BY <1>1, <1>7, <1>10
  <2> QED BY <2>1 DEF LevelAt
<1>14. ASSUME NEW i \in DOMAIN y, IsVar(y[i])
       PROVE  LevelAt(z, Len(x) + i) = n + LevelAt(y, i)
  <2>1. NewBefore(z, Len(x) + i) = n + NewBefore(y, i) /\ z[Len(x) + i] = s[i]
    <3>1. i \in 1 .. Len(y) + 1
      BY <1>1
    <3> QED BY <1>8, <1>11, <3>1
  <2>2. CASE IsNew(y[i])
    BY <1>9, <2>1, <2>2 DEF LevelAt
  <2>3. CASE ~IsNew(y[i])
    <3>1. y[i].tag = "ref" /\ s[i] = Ref(y[i].val + n) /\ ~IsNew(s[i]) /\ y[i].val \in Nat
      BY <1>2, <1>9, <1>14, <2>3 DEF IsVar, IsNew, IsExpression
    <3>2. s[i].val = n + y[i].val
      BY <1>1, <3>1 DEF Ref
    <3> QED BY <2>1, <2>3, <3>1, <3>2 DEF LevelAt
  <2> QED BY <2>2, <2>3
<1>15. IsExpression(z)
  <2>1. ASSUME NEW i \in DOMAIN z
        PROVE  /\ z[i] = [tag |-> z[i].tag, val |-> z[i].val]
               /\ z[i].tag \in {"new", "ref", "sym", "arity"}
               /\ z[i].tag = "new" => z[i].val = 0
               /\ z[i].tag = "ref" => z[i].val \in Nat
               /\ ~(z[i].tag = "ref" /\ z[i].val >= NewBefore(z, i))
    <3>1. CASE i \in DOMAIN x
      <4>1. z[i] = x[i] /\ NewBefore(z, i) = NewBefore(x, i)
        BY <1>1, <1>7, <1>10, <3>1
      <4> QED BY <3>1, <4>1 DEF IsExpression, HasUnbound
    <3>2. CASE i \notin DOMAIN x
      <4>1. PICK j \in DOMAIN y : i = Len(x) + j
        <5>1. i - Len(x) \in DOMAIN y /\ i = Len(x) + (i - Len(x))
          BY <1>1, <1>6, <3>2
        <5> QED BY <5>1
      <4>2. z[i] = s[j] /\ NewBefore(z, i) = n + NewBefore(y, j) /\ NewBefore(y, j) \in Nat
        <5>1. j \in 1 .. Len(y) + 1
          BY <1>1
        <5> QED BY <1>8, <1>11, <4>1, <5>1, CountedByPlaces
      <4>3. /\ y[j] = [tag |-> y[j].tag, val |-> y[j].val]
            /\ y[j].tag \in {"new", "ref", "sym", "arity"}
            /\ y[j].tag = "new" => y[j].val = 0
            /\ y[j].tag = "ref" => y[j].val \in Nat
            /\ ~(y[j].tag = "ref" /\ y[j].val >= NewBefore(y, j))
        BY DEF IsExpression, HasUnbound
      <4>4. CASE y[j].tag = "ref"
        <5>1. s[j] = [tag |-> "ref", val |-> y[j].val + n] /\ y[j].val \in Nat /\ ~(y[j].val >= NewBefore(y, j))
          BY <1>2, <4>3, <4>4 DEF Ref
        <5> QED BY <1>1, <4>2, <5>1
      <4>5. CASE y[j].tag # "ref"
        BY <1>2, <4>2, <4>3, <4>5
      <4> QED BY <4>4, <4>5
    <3> QED BY <3>1, <3>2
  <2> QED BY <1>6, <2>1 DEF IsExpression, HasUnbound
<1>16. \A i \in DOMAIN y : z[Len(x) + i] = Shift(y, n)[i]
  BY <1>8, Zenon DEF s
<1> QED BY <1>6, <1>7, <1>12, <1>13, <1>14, <1>15, <1>16 DEF z

LEMMA NamedItems ==
  ASSUME NEW x, IsExpression(x), NEW from
  PROVE  /\ Named(x, from) \in Seq(ToSet(Named(x, from)))
         /\ Len(Named(x, from)) = Len(x)
         /\ DOMAIN Named(x, from) = DOMAIN x
         /\ \A i \in DOMAIN x :
              Named(x, from)[i] = IF IsVar(x[i]) THEN Var(<<from, LevelAt(x, i)>>) ELSE x[i]
<1> DEFINE m == Named(x, from)
<1>1. Len(x) \in Nat /\ DOMAIN x = 1 .. Len(x)
  BY DomainOfExpression
<1>2. /\ DOMAIN m = 1 .. Len(x)
      /\ m = [i \in 1 .. Len(x) |-> m[i]]
      /\ \A i \in DOMAIN x : m[i] = IF IsVar(x[i]) THEN Var(<<from, LevelAt(x, i)>>) ELSE x[i]
  BY <1>1 DEF Named
<1> HIDE DEF m
<1>3. m \in [1 .. Len(x) -> ToSet(m)]
  BY <1>2 DEF ToSet
<1>4. m \in Seq(ToSet(m))
  BY <1>1, <1>3, SeqDef, Zenon
<1>5. Len(m) = Len(x)
  <2>1. Len(m) \in Nat /\ DOMAIN m = 1 .. Len(m)
    BY <1>4, LenProperties
  <2> QED BY <1>1, <1>2, <2>1
<1> QED BY <1>1, <1>2, <1>4, <1>5, Zenon DEF m

(* Two expressions next to each other: what is apart by names is apart after *)
(* a shift.                                                                  *)
LEMMA ApartIsShifted ==
  ASSUME NEW x, IsExpression(x), NEW y, IsExpression(y)
  PROVE  Apart(x, y) = Beside(x, y)
<1> DEFINE n == NewVars(x)
           g == [l \in Nat |-> IF l < n THEN <<0, l>> ELSE <<1, l - n>>]
<1> DEFINE z == Beside(x, y)
<1>2. PICK a : a = Named(x, 0)
  OBVIOUS
<1>3. PICK b : b = Named(y, 1)
  OBVIOUS
<1>4. PICK m : m = a \o b
  OBVIOUS
<1>5. /\ IsExpression(z)
      /\ DOMAIN z = 1 .. Len(x) + Len(y)
      /\ NewVars(z) = n + NewVars(y)
      /\ \A i \in DOMAIN x : z[i] = x[i]
      /\ \A i \in DOMAIN x : IsVar(x[i]) => LevelAt(z, i) = LevelAt(x, i)
      /\ \A i \in DOMAIN y : z[Len(x) + i] = Shift(y, n)[i]
      /\ \A i \in DOMAIN y : IsVar(y[i]) => LevelAt(z, Len(x) + i) = n + LevelAt(y, i)
  <2>1. IsExpression(z) /\ DOMAIN z = 1 .. Len(x) + Len(y) /\ NewVars(z) = n + NewVars(y)
    BY Joined, Zenon
  <2>2. \A i \in DOMAIN x : z[i] = x[i]
    BY Joined, Zenon
  <2>3. \A i \in DOMAIN x : IsVar(x[i]) => LevelAt(z, i) = LevelAt(x, i)
    BY Joined, Zenon
  <2>4. \A i \in DOMAIN y : z[Len(x) + i] = Shift(y, n)[i]
    BY Joined, Zenon
  <2>5. ASSUME NEW i \in DOMAIN y, IsVar(y[i])
        PROVE  LevelAt(z, Len(x) + i) = n + LevelAt(y, i)
    BY <2>5, Joined
  <2> QED BY <2>1, <2>2, <2>3, <2>4, <2>5
<1> HIDE DEF z
<1>6. /\ Len(x) \in Nat /\ DOMAIN x = 1 .. Len(x)
      /\ Len(y) \in Nat /\ DOMAIN y = 1 .. Len(y)
      /\ n \in Nat /\ NewVars(y) \in Nat
  BY DomainOfExpression, Counting
<1>7. /\ a \in Seq(ToSet(a)) /\ Len(a) = Len(x)
      /\ \A i \in DOMAIN x : a[i] = IF IsVar(x[i]) THEN Var(<<0, LevelAt(x, i)>>) ELSE x[i]
  BY <1>2, NamedItems, Zenon
<1>8. /\ b \in Seq(ToSet(b)) /\ Len(b) = Len(y)
      /\ \A i \in DOMAIN y : b[i] = IF IsVar(y[i]) THEN Var(<<1, LevelAt(y, i)>>) ELSE y[i]
  BY <1>3, NamedItems, Zenon
<1>9. /\ DOMAIN m = 1 .. Len(x) + Len(y)
      /\ \A i \in 1 .. Len(x) + Len(y) : m[i] = IF i <= Len(x) THEN a[i] ELSE b[i - Len(x)]
  <2> DEFINE T == ToSet(a) \cup ToSet(b)
  <2>1. a \in Seq(T) /\ b \in Seq(T)
    BY <1>7, <1>8, SeqMonotonic
  <2> HIDE DEF T
  <2>2. /\ a \o b \in Seq(T) /\ Len(a \o b) = Len(a) + Len(b)
        /\ \A i \in 1 .. Len(a) + Len(b) : (a \o b)[i] = IF i <= Len(a) THEN a[i] ELSE b[i - Len(a)]
    BY <2>1, ConcatProperties
  <2>3. DOMAIN (a \o b) = 1 .. Len(a \o b)
    BY <2>2, LenProperties
  <2> QED BY <1>4, <1>7, <1>8, <2>2, <2>3, Zenon
<1>10. ASSUME NEW i \in DOMAIN z
       PROVE  m[i] = IF IsVar(z[i]) THEN Var(g[LevelAt(z, i)]) ELSE z[i]
  <2>1. CASE i <= Len(x)
    <3>1. i \in DOMAIN x /\ i \in 1 .. Len(x) + Len(y)
      BY <1>5, <1>6, <2>1
    <3>2. m[i] = a[i] /\ z[i] = x[i] /\ (IsVar(x[i]) => LevelAt(z, i) = LevelAt(x, i))
      BY <1>5, <1>9, <2>1, <3>1
    <3>3. CASE IsVar(x[i])
      <4>1. LevelAt(x, i) \in 0 .. n - 1
        BY <3>1, <3>3, LevelsAreBounded
      <4>2. g[LevelAt(x, i)] = <<0, LevelAt(x, i)>>
        BY <1>6, <4>1
      <4> HIDE DEF g
      <4> QED BY <1>7, <3>1, <3>2, <3>3, <4>2, Zenon
    <3>4. CASE ~IsVar(x[i])
      <4> HIDE DEF g
      <4> QED BY <1>7, <3>1, <3>2, <3>4, Zenon
    <3> QED BY <3>3, <3>4
  <2>2. CASE ~(i <= Len(x))
    <3>1. PICK j \in DOMAIN y : i = Len(x) + j
      <4>1. i - Len(x) \in DOMAIN y /\ i = Len(x) + (i - Len(x))
        BY <1>5, <1>6, <2>2
      <4> QED BY <4>1
    <3>2. m[i] = b[j]
      <4>1. i \in 1 .. Len(x) + Len(y) /\ i - Len(x) = j
        BY <1>5, <1>6, <3>1
      <4> QED BY <1>9, <2>2, <4>1
    <3>3. /\ y[j].tag = "ref" => z[i] = Ref(y[j].val + n)
          /\ y[j].tag # "ref" => z[i] = y[j]
          /\ IsVar(y[j]) => LevelAt(z, i) = n + LevelAt(y, j)
      <4>1. z[i] = Shift(y, n)[j] /\ (IsVar(y[j]) => LevelAt(z, i) = n + LevelAt(y, j))
        BY <1>5, <3>1, Zenon
      <4> QED BY <4>1 DEF Shift
    <3>4. IsVar(z[i]) <=> IsVar(y[j])
      BY <3>3 DEF IsVar, Ref
    <3>5. CASE IsVar(y[j])
      <4>1. LevelAt(y, j) \in 0 .. NewVars(y) - 1
        BY <3>5, LevelsAreBounded
      <4>2. g[n + LevelAt(y, j)] = <<1, LevelAt(y, j)>>
        <5>1. n + LevelAt(y, j) \in Nat /\ ~(n + LevelAt(y, j) < n) /\ (n + LevelAt(y, j)) - n = LevelAt(y, j)
          BY <1>6, <4>1
        <5> QED BY <5>1
      <4> HIDE DEF g
      <4> QED BY <1>8, <3>2, <3>3, <3>4, <3>5, <4>2, Zenon
    <3>6. CASE ~IsVar(y[j])
      <4>1. z[i] = y[j]
        BY <3>3, <3>6 DEF IsVar
      <4> HIDE DEF g
      <4> QED BY <1>8, <3>2, <3>4, <3>6, <4>1, Zenon
    <3> QED BY <3>5, <3>6
  <2> QED BY <2>1, <2>2
<1>11. ASSUME NEW k \in 0 .. NewVars(z) - 1, NEW l \in 0 .. NewVars(z) - 1, g[k] = g[l]
       PROVE  k = l
  <2>1. k \in Nat /\ l \in Nat
    BY <1>5, <1>6
  <2>2. g[k] = (IF k < n THEN <<0, k>> ELSE <<1, k - n>>) /\ g[l] = IF l < n THEN <<0, l>> ELSE <<1, l - n>>
    BY <2>1
  <2>3. \A c, d, e, f : <<c, d>> = <<e, f>> => c = e /\ d = f
    OBVIOUS
  <2> HIDE DEF g
  <2>4. CASE k < n /\ l < n
    BY <1>11, <2>2, <2>3, <2>4
  <2>5. CASE ~(k < n) /\ ~(l < n)
    <3>1. g[k] = <<1, k - n>> /\ g[l] = <<1, l - n>>
      BY <2>2, <2>5
    <3>2. k - n = l - n
      <4>1. <<1, k - n>> = <<1, l - n>>
        BY <1>11, <3>1
      <4> QED BY <2>3, <4>1, Zenon
    <3> QED BY <1>6, <2>1, <3>2
  <2>6. ~(k < n /\ ~(l < n))
    <3>1. \A d, f : <<0, d>> # <<1, f>>
      OBVIOUS
    <3> QED BY <1>11, <2>2, <3>1
  <2>7. ~(~(k < n) /\ l < n)
    <3>1. \A d, f : <<1, d>> # <<0, f>>
      OBVIOUS
    <3> QED BY <1>11, <2>2, <3>1
  <2> QED BY <2>4, <2>5, <2>6, <2>7, Zenon
<1>12. Encode(m) = z
  <2> HIDE DEF g
  <2> QED BY <1>5, <1>9, <1>10, <1>11, Renamed
<1> QED BY <1>2, <1>3, <1>4, <1>12, Zenon DEF Apart, z

(* Names do not matter only where expressions are the same.                  *)
LEMMA CopyIsEqual ==
  ASSUME NEW x, IsExpression(x), NEW y, IsExpression(y)
  PROVE  IsCopy(x, y) <=> x = y
<1>1. ASSUME NEW z, IsExpression(z)
      PROVE  /\ Encode(Named(z, 0)) = z
             /\ Canonical(Named(z, 0)) = [i \in DOMAIN z |-> IF IsVar(z[i]) THEN Var(LevelAt(z, i)) ELSE z[i]]
  <2> DEFINE g == [l \in Nat |-> <<0, l>>]
  <2>1. PICK m : m = Named(z, 0)
    OBVIOUS
  <2>2. /\ DOMAIN m = DOMAIN z
        /\ \A i \in DOMAIN z : m[i] = IF IsVar(z[i]) THEN Var(<<0, LevelAt(z, i)>>) ELSE z[i]
    BY <1>1, <2>1, NamedItems, Zenon
  <2>3. NewVars(z) \in Nat
    BY <1>1, Counting
  <2>4. \A i \in DOMAIN z : m[i] = IF IsVar(z[i]) THEN Var(g[LevelAt(z, i)]) ELSE z[i]
    <3>1. ASSUME NEW i \in DOMAIN z, IsVar(z[i]) PROVE g[LevelAt(z, i)] = <<0, LevelAt(z, i)>>
      <4>1. LevelAt(z, i) \in 0 .. NewVars(z) - 1
        BY <1>1, <3>1, LevelsAreBounded
      <4> QED BY <2>3, <4>1
    <3> HIDE DEF g
    <3> QED BY <2>2, <3>1, Zenon
  <2>5. \A k, l \in 0 .. NewVars(z) - 1 : g[k] = g[l] => k = l
    <3>1. \A k \in 0 .. NewVars(z) - 1 : g[k] = <<0, k>>
      BY <2>3
    <3> HIDE DEF g
    <3> QED BY <3>1
  <2> HIDE DEF g
  <2> QED BY <1>1, <2>1, <2>2, <2>4, <2>5, Renamed
<1>2. ASSUME Canonical(Named(x, 0)) = Canonical(Named(y, 0))
      PROVE  x = y
  <2> DEFINE C(z) == [i \in DOMAIN z |-> IF IsVar(z[i]) THEN Var(LevelAt(z, i)) ELSE z[i]]
  <2>1. C(x) = C(y)
    BY <1>1, <1>2
  <2>2. DOMAIN x = DOMAIN y
    <3>1. \A z : DOMAIN C(z) = DOMAIN z
      OBVIOUS
    <3> HIDE DEF C
    <3> QED BY <2>1, <3>1
  <2>3. ASSUME NEW i \in DOMAIN x
        PROVE  /\ IsVar(x[i]) <=> IsVar(y[i])
               /\ IsVar(x[i]) => LevelAt(x, i) = LevelAt(y, i)
               /\ ~IsVar(x[i]) => x[i] = y[i]
    <3>1. C(x)[i] = C(y)[i] /\ x[i].tag # "var" /\ y[i].tag # "var"
      BY <2>1, <2>2 DEF IsExpression
    <3>2. \A v : Var(v).tag = "var" /\ Var(v).val = v
      BY DEF Var
    <3>3. (IF IsVar(x[i]) THEN Var(LevelAt(x, i)) ELSE x[i]) = IF IsVar(y[i]) THEN Var(LevelAt(y, i)) ELSE y[i]
      BY <2>2, <3>1
    <3> QED BY <3>1, <3>2, <3>3
  <2>4. PICK m : m = Named(x, 0)
    OBVIOUS
  <2>5. m = Named(y, 0)
    <3>1. [i \in DOMAIN x |-> IF IsVar(x[i]) THEN Var(<<0, LevelAt(x, i)>>) ELSE x[i]]
            = [i \in DOMAIN y |-> IF IsVar(y[i]) THEN Var(<<0, LevelAt(y, i)>>) ELSE y[i]]
      BY <2>2, <2>3
    <3> QED BY <2>4, <3>1 DEF Named
  <2>6. Encode(m) = x /\ Encode(m) = y
    BY <1>1, <2>4, <2>5
  <2> QED BY <2>6
<1> QED BY <1>2 DEF IsCopy

LEMMA UnshiftedWithoutReferences ==
  ASSUME NEW y, IsExpression(y), \A i \in DOMAIN y : y[i].tag # "ref", NEW n
  PROVE  Shift(y, n) = y
<1>1. y = [i \in DOMAIN y |-> y[i]]
  <2>1. y \in [1 .. Len(y) -> ToSet(y)] /\ DOMAIN y = 1 .. Len(y)
    BY DomainOfExpression, LenProperties
  <2> QED BY <2>1
<1>2. Shift(y, n) = [i \in DOMAIN y |-> y[i]]
  BY DEF Shift
<1> QED BY <1>1, <1>2, Zenon

(* A source that reads the space enrolls what it stands for.                 *)
LEMMA SpaceIsMeant ==
  ASSUME \A x \in space : IsExpression(x),
         source.kind \in {",", "BTM", "==", "!="},
         source.kind = "!=" => \A x \in space : \A i \in DOMAIN x : x[i].tag # "ref"
  PROVE  OfSpace(source) = Meant
<1>1. CASE source.kind = ","
  <2>1. \A x \in space : <<>> \o x = x
    BY DomainOfExpression, ConcatEmptySeq
  <2>2. OfSpace(source) = {<<>> \o x : x \in space}
    BY <1>1 DEF OfSpace, Below, Functor
  <2>3. Meant = space
    BY <1>1 DEF Meant
  <2> QED BY <2>1, <2>2, <2>3
<1>2. CASE source.kind = "BTM"
  <2>1. OfSpace(source) = {Functor(source) \o x : x \in space}
    BY <1>2 DEF OfSpace, Below
  <2>2. Meant = {Functor(source) \o x : x \in space}
    BY <1>2 DEF Meant
  <2> QED BY <2>1, <2>2
<1>3. CASE source.kind = "=="
  <2>1. Meant = {Functor(source) \o Apart(x, x) : x \in space}
    BY <1>3 DEF Meant
  <2>2. OfSpace(source) = {Functor(source) \o p : p \in Product(source)}
    BY <1>3 DEF OfSpace, Below
  <2>3. Product(source) = {x \o Shift(x, NewVars(x)) : x \in space}
    BY <1>3 DEF Product, Enrolled
  <2>4. \A x \in space : Apart(x, x) = x \o Shift(x, NewVars(x))
    BY ApartIsShifted DEF Beside
  <2>5. Product(source) = {Apart(x, x) : x \in space}
    BY <2>3, <2>4
  <2> QED BY <2>1, <2>2, <2>5
<1>4. CASE source.kind = "!="
  <2> DEFINE Unequal == {z \in space \X space : ~IsCopy(z[1], z[2])}
  <2>1. Meant = {Functor(source) \o Apart(z[1], z[2]) : z \in Unequal}
    BY <1>4 DEF Meant
  <2>2. OfSpace(source) = {Functor(source) \o p : p \in Product(source)}
    BY <1>4 DEF OfSpace, Below
  <2>3. \A x, y \in space : Apart(x, y) = x \o y
    <3>1. \A x, y \in space : Shift(y, NewVars(x)) = y
      BY <1>4, UnshiftedWithoutReferences
    <3>2. \A x, y \in space : Apart(x, y) = x \o Shift(y, NewVars(x))
      BY ApartIsShifted DEF Beside
    <3> QED BY <3>1, <3>2, Zenon
  <2>4. Product(source) = UNION {{x \o y : y \in space \ {x}} : x \in space}
    BY <1>4 DEF Product, Enrolled
  <2>5. \A x, y \in space : IsCopy(x, y) <=> x = y
    BY CopyIsEqual
  <2>6. Product(source) = {Apart(z[1], z[2]) : z \in Unequal}
    <3>1. ASSUME NEW x \in space, NEW y \in space \ {x}
          PROVE  x \o y \in {Apart(z[1], z[2]) : z \in Unequal}
      <4>1. <<x, y>> \in Unequal /\ Apart(x, y) = x \o y
        BY <2>3, <2>5
      <4>2. <<x, y>>[1] = x /\ <<x, y>>[2] = y
        OBVIOUS
      <4> HIDE DEF Unequal
      <4> QED BY <4>1, <4>2, Zenon
    <3>2. ASSUME NEW z \in Unequal
          PROVE  \E x \in space : \E y \in space \ {x} : Apart(z[1], z[2]) = x \o y
      <4>1. z[1] \in space /\ z[2] \in space /\ ~IsCopy(z[1], z[2])
        OBVIOUS
      <4> HIDE DEF Unequal
      <4>2. z[2] \in space \ {z[1]}
        BY <2>5, <4>1
      <4>3. Apart(z[1], z[2]) = z[1] \o z[2]
        BY <2>3, <4>1, Zenon
      <4> QED BY <4>1, <4>2, <4>3, Zenon
    <3> HIDE DEF Unequal
    <3> DEFINE Row(x) == {x \o y : y \in space \ {x}}
    <3>7. /\ \A x : \A p \in Row(x) : \E y \in space \ {x} : p = x \o y
          /\ \A x : \A y \in space \ {x} : x \o y \in Row(x)
      OBVIOUS
    <3>8. Product(source) = UNION {Row(x) : x \in space}
      BY <2>4, Zenon
    <3> HIDE DEF Row
    <3>9. \A p : p \in Product(source) <=> \E x \in space : p \in Row(x)
      <4>1. \A p : p \in UNION {Row(x) : x \in space} <=> \E x \in space : p \in Row(x)
        BY Zenon
      <4> QED BY <3>8, <4>1, Zenon
    <3>3. ASSUME NEW p \in Product(source)
          PROVE  p \in {Apart(z[1], z[2]) : z \in Unequal}
      <4>1. PICK x \in space : p \in Row(x)
        BY <3>9, Zenon
      <4>2. PICK y \in space \ {x} : p = x \o y
        BY <3>7, <4>1, Zenon
      <4> QED BY <3>1, <4>2
    <3>4. \A x \in space : \A y \in space \ {x} : x \o y \in Product(source)
      BY <3>7, <3>9, Zenon
    <3>5. Product(source) \subseteq {Apart(z[1], z[2]) : z \in Unequal}
      BY <3>3, Zenon
    <3>6. \A z \in Unequal : Apart(z[1], z[2]) \in Product(source)
      BY <3>2, <3>4, Zenon
    <3> QED BY <3>5, <3>6, Zenon
  <2> HIDE DEF Unequal
  <2> QED BY <2>1, <2>2, <2>6
<1> QED BY <1>1, <1>2, <1>3, <1>4

-----------------------------------------------------------------------------
(* The inductive invariant *)

Queries    == {"check-sat", "get-model"}
Statements == UNION {ToSet(batch) : batch \in Batches}
Input      == Statements \cup Queries
Output     == {"sat", "unsat", "error", "model", ")"} \X SUBSET Statements
Process    == [stdin : Seq(Input), asserted : SUBSET Statements, modelled : BOOLEAN, stdout : Seq(Output)]

\* What the state is made of, and who is named in it.
WellTyped ==
  /\ space \in Spaces
  /\ point \in {"idle", "open", "line", "model", "finalize", "panic"}
  /\ source \in Sources \cup {Nothing}
  /\ target \in Targets
  /\ pipe \in [z3s -> Process]
  /\ sent \in [z3s -> Seq(Statements)]
  /\ reader \in Seq(Output)
  /\ point \in {"line", "model"} => source.kind = "z3"
  /\ source.kind = "z3" /\ point \in {"line", "model", "finalize"} => source.name \in z3s
  /\ point # "idle" /\ target.kind = "z3" => target.name \in z3s
  /\ point \notin {"line", "model"} => reader = <<>>
  /\ point = "line" => factor = {}

\* What is mapped was written.
FilesWereWritten ==
  /\ dumped = [f \in Files |-> dumped[f]]
  /\ files = [f \in DOMAIN files |-> files[f]]
  /\ mmaps = [f \in DOMAIN mmaps |-> mmaps[f]]
  /\ DOMAIN files \subseteq Files /\ DOMAIN mmaps \subseteq Files
  /\ \A f \in DOMAIN files : files[f] \in dumped[f]
  /\ \A f \in DOMAIN mmaps : mmaps[f] \in dumped[f]

\* Of what was sent to a solver nothing is lost, and nothing is made up.
NothingIsLost(p, said) ==
  /\ p.asserted \subseteq said
  /\ ToSet(p.stdin) \subseteq said \cup Queries
  /\ said \subseteq p.asserted \cup ToSet(p.stdin) \cup IllFormed

\* (get-model) follows (check-sat), so what says sat goes on to say ")".
ModelFollows(p) ==
  /\ \A k \in DOMAIN p.stdin :
       p.stdin[k] = "check-sat" => k + 1 \in DOMAIN p.stdin /\ p.stdin[k + 1] = "get-model"
  /\ p.modelled => p.stdin # <<>> /\ Head(p.stdin) = "get-model"
  /\ \A k \in DOMAIN p.stdout : p.stdout[k] = Line("sat") =>
       p.modelled \/ \E m \in DOMAIN p.stdout : m > k /\ p.stdout[m] = Line(")")

\* The same for what a query at that point has read of it.
LinesWillCome(p, at, read) ==
  /\ at = "line" =>
       /\ read # <<>> \/ p.stdout # <<>> \/ "get-model" \in ToSet(p.stdin)
       /\ \A k \in DOMAIN read : read[k] = Line("sat") =>
            \/ \E m \in DOMAIN read : m > k /\ read[m] = Line(")")
            \/ Line(")") \in ToSet(p.stdout)
            \/ p.modelled
  /\ at = "model" => Line(")") \in ToSet(read) \cup ToSet(p.stdout) \/ p.modelled

Clean(said)        == said \cap IllFormed = {}
Contradicted(said) == \E x \in Contradictions : x \subseteq said

IsAskedLast(stdin) ==
  /\ Len(stdin) >= 2
  /\ stdin[Len(stdin) - 1] = "check-sat" /\ stdin[Len(stdin)] = "get-model"
  /\ \A k \in 1 .. Len(stdin) - 2 : stdin[k] \notin Queries

ModelOf(said) == <<<<"model", said>>, Line(")")>>

\* A query of which coming is still to be read has not been answered, or only
\* its first half has, or all of it.
IsUnderway(p, said, at, coming) ==
  \/ at = "line" /\ coming = <<>> /\ IsAskedLast(p.stdin)
  \/ at = "line" /\ coming = <<Line("sat")>> /\ p.stdin = <<"get-model">> /\ p.modelled
  \/ at = "line" /\ coming = <<Line("sat")>> \o ModelOf(said) /\ p.stdin = <<>>
  \/ at = "model" /\ coming = <<>> /\ p.stdin = <<"get-model">> /\ p.modelled
  \/ at = "model" /\ coming = ModelOf(said) /\ p.stdin = <<>>
  \/ at = "model" /\ coming = <<Line(")")>> /\ p.stdin = <<>>

IsUnasked(p) == p.stdout = <<>> /\ ToSet(p.stdin) \cap Queries = {}

\* What will have been asserted before the command at k is executed.
Told(p, k) == p.asserted \cup ({p.stdin[j] : j \in 1 .. k - 1} \ (IllFormed \cup Queries))

\* Once there is no model, no query was or will be answered sat.
UnsatIsForGood(p, at, read) ==
  /\ at # "model"
  /\ Line("sat") \notin ToSet(read) \cup ToSet(p.stdout)
  /\ \A k \in DOMAIN p.stdin : p.stdin[k] = "check-sat" => Contradicted(Told(p, k))

\* As long as there is a model, a query leaves nothing behind.
IsAnswered(p, said, at, read) ==
  IF at = "none" THEN IsUnasked(p) ELSE IsUnderway(p, said, at, read \o p.stdout)

IsFollowed(p, said, at, read) ==
  /\ NothingIsLost(p, said)
  /\ ModelFollows(p)
  /\ LinesWillCome(p, at, read)
  /\ Clean(said) /\ Contradicted(said) => UnsatIsForGood(p, at, read)
  /\ Clean(said) /\ ~Contradicted(said) => IsAnswered(p, said, at, read)

Asking(i) == point \in {"line", "model"} /\ source.name = i
Said(i)   == ToSet(sent[i])
PointOf(i)  == IF Asking(i) THEN point ELSE "none"
ReaderOf(i) == IF Asking(i) THEN reader ELSE <<>>

SolversAreFollowed == \A i \in z3s : IsFollowed(pipe[i], Said(i), PointOf(i), ReaderOf(i))

\* With only the end of the model to come, the model is in the factor.
ModelIsMeant ==
  /\ point = "model"
  /\ Clean(Said(source.name)) /\ ~Contradicted(Said(source.name))
  /\ reader \o pipe[source.name].stdout = <<Line(")")>>
  => factor = Meant

IInv == WellTyped /\ FilesWereWritten /\ SolversAreFollowed /\ ModelIsMeant /\ FactorsAreCurrent


-----------------------------------------------------------------------------
(* Sequences *)

LEMMA HeadAndRest ==
  ASSUME NEW S, NEW s \in Seq(S), s # <<>>
  PROVE  /\ Len(s) \in Nat \ {0} /\ DOMAIN s = 1 .. Len(s)
         /\ Head(s) = s[1] /\ Head(s) \in S
         /\ Tail(s) \in Seq(S) /\ Len(Tail(s)) = Len(s) - 1 /\ DOMAIN Tail(s) = 1 .. Len(s) - 1
         /\ \A k \in 1 .. Len(s) - 1 : Tail(s)[k] = s[k + 1]
         /\ ToSet(s) = {Head(s)} \cup ToSet(Tail(s))
<1>1. Len(s) \in Nat \ {0} /\ DOMAIN s = 1 .. Len(s)
  BY EmptySeq, LenProperties
<1>2. Head(s) = s[1]
  OBVIOUS
<1>3. /\ Head(s) \in S /\ Tail(s) \in Seq(S) /\ Len(Tail(s)) = Len(s) - 1
      /\ \A k \in 1 .. Len(Tail(s)) : Tail(s)[k] = s[k + 1]
  BY HeadTailProperties
<1>4. DOMAIN Tail(s) = 1 .. Len(s) - 1
  BY <1>3, LenProperties
<1>5. ToSet(s) = {Head(s)} \cup ToSet(Tail(s))
  <2>1. ToSet(s) = {s[k] : k \in 1 .. Len(s)} /\ ToSet(Tail(s)) = {Tail(s)[k] : k \in 1 .. Len(s) - 1}
    BY <1>1, <1>4 DEF ToSet
  <2>2. ASSUME NEW k \in 1 .. Len(s) PROVE k = 1 \/ (k - 1 \in 1 .. Len(s) - 1 /\ Tail(s)[k - 1] = s[k])
    <3>1. k = 1 \/ (k - 1 \in 1 .. Len(s) - 1 /\ (k - 1) + 1 = k)
      BY <1>1
    <3> QED BY <1>3, <3>1
  <2>3. ASSUME NEW k \in 1 .. Len(s) - 1 PROVE k + 1 \in 1 .. Len(s) /\ Tail(s)[k] = s[k + 1]
    BY <1>1, <1>3
  <2>4. 1 \in 1 .. Len(s)
    BY <1>1
  <2>5. ASSUME NEW v \in ToSet(s) PROVE v = s[1] \/ v \in ToSet(Tail(s))
    <3>1. PICK k \in 1 .. Len(s) : v = s[k]
      BY <2>1, Zenon
    <3>2. k = 1 \/ (k - 1 \in 1 .. Len(s) - 1 /\ Tail(s)[k - 1] = s[k])
      BY <2>2
    <3>3. k - 1 \in 1 .. Len(s) - 1 /\ Tail(s)[k - 1] = s[k] => v \in ToSet(Tail(s))
      BY <2>1, <3>1, Zenon
    <3> QED BY <3>1, <3>2, <3>3, Zenon
  <2>6. \A v \in ToSet(Tail(s)) : v \in ToSet(s)
    BY <2>1, <2>3
  <2>7. s[1] \in ToSet(s)
    BY <2>1, <2>4
  <2> QED BY <1>2, <2>5, <2>6, <2>7
<1> QED BY <1>1, <1>2, <1>3, <1>4, <1>5

LEMMA Behind ==
  ASSUME NEW S, NEW s \in Seq(S), NEW t \in Seq(S)
  PROVE  /\ s \o t \in Seq(S) /\ Len(s \o t) = Len(s) + Len(t) /\ DOMAIN (s \o t) = 1 .. Len(s) + Len(t)
         /\ Len(s) \in Nat /\ DOMAIN s = 1 .. Len(s) /\ Len(t) \in Nat /\ DOMAIN t = 1 .. Len(t)
         /\ \A k \in DOMAIN s : k \in DOMAIN (s \o t) /\ (s \o t)[k] = s[k]
         /\ \A k \in DOMAIN t : Len(s) + k \in DOMAIN (s \o t) /\ (s \o t)[Len(s) + k] = t[k]
         /\ \A k \in DOMAIN (s \o t) : k \in DOMAIN s \/ \E m \in DOMAIN t : k = Len(s) + m
         /\ ToSet(s \o t) = ToSet(s) \cup ToSet(t)
         /\ s # <<>> => s \o t # <<>> /\ Head(s \o t) = Head(s) /\ Tail(s \o t) = Tail(s) \o t
<1>1. Len(s) \in Nat /\ DOMAIN s = 1 .. Len(s) /\ Len(t) \in Nat /\ DOMAIN t = 1 .. Len(t)
  BY LenProperties
<1>2. /\ s \o t \in Seq(S) /\ Len(s \o t) = Len(s) + Len(t)
      /\ \A k \in 1 .. Len(s) + Len(t) : (s \o t)[k] = IF k <= Len(s) THEN s[k] ELSE t[k - Len(s)]
  BY ConcatProperties
<1>3. DOMAIN (s \o t) = 1 .. Len(s) + Len(t)
  BY <1>2, LenProperties
<1>4. \A k \in DOMAIN s : k \in DOMAIN (s \o t) /\ (s \o t)[k] = s[k]
  BY <1>1, <1>2, <1>3
<1>5. ASSUME NEW k \in DOMAIN t
      PROVE  Len(s) + k \in DOMAIN (s \o t) /\ (s \o t)[Len(s) + k] = t[k]
  <2>1. Len(s) + k \in 1 .. Len(s) + Len(t) /\ ~(Len(s) + k <= Len(s)) /\ (Len(s) + k) - Len(s) = k
    BY <1>1
  <2> QED BY <1>2, <1>3, <2>1, Zenon
<1>6. ASSUME NEW k \in DOMAIN (s \o t)
      PROVE  k \in DOMAIN s \/ \E m \in DOMAIN t : k = Len(s) + m
  <2>1. k \in DOMAIN s \/ (k - Len(s) \in DOMAIN t /\ k = Len(s) + (k - Len(s)))
    BY <1>1, <1>3
  <2> QED BY <2>1
<1>7. ToSet(s \o t) = ToSet(s) \cup ToSet(t)
  <2>1. \A u : ToSet(u) = Range(u)
    BY DEF ToSet, Range
  <2> QED BY <2>1, RangeConcatenation
<1>8. ASSUME s # <<>>
      PROVE  s \o t # <<>> /\ Head(s \o t) = Head(s) /\ Tail(s \o t) = Tail(s) \o t
  <2>1. Len(s) \in Nat \ {0} /\ Head(s) = s[1] /\ Tail(s) \in Seq(S) /\ Len(Tail(s)) = Len(s) - 1
        /\ \A k \in 1 .. Len(s) - 1 : Tail(s)[k] = s[k + 1]
    BY <1>8, HeadAndRest
  <2>2. s \o t # <<>>
    BY <1>1, <1>2, <2>1, EmptySeq
  <2>3. /\ Head(s \o t) = (s \o t)[1] /\ Tail(s \o t) \in Seq(S)
        /\ Len(Tail(s \o t)) = Len(s \o t) - 1
        /\ \A k \in 1 .. Len(s \o t) - 1 : Tail(s \o t)[k] = (s \o t)[k + 1]
    BY <1>2, <2>2, HeadAndRest
  <2>4. /\ Tail(s) \o t \in Seq(S) /\ Len(Tail(s) \o t) = Len(Tail(s)) + Len(t)
        /\ \A k \in 1 .. Len(Tail(s)) + Len(t) :
             (Tail(s) \o t)[k] = IF k <= Len(Tail(s)) THEN Tail(s)[k] ELSE t[k - Len(Tail(s))]
    BY <2>1, ConcatProperties
  <2>5. Head(s \o t) = Head(s)
    <3>1. 1 \in DOMAIN s
      BY <1>1, <2>1
    <3> QED BY <1>4, <2>1, <2>3, <3>1, Zenon
  <2>6. Len(Tail(s \o t)) = Len(Tail(s) \o t)
    BY <1>1, <1>2, <2>1, <2>3, <2>4
  <2>7. ASSUME NEW k \in 1 .. Len(Tail(s \o t)) PROVE Tail(s \o t)[k] = (Tail(s) \o t)[k]
    <3>1. /\ k \in 1 .. Len(s \o t) - 1 /\ k \in 1 .. Len(Tail(s)) + Len(t) /\ k + 1 \in 1 .. Len(s) + Len(t)
          /\ k <= Len(Tail(s)) <=> k + 1 <= Len(s)
          /\ k <= Len(Tail(s)) => k \in 1 .. Len(s) - 1
          /\ k - Len(Tail(s)) = (k + 1) - Len(s)
      BY <1>1, <1>2, <2>1, <2>3
    <3>2. (s \o t)[k + 1] = IF k + 1 <= Len(s) THEN s[k + 1] ELSE t[(k + 1) - Len(s)]
      BY <1>2, <3>1, Zenon
    <3>3. (Tail(s) \o t)[k] = IF k <= Len(Tail(s)) THEN Tail(s)[k] ELSE t[k - Len(Tail(s))]
      BY <2>4, <3>1, Zenon
    <3>4. Tail(s \o t)[k] = (s \o t)[k + 1]
      BY <2>3, <3>1, Zenon
    <3> QED BY <2>1, <3>1, <3>2, <3>3, <3>4, Zenon
  <2>8. Tail(s \o t) = Tail(s) \o t
    BY <2>3, <2>4, <2>6, <2>7, SeqEqual
  <2> QED BY <2>2, <2>5, <2>8
<1> QED BY <1>1, <1>2, <1>3, <1>4, <1>5, <1>6, <1>7, <1>8

(* Short sequences, item by item.                                            *)
LEMMA ShortSequences ==
  ASSUME NEW a, NEW b, NEW c
  PROVE  /\ <<a>> # <<>> /\ Head(<<a>>) = a /\ Tail(<<a>>) = <<>>
         /\ <<a, b>> # <<>> /\ Head(<<a, b>>) = a /\ Tail(<<a, b>>) = <<b>>
         /\ <<a>> \o <<b, c>> # <<>> /\ Head(<<a>> \o <<b, c>>) = a /\ Tail(<<a>> \o <<b, c>>) = <<b, c>>
         /\ ToSet(<<a>>) = {a} /\ ToSet(<<a, b>>) = {a, b} /\ ToSet(<<>>) = {}
<1>1. <<a>> # <<>> /\ Head(<<a>>) = a /\ Tail(<<a>>) = <<>>
  OBVIOUS
<1>2. <<a, b>> # <<>> /\ Head(<<a, b>>) = a /\ Tail(<<a, b>>) = <<b>>
  OBVIOUS
<1>3. /\ <<a>> \o <<b, c>> # <<>> /\ Head(<<a>> \o <<b, c>>) = a
      /\ Tail(<<a>> \o <<b, c>>) = Tail(<<a>>) \o <<b, c>>
  <2>1. <<a>> \in Seq({a, b, c}) /\ <<b, c>> \in Seq({a, b, c})
    OBVIOUS
  <2> QED BY <1>1, <2>1, Behind
<1>4. <<>> \o <<b, c>> = <<b, c>>
  <2>1. <<b, c>> \in Seq({b, c})
    OBVIOUS
  <2> QED BY <2>1, ConcatEmptySeq, Zenon
<1>5. ToSet(<<a>>) = {a} /\ ToSet(<<a, b>>) = {a, b} /\ ToSet(<<>>) = {}
  BY DEF ToSet
<1> QED BY <1>1, <1>2, <1>3, <1>4, <1>5

-----------------------------------------------------------------------------
(* One command of Z3 *)

IsSat(p) == ~Contradicted(p.asserted)

\* From p to q the first command is answered, or asserted.
Answers(p, q) ==
  /\ p.stdin # <<>>
  /\ q.stdin = Tail(p.stdin)
  /\ \/ /\ Head(p.stdin) = "check-sat" /\ q.asserted = p.asserted
        /\ \/ IsSat(p) /\ q.modelled /\ q.stdout = p.stdout \o <<Line("sat")>>
           \/ ~IsSat(p) /\ ~q.modelled /\ q.stdout = p.stdout \o <<Line("unsat")>>
     \/ /\ Head(p.stdin) = "get-model" /\ q.asserted = p.asserted /\ ~q.modelled
        /\ \/ p.modelled /\ q.stdout = p.stdout \o ModelOf(p.asserted)
           \/ ~p.modelled /\ q.stdout = p.stdout \o <<Line("error")>>
     \/ /\ Head(p.stdin) \in IllFormed /\ q.asserted = p.asserted /\ ~q.modelled
        /\ q.stdout = p.stdout \o <<Line("error")>>
     \/ /\ Head(p.stdin) \notin IllFormed \cup Queries /\ q.asserted = p.asserted \cup {Head(p.stdin)} /\ ~q.modelled
        /\ q.stdout = p.stdout

LEMMA ExecutedAnswers ==
  ASSUME NEW p \in Process, p.stdin # <<>>
  PROVE  Answers(p, Executed(p)) /\ Executed(p) \in Process
<1>1. /\ p.stdin \in Seq(Input) /\ p.asserted \in SUBSET Statements /\ p.modelled \in BOOLEAN /\ p.stdout \in Seq(Output)
  BY DEF Process
<1>2. Head(p.stdin) \in Input /\ Tail(p.stdin) \in Seq(Input)
  BY <1>1, HeadAndRest
<1> DEFINE Next1(a, m, o) == [stdin |-> Tail(p.stdin), asserted |-> a, modelled |-> m, stdout |-> o]
<1>3. \A a \in SUBSET Statements : \A o \in Seq(Output) : Next1(a, TRUE, o) \in Process /\ Next1(a, FALSE, o) \in Process
  BY <1>2 DEF Process
<1>0. PICK q : q = Executed(p)
  OBVIOUS
<1>4. /\ \A a, o : q = Next1(a, TRUE, o) => q.stdin = Tail(p.stdin) /\ q.asserted = a /\ q.modelled /\ q.stdout = o
      /\ \A a, o : q = Next1(a, FALSE, o) => q.stdin = Tail(p.stdin) /\ q.asserted = a /\ ~q.modelled /\ q.stdout = o
  <2>1. ASSUME NEW a, NEW o, q = Next1(a, TRUE, o)
        PROVE  q.stdin = Tail(p.stdin) /\ q.asserted = a /\ q.modelled /\ q.stdout = o
    BY <2>1
  <2>2. ASSUME NEW a, NEW o, q = Next1(a, FALSE, o)
        PROVE  q.stdin = Tail(p.stdin) /\ q.asserted = a /\ ~q.modelled /\ q.stdout = o
    BY <2>2
  <2> HIDE DEF Next1
  <2> QED BY <2>1, <2>2, Zenon
<1>5. \A t \in {"sat", "unsat", "error", ")"} : p.stdout \o <<Line(t)>> \in Seq(Output)
  <2>1. \A t \in {"sat", "unsat", "error", ")"} : Line(t) \in Output
    BY DEF Line, Output
  <2>2. \A t \in {"sat", "unsat", "error", ")"} : <<Line(t)>> \in Seq(Output)
    BY <2>1
  <2> QED BY <1>1, <2>2, ConcatProperties
<1>6. p.stdout \o ModelOf(p.asserted) \in Seq(Output)
  <2>1. <<"model", p.asserted>> \in Output /\ Line(")") \in Output
    BY <1>1 DEF Line, Output
  <2>2. ModelOf(p.asserted) \in Seq(Output)
    BY <2>1 DEF ModelOf
  <2> QED BY <1>1, <2>2, ConcatProperties
<1> DEFINE Sat == \A x \in Contradictions : ~(x \subseteq p.asserted)
<1>7. Sat <=> IsSat(p)
  BY DEF IsSat, Contradicted
<1>8. CASE Head(p.stdin) = "check-sat"
  <2>1. CASE Sat
    <3>1. q = Next1(p.asserted, TRUE, p.stdout \o <<Line("sat")>>)
      BY <1>8, <2>1, <1>0, IllFormedAssumption DEF Executed
    <3> HIDE DEF Sat, Next1
    <3>2. q.stdin = Tail(p.stdin) /\ q.asserted = p.asserted /\ q.modelled
          /\ q.stdout = p.stdout \o <<Line("sat")>>
      BY <1>4, <3>1
    <3>3. Answers(p, q)
      BY <1>7, <1>8, <2>1, <3>2 DEF Answers
    <3> QED BY <1>0, <1>1, <1>3, <1>5, <3>1, <3>3
  <2>2. CASE ~Sat
    <3>1. q = Next1(p.asserted, FALSE, p.stdout \o <<Line("unsat")>>)
      BY <1>8, <2>2, <1>0, IllFormedAssumption DEF Executed
    <3> HIDE DEF Sat, Next1
    <3>2. q.stdin = Tail(p.stdin) /\ q.asserted = p.asserted /\ ~q.modelled
          /\ q.stdout = p.stdout \o <<Line("unsat")>>
      BY <1>4, <3>1
    <3>3. Answers(p, q)
      BY <1>7, <1>8, <2>2, <3>2 DEF Answers
    <3> QED BY <1>0, <1>1, <1>3, <1>5, <3>1, <3>3
  <2> QED BY <2>1, <2>2
<1>9. CASE Head(p.stdin) = "get-model"
  <2>1. CASE p.modelled
    <3>1. q = Next1(p.asserted, FALSE, p.stdout \o ModelOf(p.asserted))
      BY <1>9, <2>1, <1>0, IllFormedAssumption DEF Executed, ModelOf
    <3> HIDE DEF Sat, Next1
    <3>2. q.stdin = Tail(p.stdin) /\ q.asserted = p.asserted /\ ~q.modelled
          /\ q.stdout = p.stdout \o ModelOf(p.asserted)
      BY <1>4, <3>1
    <3>3. Answers(p, q)
      BY <1>9, <2>1, <3>2 DEF Answers
    <3> QED BY <1>0, <1>1, <1>3, <1>6, <3>1, <3>3
  <2>2. CASE ~p.modelled
    <3>1. q = Next1(p.asserted, FALSE, p.stdout \o <<Line("error")>>)
      BY <1>9, <2>2, <1>0, IllFormedAssumption DEF Executed
    <3> HIDE DEF Sat, Next1
    <3>2. q.stdin = Tail(p.stdin) /\ q.asserted = p.asserted /\ ~q.modelled
          /\ q.stdout = p.stdout \o <<Line("error")>>
      BY <1>4, <3>1
    <3>3. Answers(p, q)
      BY <1>9, <2>2, <3>2 DEF Answers
    <3> QED BY <1>0, <1>1, <1>3, <1>5, <3>1, <3>3
  <2> QED BY <2>1, <2>2
<1>10. CASE Head(p.stdin) \notin Queries /\ Head(p.stdin) \in IllFormed
  <2>1. q = Next1(p.asserted, FALSE, p.stdout \o <<Line("error")>>)
    BY <1>10, <1>0, IllFormedAssumption DEF Executed, Queries
  <2> HIDE DEF Next1, Sat
  <2>2. q.stdin = Tail(p.stdin) /\ q.asserted = p.asserted /\ ~q.modelled
        /\ q.stdout = p.stdout \o <<Line("error")>>
    BY <1>4, <2>1
  <2>3. Answers(p, q)
    BY <1>10, <2>2 DEF Answers
  <2> QED BY <1>0, <1>1, <1>3, <1>5, <2>1, <2>3
<1>11. CASE Head(p.stdin) \notin Queries /\ Head(p.stdin) \notin IllFormed
  <2>1. q = Next1(p.asserted \cup {Head(p.stdin)}, FALSE, p.stdout)
    <3>1. p.stdout \o <<>> = p.stdout
      BY <1>1, ConcatEmptySeq
    <3>2. q = Next1(p.asserted \cup {Head(p.stdin)}, FALSE, p.stdout \o <<>>)
      BY <1>11, <1>0, IllFormedAssumption DEF Executed, Queries
    <3> HIDE DEF Next1
    <3> QED BY <3>1, <3>2
  <2> HIDE DEF Next1, Sat
  <2>2. q.stdin = Tail(p.stdin) /\ q.asserted = p.asserted \cup {Head(p.stdin)} /\ ~q.modelled
        /\ q.stdout = p.stdout
    BY <1>4, <2>1
  <2>3. Answers(p, q)
    BY <1>11, <2>2 DEF Answers
  <2>4. p.asserted \cup {Head(p.stdin)} \in SUBSET Statements
    BY <1>1, <1>2, <1>11 DEF Input
  <2> QED BY <1>0, <1>1, <1>3, <2>1, <2>3, <2>4
<1> QED BY <1>8, <1>9, <1>10, <1>11 DEF Queries

-----------------------------------------------------------------------------
(* A solver is still followed after each step of it and of its queries *)

LEMMA StatementsAreNoQueries == Statements \cap Queries = {}
BY BatchesAssumption DEF Statements, Queries

LEMMA LinesDiffer ==
  /\ Line("sat") # Line("unsat") /\ Line("sat") # Line("error") /\ Line("sat") # Line(")")
  /\ \A said : Line("sat") # <<"model", said>> /\ Line(")") # <<"model", said>>
BY DEF Line

(* Nothing is lost when a command is executed.                               *)
LEMMA AnswerLosesNothing ==
  ASSUME NEW p \in Process, NEW q, NEW said \in SUBSET Statements, NothingIsLost(p, said), Answers(p, q)
  PROVE  NothingIsLost(q, said)
<1>1. p.stdin \in Seq(Input) /\ p.stdin # <<>>
  BY DEF Process, Answers
<1>2. ToSet(p.stdin) = {Head(p.stdin)} \cup ToSet(Tail(p.stdin))
  BY <1>1, HeadAndRest
<1>3. q.stdin = Tail(p.stdin)
  BY DEF Answers
<1>4. \/ q.asserted = p.asserted /\ Head(p.stdin) \in Queries \cup IllFormed
      \/ Head(p.stdin) \notin Queries /\ q.asserted = p.asserted \cup {Head(p.stdin)}
  BY DEF Answers, Queries
<1>5. p.asserted \subseteq said /\ ToSet(p.stdin) \subseteq said \cup Queries
      /\ said \subseteq p.asserted \cup ToSet(p.stdin) \cup IllFormed
  BY DEF NothingIsLost
<1>6. said \cap Queries = {}
  BY StatementsAreNoQueries
<1>7. q.asserted \subseteq said
  BY <1>2, <1>4, <1>5
<1>8. ToSet(q.stdin) \subseteq said \cup Queries
  BY <1>2, <1>3, <1>5
<1>9. said \subseteq q.asserted \cup ToSet(q.stdin) \cup IllFormed
  BY <1>2, <1>3, <1>4, <1>5, <1>6
<1> QED BY <1>7, <1>8, <1>9 DEF NothingIsLost

(* What comes out of the pipe when a command is executed: what was in it, and *)
(* more, never a status that is followed by nothing.                          *)
LEMMA AnswerIsAppended ==
  ASSUME NEW p \in Process, NEW q \in Process, Answers(p, q)
  PROVE  \E lines \in Seq(Output) :
           /\ q.stdout = p.stdout \o lines
           /\ Line("sat") \in ToSet(lines) => q.modelled /\ Head(p.stdin) = "check-sat" /\ IsSat(p)
           /\ Head(p.stdin) = "get-model" => lines # <<>>
           /\ Head(p.stdin) = "get-model" /\ p.modelled => Line(")") \in ToSet(lines)
<1>1. p.stdout \in Seq(Output) /\ p.stdout \o <<>> = p.stdout /\ p.asserted \in SUBSET Statements
  <2>1. p.stdout \in Seq(Output) /\ p.asserted \in SUBSET Statements
    BY DEF Process
  <2> QED BY <2>1, ConcatEmptySeq
<1>2. \A t \in {"sat", "unsat", "error"} : <<Line(t)>> \in Seq(Output) /\ ToSet(<<Line(t)>>) = {Line(t)}
                                          /\ <<Line(t)>> # <<>>
  <2>1. \A t \in {"sat", "unsat", "error"} : Line(t) \in Output
    BY DEF Line, Output
  <2>2. \A t \in {"sat", "unsat", "error"} : <<Line(t)>> \in Seq(Output)
    BY <2>1
  <2> QED BY <2>2, ShortSequences
<1>3. ModelOf(p.asserted) \in Seq(Output) /\ ModelOf(p.asserted) # <<>>
      /\ ToSet(ModelOf(p.asserted)) = {<<"model", p.asserted>>, Line(")")}
  <2>1. <<"model", p.asserted>> \in Output /\ Line(")") \in Output
    BY <1>1 DEF Line, Output
  <2>2. ModelOf(p.asserted) \in Seq(Output)
    BY <2>1 DEF ModelOf
  <2> QED BY <2>2, ShortSequences DEF ModelOf
<1>4. CASE Head(p.stdin) = "check-sat" /\ IsSat(p)
  <2>1. q.modelled /\ q.stdout = p.stdout \o <<Line("sat")>>
    BY <1>4, IllFormedAssumption DEF Answers, Queries
  <2> QED BY <1>2, <1>4, <2>1
<1>5. CASE Head(p.stdin) = "check-sat" /\ ~IsSat(p)
  <2>1. q.stdout = p.stdout \o <<Line("unsat")>>
    BY <1>5, IllFormedAssumption DEF Answers, Queries
  <2> QED BY <1>2, <1>5, <2>1, LinesDiffer
<1>6. CASE Head(p.stdin) = "get-model" /\ p.modelled
  <2>1. q.stdout = p.stdout \o ModelOf(p.asserted)
    BY <1>6, IllFormedAssumption DEF Answers, Queries
  <2> QED BY <1>3, <1>6, <2>1, LinesDiffer
<1>7. CASE Head(p.stdin) = "get-model" /\ ~p.modelled
  <2>1. q.stdout = p.stdout \o <<Line("error")>>
    BY <1>7, IllFormedAssumption DEF Answers, Queries
  <2> QED BY <1>2, <1>7, <2>1, LinesDiffer
<1>8. CASE Head(p.stdin) \notin Queries
  <2>1. q.stdout = p.stdout \o <<Line("error")>> \/ q.stdout = p.stdout \o <<>>
    BY <1>1, <1>8 DEF Answers, Queries
  <2>2. <<>> \in Seq(Output) /\ ToSet(<<>>) = {}
    <3>1. <<>> \in Seq(Output)
      OBVIOUS
    <3>2. ToSet(<<>>) = {}
      BY DEF ToSet
    <3> QED BY <3>1, <3>2
  <2>3. Head(p.stdin) # "get-model" /\ Line("sat") \notin ToSet(<<Line("error")>>) /\ Line("sat") \notin ToSet(<<>>)
    BY <1>2, <1>8, <2>2, LinesDiffer DEF Queries
  <2> QED BY <1>2, <2>1, <2>2, <2>3
<1> QED BY <1>4, <1>5, <1>6, <1>7, <1>8 DEF Queries

LEMMA ModelStillFollows ==
  ASSUME NEW p \in Process, NEW q \in Process, ModelFollows(p), Answers(p, q)
  PROVE  ModelFollows(q)
<1>1. /\ p.stdin \in Seq(Input) /\ p.stdin # <<>> /\ q.stdin = Tail(p.stdin) /\ p.stdout \in Seq(Output)
  BY DEF Process, Answers
<1>2. /\ Len(p.stdin) \in Nat \ {0} /\ DOMAIN p.stdin = 1 .. Len(p.stdin) /\ Head(p.stdin) = p.stdin[1]
      /\ q.stdin \in Seq(Input) /\ Len(q.stdin) = Len(p.stdin) - 1 /\ DOMAIN q.stdin = 1 .. Len(p.stdin) - 1
      /\ \A k \in 1 .. Len(p.stdin) - 1 : q.stdin[k] = p.stdin[k + 1]
  BY <1>1, HeadAndRest
<1>3. /\ \A k \in DOMAIN p.stdin :
           p.stdin[k] = "check-sat" => k + 1 \in DOMAIN p.stdin /\ p.stdin[k + 1] = "get-model"
      /\ p.modelled => Head(p.stdin) = "get-model"
      /\ \A k \in DOMAIN p.stdout : p.stdout[k] = Line("sat") =>
           p.modelled \/ \E m \in DOMAIN p.stdout : m > k /\ p.stdout[m] = Line(")")
  BY DEF ModelFollows
<1>4. PICK lines \in Seq(Output) :
        /\ q.stdout = p.stdout \o lines
        /\ Line("sat") \in ToSet(lines) => q.modelled
        /\ Head(p.stdin) = "get-model" /\ p.modelled => Line(")") \in ToSet(lines)
  BY AnswerIsAppended
<1>5. /\ DOMAIN p.stdout = 1 .. Len(p.stdout) /\ DOMAIN lines = 1 .. Len(lines) /\ Len(p.stdout) \in Nat
      /\ \A k \in DOMAIN p.stdout : k \in DOMAIN q.stdout /\ q.stdout[k] = p.stdout[k]
      /\ \A k \in DOMAIN lines : Len(p.stdout) + k \in DOMAIN q.stdout /\ q.stdout[Len(p.stdout) + k] = lines[k]
      /\ \A k \in DOMAIN q.stdout : k \in DOMAIN p.stdout \/ \E m \in DOMAIN lines : k = Len(p.stdout) + m
  <2> DEFINE all == p.stdout \o lines
  <2>1. /\ DOMAIN p.stdout = 1 .. Len(p.stdout) /\ DOMAIN lines = 1 .. Len(lines) /\ Len(p.stdout) \in Nat
        /\ \A k \in DOMAIN p.stdout : k \in DOMAIN all /\ all[k] = p.stdout[k]
        /\ \A k \in DOMAIN lines : Len(p.stdout) + k \in DOMAIN all /\ all[Len(p.stdout) + k] = lines[k]
        /\ \A k \in DOMAIN all : k \in DOMAIN p.stdout \/ \E m \in DOMAIN lines : k = Len(p.stdout) + m
    <3>1. PICK s \in Seq(Output) : s = p.stdout
      BY <1>1
    <3>2. /\ DOMAIN s = 1 .. Len(s) /\ DOMAIN lines = 1 .. Len(lines) /\ Len(s) \in Nat
          /\ \A k \in DOMAIN s : k \in DOMAIN (s \o lines) /\ (s \o lines)[k] = s[k]
          /\ \A k \in DOMAIN lines : Len(s) + k \in DOMAIN (s \o lines) /\ (s \o lines)[Len(s) + k] = lines[k]
          /\ \A k \in DOMAIN (s \o lines) : k \in DOMAIN s \/ \E m \in DOMAIN lines : k = Len(s) + m
      BY Behind
    <3> QED BY <3>1, <3>2, Zenon
  <2>2. q.stdout = all
    BY <1>4
  <2> HIDE DEF all
  <2> QED BY <2>1, <2>2, Zenon
<1>6. ASSUME NEW k \in DOMAIN q.stdin, q.stdin[k] = "check-sat"
      PROVE  k + 1 \in DOMAIN q.stdin /\ q.stdin[k + 1] = "get-model"
  <2>1. k \in 1 .. Len(p.stdin) - 1 /\ k + 1 \in DOMAIN p.stdin
    BY <1>2
  <2>2. p.stdin[k + 1] = "check-sat"
    BY <1>2, <1>6, <2>1
  <2>3. (k + 1) + 1 \in DOMAIN p.stdin /\ p.stdin[(k + 1) + 1] = "get-model"
    BY <1>3, <2>1, <2>2, Zenon
  <2>4. k + 1 \in 1 .. Len(p.stdin) - 1
    BY <1>2, <2>1, <2>3
  <2> QED BY <1>2, <2>3, <2>4
<1>7. ASSUME q.modelled PROVE q.stdin # <<>> /\ Head(q.stdin) = "get-model"
  <2>1. Head(p.stdin) = "check-sat"
    BY <1>7, IllFormedAssumption DEF Answers, Queries
  <2>2. 1 \in DOMAIN p.stdin
    BY <1>2
  <2>3. 1 + 1 \in DOMAIN p.stdin /\ p.stdin[1 + 1] = "get-model"
    BY <1>2, <1>3, <2>1, <2>2, Zenon
  <2>4. 1 \in 1 .. Len(p.stdin) - 1
    BY <1>2, <2>3
  <2>5. q.stdin # <<>>
    BY <1>2, <2>4, EmptySeq
  <2>6. Head(q.stdin) = q.stdin[1]
    BY <1>2, <2>5, HeadAndRest
  <2>7. q.stdin[1] = p.stdin[1 + 1]
    BY <1>2, <2>4, Zenon
  <2> QED BY <2>3, <2>5, <2>6, <2>7
<1>8. ASSUME NEW k \in DOMAIN q.stdout, q.stdout[k] = Line("sat")
      PROVE  q.modelled \/ \E m \in DOMAIN q.stdout : m > k /\ q.stdout[m] = Line(")")
  <2>1. CASE k \in DOMAIN p.stdout
    <3>1. p.stdout[k] = Line("sat")
      BY <1>5, <1>8, <2>1
    <3>2. CASE p.modelled
      <4>1. PICK m \in DOMAIN lines : lines[m] = Line(")")
        BY <1>3, <1>4, <3>2 DEF ToSet
      <4>2. Len(p.stdout) + m > k
        BY <1>5, <2>1
      <4>3. Len(p.stdout) + m \in DOMAIN q.stdout /\ q.stdout[Len(p.stdout) + m] = Line(")")
        BY <1>5, <4>1, Zenon
      <4> QED BY <4>2, <4>3
    <3>3. CASE ~p.modelled
      <4>1. PICK m \in DOMAIN p.stdout : m > k /\ p.stdout[m] = Line(")")
        BY <1>3, <2>1, <3>1, <3>3, Zenon
      <4> QED BY <1>5, <4>1
    <3> QED BY <3>2, <3>3
  <2>2. CASE k \notin DOMAIN p.stdout
    <3>1. PICK m \in DOMAIN lines : k = Len(p.stdout) + m
      BY <1>5, <2>2, Zenon
    <3>2. lines[m] = Line("sat")
      BY <1>5, <1>8, <3>1, Zenon
    <3> QED BY <1>4, <3>2 DEF ToSet
  <2> QED BY <2>1, <2>2
<1> QED BY <1>6, <1>7, <1>8 DEF ModelFollows

LEMMA LinesStillCome ==
  ASSUME NEW p \in Process, NEW q \in Process, NEW at, NEW read \in Seq(Output),
         ModelFollows(p), LinesWillCome(p, at, read), Answers(p, q)
  PROVE  LinesWillCome(q, at, read)
<1>1. /\ p.stdin \in Seq(Input) /\ p.stdin # <<>> /\ q.stdin = Tail(p.stdin) /\ p.stdout \in Seq(Output)
  BY DEF Process, Answers
<1>2. PICK lines \in Seq(Output) :
        /\ q.stdout = p.stdout \o lines
        /\ Head(p.stdin) = "get-model" => lines # <<>>
        /\ Head(p.stdin) = "get-model" /\ p.modelled => Line(")") \in ToSet(lines)
  BY AnswerIsAppended
<1>3. p.modelled => Head(p.stdin) = "get-model"
  BY DEF ModelFollows
<1>4. ToSet(p.stdin) = {Head(p.stdin)} \cup ToSet(q.stdin)
  BY <1>1, HeadAndRest
<1>5. ToSet(q.stdout) = ToSet(p.stdout) \cup ToSet(lines)
  BY <1>1, <1>2, Behind
<1>6. p.stdout # <<>> \/ lines # <<>> => q.stdout # <<>>
  <2>1. Len(q.stdout) = Len(p.stdout) + Len(lines) /\ Len(p.stdout) \in Nat /\ Len(lines) \in Nat
    BY <1>1, <1>2, Behind
  <2>2. \A s \in Seq(Output) : s # <<>> <=> Len(s) # 0
    BY EmptySeq
  <2>3. p.stdout # <<>> <=> Len(p.stdout) # 0
    BY <1>1, <2>2
  <2>4. lines # <<>> <=> Len(lines) # 0
    BY <1>2, <2>2
  <2>5. q.stdout \in Seq(Output)
    BY DEF Process
  <2> QED BY <2>1, <2>2, <2>3, <2>4, <2>5
<1>7. p.modelled \/ Line(")") \in ToSet(p.stdout) => Line(")") \in ToSet(q.stdout)
  BY <1>2, <1>3, <1>5
<1>8. ASSUME at = "line"
      PROVE  /\ read # <<>> \/ q.stdout # <<>> \/ "get-model" \in ToSet(q.stdin)
             /\ \A k \in DOMAIN read : read[k] = Line("sat") =>
                  \/ \E m \in DOMAIN read : m > k /\ read[m] = Line(")")
                  \/ Line(")") \in ToSet(q.stdout)
  <2>1. /\ read # <<>> \/ p.stdout # <<>> \/ "get-model" \in ToSet(p.stdin)
        /\ \A k \in DOMAIN read : read[k] = Line("sat") =>
             \/ \E m \in DOMAIN read : m > k /\ read[m] = Line(")")
             \/ Line(")") \in ToSet(p.stdout)
             \/ p.modelled
    BY <1>8 DEF LinesWillCome
  <2>2. read # <<>> \/ q.stdout # <<>> \/ "get-model" \in ToSet(q.stdin)
    BY <1>2, <1>4, <1>6, <2>1
  <2> QED BY <1>7, <2>1, <2>2
<1>9. ASSUME at = "model" PROVE Line(")") \in ToSet(read) \cup ToSet(q.stdout)
  <2>1. Line(")") \in ToSet(read) \cup ToSet(p.stdout) \/ p.modelled
    BY <1>9 DEF LinesWillCome
  <2> QED BY <1>7, <2>1
<1> QED BY <1>8, <1>9 DEF LinesWillCome

LEMMA UnsatIsStillForGood ==
  ASSUME NEW p \in Process, NEW q \in Process, NEW at, NEW read \in Seq(Output),
         UnsatIsForGood(p, at, read), Answers(p, q)
  PROVE  UnsatIsForGood(q, at, read)
<1>1. /\ p.stdin \in Seq(Input) /\ p.stdin # <<>> /\ q.stdin = Tail(p.stdin) /\ p.stdout \in Seq(Output)
  BY DEF Process, Answers
<1>2. /\ Len(p.stdin) \in Nat \ {0} /\ DOMAIN p.stdin = 1 .. Len(p.stdin) /\ Head(p.stdin) = p.stdin[1]
      /\ q.stdin \in Seq(Input) /\ DOMAIN q.stdin = 1 .. Len(p.stdin) - 1
      /\ \A k \in 1 .. Len(p.stdin) - 1 : q.stdin[k] = p.stdin[k + 1]
  BY <1>1, HeadAndRest
<1>3. /\ at # "model" /\ Line("sat") \notin ToSet(read) \cup ToSet(p.stdout)
      /\ \A k \in DOMAIN p.stdin : p.stdin[k] = "check-sat" => Contradicted(Told(p, k))
  BY DEF UnsatIsForGood
<1>4. PICK lines \in Seq(Output) :
        /\ q.stdout = p.stdout \o lines
        /\ Line("sat") \in ToSet(lines) => Head(p.stdin) = "check-sat" /\ IsSat(p)
  BY AnswerIsAppended
<1>5. ToSet(q.stdout) = ToSet(p.stdout) \cup ToSet(lines)
  BY <1>1, <1>4, Behind
<1>6. ASSUME Head(p.stdin) = "check-sat" PROVE ~IsSat(p)
  <2>1. 1 \in DOMAIN p.stdin /\ p.stdin[1] = "check-sat"
    BY <1>2, <1>6
  <2>2. Contradicted(Told(p, 1))
    BY <1>3, <2>1, Zenon
  <2>3. Told(p, 1) = p.asserted
    <3>1. 1 .. 1 - 1 = {}
      OBVIOUS
    <3> QED BY <3>1 DEF Told
  <2> QED BY <2>2, <2>3 DEF IsSat
<1>7. ASSUME NEW k \in DOMAIN q.stdin, q.stdin[k] = "check-sat" PROVE Contradicted(Told(q, k))
  <2>1. k \in 1 .. Len(p.stdin) - 1 /\ k + 1 \in DOMAIN p.stdin /\ k \in Nat
    BY <1>2
  <2>2. p.stdin[k + 1] = "check-sat"
    BY <1>2, <1>7, <2>1
  <2>3. Contradicted(Told(p, k + 1))
    BY <1>3, <2>1, <2>2, Zenon
  <2>4. p.asserted \subseteq q.asserted /\ (Head(p.stdin) \in IllFormed \cup Queries \/ Head(p.stdin) \in q.asserted)
    BY DEF Answers, Queries
  <2>5. ASSUME NEW j \in 1 .. (k + 1) - 1
        PROVE  p.stdin[j] = Head(p.stdin) \/ p.stdin[j] \in {q.stdin[m] : m \in 1 .. k - 1}
    <3>1. CASE j = 1
      BY <1>2, <3>1
    <3>2. CASE j # 1
      <4>1. j - 1 \in 1 .. k - 1 /\ j - 1 \in 1 .. Len(p.stdin) - 1 /\ (j - 1) + 1 = j
        BY <1>2, <2>1, <3>2
      <4>2. q.stdin[j - 1] = p.stdin[j]
        BY <1>2, <4>1
      <4> QED BY <4>1, <4>2
    <3> QED BY <3>1, <3>2
  <2>6. ASSUME NEW v \in Told(p, k + 1) PROVE v \in Told(q, k)
    <3>1. CASE v \in p.asserted
      BY <2>4, <3>1 DEF Told
    <3>2. CASE v \notin p.asserted
      <4>1. PICK j \in 1 .. (k + 1) - 1 : v = p.stdin[j]
        BY <3>2 DEF Told
      <4>2. v \notin IllFormed \cup Queries
        BY <3>2 DEF Told
      <4>3. v = Head(p.stdin) \/ v \in {q.stdin[m] : m \in 1 .. k - 1}
        BY <2>5, <4>1
      <4> QED BY <2>4, <4>2, <4>3 DEF Told
    <3> QED BY <3>1, <3>2
  <2> QED BY <2>3, <2>6 DEF Contradicted
<1>8. Line("sat") \notin ToSet(read) \cup ToSet(q.stdout)
  <2>1. Line("sat") \notin ToSet(lines)
    BY <1>4, <1>6, Zenon
  <2> QED BY <1>3, <1>5, <2>1
<1>9. at # "model"
  BY <1>3
<1> QED BY <1>7, <1>8, <1>9, Zenon DEF UnsatIsForGood

LEMMA Reassociated == \A S : \A r, s, t \in Seq(S) : r \o (s \o t) = (r \o s) \o t
<1>1. ASSUME NEW S, NEW r \in Seq(S), NEW s \in Seq(S), NEW t \in Seq(S)
      PROVE  r \o (s \o t) = (r \o s) \o t
  BY ConcatAssociative
<1> QED BY <1>1, Zenon

(* Of a solver that can have a model, and was asked, the answer is under way. *)
LEMMA AnswerIsStillUnderway ==
  ASSUME NEW p \in Process, NEW q \in Process, NEW said \in SUBSET Statements, NEW at, NEW read \in Seq(Output),
         NothingIsLost(p, said), Clean(said), ~Contradicted(said),
         IsUnderway(p, said, at, read \o p.stdout), Answers(p, q)
  PROVE  /\ IsUnderway(q, said, at, read \o q.stdout)
         /\ at = "model" => read \o q.stdout = ModelOf(said)
<1>1. /\ p.stdin \in Seq(Input) /\ p.stdin # <<>> /\ q.stdin = Tail(p.stdin) /\ p.stdout \in Seq(Output)
  BY DEF Process, Answers
<1>2. /\ Len(p.stdin) \in Nat \ {0} /\ DOMAIN p.stdin = 1 .. Len(p.stdin) /\ Head(p.stdin) = p.stdin[1]
      /\ q.stdin \in Seq(Input) /\ Len(q.stdin) = Len(p.stdin) - 1 /\ DOMAIN q.stdin = 1 .. Len(p.stdin) - 1
      /\ \A k \in 1 .. Len(p.stdin) - 1 : q.stdin[k] = p.stdin[k + 1]
      /\ ToSet(p.stdin) = {Head(p.stdin)} \cup ToSet(q.stdin)
  BY <1>1, HeadAndRest
<1>3. said \cap Queries = {} /\ said \cap IllFormed = {}
  BY StatementsAreNoQueries DEF Clean
<1>4. /\ p.asserted \subseteq said /\ ToSet(p.stdin) \subseteq said \cup Queries
      /\ said \subseteq p.asserted \cup ToSet(p.stdin) \cup IllFormed
  BY DEF NothingIsLost
<1>5. ToSet(p.stdin) \subseteq Queries => p.asserted = said
  BY <1>3, <1>4
<1>6. \A u \in Seq(Output) : read \o (p.stdout \o u) = (read \o p.stdout) \o u
  <2>1. p.stdout \in Seq(Output)
    BY <1>1, Zenon
  <2>2. PICK out : out = p.stdout
    OBVIOUS
  <2>3. out \in Seq(Output)
    BY <2>1, <2>2
  <2>4. \A r, s, t \in Seq(Output) : r \o (s \o t) = (r \o s) \o t
    BY Reassociated
  <2>5. \A u \in Seq(Output) : read \o (out \o u) = (read \o out) \o u
    BY <2>3, <2>4
  <2> QED BY <2>2, <2>5
<1>7. CASE /\ at = "line" /\ read \o p.stdout = <<>> /\ IsAskedLast(p.stdin)
  <2>1. /\ Len(p.stdin) >= 2
        /\ p.stdin[Len(p.stdin) - 1] = "check-sat" /\ p.stdin[Len(p.stdin)] = "get-model"
        /\ \A k \in 1 .. Len(p.stdin) - 2 : p.stdin[k] \notin Queries
    BY <1>7 DEF IsAskedLast
  <2>2. CASE Len(p.stdin) = 2
    <3>1. p.stdin[1] = "check-sat" /\ p.stdin[2] = "get-model"
      BY <2>1, <2>2
    <3>2. DOMAIN p.stdin = {1, 2}
      BY <1>2, <2>2
    <3>3. p.asserted = said
      BY <1>5, <3>1, <3>2 DEF ToSet, Queries
    <3>4. q.modelled /\ q.stdout = p.stdout \o <<Line("sat")>>
      BY <1>2, <3>1, <3>3, IllFormedAssumption DEF Answers, Queries, IsSat
    <3>5. q.stdin = <<"get-model">>
      <4>1. q.stdin \in Seq(Input) /\ Len(q.stdin) = 1 /\ q.stdin[1] = "get-model"
        <5>1. 1 \in 1 .. Len(p.stdin) - 1 /\ 1 + 1 = 2
          BY <2>2
        <5> QED BY <1>2, <2>2, <3>1, <5>1
      <4>2. <<"get-model">> \in Seq(Input) /\ Len(<<"get-model">>) = 1 /\ <<"get-model">>[1] = "get-model"
        BY DEF Input, Queries
      <4>3. \A k \in 1 .. 1 : q.stdin[k] = <<"get-model">>[k]
        BY <4>1, <4>2
      <4> QED BY <4>1, <4>2, <4>3, SeqEqual
    <3>6. read \o q.stdout = <<Line("sat")>>
      <4>1. <<Line("sat")>> \in Seq(Output)
        <5>1. Line("sat") \in Output
          BY DEF Line, Output
        <5> QED BY <5>1
      <4>2. read \o (p.stdout \o <<Line("sat")>>) = (read \o p.stdout) \o <<Line("sat")>>
        BY <1>6, <4>1
      <4>3. <<>> \o <<Line("sat")>> = <<Line("sat")>>
        BY <4>1, ConcatEmptySeq
      <4> QED BY <1>7, <3>4, <4>2, <4>3, Zenon
    <3> QED BY <1>7, <3>4, <3>5, <3>6 DEF IsUnderway
  <2>3. CASE Len(p.stdin) # 2
    <3>0. Len(p.stdin) \in Nat /\ Len(p.stdin) > 2 /\ Len(q.stdin) = Len(p.stdin) - 1
      <4>1. Len(p.stdin) \in Nat /\ Len(p.stdin) >= 2 /\ Len(q.stdin) = Len(p.stdin) - 1
        BY <1>2, <2>1, Zenon
      <4>2. \A n \in Nat : n >= 2 /\ n # 2 => n > 2
        OBVIOUS
      <4> QED BY <2>3, <4>1, <4>2, Zenon
    <3>1. 1 \in 1 .. Len(p.stdin) - 2 /\ 1 \in DOMAIN p.stdin
      <4>1. 1 \in 1 .. Len(p.stdin) - 2 /\ 1 \in 1 .. Len(p.stdin)
        BY <3>0
      <4> QED BY <1>2, <4>1
    <3>2. Head(p.stdin) \notin Queries
      BY <1>2, <2>1, <3>1, Zenon
    <3>3. Head(p.stdin) \in said
      BY <1>2, <1>4, <3>2
    <3>4. q.stdout = p.stdout
      BY <1>3, <3>2, <3>3 DEF Answers, Queries
    <3>5. IsAskedLast(q.stdin)
      <4>1. Len(q.stdin) >= 2
        BY <3>0
      <4>2. q.stdin[Len(q.stdin) - 1] = p.stdin[Len(p.stdin) - 1]
        <5>1. Len(q.stdin) - 1 \in 1 .. Len(p.stdin) - 1 /\ (Len(q.stdin) - 1) + 1 = Len(p.stdin) - 1
          BY <3>0
        <5> QED BY <1>2, <5>1
      <4>3. q.stdin[Len(q.stdin)] = p.stdin[Len(p.stdin)]
        <5>1. Len(q.stdin) \in 1 .. Len(p.stdin) - 1 /\ Len(q.stdin) + 1 = Len(p.stdin)
          BY <3>0
        <5> QED BY <1>2, <5>1
      <4>4. ASSUME NEW k \in 1 .. Len(q.stdin) - 2 PROVE q.stdin[k] \notin Queries
        <5>1. k \in 1 .. Len(p.stdin) - 1 /\ k + 1 \in 1 .. Len(p.stdin) - 2
          BY <3>0
        <5> QED BY <1>2, <2>1, <5>1
      <4> QED BY <2>1, <4>1, <4>2, <4>3, <4>4 DEF IsAskedLast
    <3> QED BY <1>7, <3>4, <3>5 DEF IsUnderway
  <2> QED BY <2>2, <2>3
<1>8. CASE /\ p.stdin = <<"get-model">> /\ p.modelled
           /\ \/ at = "line" /\ read \o p.stdout = <<Line("sat")>>
              \/ at = "model" /\ read \o p.stdout = <<>>
  <2>1. Head(p.stdin) = "get-model" /\ Tail(p.stdin) = <<>> /\ ToSet(p.stdin) = {"get-model"}
    BY <1>8, ShortSequences
  <2>2. p.asserted = said
    BY <1>5, <2>1 DEF Queries
  <2>3. q.stdin = <<>>
    BY <1>1, <2>1
  <2>4. q.stdout = p.stdout \o ModelOf(said)
    BY <1>8, <2>1, <2>2, IllFormedAssumption DEF Answers, Queries
  <2>5. ModelOf(said) \in Seq(Output)
    <3>1. <<"model", said>> \in Output /\ Line(")") \in Output
      BY DEF Line, Output
    <3> QED BY <3>1 DEF ModelOf
  <2>6. read \o q.stdout = (read \o p.stdout) \o ModelOf(said)
    <3>1. read \o (p.stdout \o ModelOf(said)) = (read \o p.stdout) \o ModelOf(said)
      BY <1>6, <2>5
    <3> QED BY <2>4, <3>1, Zenon
  <2>7. <<>> \o ModelOf(said) = ModelOf(said)
    BY <2>5, ConcatEmptySeq
  <2> HIDE DEF ModelOf
  <2>8. CASE at = "line" /\ read \o p.stdout = <<Line("sat")>>
    <3>1. read \o q.stdout = <<Line("sat")>> \o ModelOf(said)
      BY <2>6, <2>8, Zenon
    <3> QED BY <2>3, <2>8, <3>1 DEF IsUnderway
  <2>9. CASE at = "model" /\ read \o p.stdout = <<>>
    <3>1. read \o q.stdout = ModelOf(said)
      BY <2>6, <2>7, <2>9, Zenon
    <3> QED BY <2>3, <2>9, <3>1 DEF IsUnderway
  <2> QED BY <1>8, <2>8, <2>9
<1> QED BY <1>1, <1>7, <1>8 DEF IsUnderway

LEMMA AnswerIsFollowed ==
  ASSUME NEW p \in Process, NEW q \in Process, NEW said \in SUBSET Statements, NEW at, NEW read \in Seq(Output),
         IsFollowed(p, said, at, read), Answers(p, q)
  PROVE  /\ IsFollowed(q, said, at, read)
         /\ Clean(said) /\ ~Contradicted(said) /\ at = "model" => read \o q.stdout = ModelOf(said)
<1>1. /\ NothingIsLost(p, said) /\ ModelFollows(p) /\ LinesWillCome(p, at, read)
      /\ Clean(said) /\ Contradicted(said) => UnsatIsForGood(p, at, read)
      /\ Clean(said) /\ ~Contradicted(said) => IsAnswered(p, said, at, read)
  BY DEF IsFollowed
<1>2. NothingIsLost(q, said)
  BY <1>1, AnswerLosesNothing
<1>3. ModelFollows(q)
  BY <1>1, ModelStillFollows
<1>4. LinesWillCome(q, at, read)
  BY <1>1, LinesStillCome
<1>5. Clean(said) /\ Contradicted(said) => UnsatIsForGood(q, at, read)
  BY <1>1, UnsatIsStillForGood
<1>6. ASSUME Clean(said), ~Contradicted(said)
      PROVE  IsAnswered(q, said, at, read) /\ (at = "model" => read \o q.stdout = ModelOf(said))
  <2>1. CASE at # "none"
    <3>1. IsUnderway(p, said, at, read \o p.stdout)
      BY <1>1, <1>6, <2>1 DEF IsAnswered
    <3>2. IsUnderway(q, said, at, read \o q.stdout) /\ (at = "model" => read \o q.stdout = ModelOf(said))
      BY <1>1, <1>6, <3>1, AnswerIsStillUnderway
    <3> QED BY <2>1, <3>2 DEF IsAnswered
  <2>2. CASE at = "none"
    <3>1. p.stdout = <<>> /\ ToSet(p.stdin) \cap Queries = {}
      BY <1>1, <1>6, <2>2 DEF IsAnswered, IsUnasked
    <3>2. p.stdin \in Seq(Input) /\ p.stdin # <<>> /\ q.stdin = Tail(p.stdin)
      BY DEF Process, Answers
    <3>3. ToSet(p.stdin) = {Head(p.stdin)} \cup ToSet(q.stdin)
      BY <3>2, HeadAndRest
    <3>4. Head(p.stdin) \notin Queries \cup IllFormed
      BY <1>1, <1>6, <3>1, <3>3 DEF NothingIsLost, Clean
    <3>5. q.stdout = p.stdout
      BY <3>4 DEF Answers, Queries
    <3> QED BY <2>2, <3>1, <3>3, <3>5 DEF IsAnswered, IsUnasked
  <2> QED BY <2>1, <2>2
<1> QED BY <1>2, <1>3, <1>4, <1>5, <1>6 DEF IsFollowed

(* A process that has just been started.                                     *)
LEMMA StartIsFollowed ==
  ASSUME NEW p \in Process, p.stdin = <<>>, p.asserted = {}, ~p.modelled, p.stdout = <<>>
  PROVE  IsFollowed(p, {}, "none", <<>>)
<1>1. ToSet(<<>>) = {} /\ DOMAIN <<>> = {}
  BY DEF ToSet
<1>2. NothingIsLost(p, {})
  BY <1>1 DEF NothingIsLost
<1>3. ModelFollows(p)
  BY <1>1 DEF ModelFollows
<1>4. LinesWillCome(p, "none", <<>>)
  BY DEF LinesWillCome
<1>5. UnsatIsForGood(p, "none", <<>>)
  BY <1>1 DEF UnsatIsForGood
<1>6. IsAnswered(p, {}, "none", <<>>)
  BY <1>1 DEF IsAnswered, IsUnasked
<1> QED BY <1>2, <1>3, <1>4, <1>5, <1>6 DEF IsFollowed

(* Commands are sent to a process that nobody asked.                         *)
LEMMA SentKeepsModels ==
  ASSUME NEW p \in Process, NEW q \in Process, NEW cs \in Seq(Input), ModelFollows(p),
         q.stdin = p.stdin \o cs, q.modelled = p.modelled, q.stdout = p.stdout,
         \A k \in DOMAIN cs : cs[k] = "check-sat" => k + 1 \in DOMAIN cs /\ cs[k + 1] = "get-model"
  PROVE  ModelFollows(q)
<1>1. p.stdin \in Seq(Input)
  BY DEF Process
<1>2. /\ DOMAIN p.stdin = 1 .. Len(p.stdin) /\ DOMAIN cs = 1 .. Len(cs) /\ Len(p.stdin) \in Nat
      /\ \A k \in DOMAIN p.stdin : k \in DOMAIN q.stdin /\ q.stdin[k] = p.stdin[k]
      /\ \A k \in DOMAIN cs : Len(p.stdin) + k \in DOMAIN q.stdin /\ q.stdin[Len(p.stdin) + k] = cs[k]
      /\ \A k \in DOMAIN q.stdin : k \in DOMAIN p.stdin \/ \E m \in DOMAIN cs : k = Len(p.stdin) + m
      /\ p.stdin # <<>> => q.stdin # <<>> /\ Head(q.stdin) = Head(p.stdin)
  <2> DEFINE all == p.stdin \o cs
  <2>1. /\ DOMAIN p.stdin = 1 .. Len(p.stdin) /\ DOMAIN cs = 1 .. Len(cs) /\ Len(p.stdin) \in Nat
        /\ \A k \in DOMAIN p.stdin : k \in DOMAIN all /\ all[k] = p.stdin[k]
        /\ \A k \in DOMAIN cs : Len(p.stdin) + k \in DOMAIN all /\ all[Len(p.stdin) + k] = cs[k]
        /\ \A k \in DOMAIN all : k \in DOMAIN p.stdin \/ \E m \in DOMAIN cs : k = Len(p.stdin) + m
    BY <1>1, Behind
  <2>2. p.stdin # <<>> => all # <<>> /\ Head(all) = Head(p.stdin)
    BY <1>1, Behind
  <2>3. q.stdin = all
    OBVIOUS
  <2> HIDE DEF all
  <2> QED BY <2>1, <2>2, <2>3, Zenon
<1>3. /\ \A k \in DOMAIN p.stdin :
           p.stdin[k] = "check-sat" => k + 1 \in DOMAIN p.stdin /\ p.stdin[k + 1] = "get-model"
      /\ p.modelled => p.stdin # <<>> /\ Head(p.stdin) = "get-model"
      /\ \A k \in DOMAIN p.stdout : p.stdout[k] = Line("sat") =>
           p.modelled \/ \E m \in DOMAIN p.stdout : m > k /\ p.stdout[m] = Line(")")
  BY DEF ModelFollows
<1>4. ASSUME NEW k \in DOMAIN q.stdin, q.stdin[k] = "check-sat"
      PROVE  k + 1 \in DOMAIN q.stdin /\ q.stdin[k + 1] = "get-model"
  <2>1. CASE k \in DOMAIN p.stdin
    <3>1. k + 1 \in DOMAIN p.stdin /\ p.stdin[k + 1] = "get-model"
      BY <1>2, <1>3, <1>4, <2>1, Zenon
    <3> QED BY <1>2, <3>1, Zenon
  <2>2. CASE k \notin DOMAIN p.stdin
    <3>1. PICK m \in DOMAIN cs : k = Len(p.stdin) + m
      BY <1>2, <2>2, Zenon
    <3>2. m + 1 \in DOMAIN cs /\ cs[m + 1] = "get-model"
      BY <1>2, <1>4, <3>1, Zenon
    <3>3. Len(p.stdin) + (m + 1) \in DOMAIN q.stdin /\ q.stdin[Len(p.stdin) + (m + 1)] = "get-model"
      BY <1>2, <3>2, Zenon
    <3>4. k + 1 = Len(p.stdin) + (m + 1)
      BY <1>2, <3>1
    <3> QED BY <3>3, <3>4, Zenon
  <2> QED BY <2>1, <2>2
<1>5. q.modelled => q.stdin # <<>> /\ Head(q.stdin) = "get-model"
  BY <1>2, <1>3
<1>6. \A k \in DOMAIN q.stdout : q.stdout[k] = Line("sat") =>
           q.modelled \/ \E m \in DOMAIN q.stdout : m > k /\ q.stdout[m] = Line(")")
  BY <1>3, Zenon
<1> QED BY <1>4, <1>5, <1>6 DEF ModelFollows

LEMMA BatchIsFollowed ==
  ASSUME NEW p \in Process, NEW q \in Process, NEW said \in SUBSET Statements, NEW batch \in Seq(Statements),
         IsFollowed(p, said, "none", <<>>),
         q.stdin = p.stdin \o batch, q.asserted = p.asserted, q.modelled = p.modelled, q.stdout = p.stdout
  PROVE  IsFollowed(q, said \cup ToSet(batch), "none", <<>>)
<1>1. p.stdin \in Seq(Input) /\ batch \in Seq(Input)
  BY DEF Process, Input
<1>2. ToSet(q.stdin) = ToSet(p.stdin) \cup ToSet(batch)
  BY <1>1, Behind
<1>3. /\ NothingIsLost(p, said) /\ ModelFollows(p)
      /\ Clean(said) /\ Contradicted(said) => UnsatIsForGood(p, "none", <<>>)
      /\ Clean(said) /\ ~Contradicted(said) => IsUnasked(p)
  BY DEF IsFollowed, IsAnswered
<1>4. \A k \in DOMAIN batch : batch[k] \in Statements /\ batch[k] \notin Queries
  <2>1. \A k \in DOMAIN batch : batch[k] \in Statements
    BY LenProperties, ElementOfSeq
  <2> QED BY <2>1, StatementsAreNoQueries
<1>5. ToSet(batch) \cap Queries = {}
  BY <1>4 DEF ToSet
<1>6. NothingIsLost(q, said \cup ToSet(batch))
  BY <1>2, <1>3 DEF NothingIsLost
<1>7. ModelFollows(q)
  <2>1. \A k \in DOMAIN batch : batch[k] = "check-sat" => k + 1 \in DOMAIN batch /\ batch[k + 1] = "get-model"
    BY <1>4 DEF Queries
  <2> QED BY <1>1, <1>3, <2>1, SentKeepsModels
<1>8. LinesWillCome(q, "none", <<>>)
  BY DEF LinesWillCome
<1>9. ASSUME Clean(said \cup ToSet(batch)) PROVE Clean(said)
  BY <1>9 DEF Clean
<1>10. ASSUME Clean(said \cup ToSet(batch)), Contradicted(said \cup ToSet(batch))
       PROVE  UnsatIsForGood(q, "none", <<>>)
  <2>1. CASE Contradicted(said)
    <3>1. /\ Line("sat") \notin ToSet(<<>>) \cup ToSet(p.stdout)
          /\ \A k \in DOMAIN p.stdin : p.stdin[k] = "check-sat" => Contradicted(Told(p, k))
      BY <1>3, <1>9, <1>10, <2>1 DEF UnsatIsForGood
    <3>2. ASSUME NEW k \in DOMAIN q.stdin, q.stdin[k] = "check-sat" PROVE Contradicted(Told(q, k))
      <4>1. /\ DOMAIN p.stdin = 1 .. Len(p.stdin) /\ Len(p.stdin) \in Nat
            /\ \A j \in DOMAIN p.stdin : (p.stdin \o batch)[j] = p.stdin[j]
            /\ \A j \in DOMAIN batch : (p.stdin \o batch)[Len(p.stdin) + j] = batch[j]
            /\ k \in DOMAIN p.stdin \/ \E m \in DOMAIN batch : k = Len(p.stdin) + m
        <5> DEFINE all == p.stdin \o batch
        <5>1. /\ DOMAIN p.stdin = 1 .. Len(p.stdin) /\ Len(p.stdin) \in Nat
              /\ \A j \in DOMAIN p.stdin : all[j] = p.stdin[j]
              /\ \A j \in DOMAIN batch : all[Len(p.stdin) + j] = batch[j]
              /\ \A j \in DOMAIN all : j \in DOMAIN p.stdin \/ \E m \in DOMAIN batch : j = Len(p.stdin) + m
          BY <1>1, Behind
        <5>2. k \in DOMAIN all
          BY <3>2
        <5> HIDE DEF all
        <5>3. k \in DOMAIN p.stdin \/ \E m \in DOMAIN batch : k = Len(p.stdin) + m
          BY <5>1, <5>2, Zenon
        <5> QED BY <5>1, <5>3 DEF all
      <4>2. k \in DOMAIN p.stdin
        <5>1. ASSUME NEW m \in DOMAIN batch, k = Len(p.stdin) + m PROVE FALSE
          <6>1. q.stdin[k] = batch[m]
            BY <4>1, <5>1, Zenon
          <6> QED BY <1>4, <3>2, <6>1 DEF Queries
        <5> QED BY <4>1, <5>1, Zenon
      <4>3. p.stdin[k] = "check-sat"
        BY <3>2, <4>1, <4>2, Zenon
      <4>4. Contradicted(Told(p, k))
        BY <3>1, <4>2, <4>3, Zenon
      <4>5. \A j \in 1 .. k - 1 : q.stdin[j] = p.stdin[j]
        <5>1. \A j \in 1 .. k - 1 : j \in DOMAIN p.stdin
          BY <4>1, <4>2
        <5> QED BY <4>1, <5>1, Zenon
      <4>6. Told(q, k) = Told(p, k)
        <5>1. {q.stdin[j] : j \in 1 .. k - 1} = {p.stdin[j] : j \in 1 .. k - 1}
          BY <4>5
        <5> QED BY <5>1 DEF Told
      <4> QED BY <4>4, <4>6, Zenon
    <3> QED BY <3>1, <3>2 DEF UnsatIsForGood
  <2>2. CASE ~Contradicted(said)
    <3>1. p.stdout = <<>> /\ ToSet(p.stdin) \cap Queries = {}
      BY <1>3, <1>9, <1>10, <2>2 DEF IsUnasked
    <3>2. ToSet(<<>>) = {}
      BY DEF ToSet
    <3>3. ToSet(q.stdin) \cap Queries = {}
      BY <1>2, <1>5, <3>1
    <3>4. \A k \in DOMAIN q.stdin : q.stdin[k] # "check-sat"
      BY <3>3 DEF ToSet, Queries
    <3> QED BY <3>1, <3>2, <3>4 DEF UnsatIsForGood
  <2> QED BY <2>1, <2>2
<1>11. ASSUME Clean(said \cup ToSet(batch)), ~Contradicted(said \cup ToSet(batch))
       PROVE  IsAnswered(q, said \cup ToSet(batch), "none", <<>>)
  <2>1. ~Contradicted(said)
    BY <1>11 DEF Contradicted
  <2>2. p.stdout = <<>> /\ ToSet(p.stdin) \cap Queries = {}
    BY <1>3, <1>9, <1>11, <2>1 DEF IsUnasked
  <2> QED BY <1>2, <1>5, <2>2 DEF IsAnswered, IsUnasked
<1> QED BY <1>6, <1>7, <1>8, <1>10, <1>11 DEF IsFollowed

LEMMA QuestionIsFollowed ==
  ASSUME NEW p \in Process, NEW q \in Process, NEW said \in SUBSET Statements,
         IsFollowed(p, said, "none", <<>>),
         q.stdin = p.stdin \o <<"check-sat", "get-model">>,
         q.asserted = p.asserted, q.modelled = p.modelled, q.stdout = p.stdout
  PROVE  IsFollowed(q, said, "line", <<>>)
<1> DEFINE ask == <<"check-sat", "get-model">>
<1>1. p.stdin \in Seq(Input) /\ ask \in Seq(Input) /\ p.stdout \in Seq(Output)
  BY DEF Process, Input, Queries
<1>2. /\ Len(ask) = 2 /\ DOMAIN ask = {1, 2} /\ ask[1] = "check-sat" /\ ask[2] = "get-model"
      /\ ToSet(ask) = Queries
  <2>1. Len(ask) = 2 /\ ask[1] = "check-sat" /\ ask[2] = "get-model"
    OBVIOUS
  <2>2. DOMAIN ask = {1, 2}
    OBVIOUS
  <2>3. ToSet(ask) = Queries
    BY ShortSequences DEF Queries
  <2> QED BY <2>1, <2>2, <2>3
<1>3. q.stdin = p.stdin \o ask
  OBVIOUS
<1> HIDE DEF ask
<1>4. /\ Len(q.stdin) = Len(p.stdin) + 2 /\ Len(p.stdin) \in Nat /\ DOMAIN p.stdin = 1 .. Len(p.stdin)
      /\ \A j \in DOMAIN p.stdin : q.stdin[j] = p.stdin[j]
      /\ q.stdin[Len(p.stdin) + 1] = "check-sat" /\ q.stdin[Len(p.stdin) + 2] = "get-model"
      /\ DOMAIN q.stdin = 1 .. Len(p.stdin) + 2
      /\ ToSet(q.stdin) = ToSet(p.stdin) \cup Queries
  <2>1. /\ Len(p.stdin \o ask) = Len(p.stdin) + Len(ask) /\ DOMAIN (p.stdin \o ask) = 1 .. Len(p.stdin) + Len(ask)
        /\ Len(p.stdin) \in Nat /\ DOMAIN p.stdin = 1 .. Len(p.stdin)
        /\ \A j \in DOMAIN p.stdin : (p.stdin \o ask)[j] = p.stdin[j]
        /\ \A j \in DOMAIN ask : (p.stdin \o ask)[Len(p.stdin) + j] = ask[j]
        /\ ToSet(p.stdin \o ask) = ToSet(p.stdin) \cup ToSet(ask)
    <3>1. PICK s \in Seq(Input) : s = p.stdin
      BY <1>1
    <3>2. /\ Len(s \o ask) = Len(s) + Len(ask) /\ DOMAIN (s \o ask) = 1 .. Len(s) + Len(ask)
          /\ Len(s) \in Nat /\ DOMAIN s = 1 .. Len(s)
          /\ \A j \in DOMAIN s : (s \o ask)[j] = s[j]
          /\ \A j \in DOMAIN ask : (s \o ask)[Len(s) + j] = ask[j]
          /\ ToSet(s \o ask) = ToSet(s) \cup ToSet(ask)
      <4>1. PICK t \in Seq(Input) : t = ask
        BY <1>1
      <4>2. /\ Len(s \o t) = Len(s) + Len(t) /\ DOMAIN (s \o t) = 1 .. Len(s) + Len(t)
            /\ Len(s) \in Nat /\ DOMAIN s = 1 .. Len(s)
            /\ \A j \in DOMAIN s : (s \o t)[j] = s[j]
            /\ \A j \in DOMAIN t : (s \o t)[Len(s) + j] = t[j]
            /\ ToSet(s \o t) = ToSet(s) \cup ToSet(t)
        BY Behind
      <4> QED BY <4>1, <4>2, Zenon
    <3> QED BY <3>1, <3>2, Zenon
  <2> QED BY <1>2, <1>3, <2>1
<1>5. /\ NothingIsLost(p, said) /\ ModelFollows(p)
      /\ Clean(said) /\ Contradicted(said) => UnsatIsForGood(p, "none", <<>>)
      /\ Clean(said) /\ ~Contradicted(said) => IsUnasked(p)
  BY DEF IsFollowed, IsAnswered
<1>6. said \cap Queries = {}
  BY StatementsAreNoQueries
<1>7. NothingIsLost(q, said)
  BY <1>4, <1>5 DEF NothingIsLost
<1>8. ModelFollows(q)
  <2>1. \A k \in DOMAIN ask : ask[k] = "check-sat" => k + 1 \in DOMAIN ask /\ ask[k + 1] = "get-model"
    BY <1>2
  <2> QED BY <1>1, <1>3, <1>5, <2>1, SentKeepsModels
<1>9. LinesWillCome(q, "line", <<>>)
  <2>1. "get-model" \in ToSet(q.stdin)
    BY <1>4 DEF Queries
  <2>2. DOMAIN <<>> = {}
    OBVIOUS
  <2> QED BY <2>1, <2>2 DEF LinesWillCome
<1>10. ASSUME Clean(said), Contradicted(said) PROVE UnsatIsForGood(q, "line", <<>>)
  <2>1. /\ Line("sat") \notin ToSet(<<>>) \cup ToSet(p.stdout)
        /\ \A k \in DOMAIN p.stdin : p.stdin[k] = "check-sat" => Contradicted(Told(p, k))
    BY <1>5, <1>10 DEF UnsatIsForGood
  <2>2. ASSUME NEW k \in DOMAIN q.stdin, q.stdin[k] = "check-sat" PROVE Contradicted(Told(q, k))
    <3>1. CASE k \in DOMAIN p.stdin
      <4>1. Contradicted(Told(p, k))
        BY <1>4, <2>1, <2>2, <3>1, Zenon
      <4>2. \A j \in 1 .. k - 1 : q.stdin[j] = p.stdin[j]
        <5>1. \A j \in 1 .. k - 1 : j \in DOMAIN p.stdin
          BY <1>4, <3>1
        <5> QED BY <1>4, <5>1, Zenon
      <4>3. {q.stdin[j] : j \in 1 .. k - 1} = {p.stdin[j] : j \in 1 .. k - 1}
        BY <4>2
      <4> QED BY <4>1, <4>3 DEF Told
    <3>2. CASE k \notin DOMAIN p.stdin
      <4>1. k > Len(p.stdin) /\ k \in Nat
        BY <1>4, <3>2
      <4>2. ToSet(p.stdin) \subseteq {q.stdin[j] : j \in 1 .. k - 1}
        <5>1. \A j \in DOMAIN p.stdin : j \in 1 .. k - 1
          BY <1>4, <4>1
        <5>2. \A j \in DOMAIN p.stdin : p.stdin[j] \in {q.stdin[m] : m \in 1 .. k - 1}
          BY <1>4, <5>1
        <5> QED BY <5>2 DEF ToSet
      <4>3. said \subseteq Told(q, k)
        BY <1>5, <1>6, <1>10, <4>2 DEF Told, NothingIsLost, Clean
      <4> QED BY <1>10, <4>3 DEF Contradicted
    <3> QED BY <3>1, <3>2
  <2> QED BY <2>1, <2>2 DEF UnsatIsForGood
<1>11. ASSUME Clean(said), ~Contradicted(said) PROVE IsAnswered(q, said, "line", <<>>)
  <2>1. p.stdout = <<>> /\ ToSet(p.stdin) \cap Queries = {}
    BY <1>5, <1>11 DEF IsUnasked
  <2>2. <<>> \o q.stdout = <<>>
    BY <2>1
  <2>3. IsAskedLast(q.stdin)
    <3>1. Len(q.stdin) >= 2 /\ Len(q.stdin) - 1 = Len(p.stdin) + 1 /\ Len(q.stdin) = Len(p.stdin) + 2
          /\ Len(q.stdin) - 2 = Len(p.stdin)
      BY <1>4
    <3>2. \A k \in DOMAIN p.stdin : q.stdin[k] \notin Queries
      BY <1>4, <2>1 DEF ToSet
    <3> QED BY <1>4, <3>1, <3>2 DEF IsAskedLast
  <2>4. IsUnderway(q, said, "line", <<>>)
    BY <2>3 DEF IsUnderway
  <2> QED BY <2>2, <2>4 DEF IsAnswered
<1> QED BY <1>7, <1>8, <1>9, <1>10, <1>11 DEF IsFollowed

(* The reader takes some of what is in the pipe.                             *)
LEMMA FillIsFollowed ==
  ASSUME NEW p \in Process, NEW q \in Process, NEW said \in SUBSET Statements, NEW at \in {"line", "model"},
         NEW read \in Seq(Output), read # <<>>, p.stdout = read \o q.stdout,
         q.stdin = p.stdin, q.asserted = p.asserted, q.modelled = p.modelled,
         IsFollowed(p, said, at, <<>>)
  PROVE  IsFollowed(q, said, at, read)
<1>1. p.stdout \in Seq(Output) /\ q.stdout \in Seq(Output)
  BY DEF Process
<1>2. /\ DOMAIN read = 1 .. Len(read) /\ DOMAIN q.stdout = 1 .. Len(q.stdout) /\ Len(read) \in Nat
      /\ \A k \in DOMAIN read : k \in DOMAIN p.stdout /\ p.stdout[k] = read[k]
      /\ \A k \in DOMAIN q.stdout : Len(read) + k \in DOMAIN p.stdout /\ p.stdout[Len(read) + k] = q.stdout[k]
      /\ \A k \in DOMAIN p.stdout : k \in DOMAIN read \/ \E m \in DOMAIN q.stdout : k = Len(read) + m
      /\ ToSet(p.stdout) = ToSet(read) \cup ToSet(q.stdout)
  <2> DEFINE all == read \o q.stdout
  <2>1. /\ DOMAIN read = 1 .. Len(read) /\ DOMAIN q.stdout = 1 .. Len(q.stdout) /\ Len(read) \in Nat
        /\ \A k \in DOMAIN read : k \in DOMAIN all /\ all[k] = read[k]
        /\ \A k \in DOMAIN q.stdout : Len(read) + k \in DOMAIN all /\ all[Len(read) + k] = q.stdout[k]
        /\ \A k \in DOMAIN all : k \in DOMAIN read \/ \E m \in DOMAIN q.stdout : k = Len(read) + m
    BY <1>1, Behind
  <2>2. ToSet(all) = ToSet(read) \cup ToSet(q.stdout)
    BY <1>1, Behind
  <2>3. p.stdout = all
    OBVIOUS
  <2> HIDE DEF all
  <2> QED BY <2>1, <2>2, <2>3, Zenon
<1>3. /\ NothingIsLost(p, said) /\ ModelFollows(p) /\ LinesWillCome(p, at, <<>>)
      /\ Clean(said) /\ Contradicted(said) => UnsatIsForGood(p, at, <<>>)
      /\ Clean(said) /\ ~Contradicted(said) => IsUnderway(p, said, at, <<>> \o p.stdout)
  BY DEF IsFollowed, IsAnswered
<1>4. NothingIsLost(q, said)
  BY <1>3 DEF NothingIsLost
<1>5. \A k \in DOMAIN p.stdout : p.stdout[k] = Line("sat") =>
        p.modelled \/ \E m \in DOMAIN p.stdout : m > k /\ p.stdout[m] = Line(")")
  BY <1>3 DEF ModelFollows
<1>6. ModelFollows(q)
  <2>1. ASSUME NEW k \in DOMAIN q.stdout, q.stdout[k] = Line("sat"), ~q.modelled
        PROVE  \E m \in DOMAIN q.stdout : m > k /\ q.stdout[m] = Line(")")
    <3>1. Len(read) + k \in DOMAIN p.stdout /\ p.stdout[Len(read) + k] = Line("sat") /\ ~p.modelled
      BY <1>2, <2>1
    <3>2. PICK n \in DOMAIN p.stdout : n > Len(read) + k /\ p.stdout[n] = Line(")")
      BY <1>5, <3>1, Zenon
    <3>3. n \notin DOMAIN read
      BY <1>2, <3>2
    <3>4. PICK m \in DOMAIN q.stdout : n = Len(read) + m
      BY <1>2, <3>3, Zenon
    <3>5. m > k
      BY <1>2, <3>2, <3>4
    <3>6. q.stdout[m] = Line(")")
      BY <1>2, <3>2, <3>4, Zenon
    <3> QED BY <3>5, <3>6
  <2>2. /\ \A k \in DOMAIN q.stdin :
             q.stdin[k] = "check-sat" => k + 1 \in DOMAIN q.stdin /\ q.stdin[k + 1] = "get-model"
        /\ q.modelled => q.stdin # <<>> /\ Head(q.stdin) = "get-model"
    BY <1>3 DEF ModelFollows
  <2> QED BY <2>1, <2>2 DEF ModelFollows
<1>7. LinesWillCome(q, at, read)
  <2>1. ASSUME NEW k \in DOMAIN read, read[k] = Line("sat")
        PROVE  \/ \E m \in DOMAIN read : m > k /\ read[m] = Line(")")
               \/ Line(")") \in ToSet(q.stdout)
               \/ q.modelled
    <3>1. k \in DOMAIN p.stdout /\ p.stdout[k] = Line("sat")
      BY <1>2, <2>1
    <3>2. CASE ~p.modelled
      <4>1. PICK n \in DOMAIN p.stdout : n > k /\ p.stdout[n] = Line(")")
        BY <1>5, <3>1, <3>2, Zenon
      <4>2. CASE n \in DOMAIN read
        BY <1>2, <4>1, <4>2
      <4>3. CASE n \notin DOMAIN read
        <5>1. PICK m \in DOMAIN q.stdout : n = Len(read) + m
          BY <1>2, <4>3, Zenon
        <5>2. q.stdout[m] = Line(")")
          BY <1>2, <4>1, <5>1, Zenon
        <5> QED BY <5>2 DEF ToSet
      <4> QED BY <4>2, <4>3
    <3> QED BY <3>2
  <2>2. at = "model" => Line(")") \in ToSet(read) \cup ToSet(q.stdout) \/ q.modelled
    <3>1. ToSet(<<>>) = {}
      BY DEF ToSet
    <3> QED BY <1>2, <1>3, <3>1 DEF LinesWillCome
  <2> QED BY <2>1, <2>2 DEF LinesWillCome
<1>8. ASSUME Clean(said), Contradicted(said) PROVE UnsatIsForGood(q, at, read)
  <2>1. /\ at # "model" /\ Line("sat") \notin ToSet(p.stdout)
        /\ \A k \in DOMAIN p.stdin : p.stdin[k] = "check-sat" => Contradicted(Told(p, k))
    BY <1>3, <1>8 DEF UnsatIsForGood
  <2>2. \A k : Told(q, k) = Told(p, k)
    BY DEF Told
  <2> QED BY <1>2, <2>1, <2>2 DEF UnsatIsForGood
<1>9. ASSUME Clean(said), ~Contradicted(said) PROVE IsAnswered(q, said, at, read)
  <2>1. <<>> \o p.stdout = p.stdout
    BY <1>1, ConcatEmptySeq
  <2>2. IsUnderway(p, said, at, read \o q.stdout)
    BY <1>3, <1>9, <2>1
  <2>3. IsUnderway(q, said, at, read \o q.stdout)
    BY <2>2 DEF IsUnderway
  <2> QED BY <2>3 DEF IsAnswered
<1> QED BY <1>4, <1>6, <1>7, <1>8, <1>9 DEF IsFollowed

LEMMA EndIsNoModel == \A said : <<Line(")")>> # <<>> /\ <<Line(")")>> # ModelOf(said)
<1> TAKE said
<1>1. Head(ModelOf(said)) = <<"model", said>> /\ Head(<<Line(")")>>) = Line(")") /\ <<Line(")")>> # <<>>
  BY ShortSequences DEF ModelOf
<1> QED BY <1>1, LinesDiffer

(* The reader reads its first line.                                          *)
LEMMA ReadingOn ==
  ASSUME NEW read \in Seq(Output), read # <<>>, NEW out \in Seq(Output)
  PROVE  /\ Tail(read) \in Seq(Output)
         /\ Head(read \o out) = Head(read) /\ Tail(read \o out) = Tail(read) \o out
         /\ ToSet(read) = {Head(read)} \cup ToSet(Tail(read))
         /\ 1 \in DOMAIN read /\ read[1] = Head(read)
         /\ \A m \in DOMAIN read : m > 1 => read[m] \in ToSet(Tail(read))
<1>1. /\ Len(read) \in Nat \ {0} /\ DOMAIN read = 1 .. Len(read) /\ Head(read) = read[1]
      /\ Tail(read) \in Seq(Output) /\ DOMAIN Tail(read) = 1 .. Len(read) - 1
      /\ \A k \in 1 .. Len(read) - 1 : Tail(read)[k] = read[k + 1]
      /\ ToSet(read) = {Head(read)} \cup ToSet(Tail(read))
  BY HeadAndRest
<1>2. Head(read \o out) = Head(read) /\ Tail(read \o out) = Tail(read) \o out
  BY Behind
<1>3. ASSUME NEW m \in DOMAIN read, m > 1 PROVE read[m] \in ToSet(Tail(read))
  <2>1. m - 1 \in 1 .. Len(read) - 1 /\ (m - 1) + 1 = m
    BY <1>1, <1>3
  <2>2. Tail(read)[m - 1] = read[m] /\ m - 1 \in DOMAIN Tail(read)
    BY <1>1, <2>1
  <2> QED BY <2>2 DEF ToSet
<1>4. 1 \in DOMAIN read
  BY <1>1
<1> QED BY <1>1, <1>2, <1>3, <1>4

LEMMA StatusIsFollowed ==
  ASSUME NEW p \in Process, NEW said \in SUBSET Statements, NEW read \in Seq(Output), read # <<>>,
         IsFollowed(p, said, "line", read)
  PROVE  /\ Head(read) = Line("sat") => IsFollowed(p, said, "model", Tail(read))
         /\ Head(read) # Line("sat") => IsFollowed(p, said, "none", <<>>)
         /\ Clean(said) => (Head(read) = Line("sat") <=> ~Contradicted(said))
         /\ Clean(said) /\ ~Contradicted(said) => Tail(read) \o p.stdout # <<Line(")")>>
<1>1. /\ NothingIsLost(p, said) /\ ModelFollows(p)
      /\ Clean(said) /\ Contradicted(said) => UnsatIsForGood(p, "line", read)
      /\ Clean(said) /\ ~Contradicted(said) => IsUnderway(p, said, "line", read \o p.stdout)
  BY DEF IsFollowed, IsAnswered
<1>2. \A k \in DOMAIN read : read[k] = Line("sat") =>
        \/ \E m \in DOMAIN read : m > k /\ read[m] = Line(")")
        \/ Line(")") \in ToSet(p.stdout)
        \/ p.modelled
  BY DEF IsFollowed, LinesWillCome
<1>3. p.stdout \in Seq(Output)
  BY DEF Process
<1>4. /\ Head(read \o p.stdout) = Head(read) /\ Tail(read \o p.stdout) = Tail(read) \o p.stdout
      /\ ToSet(read) = {Head(read)} \cup ToSet(Tail(read))
      /\ 1 \in DOMAIN read /\ read[1] = Head(read)
      /\ \A m \in DOMAIN read : m > 1 => read[m] \in ToSet(Tail(read))
  BY <1>3, ReadingOn
<1>5. ASSUME Clean(said), Contradicted(said) PROVE Head(read) # Line("sat")
  BY <1>1, <1>4, <1>5 DEF UnsatIsForGood
<1>6. read \o p.stdout # <<>>
  BY <1>3, Behind
<1>7. ASSUME Clean(said), ~Contradicted(said)
      PROVE  /\ Head(read) = Line("sat")
             /\ \/ Tail(read) \o p.stdout = <<>> /\ p.stdin = <<"get-model">> /\ p.modelled
                \/ Tail(read) \o p.stdout = ModelOf(said) /\ p.stdin = <<>>
  <2>1. \/ read \o p.stdout = <<Line("sat")>> /\ p.stdin = <<"get-model">> /\ p.modelled
        \/ read \o p.stdout = <<Line("sat")>> \o ModelOf(said) /\ p.stdin = <<>>
    BY <1>1, <1>6, <1>7 DEF IsUnderway
  <2>2. CASE read \o p.stdout = <<Line("sat")>> /\ p.stdin = <<"get-model">> /\ p.modelled
    <3>1. Head(<<Line("sat")>>) = Line("sat") /\ Tail(<<Line("sat")>>) = <<>>
      BY ShortSequences
    <3> QED BY <1>4, <2>2, <3>1, Zenon
  <2>3. CASE read \o p.stdout = <<Line("sat")>> \o ModelOf(said) /\ p.stdin = <<>>
    <3>1. Head(<<Line("sat")>> \o ModelOf(said)) = Line("sat") /\ Tail(<<Line("sat")>> \o ModelOf(said)) = ModelOf(said)
      <4>1. <<Line("sat")>> \in Seq(Output)
        <5>1. Line("sat") \in Output
          BY DEF Line, Output
        <5> QED BY <5>1
      <4>2. ModelOf(said) \in Seq(Output)
        <5>1. <<"model", said>> \in Output /\ Line(")") \in Output
          BY DEF Line, Output
        <5> QED BY <5>1 DEF ModelOf
      <4>3. <<Line("sat")>> # <<>> /\ Head(<<Line("sat")>>) = Line("sat") /\ Tail(<<Line("sat")>>) = <<>>
        BY ShortSequences
      <4>4. <<>> \o ModelOf(said) = ModelOf(said)
        BY <4>2, ConcatEmptySeq
      <4>5. PICK m : m = ModelOf(said)
        OBVIOUS
      <4>6. PICK s : s = <<Line("sat")>>
        OBVIOUS
      <4>7. Head(s \o m) = Head(s) /\ Tail(s \o m) = Tail(s) \o m
        BY <4>1, <4>2, <4>3, <4>5, <4>6, Behind
      <4> QED BY <4>3, <4>4, <4>5, <4>6, <4>7, Zenon
    <3> QED BY <1>4, <2>3, <3>1, Zenon
  <2> QED BY <2>1, <2>2, <2>3
<1>8. ASSUME Head(read) = Line("sat") PROVE IsFollowed(p, said, "model", Tail(read))
  <2>1. LinesWillCome(p, "model", Tail(read))
    <3>1. \/ \E m \in DOMAIN read : m > 1 /\ read[m] = Line(")")
          \/ Line(")") \in ToSet(p.stdout)
          \/ p.modelled
      BY <1>2, <1>4, <1>8, Zenon
    <3>2. Line(")") \in ToSet(Tail(read)) \/ Line(")") \in ToSet(p.stdout) \/ p.modelled
      BY <1>4, <3>1
    <3> QED BY <3>2 DEF LinesWillCome
  <2>2. Clean(said) /\ ~Contradicted(said) => IsAnswered(p, said, "model", Tail(read))
    BY <1>7 DEF IsAnswered, IsUnderway
  <2> QED BY <1>1, <1>5, <1>8, <2>1, <2>2 DEF IsFollowed
<1>9. ASSUME Head(read) # Line("sat") PROVE IsFollowed(p, said, "none", <<>>)
  <2>1. LinesWillCome(p, "none", <<>>)
    BY DEF LinesWillCome
  <2>2. Clean(said) /\ Contradicted(said) => UnsatIsForGood(p, "none", <<>>)
    <3>1. ToSet(<<>>) = {}
      BY DEF ToSet
    <3> QED BY <1>1, <3>1 DEF UnsatIsForGood
  <2> QED BY <1>1, <1>7, <1>9, <2>1, <2>2 DEF IsFollowed
<1>10. <<Line(")")>> # <<>> /\ <<Line(")")>> # ModelOf(said)
  BY EndIsNoModel
<1> QED BY <1>5, <1>7, <1>8, <1>9, <1>10

(* What is read of a model: all that was said, and then its end.             *)
LEMMA ModelIsFollowed ==
  ASSUME NEW p \in Process, NEW said \in SUBSET Statements, NEW read \in Seq(Output), read # <<>>,
         IsFollowed(p, said, "model", read)
  PROVE  /\ Head(read) = Line(")") => IsFollowed(p, said, "none", <<>>)
         /\ Head(read) # Line(")") => IsFollowed(p, said, "model", Tail(read))
         /\ Clean(said) => ~Contradicted(said)
         /\ Clean(said) /\ Head(read) = Line(")") => read \o p.stdout = <<Line(")")>>
         /\ Clean(said) /\ Head(read) # Line(")") => Head(read)[2] = said
<1>1. /\ NothingIsLost(p, said) /\ ModelFollows(p) /\ LinesWillCome(p, "model", read)
      /\ Clean(said) /\ Contradicted(said) => UnsatIsForGood(p, "model", read)
      /\ Clean(said) /\ ~Contradicted(said) => IsUnderway(p, said, "model", read \o p.stdout)
  BY DEF IsFollowed, IsAnswered
<1>2. p.stdout \in Seq(Output)
  BY DEF Process
<1>3. /\ Head(read \o p.stdout) = Head(read) /\ Tail(read \o p.stdout) = Tail(read) \o p.stdout
      /\ ToSet(read) = {Head(read)} \cup ToSet(Tail(read)) /\ Tail(read) \in Seq(Output)
  BY <1>2, ReadingOn
<1>4. Clean(said) => ~Contradicted(said)
  BY <1>1 DEF UnsatIsForGood
<1>5. read \o p.stdout # <<>>
  BY <1>2, Behind
<1>6. ASSUME Clean(said)
      PROVE  /\ p.stdin = <<>>
             /\ \/ /\ Head(read) = <<"model", said>> /\ Head(read) # Line(")")
                   /\ Tail(read) \o p.stdout = <<Line(")")>>
                \/ Head(read) = Line(")") /\ Tail(read) \o p.stdout = <<>> /\ read \o p.stdout = <<Line(")")>>
  <2>1. p.stdin = <<>> /\ (read \o p.stdout = ModelOf(said) \/ read \o p.stdout = <<Line(")")>>)
    BY <1>1, <1>4, <1>5, <1>6 DEF IsUnderway
  <2>2. CASE read \o p.stdout = ModelOf(said)
    <3>1. Head(ModelOf(said)) = <<"model", said>> /\ Tail(ModelOf(said)) = <<Line(")")>>
      BY ShortSequences DEF ModelOf
    <3> QED BY <1>3, <2>1, <2>2, <3>1, LinesDiffer
  <2>3. CASE read \o p.stdout = <<Line(")")>>
    <3>1. Head(<<Line(")")>>) = Line(")") /\ Tail(<<Line(")")>>) = <<>>
      BY ShortSequences
    <3> QED BY <1>3, <2>1, <2>3, <3>1
  <2> QED BY <2>1, <2>2, <2>3
<1>7. ASSUME Head(read) = Line(")") PROVE IsFollowed(p, said, "none", <<>>)
  <2>1. LinesWillCome(p, "none", <<>>)
    BY DEF LinesWillCome
  <2>2. ASSUME Clean(said) PROVE IsAnswered(p, said, "none", <<>>)
    <3>1. p.stdin = <<>> /\ Tail(read) \o p.stdout = <<>>
      BY <1>6, <1>7, <2>2, LinesDiffer
    <3>2. p.stdout = <<>>
      <4>1. Len(Tail(read) \o p.stdout) = Len(Tail(read)) + Len(p.stdout) /\ Len(Tail(read)) \in Nat /\ Len(p.stdout) \in Nat
        BY <1>2, <1>3, Behind
      <4>2. Len(Tail(read) \o p.stdout) = 0
        <5>1. Len(<<>>) = 0
          OBVIOUS
        <5> QED BY <3>1, <5>1, Zenon
      <4>3. Len(p.stdout) = 0
        BY <4>1, <4>2
      <4> QED BY <1>2, <4>3, EmptySeq
    <3>3. ToSet(<<>>) = {}
      BY DEF ToSet
    <3> QED BY <3>1, <3>2, <3>3 DEF IsAnswered, IsUnasked
  <2> QED BY <1>1, <1>4, <2>1, <2>2 DEF IsFollowed
<1>8. ASSUME Head(read) # Line(")") PROVE IsFollowed(p, said, "model", Tail(read))
  <2>1. LinesWillCome(p, "model", Tail(read))
    BY <1>1, <1>3, <1>8 DEF LinesWillCome
  <2>2. ASSUME Clean(said) PROVE IsAnswered(p, said, "model", Tail(read))
    BY <1>6, <1>8, <2>2 DEF IsAnswered, IsUnderway
  <2> QED BY <1>1, <1>4, <2>1, <2>2 DEF IsFollowed
<1>9. ASSUME Clean(said), Head(read) # Line(")") PROVE Head(read)[2] = said
  BY <1>6, <1>9
<1> QED BY <1>4, <1>6, <1>7, <1>8, <1>9

-----------------------------------------------------------------------------
(* Every step keeps the invariant *)

(* What the types say of each solver.                                        *)
LEMMA Typed ==
  ASSUME WellTyped
  PROVE  /\ \A i \in z3s : pipe[i] \in Process /\ sent[i] \in Seq(Statements) /\ Said(i) \in SUBSET Statements
                            /\ ReaderOf(i) \in Seq(Output)
         /\ \A i \in z3s : ~Asking(i) => PointOf(i) = "none" /\ ReaderOf(i) = <<>>
         /\ \A i \in z3s : Asking(i) => PointOf(i) = point /\ ReaderOf(i) = reader
         /\ point \notin {"line", "model"} => \A i : PointOf(i) = "none" /\ ReaderOf(i) = <<>>
         /\ point \in {"line", "model"} => /\ source.kind = "z3" /\ source.name \in z3s
                                           /\ PointOf(source.name) = point /\ ReaderOf(source.name) = reader
<1>1. \A i \in z3s : pipe[i] \in Process /\ sent[i] \in Seq(Statements)
  BY DEF WellTyped, z3s
<1>2. \A i \in z3s : Said(i) \in SUBSET Statements
  <2>1. \A s \in Seq(Statements) : \A k \in DOMAIN s : s[k] \in Statements
    BY LenProperties, ElementOfSeq
  <2> QED BY <1>1, <2>1 DEF Said, ToSet
<1>3. reader \in Seq(Output) /\ <<>> \in Seq(Output)
  BY DEF WellTyped, z3s
<1>4. \A i \in z3s : ReaderOf(i) \in Seq(Output)
  BY <1>3 DEF ReaderOf
<1>5. \A i \in z3s : ~Asking(i) => PointOf(i) = "none" /\ ReaderOf(i) = <<>>
  BY DEF PointOf, ReaderOf
<1>6. \A i \in z3s : Asking(i) => PointOf(i) = point /\ ReaderOf(i) = reader
  BY DEF PointOf, ReaderOf
<1>7. point \notin {"line", "model"} => \A i : PointOf(i) = "none" /\ ReaderOf(i) = <<>>
  BY DEF PointOf, ReaderOf, Asking
<1>8. point \in {"line", "model"} => /\ source.kind = "z3" /\ source.name \in z3s
                                     /\ PointOf(source.name) = point /\ ReaderOf(source.name) = reader
  BY DEF WellTyped, PointOf, ReaderOf, Asking
<1> QED BY <1>1, <1>2, <1>4, <1>5, <1>6, <1>7, <1>8

(* A sink is opened; if there is no process for it yet, one is started.      *)
LEMMA TakeKeeps ==
  ASSUME IInv, NEW s \in Sources, NEW t \in Targets, Take(s, t)
  PROVE  IInv'
<1>1. /\ point = "idle" /\ point' = "open" /\ source' = s /\ target' = t
      /\ UNCHANGED <<space, factor, files, mmaps, reader, dumped>>
  BY DEF Take
<1>2. WellTyped /\ SolversAreFollowed /\ FilesWereWritten
  BY DEF IInv
<1>3. reader = <<>> /\ space \in Spaces /\ pipe \in [z3s -> Process] /\ sent \in [z3s -> Seq(Statements)]
      /\ reader \in Seq(Output)
  BY <1>1, <1>2 DEF WellTyped, z3s
<1> DEFINE fresh == [stdin |-> <<>>, asserted |-> {}, modelled |-> FALSE, stdout |-> <<>>]
<1>4. fresh \in Process /\ IsFollowed(fresh, {}, "none", <<>>)
  <2>1. fresh \in Process
    BY DEF Process
  <2>2. fresh.stdin = <<>> /\ fresh.asserted = {} /\ ~fresh.modelled /\ fresh.stdout = <<>>
    OBVIOUS
  <2> HIDE DEF fresh
  <2> QED BY <2>1, <2>2, StartIsFollowed
<1>5. \/ pipe' = With(pipe, t.name, fresh) /\ sent' = With(sent, t.name, <<>>) /\ t.name \notin z3s
      \/ (t.kind = "z3" => t.name \in z3s) /\ pipe' = pipe /\ sent' = sent
  BY DEF Take
<1> HIDE DEF fresh
<1>6. /\ pipe' \in [z3s' -> Process] /\ sent' \in [z3s' -> Seq(Statements)]
      /\ t.kind = "z3" => t.name \in z3s'
      /\ \A i \in z3s' : \/ i \in z3s /\ pipe'[i] = pipe[i] /\ sent'[i] = sent[i]
                         \/ pipe'[i] = fresh /\ sent'[i] = <<>>
  <2>1. CASE pipe' = With(pipe, t.name, fresh) /\ sent' = With(sent, t.name, <<>>) /\ t.name \notin z3s
    <3>1. DOMAIN pipe = z3s /\ DOMAIN sent = z3s /\ DOMAIN pipe' = z3s'
      BY <1>3 DEF z3s
    <3>2. /\ DOMAIN pipe' = z3s \cup {t.name} /\ pipe' = [k \in z3s \cup {t.name} |-> pipe'[k]]
          /\ pipe'[t.name] = fresh /\ \A k \in z3s \ {t.name} : pipe'[k] = pipe[k]
      <4>1. pipe' = [k \in z3s \cup {t.name} |-> IF k = t.name THEN fresh ELSE pipe[k]]
        BY <2>1, <3>1 DEF With
      <4> QED BY <4>1
    <3>3. /\ DOMAIN sent' = z3s \cup {t.name} /\ sent' = [k \in z3s \cup {t.name} |-> sent'[k]]
          /\ sent'[t.name] = <<>> /\ \A k \in z3s \ {t.name} : sent'[k] = sent[k]
      <4>1. sent' = [k \in z3s \cup {t.name} |-> IF k = t.name THEN <<>> ELSE sent[k]]
        BY <2>1, <3>1 DEF With
      <4> QED BY <4>1
    <3>4. \A k \in z3s : pipe[k] \in Process /\ sent[k] \in Seq(Statements)
      BY <1>3
    <3>5. <<>> \in Seq(Statements)
      OBVIOUS
    <3>6. z3s' = z3s \cup {t.name}
      BY <3>1, <3>2
    <3>7. \A i \in z3s \cup {t.name} : pipe'[i] \in Process /\ sent'[i] \in Seq(Statements)
      BY <1>4, <3>2, <3>3, <3>4, <3>5
    <3>8. pipe' \in [z3s \cup {t.name} -> Process] /\ sent' \in [z3s \cup {t.name} -> Seq(Statements)]
      BY <3>2, <3>3, <3>7
    <3> QED BY <3>2, <3>3, <3>6, <3>8
  <2>2. CASE (t.kind = "z3" => t.name \in z3s) /\ pipe' = pipe /\ sent' = sent
    BY <1>3, <2>2 DEF z3s
  <2> QED BY <1>5, <2>1, <2>2
<1>7. WellTyped'
  BY <1>1, <1>3, <1>6 DEF WellTyped, z3s
<1>8. FilesWereWritten'
  BY <1>1, <1>2 DEF FilesWereWritten
<1>9. ASSUME NEW i \in z3s' PROVE IsFollowed(pipe[i], Said(i), PointOf(i), ReaderOf(i))'
  <2>1. PointOf(i)' = "none" /\ ReaderOf(i)' = <<>>
    BY <1>1 DEF PointOf, ReaderOf, Asking
  <2>2. Said(i)' = ToSet(sent'[i])
    BY DEF Said
  <2>3. CASE i \in z3s /\ pipe'[i] = pipe[i] /\ sent'[i] = sent[i]
    <3>1. IsFollowed(pipe[i], Said(i), "none", <<>>)
      <4>1. PointOf(i) = "none" /\ ReaderOf(i) = <<>>
        BY <1>1 DEF PointOf, ReaderOf, Asking
      <4> QED BY <1>2, <2>3, <4>1 DEF SolversAreFollowed
    <3> QED BY <2>1, <2>2, <2>3, <3>1 DEF Said
  <2>4. CASE pipe'[i] = fresh /\ sent'[i] = <<>>
    <3>1. ToSet(<<>>) = {}
      BY DEF ToSet
    <3> QED BY <1>4, <2>1, <2>2, <2>4, <3>1
  <2> QED BY <1>6, <2>3, <2>4
<1>10. SolversAreFollowed'
  BY <1>9 DEF SolversAreFollowed
<1>11. ModelIsMeant' /\ FactorsAreCurrent'
  BY <1>1 DEF ModelIsMeant, FactorsAreCurrent
<1> QED BY <1>7, <1>8, <1>10, <1>11 DEF IInv

(* Between two steps of solvers and sinks, and of the query of a solver.     *)
LEMMA SolversUntouched ==
  ASSUME SolversAreFollowed, point \notin {"line", "model"}, point' \notin {"line", "model"}, UNCHANGED <<pipe, sent>>
  PROVE  SolversAreFollowed'
<1>1. \A i : /\ PointOf(i) = "none" /\ ReaderOf(i) = <<>>
             /\ PointOf(i)' = "none" /\ ReaderOf(i)' = <<>>
             /\ Said(i)' = Said(i)
  BY DEF PointOf, ReaderOf, Asking, Said
<1>2. z3s' = z3s /\ pipe' = pipe
  BY DEF z3s
<1>3. \A i \in z3s : IsFollowed(pipe[i], Said(i), "none", <<>>)
  BY <1>1 DEF SolversAreFollowed
<1>4. ASSUME NEW i \in z3s' PROVE IsFollowed(pipe'[i], Said(i)', PointOf(i)', ReaderOf(i)')
  <2>1. IsFollowed(pipe[i], Said(i), "none", <<>>)
    BY <1>2, <1>3, <1>4
  <2> QED BY <1>1, <1>2, <2>1
<1> QED BY <1>4 DEF SolversAreFollowed

LEMMA OpenSpaceKeeps ==
  ASSUME IInv, OpenSpace
  PROVE  IInv'
<1>1. /\ point = "open" /\ point' = "finalize" /\ source.kind \in {",", "BTM", "==", "!="}
      /\ factor' = OfSpace(source)
      /\ UNCHANGED <<space, source, target, files, mmaps, pipe, reader, sent, dumped>>
  BY DEF OpenSpace
<1>2. WellTyped /\ SolversAreFollowed /\ FilesWereWritten
  BY DEF IInv
<1>3. WellTyped'
  BY <1>1, <1>2 DEF WellTyped, z3s
<1>4. FilesWereWritten'
  BY <1>1, <1>2 DEF FilesWereWritten
<1>5. SolversAreFollowed'
  BY <1>1, <1>2, SolversUntouched
<1>6. ModelIsMeant'
  BY <1>1 DEF ModelIsMeant
<1>7. FactorsAreCurrent'
  <2>1. \A x \in space : IsExpression(x)
    BY <1>2, SpacesAssumption DEF WellTyped, z3s
  <2>2. IsSound' => IsSound
    BY <1>1 DEF IsSound
  <2>3. IsSound => OfSpace(source) = Meant
    BY <1>1, <2>1, SpaceIsMeant DEF IsSound
  <2>4. Meant' = Meant
    BY <1>1 DEF Meant, Functor
  <2> QED BY <1>1, <2>2, <2>3, <2>4 DEF FactorsAreCurrent
<1> QED BY <1>3, <1>4, <1>5, <1>6, <1>7 DEF IInv

LEMMA OpenFileKeeps ==
  ASSUME IInv, OpenFile
  PROVE  IInv'
<1>1. /\ point = "open" /\ point' = "finalize" /\ source.kind = "ACT"
      /\ source.name \in DOMAIN mmaps \cup DOMAIN files
      /\ mmaps' = IF source.name \in DOMAIN mmaps THEN mmaps ELSE With(mmaps, source.name, files[source.name])
      /\ factor' = Below(source, mmaps'[source.name])
      /\ UNCHANGED <<space, source, target, files, pipe, reader, sent, dumped>>
  BY DEF OpenFile
<1>2. WellTyped /\ SolversAreFollowed /\ FilesWereWritten
  BY DEF IInv
<1>3. WellTyped'
  BY <1>1, <1>2 DEF WellTyped, z3s
<1>4. FilesWereWritten'
  <2>1. CASE source.name \in DOMAIN mmaps
    <3>1. mmaps' = mmaps
      BY <1>1, <2>1
    <3> QED BY <1>1, <1>2, <3>1 DEF FilesWereWritten
  <2>2. CASE source.name \notin DOMAIN mmaps
    <3>1. mmaps' = With(mmaps, source.name, files[source.name]) /\ source.name \in DOMAIN files
      BY <1>1, <2>2
    <3>2. /\ DOMAIN mmaps' = DOMAIN mmaps \cup {source.name}
          /\ mmaps'[source.name] = files[source.name]
          /\ \A k \in DOMAIN mmaps \ {source.name} : mmaps'[k] = mmaps[k]
          /\ mmaps' = [k \in DOMAIN mmaps' |-> mmaps'[k]]
      <4>1. mmaps' = [k \in DOMAIN mmaps \cup {source.name} |-> IF k = source.name THEN files[source.name] ELSE mmaps[k]]
        BY <3>1 DEF With
      <4> QED BY <4>1
    <3>3. /\ DOMAIN files \subseteq Files /\ DOMAIN mmaps \subseteq Files
          /\ \A f \in DOMAIN files : files[f] \in dumped[f]
          /\ \A f \in DOMAIN mmaps : mmaps[f] \in dumped[f]
      BY <1>2 DEF FilesWereWritten
    <3>4. DOMAIN mmaps' \subseteq Files /\ \A f \in DOMAIN mmaps' : mmaps'[f] \in dumped[f]
      BY <3>1, <3>2, <3>3
    <3> QED BY <1>1, <1>2, <3>2, <3>4 DEF FilesWereWritten
  <2> QED BY <2>1, <2>2
<1>5. SolversAreFollowed'
  BY <1>1, <1>2, SolversUntouched
<1>6. ModelIsMeant'
  BY <1>1 DEF ModelIsMeant
<1>7. FactorsAreCurrent'
  <2>1. Meant' = {Functor(source) \o x : x \in mmaps'[source.name]}
    BY <1>1 DEF Meant, Functor
  <2> QED BY <1>1, <2>1 DEF FactorsAreCurrent, Below
<1> QED BY <1>3, <1>4, <1>5, <1>6, <1>7 DEF IInv

LEMMA OpenMissingKeeps ==
  ASSUME IInv, OpenMissing
  PROVE  IInv'
<1>1. /\ point = "open" /\ point' = "panic"
      /\ UNCHANGED <<space, source, target, files, mmaps, pipe, reader, sent, dumped>>
  BY DEF OpenMissing
<1>2. WellTyped /\ SolversAreFollowed /\ FilesWereWritten
  BY DEF IInv
<1>3. WellTyped'
  BY <1>1, <1>2 DEF WellTyped, z3s
<1>4. FilesWereWritten'
  BY <1>1, <1>2 DEF FilesWereWritten
<1>5. SolversAreFollowed'
  BY <1>1, <1>2, SolversUntouched
<1>6. ModelIsMeant' /\ FactorsAreCurrent'
  BY <1>1 DEF ModelIsMeant, FactorsAreCurrent
<1> QED BY <1>3, <1>4, <1>5, <1>6 DEF IInv

LEMMA OneIsFollowed ==
  ASSUME WellTyped, SolversAreFollowed, NEW n \in z3s, NEW q \in Process, pipe' = [pipe EXCEPT ![n] = q],
         \A j \in z3s \ {n} : PointOf(j)' = PointOf(j) /\ ReaderOf(j)' = ReaderOf(j) /\ Said(j)' = Said(j),
         IsFollowed(q, Said(n)', PointOf(n)', ReaderOf(n)')
  PROVE  /\ z3s' = z3s /\ pipe' \in [z3s -> Process] /\ pipe'[n] = q
         /\ \A j \in z3s \ {n} : pipe'[j] = pipe[j]
         /\ SolversAreFollowed'
<1>1. pipe \in [z3s -> Process]
  BY DEF WellTyped
<1>2. /\ z3s' = z3s /\ pipe' \in [z3s -> Process] /\ pipe'[n] = q
      /\ \A j \in z3s \ {n} : pipe'[j] = pipe[j]
  BY <1>1 DEF z3s
<1>3. ASSUME NEW j \in z3s \ {n} PROVE IsFollowed(pipe'[j], Said(j)', PointOf(j)', ReaderOf(j)')
  <2>1. IsFollowed(pipe[j], Said(j), PointOf(j), ReaderOf(j))
    BY DEF SolversAreFollowed
  <2>2. pipe'[j] = pipe[j] /\ PointOf(j)' = PointOf(j) /\ ReaderOf(j)' = ReaderOf(j) /\ Said(j)' = Said(j)
    BY <1>2
  <2> QED BY <2>1, <2>2
<1>4. \A j \in z3s' : IsFollowed(pipe'[j], Said(j)', PointOf(j)', ReaderOf(j)')
  BY <1>2, <1>3
<1> QED BY <1>2, <1>4 DEF SolversAreFollowed

(* Commands to a process leave all of it but its input alone.                *)
LEMMA CommandsChange ==
  ASSUME WellTyped, NEW n \in z3s, NEW cs \in Seq(Input), Commands(n, cs)
  PROVE  \E q \in Process : /\ pipe' = [pipe EXCEPT ![n] = q]
                            /\ q.stdin = pipe[n].stdin \o cs /\ q.asserted = pipe[n].asserted
                            /\ q.modelled = pipe[n].modelled /\ q.stdout = pipe[n].stdout
<1>1. pipe \in [z3s -> Process] /\ pipe[n] \in Process
  BY DEF WellTyped
<1>2. PICK p \in Process : p = pipe[n]
  BY <1>1
<1> DEFINE q == [p EXCEPT !.stdin = @ \o cs]
<1>3. pipe' = [pipe EXCEPT ![n] = q]
  BY <1>1, <1>2 DEF Commands
<1>4. p.stdin \in Seq(Input) /\ p.stdin \o cs \in Seq(Input)
  <2>1. p.stdin \in Seq(Input)
    BY DEF Process
  <2> QED BY <2>1, ConcatProperties
<1>5. q \in Process
  <2>1. PICK c \in Seq(Input) : c = p.stdin \o cs
    BY <1>4
  <2>2. q = [p EXCEPT !.stdin = c]
    BY <2>1
  <2> QED BY <2>2 DEF Process
<1>6. q.stdin = p.stdin \o cs /\ q.asserted = p.asserted /\ q.modelled = p.modelled /\ q.stdout = p.stdout
  BY DEF Process
<1> HIDE DEF q
<1> QED BY <1>2, <1>3, <1>5, <1>6

LEMMA AskKeeps ==
  ASSUME IInv, Ask
  PROVE  IInv'
<1>1. /\ point = "open" /\ point' = "line" /\ source.kind = "z3" /\ source.name \in z3s
      /\ Commands(source.name, <<"check-sat", "get-model">>) /\ reader' = <<>> /\ factor' = {}
      /\ UNCHANGED <<space, source, target, files, mmaps, sent, dumped>>
  BY DEF Ask
<1>2. WellTyped /\ SolversAreFollowed /\ FilesWereWritten
  BY DEF IInv
<1>3. PICK n \in z3s : n = source.name
  BY <1>1
<1>4. <<"check-sat", "get-model">> \in Seq(Input)
  BY DEF Input, Queries
<1>5. PICK q \in Process :
        /\ pipe' = [pipe EXCEPT ![n] = q]
        /\ q.stdin = pipe[n].stdin \o <<"check-sat", "get-model">> /\ q.asserted = pipe[n].asserted
        /\ q.modelled = pipe[n].modelled /\ q.stdout = pipe[n].stdout
  BY <1>1, <1>2, <1>3, <1>4, CommandsChange
<1>6. PointOf(n)' = "line" /\ ReaderOf(n)' = <<>> /\ \A j : Said(j)' = Said(j)
  BY <1>1, <1>3 DEF PointOf, ReaderOf, Asking, Said
<1>7. \A j \in z3s \ {n} : PointOf(j)' = PointOf(j) /\ ReaderOf(j)' = ReaderOf(j)
  BY <1>1, <1>3 DEF PointOf, ReaderOf, Asking
<1>8. IsFollowed(q, Said(n), "line", <<>>)
  <2>1. pipe[n] \in Process /\ Said(n) \in SUBSET Statements /\ PointOf(n) = "none" /\ ReaderOf(n) = <<>>
    BY <1>1, <1>2, Typed
  <2>2. IsFollowed(pipe[n], Said(n), "none", <<>>)
    BY <1>2, <2>1 DEF SolversAreFollowed
  <2> QED BY <1>5, <2>1, <2>2, QuestionIsFollowed
<1>9. IsFollowed(q, Said(n)', PointOf(n)', ReaderOf(n)')
  BY <1>6, <1>8
<1>10. z3s' = z3s /\ pipe' \in [z3s -> Process] /\ SolversAreFollowed'
  BY <1>2, <1>5, <1>6, <1>7, <1>9, OneIsFollowed
<1>11. WellTyped'
  BY <1>1, <1>2, <1>10 DEF WellTyped
<1>12. FilesWereWritten'
  BY <1>1, <1>2 DEF FilesWereWritten
<1>13. ModelIsMeant' /\ FactorsAreCurrent'
  BY <1>1 DEF ModelIsMeant, FactorsAreCurrent
<1> QED BY <1>10, <1>11, <1>12, <1>13 DEF IInv

LEMMA MeantOfSolver ==
  ASSUME source.kind = "z3"
  PROVE  Meant = IF Contradicted(Said(source.name)) THEN {}
                 ELSE Below(source, {<<Sym(a)>> : a \in Said(source.name)})
<1>1. \A S : {Functor(source) \o x : x \in {<<Sym(a)>> : a \in S}} = {Functor(source) \o <<Sym(a)>> : a \in S}
  OBVIOUS
<1>2. Meant = IF \E x \in Contradictions : x \subseteq Said(source.name) THEN {}
              ELSE {Functor(source) \o <<Sym(a)>> : a \in Said(source.name)}
  BY DEF Meant, Said
<1> QED BY <1>1, <1>2 DEF Below, Contradicted

LEMMA ReplyKeeps ==
  ASSUME IInv, NEW i \in z3s, Reply(i)
  PROVE  IInv'
<1>1. /\ pipe[i].stdin # <<>> /\ pipe' = [pipe EXCEPT ![i] = Executed(pipe[i])]
      /\ UNCHANGED <<space, point, source, target, factor, files, mmaps, reader, sent, dumped>>
  BY DEF Reply
<1>2. WellTyped /\ SolversAreFollowed /\ FilesWereWritten /\ ModelIsMeant /\ FactorsAreCurrent
  BY DEF IInv
<1>3. pipe[i] \in Process /\ Said(i) \in SUBSET Statements /\ ReaderOf(i) \in Seq(Output)
  BY <1>2, Typed
<1>4. PICK q \in Process : q = Executed(pipe[i]) /\ Answers(pipe[i], q)
  BY <1>1, <1>3, ExecutedAnswers
<1>5. \A j : PointOf(j)' = PointOf(j) /\ ReaderOf(j)' = ReaderOf(j) /\ Said(j)' = Said(j)
  BY <1>1 DEF PointOf, ReaderOf, Asking, Said
<1>6. IsFollowed(pipe[i], Said(i), PointOf(i), ReaderOf(i))
  BY <1>2 DEF SolversAreFollowed
<1>7. /\ IsFollowed(q, Said(i), PointOf(i), ReaderOf(i))
      /\ Clean(Said(i)) /\ ~Contradicted(Said(i)) /\ PointOf(i) = "model"
           => ReaderOf(i) \o q.stdout = ModelOf(Said(i))
  <2>1. PICK p \in Process, said \in SUBSET Statements, read \in Seq(Output), at \in {PointOf(i)} :
          p = pipe[i] /\ said = Said(i) /\ read = ReaderOf(i) /\ at = PointOf(i)
    BY <1>3
  <2>2. IsFollowed(p, said, at, read) /\ Answers(p, q)
    BY <1>4, <1>6, <2>1
  <2>3. /\ IsFollowed(q, said, at, read)
        /\ Clean(said) /\ ~Contradicted(said) /\ at = "model" => read \o q.stdout = ModelOf(said)
    BY <2>2, AnswerIsFollowed
  <2> QED BY <2>1, <2>3
<1>8. IsFollowed(q, Said(i)', PointOf(i)', ReaderOf(i)')
  BY <1>5, <1>7
<1>9. /\ z3s' = z3s /\ pipe' \in [z3s -> Process] /\ pipe'[i] = q /\ SolversAreFollowed'
      /\ \A j \in z3s \ {i} : pipe'[j] = pipe[j]
  BY <1>1, <1>2, <1>4, <1>5, <1>8, OneIsFollowed
<1>10. WellTyped'
  BY <1>1, <1>2, <1>9 DEF WellTyped
<1>11. FilesWereWritten'
  BY <1>1, <1>2 DEF FilesWereWritten
<1>12. Meant' = Meant
  BY <1>1 DEF Meant, Functor, Apart, IsCopy
<1>13. ModelIsMeant'
  <2>1. SUFFICES ASSUME point = "model", Clean(Said(source.name)), ~Contradicted(Said(source.name)),
                        reader \o pipe'[source.name].stdout = <<Line(")")>>
                 PROVE  factor = Meant
    BY <1>1, <1>5, <1>12 DEF ModelIsMeant
  <2>2. source.name \in z3s /\ PointOf(source.name) = "model" /\ ReaderOf(source.name) = reader
    BY <1>2, <2>1, Typed
  <2>3. source.name # i
    BY <1>7, <1>9, <2>1, <2>2, EndIsNoModel
  <2>4. pipe'[source.name] = pipe[source.name]
    BY <1>9, <2>2, <2>3
  <2> QED BY <1>2, <2>1, <2>4 DEF ModelIsMeant
<1>14. FactorsAreCurrent'
  BY <1>1, <1>2, <1>12 DEF FactorsAreCurrent, IsSound
<1> QED BY <1>9, <1>10, <1>11, <1>13, <1>14 DEF IInv

LEMMA FillKeeps ==
  ASSUME IInv, Fill
  PROVE  IInv'
<1>1. /\ point \in {"line", "model"} /\ reader = <<>>
      /\ UNCHANGED <<space, point, source, target, factor, files, mmaps, sent, dumped>>
  BY DEF Fill
<1>2. WellTyped /\ SolversAreFollowed /\ FilesWereWritten /\ ModelIsMeant
  BY DEF IInv
<1>3. /\ source.name \in z3s /\ PointOf(source.name) = point /\ ReaderOf(source.name) = reader
  BY <1>1, <1>2, Typed
<1>4. PICK n \in z3s : n = source.name
  BY <1>3
<1>5. PICK p \in Process : p = pipe[n] /\ pipe \in [z3s -> Process] /\ Said(n) \in SUBSET Statements
  BY <1>2, Typed DEF WellTyped
<1>6. PICK m \in DOMAIN p.stdout :
        /\ reader' = SubSeq(p.stdout, 1, m)
        /\ pipe' = [pipe EXCEPT ![n].stdout = SubSeq(@, m + 1, Len(@))]
  BY <1>4, <1>5 DEF Fill
<1>7. p.stdout \in Seq(Output) /\ Len(p.stdout) \in Nat /\ m \in 1 .. Len(p.stdout)
  <2>1. p.stdout \in Seq(Output)
    BY DEF Process
  <2> QED BY <1>6, <2>1, LenProperties
<1> DEFINE rest == SubSeq(p.stdout, m + 1, Len(p.stdout))
           q == [p EXCEPT !.stdout = rest]
<1>8. rest \in Seq(Output) /\ reader' \in Seq(Output) /\ Len(reader') = m
  <2>1. rest \in Seq(Output)
    BY <1>7, SubSeqProperties
  <2>2. reader' \in Seq(Output) /\ Len(reader') = m
    BY <1>6, <1>7, SubSeqProperties
  <2> QED BY <2>1, <2>2
<1>9. p.stdout = reader' \o rest
  <2>1. SubSeq(p.stdout, 1, m) \o SubSeq(p.stdout, m + 1, Len(p.stdout)) = SubSeq(p.stdout, 1, Len(p.stdout))
    <3>1. PICK s \in Seq(Output), n1 \in Nat : s = p.stdout /\ n1 = Len(s)
      BY <1>7
    <3>2. 1 \in 1 .. n1 + 1 /\ m \in 1 - 1 .. n1 /\ n1 \in m .. n1
      BY <1>7, <3>1
    <3>3. SubSeq(s, 1, m) \o SubSeq(s, m + 1, n1) = SubSeq(s, 1, n1)
      BY <3>1, <3>2, ConcatAdjacentSubSeq
    <3> QED BY <3>1, <3>3
  <2>2. SubSeq(p.stdout, 1, Len(p.stdout)) = p.stdout
    BY <1>7
  <2> QED BY <1>6, <2>1, <2>2
<1>10. reader' # <<>>
  BY <1>7, <1>8
<1>11. pipe' = [pipe EXCEPT ![n] = q]
  BY <1>5, <1>6
<1> HIDE DEF rest
<1>12. q \in Process /\ q.stdout = rest /\ q.stdin = p.stdin /\ q.asserted = p.asserted /\ q.modelled = p.modelled
  BY <1>8 DEF Process
<1> HIDE DEF q
<1>13. /\ PointOf(n)' = point /\ ReaderOf(n)' = reader' /\ \A j : Said(j)' = Said(j)
       /\ \A j \in z3s \ {n} : PointOf(j)' = PointOf(j) /\ ReaderOf(j)' = ReaderOf(j)
  BY <1>1, <1>4 DEF PointOf, ReaderOf, Asking, Said
<1>14. IsFollowed(q, Said(n), point, reader')
  <2>1. IsFollowed(p, Said(n), point, <<>>)
    BY <1>1, <1>2, <1>3, <1>4, <1>5 DEF SolversAreFollowed
  <2>2. p.stdout = reader' \o q.stdout
    BY <1>9, <1>12
  <2> QED BY <1>1, <1>5, <1>8, <1>10, <1>12, <2>1, <2>2, FillIsFollowed
<1>15. z3s' = z3s /\ pipe' \in [z3s -> Process] /\ pipe'[n] = q /\ SolversAreFollowed'
  <2>1. IsFollowed(q, Said(n)', PointOf(n)', ReaderOf(n)')
    BY <1>13, <1>14
  <2> QED BY <1>2, <1>11, <1>12, <1>13, <2>1, OneIsFollowed
<1>16. WellTyped'
  BY <1>1, <1>2, <1>8, <1>15 DEF WellTyped
<1>17. FilesWereWritten'
  BY <1>1, <1>2 DEF FilesWereWritten
<1>18. ModelIsMeant'
  <2>1. Meant' = Meant
    BY <1>1 DEF Meant, Functor, Apart, IsCopy
  <2>2. reader \o pipe[source.name].stdout = reader' \o pipe'[source.name].stdout
    <3>1. <<>> \o p.stdout = p.stdout
      BY <1>7, ConcatEmptySeq
    <3> QED BY <1>1, <1>4, <1>5, <1>9, <1>12, <1>15, <3>1
  <2> QED BY <1>1, <1>2, <1>13, <2>1, <2>2 DEF ModelIsMeant
<1>19. FactorsAreCurrent'
  BY <1>1 DEF FactorsAreCurrent
<1> QED BY <1>15, <1>16, <1>17, <1>18, <1>19 DEF IInv

LEMMA ReadStatusKeeps ==
  ASSUME IInv, ReadStatus
  PROVE  IInv'
<1>1. /\ point = "line" /\ reader # <<>>
      /\ \/ Head(reader) = Line("sat") /\ point' = "model" /\ reader' = Tail(reader)
         \/ Head(reader) # Line("sat") /\ point' = "finalize" /\ reader' = <<>>
      /\ UNCHANGED <<space, source, target, factor, files, mmaps, pipe, sent, dumped>>
  BY DEF ReadStatus
<1>2. WellTyped /\ SolversAreFollowed /\ FilesWereWritten
  BY DEF IInv
<1>3. source.kind = "z3" /\ PointOf(source.name) = point /\ ReaderOf(source.name) = reader /\ reader \in Seq(Output)
  BY <1>1, <1>2, Typed DEF WellTyped
<1>4. PICK n \in z3s : n = source.name
  BY <1>1, <1>2, Typed
<1>5. pipe[n] \in Process /\ Said(n) \in SUBSET Statements
  BY <1>2, Typed
<1>6. IsFollowed(pipe[n], Said(n), "line", reader)
  BY <1>1, <1>2, <1>3, <1>4 DEF SolversAreFollowed
<1>7. /\ Head(reader) = Line("sat") => IsFollowed(pipe[n], Said(n), "model", Tail(reader))
      /\ Head(reader) # Line("sat") => IsFollowed(pipe[n], Said(n), "none", <<>>)
      /\ Clean(Said(n)) => (Head(reader) = Line("sat") <=> ~Contradicted(Said(n)))
      /\ Clean(Said(n)) /\ ~Contradicted(Said(n)) => Tail(reader) \o pipe[n].stdout # <<Line(")")>>
  BY <1>1, <1>3, <1>5, <1>6, StatusIsFollowed
<1>8. Tail(reader) \in Seq(Output) /\ <<>> \in Seq(Output)
  <2>1. Tail(reader) \in Seq(Output)
    BY <1>1, <1>3, HeadAndRest
  <2>2. <<>> \in Seq(Output)
    OBVIOUS
  <2> QED BY <2>1, <2>2
<1>9. WellTyped'
  BY <1>1, <1>2, <1>3, <1>8 DEF WellTyped, z3s
<1>10. FilesWereWritten'
  BY <1>1, <1>2 DEF FilesWereWritten
<1>11. /\ \A j : Said(j)' = Said(j)
       /\ \A j \in z3s \ {n} : PointOf(j)' = "none" /\ ReaderOf(j)' = <<>> /\ PointOf(j) = "none" /\ ReaderOf(j) = <<>>
       /\ z3s' = z3s /\ pipe' = pipe
  BY <1>1, <1>4 DEF PointOf, ReaderOf, Asking, Said, z3s
<1>12. IsFollowed(pipe[n], Said(n), PointOf(n)', ReaderOf(n)')
  <2>1. CASE Head(reader) = Line("sat")
    <3>1. PointOf(n)' = "model" /\ ReaderOf(n)' = Tail(reader)
      BY <1>1, <1>4, <2>1 DEF PointOf, ReaderOf, Asking
    <3> QED BY <1>7, <2>1, <3>1
  <2>2. CASE Head(reader) # Line("sat")
    <3>1. PointOf(n)' = "none" /\ ReaderOf(n)' = <<>>
      BY <1>1, <1>4, <2>2 DEF PointOf, ReaderOf, Asking
    <3> QED BY <1>7, <2>2, <3>1
  <2> QED BY <2>1, <2>2
<1>13. SolversAreFollowed'
  <2>1. ASSUME NEW j \in z3s PROVE IsFollowed(pipe[j], Said(j), PointOf(j)', ReaderOf(j)')
    <3>1. CASE j = n
      BY <1>12, <3>1
    <3>2. CASE j # n
      BY <1>2, <1>11, <3>2 DEF SolversAreFollowed
    <3> QED BY <3>1, <3>2
  <2>2. ASSUME NEW j \in z3s' PROVE IsFollowed(pipe'[j], Said(j)', PointOf(j)', ReaderOf(j)')
    BY <1>11, <2>1
  <2> QED BY <2>2 DEF SolversAreFollowed
<1>14. ModelIsMeant'
  <2>1. CASE Head(reader) = Line("sat")
    <3>1. source' = source /\ pipe' = pipe /\ reader' = Tail(reader)
      BY <1>1, <2>1
    <3>2. Said(source.name)' = Said(n)
      BY <1>4, <1>11, <3>1 DEF Said
    <3> QED BY <1>4, <1>7, <3>1, <3>2 DEF ModelIsMeant
  <2>2. CASE Head(reader) # Line("sat")
    BY <1>1, <2>2 DEF ModelIsMeant
  <2> QED BY <2>1, <2>2
<1>15. FactorsAreCurrent'
  <2>1. CASE Head(reader) = Line("sat")
    BY <1>1, <2>1 DEF FactorsAreCurrent
  <2>2. CASE Head(reader) # Line("sat")
    <3>1. factor' = {}
      BY <1>1, <1>2 DEF WellTyped
    <3>2. IsSound' => Clean(Said(n))
      BY <1>1, <1>3, <1>4 DEF IsSound, Clean, Said
    <3>3. Meant' = Meant
      BY <1>1 DEF Meant, Functor, Apart, IsCopy
    <3>4. Clean(Said(n)) => Meant = {}
      BY <1>3, <1>4, <1>7, <2>2, MeantOfSolver
    <3> QED BY <3>1, <3>2, <3>3, <3>4 DEF FactorsAreCurrent
  <2> QED BY <2>1, <2>2
<1> QED BY <1>9, <1>10, <1>13, <1>14, <1>15 DEF IInv

LEMMA ReadModelKeeps ==
  ASSUME IInv, ReadModel
  PROVE  IInv'
<1>1. /\ point = "model" /\ reader # <<>>
      /\ \/ Head(reader) = Line(")") /\ point' = "finalize" /\ reader' = <<>> /\ factor' = factor
         \/ /\ Head(reader) # Line(")") /\ point' = "model" /\ reader' = Tail(reader)
            /\ factor' = Below(source, {<<Sym(a)>> : a \in Head(reader)[2]})
      /\ UNCHANGED <<space, source, target, files, mmaps, pipe, sent, dumped>>
  BY DEF ReadModel
<1>2. WellTyped /\ SolversAreFollowed /\ FilesWereWritten /\ ModelIsMeant
  BY DEF IInv
<1>3. source.kind = "z3" /\ PointOf(source.name) = point /\ ReaderOf(source.name) = reader /\ reader \in Seq(Output)
  BY <1>1, <1>2, Typed DEF WellTyped
<1>4. PICK n \in z3s : n = source.name
  BY <1>1, <1>2, Typed
<1>5. pipe[n] \in Process /\ Said(n) \in SUBSET Statements
  BY <1>2, Typed
<1>6. IsFollowed(pipe[n], Said(n), "model", reader)
  BY <1>1, <1>2, <1>3, <1>4 DEF SolversAreFollowed
<1>7. /\ Head(reader) = Line(")") => IsFollowed(pipe[n], Said(n), "none", <<>>)
      /\ Head(reader) # Line(")") => IsFollowed(pipe[n], Said(n), "model", Tail(reader))
      /\ Clean(Said(n)) => ~Contradicted(Said(n))
      /\ Clean(Said(n)) /\ Head(reader) = Line(")") => reader \o pipe[n].stdout = <<Line(")")>>
      /\ Clean(Said(n)) /\ Head(reader) # Line(")") => Head(reader)[2] = Said(n)
  BY <1>1, <1>3, <1>5, <1>6, ModelIsFollowed
<1>8. Tail(reader) \in Seq(Output) /\ <<>> \in Seq(Output)
  <2>1. Tail(reader) \in Seq(Output)
    BY <1>1, <1>3, HeadAndRest
  <2>2. <<>> \in Seq(Output)
    OBVIOUS
  <2> QED BY <2>1, <2>2
<1>9. WellTyped'
  BY <1>1, <1>2, <1>3, <1>8 DEF WellTyped, z3s
<1>10. FilesWereWritten'
  BY <1>1, <1>2 DEF FilesWereWritten
<1>11. /\ \A j : Said(j)' = Said(j)
       /\ \A j \in z3s \ {n} : PointOf(j)' = "none" /\ ReaderOf(j)' = <<>> /\ PointOf(j) = "none" /\ ReaderOf(j) = <<>>
       /\ z3s' = z3s /\ pipe' = pipe
  BY <1>1, <1>4 DEF PointOf, ReaderOf, Asking, Said, z3s
<1>12. IsFollowed(pipe[n], Said(n), PointOf(n)', ReaderOf(n)')
  <2>1. CASE Head(reader) = Line(")")
    <3>1. PointOf(n)' = "none" /\ ReaderOf(n)' = <<>>
      BY <1>1, <1>4, <2>1 DEF PointOf, ReaderOf, Asking
    <3> QED BY <1>7, <2>1, <3>1
  <2>2. CASE Head(reader) # Line(")")
    <3>1. PointOf(n)' = "model" /\ ReaderOf(n)' = Tail(reader)
      BY <1>1, <1>4, <2>2 DEF PointOf, ReaderOf, Asking
    <3> QED BY <1>7, <2>2, <3>1
  <2> QED BY <2>1, <2>2
<1>13. SolversAreFollowed'
  <2>1. ASSUME NEW j \in z3s PROVE IsFollowed(pipe[j], Said(j), PointOf(j)', ReaderOf(j)')
    <3>1. CASE j = n
      BY <1>12, <3>1
    <3>2. CASE j # n
      BY <1>2, <1>11, <3>2 DEF SolversAreFollowed
    <3> QED BY <3>1, <3>2
  <2>2. ASSUME NEW j \in z3s' PROVE IsFollowed(pipe'[j], Said(j)', PointOf(j)', ReaderOf(j)')
    BY <1>11, <2>1
  <2> QED BY <2>2 DEF SolversAreFollowed
<1>14. Meant' = Meant
  BY <1>1 DEF Meant, Functor, Apart, IsCopy
<1>15. Head(reader) # Line(")") /\ Clean(Said(n)) => factor' = Meant
  BY <1>1, <1>3, <1>4, <1>7, MeantOfSolver
<1>16. ModelIsMeant'
  <2>1. Said(source.name)' = Said(n)
    BY <1>1, <1>4 DEF Said
  <2> QED BY <1>1, <1>14, <1>15, <2>1 DEF ModelIsMeant
<1>17. FactorsAreCurrent'
  <2>1. CASE Head(reader) = Line(")")
    <3>1. IsSound' => Clean(Said(n))
      BY <1>1, <1>3, <1>4 DEF IsSound, Clean, Said
    <3>2. Clean(Said(n)) => factor = Meant
      BY <1>1, <1>2, <1>4, <1>7, <2>1 DEF ModelIsMeant
    <3> QED BY <1>1, <1>14, <2>1, <3>1, <3>2 DEF FactorsAreCurrent
  <2>2. CASE Head(reader) # Line(")")
    BY <1>1, <2>2 DEF FactorsAreCurrent
  <2> QED BY <2>1, <2>2
<1> QED BY <1>9, <1>10, <1>13, <1>16, <1>17 DEF IInv

LEMMA FinalizeFileKeeps ==
  ASSUME IInv, NEW dump \in Dumps, FinalizeFile(dump)
  PROVE  IInv'
<1>1. /\ point = "finalize" /\ point' = "idle" /\ target.kind = "ACT"
      /\ \/ /\ files' = With(files, target.name, dump)
            /\ dumped' = [dumped EXCEPT ![target.name] = @ \cup {dump}]
         \/ files' = files /\ dumped' = dumped
      /\ UNCHANGED <<space, source, target, factor, mmaps, pipe, reader, sent>>
  BY DEF FinalizeFile, Finished
<1>2. WellTyped /\ SolversAreFollowed /\ FilesWereWritten
  BY DEF IInv
<1>3. WellTyped'
  BY <1>1, <1>2 DEF WellTyped, z3s
<1>4. target.name \in Files
  <2>1. target \in {Nothing} \cup {ToFile(f) : f \in Files} \cup {ToSolver(i) : i \in Solvers}
    BY <1>2 DEF WellTyped, Targets
  <2> QED BY <1>1, <2>1 DEF Nothing, ToFile, ToSolver
<1>5. FilesWereWritten'
  <2>1. CASE files' = With(files, target.name, dump) /\ dumped' = [dumped EXCEPT ![target.name] = @ \cup {dump}]
    <3>1. PICK t \in Files : t = target.name
      BY <1>4
    <3>2. /\ DOMAIN dumped = Files /\ dumped = [f \in Files |-> dumped[f]]
          /\ DOMAIN files \subseteq Files /\ DOMAIN mmaps \subseteq Files
          /\ mmaps = [f \in DOMAIN mmaps |-> mmaps[f]]
          /\ \A f \in DOMAIN files : files[f] \in dumped[f]
          /\ \A f \in DOMAIN mmaps : mmaps[f] \in dumped[f]
      BY <1>2 DEF FilesWereWritten
    <3>3. files' = [k \in DOMAIN files \cup {t} |-> IF k = t THEN dump ELSE files[k]]
      BY <2>1, <3>1 DEF With
    <3>4. DOMAIN files' = DOMAIN files \cup {t} /\ files' = [f \in DOMAIN files' |-> files'[f]]
      BY <3>3
    <3>5. /\ dumped' = [f \in Files |-> dumped'[f]]
          /\ \A f \in Files : dumped[f] \subseteq dumped'[f]
          /\ dump \in dumped'[t]
      BY <2>1, <3>1, <3>2
    <3>6. \A f \in DOMAIN files' : files'[f] \in dumped'[f]
      BY <3>2, <3>3, <3>4, <3>5
    <3>7. \A f \in DOMAIN mmaps : mmaps[f] \in dumped'[f]
      BY <3>2, <3>5
    <3> QED BY <1>1, <3>1, <3>2, <3>4, <3>5, <3>6, <3>7 DEF FilesWereWritten
  <2>2. CASE files' = files /\ dumped' = dumped
    BY <1>1, <1>2, <2>2 DEF FilesWereWritten
  <2> QED BY <1>1, <2>1, <2>2
<1>6. SolversAreFollowed'
  BY <1>1, <1>2, SolversUntouched
<1>7. ModelIsMeant' /\ FactorsAreCurrent'
  BY <1>1 DEF ModelIsMeant, FactorsAreCurrent
<1> QED BY <1>3, <1>5, <1>6, <1>7 DEF IInv

LEMMA FinalizeSolverKeeps ==
  ASSUME IInv, NEW batch \in Batches, FinalizeSolver(batch)
  PROVE  IInv'
<1>1. /\ point = "finalize" /\ point' = "idle" /\ target.kind = "z3"
      /\ Commands(target.name, batch) /\ sent' = [sent EXCEPT ![target.name] = @ \o batch]
      /\ UNCHANGED <<space, source, target, factor, files, mmaps, reader, dumped>>
  BY DEF FinalizeSolver, Finished
<1>2. WellTyped /\ SolversAreFollowed /\ FilesWereWritten
  BY DEF IInv
<1>3. PICK n \in z3s : n = target.name
  BY <1>1, <1>2 DEF WellTyped
<1>4. batch \in Seq(Statements) /\ batch \in Seq(Input)
  <2>1. batch \in Seq(ToSet(batch)) /\ ToSet(batch) \subseteq Statements
    BY BatchesAssumption DEF Statements
  <2>2. \A S, T : S \subseteq T => Seq(S) \subseteq Seq(T)
    OBVIOUS
  <2>3. ToSet(batch) \subseteq Input
    BY <2>1 DEF Input
  <2> QED BY <2>1, <2>2, <2>3, Zenon
<1>5. PICK q \in Process :
        /\ pipe' = [pipe EXCEPT ![n] = q]
        /\ q.stdin = pipe[n].stdin \o batch /\ q.asserted = pipe[n].asserted
        /\ q.modelled = pipe[n].modelled /\ q.stdout = pipe[n].stdout
  BY <1>1, <1>2, <1>3, <1>4, CommandsChange
<1>6. \A j : PointOf(j)' = "none" /\ ReaderOf(j)' = <<>> /\ PointOf(j) = "none" /\ ReaderOf(j) = <<>>
  BY <1>1 DEF PointOf, ReaderOf, Asking
<1>7. sent \in [z3s -> Seq(Statements)] /\ sent[n] \in Seq(Statements) /\ sent[n] \o batch \in Seq(Statements)
  <2>1. sent \in [z3s -> Seq(Statements)] /\ sent[n] \in Seq(Statements)
    BY <1>2 DEF WellTyped
  <2> QED BY <1>4, <2>1, ConcatProperties
<1>8. /\ sent' \in [z3s -> Seq(Statements)] /\ sent'[n] = sent[n] \o batch
      /\ \A j \in z3s \ {n} : sent'[j] = sent[j]
  <2>1. PICK s \in Seq(Statements) : s = sent[n] \o batch
    BY <1>7
  <2>2. sent' = [sent EXCEPT ![n] = s]
    BY <1>1, <1>3, <2>1
  <2> QED BY <1>7, <2>1, <2>2
<1>9. Said(n)' = Said(n) \cup ToSet(batch) /\ \A j \in z3s \ {n} : Said(j)' = Said(j)
  <2>1. ToSet(sent[n] \o batch) = ToSet(sent[n]) \cup ToSet(batch)
    BY <1>4, <1>7, Behind
  <2> QED BY <1>8, <2>1 DEF Said
<1>10. IsFollowed(q, Said(n) \cup ToSet(batch), "none", <<>>)
  <2>1. pipe[n] \in Process /\ Said(n) \in SUBSET Statements
    BY <1>2, Typed
  <2>2. IsFollowed(pipe[n], Said(n), "none", <<>>)
    BY <1>2, <1>6 DEF SolversAreFollowed
  <2> QED BY <1>4, <1>5, <2>1, <2>2, BatchIsFollowed
<1>11. z3s' = z3s /\ pipe' \in [z3s -> Process] /\ SolversAreFollowed'
  <2>1. IsFollowed(q, Said(n)', PointOf(n)', ReaderOf(n)')
    BY <1>6, <1>9, <1>10
  <2>2. \A j \in z3s \ {n} : PointOf(j)' = PointOf(j) /\ ReaderOf(j)' = ReaderOf(j) /\ Said(j)' = Said(j)
    BY <1>6, <1>9
  <2> QED BY <1>2, <1>5, <2>1, <2>2, OneIsFollowed
<1>12. WellTyped'
  BY <1>1, <1>2, <1>8, <1>11 DEF WellTyped
<1>13. FilesWereWritten'
  BY <1>1, <1>2 DEF FilesWereWritten
<1>14. ModelIsMeant' /\ FactorsAreCurrent'
  BY <1>1 DEF ModelIsMeant, FactorsAreCurrent
<1> QED BY <1>11, <1>12, <1>13, <1>14 DEF IInv

LEMMA FinalizeNothingKeeps ==
  ASSUME IInv, FinalizeNothing
  PROVE  IInv'
<1>1. /\ point = "finalize" /\ point' = "idle"
      /\ UNCHANGED <<space, source, target, factor, files, mmaps, pipe, reader, sent, dumped>>
  BY DEF FinalizeNothing, Finished
<1>2. WellTyped /\ SolversAreFollowed /\ FilesWereWritten
  BY DEF IInv
<1>3. WellTyped'
  BY <1>1, <1>2 DEF WellTyped, z3s
<1>4. FilesWereWritten'
  BY <1>1, <1>2 DEF FilesWereWritten
<1>5. SolversAreFollowed'
  BY <1>1, <1>2, SolversUntouched
<1>6. ModelIsMeant' /\ FactorsAreCurrent'
  BY <1>1 DEF ModelIsMeant, FactorsAreCurrent
<1> QED BY <1>3, <1>4, <1>5, <1>6 DEF IInv

-----------------------------------------------------------------------------
(* Theorems *)

LEMMA InitInvariant ==
  ASSUME RInit
  PROVE  IInv
<1>1. /\ space \in Spaces /\ point = "idle" /\ source = Nothing /\ target = Nothing /\ factor = {}
      /\ files = <<>> /\ mmaps = <<>> /\ pipe = <<>> /\ reader = <<>> /\ sent = <<>>
      /\ dumped = [f \in Files |-> {}]
  BY DEF RInit
<1>2. DOMAIN <<>> = {}
  OBVIOUS
<1>3. z3s = {}
  BY <1>1, <1>2 DEF z3s
<1>4. pipe \in [z3s -> Process] /\ sent \in [z3s -> Seq(Statements)]
  <2>1. \A S : <<>> \in [{} -> S]
    OBVIOUS
  <2> QED BY <1>1, <1>3, <2>1
<1>5. WellTyped
  <2>1. reader \in Seq(Output)
    BY <1>1
  <2>2. source.kind = "none" /\ target.kind = "none" /\ target \in Targets
    BY <1>1 DEF Nothing, Targets
  <2> QED BY <1>1, <1>4, <2>1, <2>2 DEF WellTyped
<1>6. FilesWereWritten
  BY <1>1, <1>2 DEF FilesWereWritten
<1>7. SolversAreFollowed
  BY <1>3 DEF SolversAreFollowed
<1>8. ModelIsMeant /\ FactorsAreCurrent
  BY <1>1 DEF ModelIsMeant, FactorsAreCurrent
<1> QED BY <1>5, <1>6, <1>7, <1>8 DEF IInv

LEMMA StepKeeps ==
  ASSUME IInv, [RNext]_rvars
  PROVE  IInv'
<1>1. ASSUME NEW s \in Sources, NEW t \in Targets, Take(s, t) PROVE IInv'
  BY <1>1, TakeKeeps
<1>2. CASE OpenSpace
  BY <1>2, OpenSpaceKeeps
<1>3. CASE OpenFile
  BY <1>3, OpenFileKeeps
<1>4. CASE OpenMissing
  BY <1>4, OpenMissingKeeps
<1>5. CASE Ask
  BY <1>5, AskKeeps
<1>6. CASE Fill
  BY <1>6, FillKeeps
<1>7. CASE ReadStatus
  BY <1>7, ReadStatusKeeps
<1>8. CASE ReadModel
  BY <1>8, ReadModelKeeps
<1>9. ASSUME NEW dump \in Dumps, FinalizeFile(dump) PROVE IInv'
  BY <1>9, FinalizeFileKeeps
<1>10. ASSUME NEW batch \in Batches, FinalizeSolver(batch) PROVE IInv'
  BY <1>10, FinalizeSolverKeeps
<1>11. CASE FinalizeNothing
  BY <1>11, FinalizeNothingKeeps
<1>12. ASSUME NEW i \in z3s, Reply(i) PROVE IInv'
  BY <1>12, ReplyKeeps
<1>13. CASE UNCHANGED rvars
  <2>1. UNCHANGED <<space, point, source, target, factor, files, mmaps, pipe, reader, sent, dumped>>
    BY <1>13 DEF rvars
  <2>2. WellTyped /\ FilesWereWritten /\ SolversAreFollowed /\ ModelIsMeant /\ FactorsAreCurrent
    BY DEF IInv
  <2>3. WellTyped'
    BY <2>1, <2>2 DEF WellTyped, z3s
  <2>4. FilesWereWritten'
    BY <2>1, <2>2 DEF FilesWereWritten
  <2>5. SolversAreFollowed'
    BY <2>1, <2>2 DEF SolversAreFollowed, z3s, Said, PointOf, ReaderOf, Asking
  <2>6. Meant' = Meant /\ IsSound' = IsSound
    BY <2>1 DEF Meant, Functor, Apart, IsCopy, IsSound
  <2>7. ModelIsMeant' /\ FactorsAreCurrent'
    BY <2>1, <2>2, <2>6 DEF ModelIsMeant, FactorsAreCurrent, Said
  <2> QED BY <2>3, <2>4, <2>5, <2>7 DEF IInv
<1> QED BY <1>1, <1>2, <1>3, <1>4, <1>5, <1>6, <1>7, <1>8, <1>9, <1>10, <1>11, <1>12, <1>13 DEF RNext

LEMMA Invariance == RSpec => []IInv
<1>1. RInit => IInv
  BY InitInvariant
<1>2. IInv /\ [RNext]_rvars => IInv'
  BY StepKeeps
<1> QED BY <1>1, <1>2, PTL DEF RSpec

(* What was sent to a solver is asserted or waits for it; a mapped file was   *)
(* written.                                                                   *)
THEOREM TypeCorrectness == RSpec => []ResourcesTypeOK
<1>1. IInv => ResourcesTypeOK
  <2> SUFFICES ASSUME IInv PROVE ResourcesTypeOK
    OBVIOUS
  <2>1. WellTyped /\ FilesWereWritten /\ SolversAreFollowed
    BY DEF IInv
  <2>2. point \in {"idle", "open", "line", "model", "finalize", "panic"}
    BY <2>1 DEF WellTyped
  <2>3. ASSUME NEW i \in z3s
        PROVE  pipe[i].asserted \cup ToSet(pipe[i].stdin) \cup IllFormed
                 = ToSet(sent[i]) \cup IllFormed \cup (ToSet(pipe[i].stdin) \cap {"check-sat", "get-model"})
    <3>1. NothingIsLost(pipe[i], Said(i))
      BY <2>1 DEF SolversAreFollowed, IsFollowed
    <3> QED BY <3>1 DEF NothingIsLost, Said, Queries
  <2>4. \A f \in DOMAIN mmaps : mmaps[f] \in dumped[f]
    BY <2>1 DEF FilesWereWritten
  <2> QED BY <2>2, <2>3, <2>4 DEF ResourcesTypeOK
<1> QED BY <1>1, Invariance, PTL

(* The factor of a query is what its source stands for at that time.          *)
THEOREM FactorCorrectness == RSpec => []FactorsAreCurrent
<1>1. IInv => FactorsAreCurrent
  BY DEF IInv
<1> QED BY <1>1, Invariance, PTL

(* No query waits for a line of Z3 that will not come.                        *)
THEOREM ReadsAreAnswered == RSpec => []NoReadInVain
<1>1. IInv => NoReadInVain
  <2> SUFFICES ASSUME IInv, point \in {"line", "model"}, reader = <<>>
               PROVE  pipe[source.name].stdin # <<>> \/ pipe[source.name].stdout # <<>>
    BY DEF NoReadInVain
  <2>1. WellTyped /\ SolversAreFollowed
    BY DEF IInv
  <2>2. PICK n \in z3s : n = source.name
    BY <2>1, Typed
  <2>3. PointOf(n) = point /\ ReaderOf(n) = <<>>
    BY <2>1, <2>2, Typed
  <2>4. ModelFollows(pipe[n]) /\ LinesWillCome(pipe[n], point, <<>>)
    BY <2>1, <2>3 DEF SolversAreFollowed, IsFollowed
  <2>5. ToSet(<<>>) = {}
    BY DEF ToSet
  <2> QED BY <2>2, <2>4, <2>5 DEF ModelFollows, LinesWillCome
<1> QED BY <1>1, Invariance, PTL
=============================================================================
