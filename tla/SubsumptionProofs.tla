------------------------- MODULE SubsumptionProofs -------------------------
(***************************************************************************)
(* For every set of requests and every number of templates: the resources  *)
(* an exec opens never overlap, and every template is given one that       *)
(* covers its request.                                                     *)
(***************************************************************************)
EXTENDS Subsumption, SequenceTheorems, TLAPS

(* On prefixes of one path the order of slices is the order of lengths. *)
LEMMA LexByLength ==
  ASSUME NEW p \in Seq(Nat), NEW q \in Seq(Nat), NEW r \in Seq(Nat),
         PrefixOf(p, r), PrefixOf(q, r)
  PROVE  /\ LexLess(p, q) <=> Len(p) < Len(q)
         /\ p = q <=> Len(p) = Len(q)
<1>1. ASSUME LexLess(p, q) PROVE Len(p) < Len(q)
  <2>1. PICK k \in 1 .. Len(q) :
          /\ \A m \in 1 .. k - 1 : m <= Len(p) /\ p[m] = q[m]
          /\ k = Len(p) + 1 \/ (k <= Len(p) /\ p[k] < q[k])
    BY <1>1 DEF LexLess
  <2>2. CASE k = Len(p) + 1
    BY <2>2
  <2>3. CASE k <= Len(p) /\ p[k] < q[k]
    <3>1. p[k] = r[k] /\ q[k] = r[k]
      BY <2>3 DEF PrefixOf
    <3>2. r[k] \in Nat
      BY <2>3 DEF PrefixOf
    <3> QED BY <2>3, <3>1, <3>2
  <2> QED BY <2>1, <2>2, <2>3
<1>2. ASSUME Len(p) < Len(q) PROVE LexLess(p, q)
  <2> DEFINE k == Len(p) + 1
  <2>1. k \in 1 .. Len(q) /\ k = Len(p) + 1
    BY <1>2
  <2>2. ASSUME NEW m \in 1 .. k - 1 PROVE m <= Len(p) /\ p[m] = q[m]
    <3>1. m \in 1 .. Len(p) /\ m \in 1 .. Len(q) /\ m <= Len(p)
      BY <1>2
    <3>2. p[m] = r[m] /\ q[m] = r[m]
      BY <3>1 DEF PrefixOf
    <3> QED BY <3>1, <3>2
  <2> HIDE DEF k
  <2> QED BY <2>1, <2>2 DEF LexLess
<1>3. ASSUME Len(p) = Len(q) PROVE p = q
  <2>1. \A m \in 1 .. Len(p) : p[m] = q[m]
    BY <1>3 DEF PrefixOf
  <2> QED BY <1>3, <2>1, SeqEqual
<1> QED BY <1>1, <1>2, <1>3

LEMMA CoversReflexive ==
  ASSUME NEW a \in Requests
  PROVE  Covers(a, a)
BY RequestsAssumption DEF Covers, PrefixOf

LEMMA CoversTransitive ==
  ASSUME NEW a \in Requests, NEW b \in Requests, NEW c \in Requests,
         Covers(a, b), Covers(b, c)
  PROVE  Covers(a, c)
<1>1. a.path \in Seq(Nat) /\ b.path \in Seq(Nat) /\ c.path \in Seq(Nat)
  BY RequestsAssumption
<1>2. CASE a.kind = "BTM"
  BY <1>1, <1>2 DEF Covers, PrefixOf
<1>3. CASE a.kind # "BTM"
  BY <1>3 DEF Covers
<1> QED BY <1>2, <1>3

(* Covering requests are not longer, and equal when they are as long. *)
LEMMA CoversLength ==
  ASSUME NEW a \in Requests, NEW b \in Requests, Covers(a, b)
  PROVE  /\ Len(a.path) <= Len(b.path)
         /\ Len(a.path) = Len(b.path) => a = b
<1>1. a.path \in Seq(Nat) /\ b.path \in Seq(Nat)
  BY RequestsAssumption
<1>2. a \in [kind : Kinds, path : Seq(Nat)] /\ b \in [kind : Kinds, path : Seq(Nat)]
  BY RequestsAssumption
<1>3. ASSUME a.path = b.path PROVE a = b
  BY <1>2, <1>3 DEF Covers
<1>4. CASE a.kind = "BTM"
  <2>1. PrefixOf(a.path, b.path)
    BY <1>4 DEF Covers
  <2>2. PrefixOf(b.path, b.path)
    BY <1>1 DEF PrefixOf
  <2>3. Len(a.path) = Len(b.path) => a.path = b.path
    BY <1>1, <2>1, <2>2, LexByLength
  <2> QED BY <1>1, <1>3, <2>1, <2>3 DEF PrefixOf
<1>5. CASE a.kind # "BTM"
  BY <1>1, <1>3, <1>5 DEF Covers
<1> QED BY <1>4, <1>5

(* VariantsAgree, for any request sequence. *)
LEMMA BetterIsByLength ==
  ASSUME requests \in Seq(Requests), NEW k \in 1 .. N, NEW c \in 1 .. N, NEW b \in 1 .. N,
         Covers(requests[c], requests[k]), Covers(requests[b], requests[k])
  PROVE  Better(c, b) <=> BetterByLength(c, b)
<1> DEFINE rc == requests[c]
           rb == requests[b]
           rk == requests[k]
<1>1. rc \in Requests /\ rb \in Requests /\ rk \in Requests
  BY DEF N
<1>2. /\ rc \in [kind : Kinds, path : Seq(Nat)]
      /\ rb \in [kind : Kinds, path : Seq(Nat)]
      /\ rk \in [kind : Kinds, path : Seq(Nat)]
  BY <1>1, RequestsAssumption
<1>3. rc.kind = rk.kind /\ rb.kind = rk.kind
  BY DEF Covers
<1>4. rc = rb <=> rc.path = rb.path
  BY <1>2, <1>3
<1>5. CASE rk.kind = "BTM"
  <2>1. PrefixOf(rc.path, rk.path) /\ PrefixOf(rb.path, rk.path)
    BY <1>3, <1>5 DEF Covers
  <2>2. /\ LexLess(rc.path, rb.path) <=> Len(rc.path) < Len(rb.path)
        /\ rc.path = rb.path <=> Len(rc.path) = Len(rb.path)
    BY <1>2, <2>1, LexByLength
  <2>3. Less(rc, rb) <=> Len(rc.path) < Len(rb.path)
    BY <1>3, <1>5, <2>2 DEF Less
  <2> QED BY <1>4, <2>2, <2>3 DEF Better, BetterByLength
<1>6. CASE rk.kind # "BTM"
  <2>1. rc.path = rb.path
    BY <1>3, <1>6 DEF Covers
  <2>2. ~Less(rc, rb)
    BY <1>3, <1>6 DEF Less
  <2>3. Len(rc.path) \in Nat
    BY <1>2
  <2> QED BY <1>4, <2>1, <2>2, <2>3 DEF Better, BetterByLength
<1> QED BY <1>5, <1>6

-----------------------------------------------------------------------------
(* The inductive invariant. *)

\* b is the root the scan is looking for: the best index that covers k.
IsRoot(k, b) ==
  /\ b \in 1 .. N
  /\ Covers(requests[b], requests[k])
  /\ \A c \in 1 .. N :
       Covers(requests[c], requests[k]) => c = b \/ BetterByLength(b, c)

\* best is the root among the candidates seen so far and i itself.
BestSoFar ==
  /\ best \in 1 .. N
  /\ Covers(requests[best], requests[i])
  /\ \A c \in 1 .. N :
       (c < j \/ c = i) /\ Covers(requests[c], requests[i]) =>
         c = best \/ BetterByLength(best, c)

\* Resource number a was opened for the root k, and placements knows it.
Opened(k, a) == out[k] = k /\ placements[k] = a /\ resources[a] = requests[k]

IInv ==
  /\ requests \in Seq(Requests)
  /\ i \in 1 .. N + 1
  /\ j \in 1 .. N + 1
  /\ best \in 1 .. N + 1
  /\ out \in Seq(1 .. N)
  /\ resources \in Seq(Requests)
  /\ placements \in Seq(1 .. N)
  /\ final \in Seq(1 .. N)
  /\ pc \in {"scan", "open", "done"}
  /\ Len(out) = IF pc = "scan" THEN i - 1 ELSE N
  /\ \A k \in 1 .. Len(out) : IsRoot(k, out[k])
  /\ pc = "scan" /\ i <= N => BestSoFar
  /\ pc = "scan" => resources = <<>>
  /\ pc # "scan" =>
       /\ Len(placements) = N
       /\ Len(resources) <= i - 1
       /\ \A a \in 1 .. Len(resources) : \E k \in 1 .. i - 1 : Opened(k, a)
       /\ \A k \in 1 .. i - 1 :
            out[k] = k => placements[k] \in 1 .. Len(resources) /\ Opened(k, placements[k])
  /\ pc = "done" => i = N + 1 /\ final = [k \in 1 .. N |-> placements[out[k]]]

LEMMA LengthsAreNat ==
  ASSUME requests \in Seq(Requests)
  PROVE  /\ N \in Nat
         /\ \A k \in 1 .. N : requests[k] \in Requests /\ Len(requests[k].path) \in Nat
<1>1. N \in Nat /\ \A k \in 1 .. N : requests[k] \in Requests
  BY DEF N
<1>2. \A r \in Requests : Len(r.path) \in Nat
  BY RequestsAssumption
<1> QED BY <1>1, <1>2

LEMMA BetterIsOrder ==
  ASSUME requests \in Seq(Requests), NEW a \in 1 .. N, NEW b \in 1 .. N, NEW c \in 1 .. N
  PROVE  /\ BetterByLength(a, b) /\ BetterByLength(b, c) => BetterByLength(a, c)
         /\ a = b \/ BetterByLength(a, b) \/ BetterByLength(b, a)
         /\ ~(BetterByLength(a, b) /\ BetterByLength(b, a))
<1> DEFINE l(x) == Len(requests[x].path)
           before(x, y) == l(x) < l(y) \/ (l(x) = l(y) /\ x < y)
<1>1. \A x, y \in 1 .. N : BetterByLength(x, y) <=> before(x, y)
  BY DEF BetterByLength
<1>2. l(a) \in Nat /\ l(b) \in Nat /\ l(c) \in Nat /\ N \in Nat
  BY LengthsAreNat
<1> HIDE DEF l
<1>3. /\ before(a, b) /\ before(b, c) => before(a, c)
      /\ a = b \/ before(a, b) \/ before(b, a)
      /\ ~(before(a, b) /\ before(b, a))
  BY <1>2
<1> HIDE DEF before
<1> QED BY <1>1, <1>3

(* The root of a root is the root itself. *)
LEMMA RootOfRoot ==
  ASSUME requests \in Seq(Requests), NEW k \in 1 .. N, NEW r, NEW s,
         IsRoot(k, r), IsRoot(r, s)
  PROVE  s = r
<1>1. r \in 1 .. N /\ s \in 1 .. N
  BY DEF IsRoot
<1>2. requests[k] \in Requests /\ requests[r] \in Requests /\ requests[s] \in Requests
  BY <1>1, LengthsAreNat
<1>3. Covers(requests[s], requests[k])
  BY <1>2, CoversTransitive DEF IsRoot
<1>4. s = r \/ BetterByLength(r, s)
  BY <1>1, <1>3 DEF IsRoot
<1>5. Covers(requests[r], requests[r])
  BY <1>2, CoversReflexive
<1>6. r = s \/ BetterByLength(s, r)
  BY <1>1, <1>5 DEF IsRoot
<1> QED BY <1>1, <1>4, <1>6, BetterIsOrder

(* Two different roots do not cover each other. *)
LEMMA RootsExclusive ==
  ASSUME requests \in Seq(Requests), NEW k \in 1 .. N, NEW l \in 1 .. N,
         IsRoot(k, k), IsRoot(l, l), Covers(requests[k], requests[l])
  PROVE  k = l
<1>1. requests[k] \in Requests /\ requests[l] \in Requests
  BY LengthsAreNat
<1>2. k = l \/ BetterByLength(l, k)
  BY DEF IsRoot
<1>3. SUFFICES ASSUME BetterByLength(l, k) PROVE FALSE
  BY <1>2
<1>4. Len(requests[k].path) = Len(requests[l].path) /\ l < k
  BY <1>1, <1>3, LengthsAreNat, CoversLength DEF BetterByLength
<1>5. requests[k] = requests[l]
  BY <1>1, <1>4, CoversLength
<1>6. Covers(requests[l], requests[k])
  BY <1>1, <1>5, CoversReflexive
<1>7. BetterByLength(k, l)
  BY <1>4, <1>6 DEF IsRoot
<1> QED BY <1>3, <1>7, BetterIsOrder

-----------------------------------------------------------------------------
LEMMA InitIInv == Init => IInv
<1> SUFFICES ASSUME Init PROVE IInv
  OBVIOUS
<1>1. PICK n \in 0 .. MaxTemplates : requests \in [1 .. n -> Requests]
  BY DEF Init
<1>2. requests \in Seq(Requests)
  BY <1>1, RequestsAssumption, SeqDef
<1>3. N \in Nat
  BY <1>2, LengthsAreNat
<1>4. ASSUME 1 <= N PROVE BestSoFar
  <2>1. requests[1] \in Requests
    BY <1>2, <1>3, <1>4, LengthsAreNat
  <2>2. best \in 1 .. N /\ Covers(requests[best], requests[i])
    BY <1>3, <1>4, <2>1, CoversReflexive DEF Init
  <2>3. \A c \in 1 .. N : c < j \/ c = i => c = best
    BY <1>3 DEF Init
  <2> QED BY <2>2, <2>3 DEF BestSoFar
<1> QED BY <1>2, <1>3, <1>4 DEF Init, IInv

LEMMA CompareIInv == IInv /\ Compare => IInv'
<1> SUFFICES ASSUME IInv, Compare PROVE IInv'
  OBVIOUS
<1>1. /\ requests \in Seq(Requests) /\ BestSoFar
      /\ i \in 1 .. N /\ j \in 1 .. N /\ N \in Nat
  BY LengthsAreNat DEF IInv, Compare
<1>2. /\ j' = j + 1 /\ i' = i /\ requests' = requests /\ N' = N /\ out' = out
      /\ resources' = resources /\ placements' = placements /\ final' = final /\ pc' = pc
      /\ pc = "scan"
  BY DEF Compare, N
<1>3. best \in 1 .. N /\ Covers(requests[best], requests[i])
  BY <1>1 DEF BestSoFar
<1>4. CASE Covers(requests[j], requests[i]) /\ Better(j, best)
  <2>1. best' = j
    BY <1>4 DEF Compare
  <2>2. BetterByLength(j, best)
    BY <1>1, <1>3, <1>4, BetterIsByLength
  <2>3. ASSUME NEW c \in 1 .. N, c < j + 1 \/ c = i, Covers(requests[c], requests[i])
        PROVE  c = j \/ BetterByLength(j, c)
    <3>1. CASE c = best
      BY <2>2, <3>1
    <3>2. CASE c # j /\ c # best
      <4>1. c < j \/ c = i
        BY <1>1, <2>3, <3>2
      <4>2. BetterByLength(best, c)
        BY <1>1, <2>3, <3>2, <4>1 DEF BestSoFar
      <4> QED BY <1>1, <1>3, <2>2, <4>2, BetterIsOrder
    <3> QED BY <3>1, <3>2
  <2>4. BestSoFar'
    BY <1>1, <1>2, <1>4, <2>1, <2>3 DEF BestSoFar, BetterByLength
  <2> QED BY <1>1, <1>2, <2>1, <2>4 DEF IInv, IsRoot, BetterByLength
<1>5. CASE ~(Covers(requests[j], requests[i]) /\ Better(j, best))
  <2>1. best' = best
    BY <1>5 DEF Compare
  <2>2. ASSUME NEW c \in 1 .. N, c < j + 1 \/ c = i, Covers(requests[c], requests[i])
        PROVE  c = best \/ BetterByLength(best, c)
    <3>1. CASE c = j
      <4>1. ~BetterByLength(j, best)
        BY <1>1, <1>3, <1>5, <2>2, <3>1, BetterIsByLength
      <4> QED BY <1>1, <1>3, <3>1, <4>1, BetterIsOrder
    <3>2. CASE c # j
      <4>1. c < j \/ c = i
        BY <1>1, <2>2, <3>2
      <4> QED BY <1>1, <2>2, <4>1 DEF BestSoFar
    <3> QED BY <3>1, <3>2
  <2>3. BestSoFar'
    BY <1>1, <1>2, <1>3, <2>1, <2>2 DEF BestSoFar, BetterByLength
  <2> QED BY <1>1, <1>2, <2>1, <2>3 DEF IInv, IsRoot, BetterByLength
<1> QED BY <1>4, <1>5

LEMMA EmitIInv == IInv /\ Emit => IInv'
<1> SUFFICES ASSUME IInv, Emit PROVE IInv'
  OBVIOUS
<1>0. requests \in Seq(Requests) /\ N \in Nat
  BY LengthsAreNat DEF IInv
<1>1. /\ requests \in Seq(Requests) /\ BestSoFar /\ out \in Seq(1 .. N)
      /\ i \in 1 .. N /\ j = N + 1 /\ N \in Nat /\ Len(out) = i - 1
  BY <1>0 DEF IInv, Emit
<1>2. /\ requests' = requests /\ N' = N /\ i' = i + 1 /\ j' = 1 /\ best' = i + 1
      /\ out' = Append(out, best) /\ pc = "scan" /\ pc' = "scan"
      /\ resources' = resources /\ placements' = placements /\ final' = final
  BY DEF Emit, N
<1>3. best \in 1 .. N
  BY <1>1 DEF BestSoFar
<1>4. IsRoot(i, best)
  BY <1>1 DEF BestSoFar, IsRoot
<1>5. /\ out' \in Seq(1 .. N) /\ Len(out') = i
      /\ \A k \in 1 .. i - 1 : out'[k] = out[k]
      /\ out'[i] = best
  BY <1>1, <1>2, <1>3, AppendProperties
<1>6. \A k \in 1 .. i - 1 : IsRoot(k, out[k])
  BY <1>1 DEF IInv
<1>7. \A k \in 1 .. i : IsRoot(k, out'[k])
  <2> TAKE k \in 1 .. i
  <2>1. CASE k = i
    BY <1>4, <1>5, <2>1
  <2>2. CASE k # i
    <3>1. k \in 1 .. i - 1
      BY <1>1, <2>2
    <3> QED BY <1>5, <1>6, <3>1
  <2> QED BY <2>1, <2>2
<1>8. (\A k \in 1 .. Len(out) : IsRoot(k, out[k]))'
  BY <1>2, <1>5, <1>7 DEF IsRoot, BetterByLength
<1>9. ASSUME i + 1 <= N PROVE BestSoFar'
  <2>1. i + 1 \in 1 .. N
    BY <1>1, <1>9
  <2>2. Covers(requests[i + 1], requests[i + 1])
    BY <1>1, <2>1, LengthsAreNat, CoversReflexive
  <2>3. \A c \in 1 .. N : c < 1 \/ c = i + 1 => c = i + 1
    BY <1>1
  <2> QED BY <1>2, <2>1, <2>2, <2>3 DEF BestSoFar
<1> QED BY <1>1, <1>2, <1>5, <1>8, <1>9 DEF IInv

LEMMA ScannedIInv == IInv /\ Scanned => IInv'
<1> SUFFICES ASSUME IInv, Scanned PROVE IInv'
  OBVIOUS
<1>1. /\ requests' = requests /\ N' = N /\ i' = 1 /\ j' = j /\ best' = best
      /\ out' = out /\ pc = "scan" /\ pc' = "open" /\ placements' = out
      /\ resources' = resources /\ final' = final
  BY DEF Scanned, N
<1>2. /\ N \in Nat /\ i = N + 1 /\ Len(out) = N /\ resources = <<>>
  <2>1. /\ requests \in Seq(Requests) /\ i \in 1 .. N + 1 /\ i > N /\ pc = "scan"
        /\ Len(out) = i - 1 /\ resources = <<>>
    BY DEF IInv, Scanned
  <2> QED BY <2>1, LengthsAreNat
<1>3. (\A k \in 1 .. Len(out) : IsRoot(k, out[k]))'
  BY <1>1 DEF IInv, IsRoot, BetterByLength
<1>4. (best \in 1 .. N + 1)'
  BY <1>1 DEF IInv
<1> QED BY <1>1, <1>2, <1>3, <1>4 DEF IInv

LEMMA OpenIInv == IInv /\ Open => IInv'
<1> SUFFICES ASSUME IInv, Open PROVE IInv'
  OBVIOUS
<1>1. /\ requests' = requests /\ N' = N /\ i' = i + 1 /\ j' = j /\ best' = best
      /\ out' = out /\ pc = "open" /\ pc' = "open" /\ final' = final
  BY DEF Open, N
<1>0. requests \in Seq(Requests) /\ N \in Nat
  BY LengthsAreNat DEF IInv
<1>2. /\ N \in Nat /\ i \in 1 .. N /\ requests \in Seq(Requests) /\ requests[i] \in Requests
      /\ resources \in Seq(Requests) /\ placements \in Seq(1 .. N) /\ Len(placements) = N
      /\ Len(resources) <= i - 1 /\ Len(out) = N
  BY <1>0, LengthsAreNat DEF IInv, Open
<1>3. /\ \A a \in 1 .. Len(resources) : \E k \in 1 .. i - 1 : Opened(k, a)
      /\ \A k \in 1 .. i - 1 :
           out[k] = k => placements[k] \in 1 .. Len(resources) /\ Opened(k, placements[k])
  BY <1>1 DEF IInv
<1>4. (\A k \in 1 .. Len(out) : IsRoot(k, out[k]))'
  BY <1>1 DEF IInv, IsRoot, BetterByLength
<1>5. CASE out[i] = i
  <2>0. PICK m \in Nat, h \in Nat : m = Len(resources) + 1 /\ h = i
    BY <1>2
  <2>1. m \in 1 .. N /\ Len(resources) \in Nat
    BY <1>2, <2>0
  <2>2. placements' = [placements EXCEPT ![i] = m] /\ resources' = Append(resources, requests[i])
    BY <1>5, <2>0 DEF Open
  <2>3. /\ resources' \in Seq(Requests) /\ Len(resources') = m /\ resources'[m] = requests[i]
        /\ \A a \in 1 .. Len(resources) : resources'[a] = resources[a]
    BY <1>2, <2>0, <2>2, AppendProperties
  <2>4. /\ placements' \in Seq(1 .. N) /\ Len(placements') = N /\ placements'[i] = m
        /\ \A k \in 1 .. i - 1 : placements'[k] = placements[k]
    BY <1>2, <2>1, <2>2
  <2>5. Opened(h, m)'
    BY <1>1, <1>5, <2>0, <2>3, <2>4 DEF Opened
  <2>6. ASSUME NEW k \in 1 .. i - 1, NEW a \in 1 .. Len(resources), Opened(k, a)
        PROVE  Opened(k, a)'
    BY <1>1, <2>3, <2>4, <2>6 DEF Opened
  <2>7. ASSUME NEW a \in 1 .. m PROVE \E k \in 1 .. i : Opened(k, a)'
    <3>1. CASE a = m
      BY <1>2, <2>0, <2>5, <3>1
    <3>2. CASE a # m
      <4>1. a \in 1 .. Len(resources)
        BY <2>0, <2>1, <3>2
      <4>2. PICK k \in 1 .. i - 1 : Opened(k, a)
        BY <1>3, <4>1
      <4>3. k \in 1 .. i
        BY <1>2
      <4> QED BY <2>6, <4>1, <4>2, <4>3
    <3> QED BY <3>1, <3>2
  <2>8. ASSUME NEW k \in 1 .. i, out[k] = k
        PROVE  placements'[k] \in 1 .. m /\ (Opened(k, placements[k]))'
    <3>1. CASE k = i
      BY <2>0, <2>1, <2>4, <2>5, <3>1
    <3>2. CASE k # i
      <4>1. k \in 1 .. i - 1
        BY <1>2, <3>2
      <4>2. placements[k] \in 1 .. Len(resources) /\ Opened(k, placements[k])
        BY <1>3, <2>8, <4>1
      <4>3. placements'[k] = placements[k]
        BY <2>4, <4>1
      <4> QED BY <2>0, <2>1, <2>6, <4>1, <4>2, <4>3
    <3> QED BY <3>1, <3>2
  <2>9. i' - 1 = i /\ m <= i /\ Len(resources') = m
    BY <1>1, <1>2, <2>0, <2>3
  <2> QED BY <1>1, <1>2, <1>4, <2>3, <2>4, <2>7, <2>8, <2>9 DEF IInv
<1>6. CASE out[i] # i
  <2>1. placements' = placements /\ resources' = resources
    BY <1>6 DEF Open
  <2>2. \A k \in 1 .. i' - 1 : out[k] = k => k \in 1 .. i - 1
    BY <1>1, <1>2, <1>6
  <2>3. \A k \in 1 .. i - 1 : k \in 1 .. i' - 1
    BY <1>1, <1>2
  <2> QED BY <1>1, <1>2, <1>3, <1>4, <2>1, <2>2, <2>3 DEF IInv, Opened
<1> QED BY <1>5, <1>6

LEMMA PlaceIInv == IInv /\ Place => IInv'
<1> SUFFICES ASSUME IInv, Place PROVE IInv'
  OBVIOUS
<1>1. /\ requests' = requests /\ N' = N /\ i' = i /\ j' = j /\ best' = best
      /\ out' = out /\ pc = "open" /\ pc' = "done"
      /\ resources' = resources /\ placements' = placements
      /\ final' = [k \in 1 .. N |-> placements[out[k]]]
  BY DEF Place, N
<1>2. /\ N \in Nat /\ i = N + 1 /\ Len(out) = N /\ Len(placements) = N
      /\ out \in Seq(1 .. N) /\ placements \in Seq(1 .. N)
  <2>1. /\ requests \in Seq(Requests) /\ i \in 1 .. N + 1 /\ i > N /\ pc = "open"
        /\ Len(out) = N /\ Len(placements) = N /\ out \in Seq(1 .. N) /\ placements \in Seq(1 .. N)
    BY DEF IInv, Place
  <2> QED BY <2>1, LengthsAreNat
<1>3. \A k \in 1 .. N : out[k] \in 1 .. N /\ placements[out[k]] \in 1 .. N
  BY <1>2
<1>4. final' \in [1 .. N -> 1 .. N]
  BY <1>1, <1>3
<1>5. final' \in Seq(1 .. N)
  BY <1>2, <1>4, SeqDef
<1>6. (pc = "done" => i = N + 1 /\ final = [k \in 1 .. N |-> placements[out[k]]])'
  BY <1>1, <1>2
<1>7. (\A k \in 1 .. Len(out) : IsRoot(k, out[k]))'
  BY <1>1 DEF IInv, IsRoot, BetterByLength
<1>8. (/\ Len(placements) = N
       /\ Len(resources) <= i - 1
       /\ \A a \in 1 .. Len(resources) : \E k \in 1 .. i - 1 : Opened(k, a)
       /\ \A k \in 1 .. i - 1 :
            out[k] = k => placements[k] \in 1 .. Len(resources) /\ Opened(k, placements[k]))'
  BY <1>1 DEF IInv, Opened
<1> QED BY <1>1, <1>2, <1>5, <1>6, <1>7, <1>8 DEF IInv

LEMMA NextIInv == IInv /\ [Next]_vars => IInv'
<1> SUFFICES ASSUME IInv, [Next]_vars PROVE IInv'
  OBVIOUS
<1>1. CASE UNCHANGED vars
  BY <1>1 DEF vars, IInv, N, IsRoot, BestSoFar, Opened, BetterByLength
<1> QED BY <1>1, CompareIInv, EmitIInv, ScannedIInv, OpenIInv, PlaceIInv DEF Next

(* The scan's invariant holds in every run of the two loops. *)
THEOREM Invariant == Spec => []IInv
BY InitIInv, NextIInv, PTL DEF Spec

(* The indices of both loops stay in range, and best names a request in every *)
(* turn of the scan.                                                         *)
THEOREM Typed == Spec => []TypeOK
<1>1. IInv => TypeOK
  BY LengthsAreNat DEF IInv, TypeOK, BestSoFar
<1> QED BY <1>1, Invariant, PTL

(* Both prefix_subsumption functions compute the same table, because on the  *)
(* prefixes of one path the two orders they use are the same.                *)
THEOREM Agree == Spec => []VariantsAgree
<1>1. IInv => VariantsAgree
  BY BetterIsByLength DEF IInv, VariantsAgree
<1> QED BY <1>1, Invariant, PTL

(* The requested resources an exec opens never overlap, whatever its         *)
(* templates ask for: the contract of the unchecked exclusive zippers.       *)
THEOREM Exclusive == Spec => []ResourcesExclusive
<1>1. IInv => ResourcesExclusive
  <2> SUFFICES ASSUME IInv, NEW a \in 1 .. Len(resources), NEW b \in 1 .. Len(resources),
                      Covers(resources[a], resources[b])
               PROVE  a = b
    BY DEF ResourcesExclusive
  <2>1. pc # "scan" /\ N \in Nat /\ i \in 1 .. N + 1 /\ Len(out) = N
    BY LengthsAreNat DEF IInv
  <2>2. PICK k \in 1 .. i - 1 : Opened(k, a)
    BY <2>1 DEF IInv
  <2>3. PICK l \in 1 .. i - 1 : Opened(l, b)
    BY <2>1 DEF IInv
  <2>4. k \in 1 .. N /\ l \in 1 .. N
    BY <2>1
  <2>5. IsRoot(k, k) /\ IsRoot(l, l)
    BY <2>1, <2>2, <2>3, <2>4 DEF IInv, Opened
  <2>6. k = l
    BY <2>2, <2>3, <2>4, <2>5, RootsExclusive DEF IInv, Opened
  <2> QED BY <2>2, <2>3, <2>6 DEF Opened
<1> QED BY <1>1, Invariant, PTL

(* Every template gets a resource that covers its request.                   *)
THEOREM Served == Spec => []EveryTemplateServed
<1>1. IInv => EveryTemplateServed
  <2> SUFFICES ASSUME IInv, pc = "done", NEW k \in 1 .. N
               PROVE  /\ final[k] \in 1 .. Len(resources)
                      /\ Covers(resources[final[k]], requests[k])
    BY DEF EveryTemplateServed
  <2>1. /\ N \in Nat /\ i = N + 1 /\ Len(out) = N /\ requests \in Seq(Requests)
        /\ final[k] = placements[out[k]]
    BY LengthsAreNat DEF IInv
  <2> DEFINE r == out[k]
  <2>2. IsRoot(k, r)
    BY <2>1 DEF IInv
  <2>3. r \in 1 .. N
    BY <2>2 DEF IsRoot
  <2>4. IsRoot(r, out[r])
    BY <2>1, <2>3 DEF IInv
  <2>5. out[r] = r
    BY <2>1, <2>2, <2>3, <2>4, RootOfRoot
  <2>6. placements[r] \in 1 .. Len(resources) /\ Opened(r, placements[r])
    BY <2>1, <2>3, <2>5 DEF IInv
  <2> QED BY <2>1, <2>2, <2>6 DEF Opened, IsRoot
<1> QED BY <1>1, Invariant, PTL
=============================================================================
