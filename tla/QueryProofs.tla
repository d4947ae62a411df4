---------------------------- MODULE QueryProofs ----------------------------
(***************************************************************************)
(* For every problem whose terms are well formed: the descent finds only   *)
(* whole expressions, and what it leaves out has no solution; unify says   *)
(* at every step what its pairs said, although it does not compare a pair  *)
(* again that it has encountered; and a query leaves out only what is no   *)
(* match.                                                                  *)
(***************************************************************************)
EXTENDS Query, SequenceTheorems, FiniteSetTheorems, WellFoundedInduction, TLAPS

-----------------------------------------------------------------------------
(* The descent *)

(* What putting a block in place of the head does to a sequence. *)
LEMMA ReplaceHead ==
  ASSUME NEW S, NEW n \in Nat, NEW f \in [1 .. n -> S], NEW t \in Seq(S), t # <<>>
  PROVE  /\ f \o Tail(t) \in Seq(S)
         /\ Len(f \o Tail(t)) = n + Len(t) - 1
         /\ \A i \in 1 .. n : (f \o Tail(t))[i] = f[i]
         /\ \A i \in n + 1 .. n + Len(t) - 1 : (f \o Tail(t))[i] = t[i - n + 1]
<1> DEFINE u == Tail(t)
<1>1. u \in Seq(S) /\ Len(u) = Len(t) - 1 /\ \A i \in 1 .. Len(u) : u[i] = t[i + 1]
  BY HeadTailProperties
<1>2. f \in Seq(S) /\ Len(f) = n /\ Len(t) \in Nat
  OBVIOUS
<1> HIDE DEF u
<1>3. /\ f \o u \in Seq(S)
      /\ Len(f \o u) = n + Len(u)
      /\ \A i \in 1 .. n + Len(u) : (f \o u)[i] = IF i <= n THEN f[i] ELSE u[i - n]
  BY <1>1, <1>2, ConcatProperties
<1>4. ASSUME NEW i \in n + 1 .. n + Len(t) - 1
      PROVE  (f \o u)[i] = t[i - n + 1]
  <2>1. i - n \in 1 .. Len(u) /\ i \in 1 .. n + Len(u) /\ ~(i <= n) /\ (i - n) + 1 = i - n + 1
    BY <1>1, <1>2
  <2> QED BY <1>1, <1>3, <2>1
<1>5. \A i \in 1 .. n : i \in 1 .. n + Len(u) /\ i <= n
  BY <1>1, <1>2
<1> QED BY <1>1, <1>2, <1>3, <1>4, <1>5 DEF u

-----------------------------------------------------------------------------
(* Facts about well-formed problems and their instantiations *)

LEMMA Leaf ==
  ASSUME NEW p \in Problems, NEW l \in Locs(p)
  PROVE  /\ l = <<l[1], l[2]>> /\ l[1] \in Nat /\ l[2] \in Positions
         /\ Label(p, l) \in Labels
         /\ At(l, <<>>) = l
         /\ Label(p, l).tag = "arity" =>
              \A k \in 1 .. Label(p, l).val : At(l, <<k>>) \in Locs(p)
<1>1. WellFormed(p)
  BY ProblemsAssumption
<1>2. l = <<l[1], l[2]>> /\ l[1] \in Nat /\ l[2] \in Positions
  BY <1>1 DEF WellFormed
<1>3. l[2] \o <<>> = l[2]
  BY <1>2, PositionsAssumption, ConcatEmptySeq
<1>4. Label(p, l) \in Labels
  BY <1>1 DEF WellFormed
<1>5. ASSUME Label(p, l).tag = "arity", NEW k \in 1 .. Label(p, l).val
      PROVE  At(l, <<k>>) \in Locs(p)
  BY <1>1, <1>5 DEF WellFormed, Args
<1> QED BY <1>2, <1>3, <1>4, <1>5 DEF At

(* Equal values: equal labels, unless one is a variable, and equal arguments. *)
LEMMA EqualValues ==
  ASSUME NEW p \in Problems, NEW s \in Valuations(p), NEW l \in Locs(p), NEW m \in Locs(p),
         s[l] = s[m], ~IsVar(p, l), ~IsVar(p, m)
  PROVE  /\ Label(p, l) = Label(p, m)
         /\ Label(p, l).tag = "arity" =>
              \A k \in 1 .. Label(p, l).val : s[At(l, <<k>>)] = s[At(m, <<k>>)]
<1>1. Agree(p, s, l, m) /\ \A q \in Shared(p, l, m) : s[At(l, q)] = s[At(m, q)]
  BY ValuationsAssumption DEF Instantiates
<1>2. Label(p, l) = Label(p, m)
  BY <1>1, Leaf, PositionsAssumption DEF Agree
<1>3. ASSUME Label(p, l).tag = "arity", NEW k \in 1 .. Label(p, l).val
      PROVE  s[At(l, <<k>>)] = s[At(m, <<k>>)]
  <2>1. At(l, <<k>>) \in Locs(p) /\ At(m, <<k>>) \in Locs(p)
    BY <1>2, <1>3, Leaf
  <2>2. l[2] \in Seq(Nat) /\ k \in Nat
    <3>1. Label(p, l) \in Labels
      BY Leaf
    <3>2. Label(p, l).val \in Nat
      BY <3>1 DEF Labels
    <3> QED BY <1>3, <3>2, Leaf, PositionsAssumption
  <2>3. l[2] \o <<k>> \in Positions
    <3>1. At(l, <<k>>)[2] \in Positions
      BY <2>1, Leaf
    <3> QED BY <3>1 DEF At
  <2>4. <<k>> \in Positions
    <3> DEFINE q == l[2] \o <<k>>
    <3>1. q \in Seq(Nat) /\ Len(q) = Len(l[2]) + 1 /\ q[Len(l[2]) + 1] = k
      BY <2>2
    <3>2. Len(l[2]) + 1 \in DOMAIN q
      BY <3>1, <2>2
    <3> QED BY <2>3, <3>1, <3>2, PositionsAssumption
  <2> QED BY <1>1, <2>1, <2>4 DEF Shared
<1> QED BY <1>2, <1>3

-----------------------------------------------------------------------------
(* Typing *)

(* An arity is a number, and a location has as many arguments below it. *)
LEMMA Arguments ==
  ASSUME problem \in Problems, NEW l \in Locs(problem)
  PROVE  /\ Arity(l) \in Nat
         /\ [k \in 1 .. Arity(l) |-> At(l, <<k>>)] \in [1 .. Arity(l) -> Locs(problem)]
         /\ IsVar(problem, l) => Arity(l) = 0
<1>1. Label(problem, l) \in Labels
  BY Leaf
<1>2. Arity(l) \in Nat
  BY <1>1 DEF Labels, Arity
<1>3. ASSUME NEW k \in 1 .. Arity(l) PROVE At(l, <<k>>) \in Locs(problem)
  BY <1>3, Leaf DEF Arity
<1>4. IsVar(problem, l) => Arity(l) = 0
  BY DEF IsVar, Arity
<1> QED BY <1>2, <1>3, <1>4

(* The step of the zipper. *)
LEMMA WalkFacts ==
  ASSUME TypeOK, todo # <<>>, Walk
  PROVE  /\ Head(todo) \in Locs(problem) /\ Head(todo) = todo[1] /\ Len(todo) \in Nat \ {0}
         /\ todo' \in Seq(Locs(problem))
         /\ Len(todo') = Arity(todo[1]) + Len(todo) - 1
         /\ \A i \in 1 .. Arity(todo[1]) : todo'[i] = At(todo[1], <<i>>)
         /\ \A i \in Arity(todo[1]) + 1 .. Arity(todo[1]) + Len(todo) - 1 :
              todo'[i] = todo[i - Arity(todo[1]) + 1]
<1>1. problem \in Problems /\ todo \in Seq(Locs(problem))
  BY DEF TypeOK
<1>2. Head(todo) \in Locs(problem) /\ Head(todo) = todo[1] /\ Len(todo) \in Nat \ {0}
  BY <1>1, HeadTailProperties, EmptySeq
<1> DEFINE n == Arity(todo[1])
           f == [k \in 1 .. n |-> At(todo[1], <<k>>)]
<1>3. n \in Nat /\ f \in [1 .. n -> Locs(problem)]
  BY <1>1, <1>2, Arguments
<1>4. todo' = f \o Tail(todo)
  BY <1>2 DEF Walk
<1>5. \A i \in 1 .. n : f[i] = At(todo[1], <<i>>)
  OBVIOUS
<1> HIDE DEF n, f
<1>6. /\ f \o Tail(todo) \in Seq(Locs(problem))
      /\ Len(f \o Tail(todo)) = n + Len(todo) - 1
      /\ \A i \in 1 .. n : (f \o Tail(todo))[i] = f[i]
      /\ \A i \in n + 1 .. n + Len(todo) - 1 : (f \o Tail(todo))[i] = todo[i - n + 1]
  BY <1>1, <1>3, ReplaceHead
<1>7. n = Arity(todo[1])
  BY DEF n
<1> QED BY <1>2, <1>4, <1>5, <1>6, <1>7

(* The step of the stack, where n items f come in place of the top. *)
LEMMA StackFacts ==
  ASSUME TypeOK, stack # <<>>, NEW n \in Nat, NEW f \in [1 .. n -> Items],
         stack' = f \o Tail(stack)
  PROVE  /\ Head(stack) \in Items /\ Head(stack) = stack[1] /\ Len(stack) \in Nat \ {0}
         /\ stack' \in Seq(Items)
         /\ Len(stack') = n + Len(stack) - 1
         /\ \A i \in 1 .. n : stack'[i] = f[i]
         /\ \A i \in n + 1 .. n + Len(stack) - 1 : stack'[i] = stack[i - n + 1]
<1>1. stack \in Seq(Items)
  BY DEF TypeOK
<1>2. Head(stack) \in Items /\ Head(stack) = stack[1] /\ Len(stack) \in Nat \ {0}
  BY <1>1, HeadTailProperties, EmptySeq
<1>3. /\ f \o Tail(stack) \in Seq(Items)
      /\ Len(f \o Tail(stack)) = n + Len(stack) - 1
      /\ \A i \in 1 .. n : (f \o Tail(stack))[i] = f[i]
      /\ \A i \in n + 1 .. n + Len(stack) - 1 : (f \o Tail(stack))[i] = stack[i - n + 1]
  BY ONLY <1>1, stack # <<>>, n \in Nat, f \in [1 .. n -> Items], ReplaceHead
<1> QED BY <1>2, <1>3

(* Popping without a replacement. *)
LEMMA PopFacts ==
  ASSUME TypeOK, stack # <<>>, stack' = Tail(stack)
  PROVE  /\ Head(stack) \in Items /\ Head(stack) = stack[1] /\ Len(stack) \in Nat \ {0}
         /\ stack' \in Seq(Items)
         /\ Len(stack') = Len(stack) - 1
         /\ \A i \in 1 .. Len(stack) - 1 : stack'[i] = stack[i + 1]
<1>1. stack \in Seq(Items)
  BY DEF TypeOK
<1> QED BY <1>1, HeadTailProperties, EmptySeq

LEMMA WildBlock ==
  ASSUME NEW n \in Nat
  PROVE  [k \in 1 .. n |-> Wild] \in [1 .. n -> Items]
BY DEF Items

LEMMA AdditionTyped ==
  ASSUME TypeOK, NEW e \in Items, e # Wild
  PROVE  <<Addition(e)>> \in [1 .. 1 -> Items] /\ <<Addition(e)>>[1] = Addition(e)
BY DEF TypeOK, Addition, Items

(* stack, todo and references keep their types, whatever is matched. *)
LEMMA TypeInvariance ==
  ASSUME TypeOK, [Next]_vars
  PROVE  TypeOK'
<1>1. CASE MatchNew
  <2>1. stack # <<>> /\ todo # <<>> /\ Walk
    BY <1>1 DEF MatchNew, AtItem
  <2>2. Head(todo) \in Locs(problem) /\ todo' \in Seq(Locs(problem))
    BY <2>1, WalkFacts
  <2>3. Arity(Head(todo)) \in Nat
    BY <2>2, Arguments DEF TypeOK
  <2>4. stack' \in Seq(Items) /\ Head(stack) \in Items
    <3> DEFINE n == Arity(Head(todo))
               f == [k \in 1 .. n |-> Wild]
    <3>1. n \in Nat /\ f \in [1 .. n -> Items]
      BY <2>3, WildBlock
    <3>2. stack' = f \o Tail(stack)
      BY <1>1 DEF MatchNew
    <3> HIDE DEF n, f
    <3> QED BY <2>1, <3>1, <3>2, StackFacts
  <2>5. /\ DOMAIN references' \subseteq Nat \X Nat
        /\ \A v \in DOMAIN references' : references'[v] \in Locs(problem)
    <3>1. CASE InPattern(Head(stack))
      <4>1. Head(stack) \in Locs(problem)
        BY <2>4, <3>1 DEF InPattern, Items
      <4>2. Label(problem, Head(stack)) \in Labels /\ Head(stack)[1] \in Nat
        BY <4>1, Leaf DEF TypeOK
      <4>3. Var(problem, Head(stack)) \in Nat \X Nat
        BY <4>2 DEF Var, Labels
      <4>4. references' = [v \in DOMAIN references \cup {Var(problem, Head(stack))} |->
                             IF v = Var(problem, Head(stack)) THEN Head(todo) ELSE references[v]]
        BY <1>1, <3>1 DEF MatchNew, Met
      <4> QED BY <2>2, <4>3, <4>4 DEF TypeOK
    <3>2. CASE ~InPattern(Head(stack))
      BY <1>1, <3>2 DEF MatchNew, Met, TypeOK
    <3> QED BY <3>1, <3>2
  <2>6. UNCHANGED <<problem, strayed, status>>
    BY <1>1 DEF MatchNew
  <2> QED BY <2>2, <2>4, <2>5, <2>6 DEF TypeOK, Items
<1>2. CASE Resolve \/ Stray
  <2>1. stack # <<>> /\ stack' = <<Addition(Head(stack))>> \o Tail(stack) /\ IsRef(Head(stack))
    BY <1>2 DEF Resolve, Stray, AtItem
  <2>2. stack' \in Seq(Items)
    <3>1. Head(stack) \in Items
      BY <2>1, HeadTailProperties DEF TypeOK
    <3>2. <<Addition(Head(stack))>> \in [1 .. 1 -> Items]
      BY <2>1, <3>1, AdditionTyped DEF IsRef
    <3> QED BY <2>1, <3>2, StackFacts
  <2>3. todo' \in Seq(Locs(problem))
    BY <1>2, WalkFacts DEF Resolve, Stray, TypeOK
  <2>4. UNCHANGED <<problem, references, status>> /\ strayed' \in BOOLEAN
    BY <1>2 DEF Resolve, Stray, TypeOK
  <2> QED BY <2>2, <2>3, <2>4 DEF TypeOK, Items
<1>3. CASE MatchVariable
  <2>1. stack # <<>> /\ todo # <<>> /\ Walk /\ stack' = Tail(stack)
    BY <1>3 DEF MatchVariable, AtItem
  <2>2. UNCHANGED <<problem, references, strayed, status>>
    BY <1>3 DEF MatchVariable
  <2> QED BY <2>1, <2>2, WalkFacts, PopFacts DEF TypeOK, Items
<1>4. CASE MatchConstant
  <2>1. stack # <<>> /\ todo # <<>> /\ Walk
    BY <1>4 DEF MatchConstant, AtItem
  <2>2. todo' \in Seq(Locs(problem))
    BY <2>1, WalkFacts
  <2>3. Head(stack) \in Locs(problem)
    BY <1>4, <2>1, HeadTailProperties DEF TypeOK, MatchConstant, IsConstant, IsNew, Items
  <2>4. stack' \in Seq(Items)
    <3> DEFINE n == Arity(Head(stack))
               f == [k \in 1 .. n |-> At(Head(stack), <<k>>)]
    <3>1. n \in Nat /\ f \in [1 .. n -> Locs(problem)]
      BY <2>3, Arguments DEF TypeOK
    <3>2. f \in [1 .. n -> Items]
      BY <3>1 DEF Items
    <3>3. stack' = f \o Tail(stack)
      BY <1>4 DEF MatchConstant
    <3> HIDE DEF n, f
    <3> QED BY <2>1, <3>1, <3>2, <3>3, StackFacts
  <2>5. UNCHANGED <<problem, references, strayed, status>>
    BY <1>4 DEF MatchConstant
  <2> QED BY <2>2, <2>4, <2>5 DEF TypeOK, Items
<1>5. CASE Yield \/ DeadEnd \/ UNCHANGED vars
  BY <1>5 DEF Yield, DeadEnd, vars, TypeOK, Items
<1> QED BY <1>1, <1>2, <1>3, <1>4, <1>5 DEF Next

LEMMA TypeInit ==
  ASSUME Init
  PROVE  /\ TypeOK
         /\ Len(stack) = Len(todo)
         /\ \A i \in 1 .. Len(stack) : /\ i \in DOMAIN problem.pairs
                                       /\ stack[i] = problem.pairs[i][1]
                                       /\ todo[i] = problem.pairs[i][2]
<1>1. problem \in Problems /\ WellFormed(problem)
  BY ProblemsAssumption DEF Init
<1>2. problem.pairs \in Seq(Locs(problem) \X Locs(problem))
  BY <1>1 DEF WellFormed
<1> DEFINE n == Len(problem.pairs)
<1>3. n \in Nat /\ DOMAIN problem.pairs = 1 .. n
  BY <1>2
<1>4. \A k \in 1 .. n : problem.pairs[k] \in Locs(problem) \X Locs(problem)
  BY <1>2, <1>3
<1>5. /\ stack = [k \in 1 .. n |-> problem.pairs[k][1]]
      /\ todo = [k \in 1 .. n |-> problem.pairs[k][2]]
  BY <1>3 DEF Init
<1>6. stack \in [1 .. n -> Items] /\ todo \in [1 .. n -> Locs(problem)]
  BY <1>4, <1>5 DEF Items
<1>7. /\ stack \in Seq(Items) /\ Len(stack) = n
      /\ todo \in Seq(Locs(problem)) /\ Len(todo) = n
  BY <1>3, <1>6
<1>8. DOMAIN references = {}
  BY DEF Init
<1>9. TypeOK
  BY <1>1, <1>7, <1>8 DEF Init, TypeOK
<1> QED BY <1>3, <1>5, <1>7, <1>9

(* The descent stays among the locations of the patterns and the data.      *)
THEOREM Typed == Spec => []TypeOK
BY TypeInit, TypeInvariance, PTL DEF Spec

-----------------------------------------------------------------------------
(* The stack and the data ahead have one length, until a reference is passed *)
(* by; from then on the stack is longer and can not be emptied.              *)
Aligned ==
  /\ ~strayed => Len(stack) = Len(todo)
  /\ strayed => Len(stack) > Len(todo)
  /\ status = "found" => stack = <<>>

LEMMA AlignedInvariance ==
  ASSUME TypeOK, Aligned, [Next]_vars
  PROVE  Aligned'
<1>1. CASE MatchNew
  <2>1. stack # <<>> /\ todo # <<>> /\ Walk /\ status = "run"
    BY <1>1 DEF MatchNew, AtItem
  <2>2. /\ Head(todo) \in Locs(problem) /\ Head(todo) = todo[1] /\ Len(todo) \in Nat \ {0}
        /\ Len(todo') = Arity(Head(todo)) + Len(todo) - 1
    BY <2>1, WalkFacts
  <2>3. Arity(Head(todo)) \in Nat
    BY <2>2, Arguments DEF TypeOK
  <2>4. /\ Len(stack) \in Nat \ {0}
        /\ Len(stack') = Arity(Head(todo)) + Len(stack) - 1
    <3> DEFINE n == Arity(Head(todo))
               f == [k \in 1 .. n |-> Wild]
    <3>1. n \in Nat /\ f \in [1 .. n -> Items]
      BY <2>3, WildBlock
    <3>2. stack' = f \o Tail(stack)
      BY <1>1 DEF MatchNew
    <3>3. n = Arity(Head(todo))
      OBVIOUS
    <3> HIDE DEF n, f
    <3> QED BY <2>1, <3>1, <3>2, <3>3, StackFacts
  <2>5. strayed' = strayed /\ status' = "run"
    BY <1>1, <2>1 DEF MatchNew
  <2> QED BY <2>2, <2>3, <2>4, <2>5 DEF Aligned, TypeOK
<1>2. CASE Resolve \/ Stray
  <2>1. stack # <<>> /\ stack' = <<Addition(Head(stack))>> \o Tail(stack) /\ status' = "run"
    BY <1>2 DEF Resolve, Stray, AtItem
  <2>2. Len(stack') = Len(stack) /\ Len(stack) \in Nat
    <3>1. Head(stack) \in Items /\ Head(stack) # Wild
      BY <1>2, <2>1, HeadTailProperties DEF TypeOK, Resolve, Stray, IsRef
    <3>2. <<Addition(Head(stack))>> \in [1 .. 1 -> Items]
      BY <3>1, AdditionTyped
    <3>3. Len(stack') = 1 + Len(stack) - 1 /\ Len(stack) \in Nat
      BY <2>1, <3>2, StackFacts
    <3> QED BY <3>3
  <2>3. CASE Resolve
    BY <2>1, <2>2, <2>3 DEF Resolve, Aligned
  <2>4. CASE Stray
    <3>1. todo # <<>> /\ Walk /\ IsVar(problem, Head(todo)) /\ strayed'
      BY <2>4 DEF Stray
    <3>2. /\ Head(todo) \in Locs(problem) /\ Len(todo) \in Nat
          /\ Len(todo') = Arity(Head(todo)) + Len(todo) - 1
      BY <3>1, WalkFacts
    <3>3. Arity(Head(todo)) = 0
      BY <3>1, <3>2, Arguments DEF TypeOK
    <3> QED BY <2>1, <2>2, <3>1, <3>2, <3>3 DEF Aligned, TypeOK
  <2> QED BY <1>2, <2>3, <2>4
<1>3. CASE MatchVariable
  <2>1. /\ stack # <<>> /\ todo # <<>> /\ Walk /\ stack' = Tail(stack) /\ status' = "run"
        /\ IsVar(problem, Head(todo)) /\ strayed' = strayed
    BY <1>3 DEF MatchVariable, AtItem
  <2>2. /\ Head(todo) \in Locs(problem) /\ Len(todo) \in Nat
        /\ Len(todo') = Arity(Head(todo)) + Len(todo) - 1
    BY <2>1, WalkFacts
  <2>3. Arity(Head(todo)) = 0
    BY <2>1, <2>2, Arguments DEF TypeOK
  <2>4. Len(stack') = Len(stack) - 1 /\ Len(stack) \in Nat
    BY <2>1, PopFacts
  <2> QED BY <2>1, <2>2, <2>3, <2>4 DEF Aligned, TypeOK
<1>4. CASE MatchConstant
  <2>1. /\ stack # <<>> /\ todo # <<>> /\ Walk /\ status' = "run" /\ strayed' = strayed
        /\ Label(problem, Head(todo)) = Label(problem, Head(stack))
    BY <1>4 DEF MatchConstant, AtItem
  <2>2. /\ Head(todo) \in Locs(problem) /\ Len(todo) \in Nat
        /\ Len(todo') = Arity(Head(todo)) + Len(todo) - 1
    BY <2>1, WalkFacts
  <2>3. Head(stack) \in Locs(problem)
    BY <1>4, <2>1, HeadTailProperties DEF TypeOK, MatchConstant, IsConstant, IsNew, Items
  <2>4. Len(stack) \in Nat /\ Len(stack') = Arity(Head(stack)) + Len(stack) - 1
    <3> DEFINE n == Arity(Head(stack))
               f == [k \in 1 .. n |-> At(Head(stack), <<k>>)]
    <3>1. n \in Nat /\ f \in [1 .. n -> Locs(problem)]
      BY <2>3, Arguments DEF TypeOK
    <3>2. f \in [1 .. n -> Items]
      BY <3>1 DEF Items
    <3>3. stack' = f \o Tail(stack)
      BY <1>4 DEF MatchConstant
    <3>4. n = Arity(Head(stack))
      OBVIOUS
    <3> HIDE DEF n, f
    <3> QED BY <2>1, <3>1, <3>2, <3>3, <3>4, StackFacts
  <2>5. Arity(Head(stack)) = Arity(Head(todo)) /\ Arity(Head(todo)) \in Nat
    BY <2>1, <2>2, Arguments DEF Arity, TypeOK
  <2> QED BY <2>1, <2>2, <2>4, <2>5 DEF Aligned, TypeOK
<1>5. CASE Yield
  BY <1>5 DEF Yield, Aligned
<1>6. CASE DeadEnd \/ UNCHANGED vars
  BY <1>6 DEF DeadEnd, vars, Aligned
<1> QED BY <1>1, <1>2, <1>3, <1>4, <1>5, <1>6 DEF Next

LEMMA AlignedHolds == Spec => [](TypeOK /\ Aligned)
<1>1. Init => TypeOK /\ Aligned
  BY TypeInit DEF Init, Aligned
<1>2. TypeOK /\ Aligned /\ [Next]_vars => (TypeOK /\ Aligned)'
  BY TypeInvariance, AlignedInvariance
<1> QED BY <1>1, <1>2, PTL DEF Spec

(* f is called at the end of the last expression only: the descent never    *)
(* reports a data expression with a part of it unread.                       *)
THEOREM Whole == Spec => []FoundIsWhole
<1>1. TypeOK /\ Aligned => FoundIsWhole
  <2> SUFFICES ASSUME TypeOK, Aligned, status = "found"
               PROVE  todo = <<>>
    BY DEF FoundIsWhole
  <2>1. Len(stack) = 0 /\ Len(todo) \in Nat
    BY EmptySeq DEF Aligned, TypeOK
  <2> QED BY <2>1, EmptySeq DEF Aligned, TypeOK
<1> QED BY <1>1, AlignedHolds, PTL

(* f is never called by a descent that passed a reference by with the       *)
(* addition of Tag::VarRef still on the stack: the stack can not run empty.  *)
THEOREM Strays == Spec => []StraysFindNothing
<1>1. TypeOK /\ Aligned => StraysFindNothing
  <2> SUFFICES ASSUME TypeOK, Aligned, status = "found"
               PROVE  ~strayed
    BY DEF StraysFindNothing
  <2>1. Len(stack) = 0 /\ Len(todo) \in Nat
    BY EmptySeq DEF Aligned, TypeOK
  <2> QED BY <2>1, EmptySeq DEF Aligned, TypeOK
<1> QED BY <1>1, AlignedHolds, PTL

-----------------------------------------------------------------------------
(* A solution gives an item and the data it is matched with one value, and  *)
(* a variable of the pattern the value of the data at its reference.         *)
StackFits(s) == \A i \in 1 .. Len(stack) : stack[i] # Wild => s[stack[i]] = s[todo[i]]

ReferencesFit(s) ==
  \A l \in Locs(problem) :
    IsVar(problem, l) /\ l[1] = 0 /\ Var(problem, l) \in DOMAIN references =>
      s[l] = s[references[Var(problem, l)]]

Fits ==
  ~strayed => \A s \in Valuations(problem) :
                Solves(problem, s) => StackFits(s) /\ ReferencesFit(s)

LEMMA FitsInvariance ==
  ASSUME TypeOK, Aligned, Fits, [Next]_vars
  PROVE  Fits'
<1> SUFFICES ASSUME ~strayed', NEW s \in Valuations(problem'), Solves(problem', s)
             PROVE  StackFits(s)' /\ ReferencesFit(s)'
  BY DEF Fits
<1>1. /\ problem' = problem /\ problem \in Problems /\ s \in Valuations(problem) /\ Solves(problem, s)
      /\ ~strayed
  BY DEF Next, vars, MatchNew, Resolve, Stray, MatchVariable, MatchConstant, Yield, DeadEnd, TypeOK
<1>2. StackFits(s) /\ ReferencesFit(s) /\ Len(stack) = Len(todo)
  BY <1>1 DEF Fits, Aligned
<1>3. stack # <<>> => Len(stack) \in Nat \ {0} /\ Head(stack) = stack[1] /\ Head(stack) \in Items
  BY HeadTailProperties, EmptySeq DEF TypeOK
<1>4. stack # <<>> /\ Head(stack) # Wild => s[Head(stack)] = s[todo[1]] /\ Head(stack) \in Locs(problem)
  BY <1>2, <1>3 DEF StackFits, Items
<1>5. CASE MatchNew
  <2>1. stack # <<>> /\ todo # <<>> /\ Walk
    BY <1>5 DEF MatchNew, AtItem
  <2> DEFINE n == Arity(todo[1])
             f == [k \in 1 .. n |-> Wild]
  <2>2. /\ Head(todo) = todo[1] /\ todo[1] \in Locs(problem) /\ Len(todo) \in Nat
        /\ \A i \in n + 1 .. n + Len(todo) - 1 : todo'[i] = todo[i - n + 1]
    BY <2>1, WalkFacts
  <2>3. n \in Nat /\ f \in [1 .. n -> Items] /\ \A k \in 1 .. n : f[k] = Wild
    BY <1>1, <2>2, Arguments, WildBlock
  <2>4. stack' = f \o Tail(stack)
    BY <1>5, <2>2 DEF MatchNew
  <2> HIDE DEF n, f
  <2>5. /\ Len(stack') = n + Len(stack) - 1
        /\ \A i \in 1 .. n : stack'[i] = Wild
        /\ \A i \in n + 1 .. n + Len(stack) - 1 : stack'[i] = stack[i - n + 1]
    BY <2>1, <2>3, <2>4, StackFacts
  <2>6. StackFits(s)'
    <3> SUFFICES ASSUME NEW i \in 1 .. Len(stack'), stack'[i] # Wild
                 PROVE  s[stack'[i]] = s[todo'[i]]
      BY DEF StackFits
    <3>1. i \in n + 1 .. n + Len(stack) - 1 /\ i - n + 1 \in 1 .. Len(stack)
      BY <1>3, <2>1, <2>3, <2>5
    <3> QED BY <1>2, <2>2, <2>5, <3>1 DEF StackFits
  <2>7. ReferencesFit(s)'
    <3>1. CASE InPattern(Head(stack))
      <4> DEFINE e == Head(stack)
      <4>1. e \in Locs(problem) /\ IsVar(problem, e) /\ s[e] = s[todo[1]] /\ e[1] = 0
        BY <1>4, <1>5, <2>1, <3>1 DEF InPattern, MatchNew, IsNew, IsVar
      <4>2. references' = [v \in DOMAIN references \cup {Var(problem, e)} |->
                             IF v = Var(problem, e) THEN todo[1] ELSE references[v]]
        BY <1>5, <2>2, <3>1 DEF MatchNew, Met
      <4> HIDE DEF e
      <4> SUFFICES ASSUME NEW l \in Locs(problem), IsVar(problem, l), l[1] = 0,
                          Var(problem, l) \in DOMAIN references'
                   PROVE  s[l] = s[references'[Var(problem, l)]]
        BY <1>1 DEF ReferencesFit
      <4>3. CASE Var(problem, l) = Var(problem, e)
        <5>1. s[l] = s[e]
          BY <1>1, <4>1, <4>3, ValuationsAssumption DEF Instantiates
        <5> QED BY <4>1, <4>2, <4>3, <5>1
      <4>4. CASE Var(problem, l) # Var(problem, e)
        BY <1>2, <4>2, <4>4 DEF ReferencesFit
      <4> QED BY <4>3, <4>4
    <3>2. CASE ~InPattern(Head(stack))
      BY <1>1, <1>2, <1>5, <3>2 DEF MatchNew, Met, ReferencesFit
    <3> QED BY <3>1, <3>2
  <2> QED BY <2>6, <2>7
<1>6. CASE Resolve
  <2>1. /\ stack # <<>> /\ stack' = <<Addition(Head(stack))>> \o Tail(stack) /\ IsRef(Head(stack))
        /\ todo' = todo /\ references' = references
    BY <1>6 DEF Resolve, AtItem
  <2>2. Head(stack) # Wild /\ Head(stack) \in Locs(problem) /\ s[Head(stack)] = s[todo[1]]
    BY <1>4, <2>1 DEF IsRef
  <2>3. Addition(Head(stack)) # Wild => s[Addition(Head(stack))] = s[todo[1]]
    <3> SUFFICES ASSUME Addition(Head(stack)) # Wild
                 PROVE  s[Addition(Head(stack))] = s[todo[1]]
      OBVIOUS
    <3>1. /\ InPattern(Head(stack)) /\ Var(problem, Head(stack)) \in DOMAIN references
          /\ Addition(Head(stack)) = references[Var(problem, Head(stack))]
      BY DEF Addition
    <3>2. IsVar(problem, Head(stack)) /\ Head(stack)[1] = 0
      BY <2>1, <3>1 DEF IsRef, IsVar, InPattern
    <3> QED BY <1>2, <2>2, <3>1, <3>2 DEF ReferencesFit
  <2>4. <<Addition(Head(stack))>> \in [1 .. 1 -> Items] /\ <<Addition(Head(stack))>>[1] = Addition(Head(stack))
    BY <1>3, <2>1, <2>2, AdditionTyped
  <2>5. /\ Len(stack') = 1 + Len(stack) - 1
        /\ \A i \in 1 .. 1 : stack'[i] = <<Addition(Head(stack))>>[i]
        /\ \A i \in 1 + 1 .. 1 + Len(stack) - 1 : stack'[i] = stack[i - 1 + 1]
    BY <2>1, <2>4, StackFacts
  <2>6. StackFits(s)'
    <3> SUFFICES ASSUME NEW i \in 1 .. Len(stack'), stack'[i] # Wild
                 PROVE  s[stack'[i]] = s[todo'[i]]
      BY DEF StackFits
    <3>1. CASE i = 1
      BY <2>1, <2>3, <2>4, <2>5, <3>1
    <3>2. CASE i # 1
      <4>1. i \in 1 + 1 .. 1 + Len(stack) - 1 /\ i \in 1 .. Len(stack) /\ i - 1 + 1 = i
        BY <1>3, <2>1, <2>5, <3>2
      <4>2. stack'[i] = stack[i]
        BY <2>5, <4>1
      <4> QED BY <1>2, <2>1, <4>1, <4>2 DEF StackFits
    <3> QED BY <3>1, <3>2
  <2> QED BY <1>1, <1>2, <2>1, <2>6 DEF ReferencesFit
<1>7. CASE Stray
  BY <1>7 DEF Stray
<1>8. CASE MatchVariable
  <2>1. /\ stack # <<>> /\ todo # <<>> /\ Walk /\ stack' = Tail(stack)
        /\ IsVar(problem, Head(todo)) /\ references' = references
    BY <1>8 DEF MatchVariable, AtItem
  <2>2. /\ Head(todo) \in Locs(problem) /\ Head(todo) = todo[1] /\ Len(todo) \in Nat
        /\ \A i \in Arity(todo[1]) + 1 .. Arity(todo[1]) + Len(todo) - 1 :
             todo'[i] = todo[i - Arity(todo[1]) + 1]
    BY <2>1, WalkFacts
  <2>3. Arity(todo[1]) = 0
    BY <1>1, <2>1, <2>2, Arguments
  <2>4. \A i \in 1 .. Len(todo) - 1 : todo'[i] = todo[i + 1]
    BY <2>2, <2>3
  <2>5. Len(stack') = Len(stack) - 1 /\ \A i \in 1 .. Len(stack) - 1 : stack'[i] = stack[i + 1]
    BY <2>1, PopFacts
  <2>6. StackFits(s)'
    <3> SUFFICES ASSUME NEW i \in 1 .. Len(stack'), stack'[i] # Wild
                 PROVE  s[stack'[i]] = s[todo'[i]]
      BY DEF StackFits
    <3>1. i \in 1 .. Len(stack) - 1 /\ i + 1 \in 1 .. Len(stack)
      BY <1>3, <2>1, <2>5
    <3> QED BY <1>2, <2>4, <2>5, <3>1 DEF StackFits
  <2> QED BY <1>1, <1>2, <2>1, <2>6 DEF ReferencesFit
<1>9. CASE MatchConstant
  <2>1. /\ stack # <<>> /\ todo # <<>> /\ Walk /\ references' = references
        /\ Label(problem, Head(todo)) = Label(problem, Head(stack))
        /\ Head(stack) # Wild /\ ~IsVar(problem, Head(stack))
    BY <1>9 DEF MatchConstant, AtItem, IsConstant, IsNew, IsRef, IsVar
  <2> DEFINE e == Head(stack)
             n == Arity(e)
             f == [k \in 1 .. n |-> At(e, <<k>>)]
  <2>2. e \in Locs(problem) /\ s[e] = s[todo[1]]
    BY <1>4, <2>1
  <2>3. /\ Head(todo) = todo[1] /\ todo[1] \in Locs(problem) /\ Len(todo) \in Nat
        /\ Arity(todo[1]) = n
        /\ \A i \in 1 .. n : todo'[i] = At(todo[1], <<i>>)
        /\ \A i \in n + 1 .. n + Len(todo) - 1 : todo'[i] = todo[i - n + 1]
    <3>1. Head(todo) = todo[1] /\ todo[1] \in Locs(problem) /\ Len(todo) \in Nat
      BY <2>1, WalkFacts
    <3>2. Arity(todo[1]) = n
      BY <2>1, <3>1 DEF Arity
    <3> HIDE DEF n
    <3>3. /\ \A i \in 1 .. Arity(todo[1]) : todo'[i] = At(todo[1], <<i>>)
          /\ \A i \in Arity(todo[1]) + 1 .. Arity(todo[1]) + Len(todo) - 1 :
               todo'[i] = todo[i - Arity(todo[1]) + 1]
      BY <2>1, WalkFacts
    <3> QED BY <3>1, <3>2, <3>3
  <2>4. n \in Nat /\ f \in [1 .. n -> Items] /\ \A k \in 1 .. n : f[k] = At(e, <<k>>)
    BY <1>1, <2>2, Arguments DEF Items
  <2>5. stack' = f \o Tail(stack)
    BY <1>9 DEF MatchConstant
  <2>6. \A k \in 1 .. n : s[At(e, <<k>>)] = s[At(todo[1], <<k>>)]
    <3>1. ~IsVar(problem, todo[1])
      BY <2>1, <2>3 DEF IsVar
    <3>2. Label(problem, e).tag = "arity" =>
            \A k \in 1 .. Label(problem, e).val : s[At(e, <<k>>)] = s[At(todo[1], <<k>>)]
      BY <1>1, <2>1, <2>2, <2>3, <3>1, EqualValues
    <3>3. CASE Label(problem, e).tag = "arity"
      <4>1. n = Label(problem, e).val
        BY <3>3 DEF Arity
      <4> HIDE DEF n, f, e
      <4> QED BY ONLY <3>2, <3>3, <4>1
    <3>4. CASE Label(problem, e).tag # "arity"
      <4>1. n = 0
        BY <3>4 DEF Arity
      <4> HIDE DEF n, f, e
      <4> QED BY ONLY <4>1
    <3> QED BY <3>3, <3>4
  <2> HIDE DEF n, f, e
  <2>7. /\ Len(stack') = n + Len(stack) - 1
        /\ \A i \in 1 .. n : stack'[i] = f[i]
        /\ \A i \in n + 1 .. n + Len(stack) - 1 : stack'[i] = stack[i - n + 1]
    BY <2>1, <2>4, <2>5, StackFacts
  <2>8. StackFits(s)'
    <3> SUFFICES ASSUME NEW i \in 1 .. Len(stack'), stack'[i] # Wild
                 PROVE  s[stack'[i]] = s[todo'[i]]
      BY DEF StackFits
    <3>1. CASE i <= n
      <4>1. i \in 1 .. n
        BY <1>3, <2>1, <2>4, <2>7, <3>1
      <4>2. stack'[i] = At(e, <<i>>) /\ todo'[i] = At(todo[1], <<i>>)
        BY ONLY <2>3, <2>4, <2>7, <4>1
      <4>3. s[At(e, <<i>>)] = s[At(todo[1], <<i>>)]
        BY ONLY <2>6, <4>1
      <4> QED BY <4>2, <4>3
    <3>2. CASE ~(i <= n)
      <4>1. i \in n + 1 .. n + Len(stack) - 1 /\ i - n + 1 \in 1 .. Len(stack)
        BY <1>3, <2>1, <2>4, <2>7, <3>2
      <4> QED BY <1>2, <2>3, <2>7, <4>1 DEF StackFits
    <3> QED BY <3>1, <3>2
  <2> QED BY <1>1, <1>2, <2>1, <2>8 DEF ReferencesFit
<1>10. CASE Yield \/ DeadEnd \/ UNCHANGED vars
  <2>1. UNCHANGED <<problem, stack, todo, references>>
    BY <1>10 DEF Yield, DeadEnd, vars
  <2> QED BY <1>2, <2>1 DEF StackFits, ReferencesFit
<1> QED BY <1>5, <1>6, <1>7, <1>8, <1>9, <1>10 DEF Next

(* A dead end is a label of the patterns that is not that of the data, and   *)
(* both have one value in every solution: there is none.                     *)
LEMMA CompleteInvariance ==
  ASSUME TypeOK, Aligned, Fits, SearchComplete, [Next]_vars
  PROVE  SearchComplete'
<1>1. CASE DeadEnd
  <2> SUFFICES ASSUME ~strayed, NEW s \in Valuations(problem), Solves(problem, s)
               PROVE  FALSE
    BY <1>1 DEF DeadEnd, SearchComplete
  <2>1. StackFits(s) /\ Len(stack) = Len(todo) /\ stack # <<>>
    BY <1>1 DEF Fits, Aligned, DeadEnd, AtItem
  <2>2. Len(stack) \in Nat \ {0} /\ Head(stack) = stack[1] /\ Head(stack) \in Items
    BY <2>1, HeadTailProperties, EmptySeq DEF TypeOK
  <2>3. todo # <<>>
    BY <2>1, <2>2
  <2>4. Head(todo) = todo[1] /\ todo[1] \in Locs(problem)
    BY <2>3, HeadTailProperties DEF TypeOK
  <2>5. /\ Head(stack) # Wild /\ ~IsVar(problem, Head(stack))
        /\ ~IsVar(problem, todo[1])
        /\ Label(problem, todo[1]) # Label(problem, Head(stack))
    BY <1>1, <2>3, <2>4 DEF DeadEnd, IsConstant, IsNew, IsRef, IsVar
  <2>6. Head(stack) \in Locs(problem) /\ s[Head(stack)] = s[todo[1]]
    BY <2>1, <2>2, <2>5 DEF StackFits, Items
  <2> QED BY <2>4, <2>5, <2>6, EqualValues DEF TypeOK
<1>2. CASE MatchNew \/ Resolve \/ Stray \/ MatchVariable \/ MatchConstant
  BY <1>2 DEF MatchNew, Resolve, Stray, MatchVariable, MatchConstant, AtItem, SearchComplete
<1>3. CASE Yield \/ UNCHANGED vars
  BY <1>3 DEF Yield, vars, SearchComplete
<1> QED BY <1>1, <1>2, <1>3 DEF Next

(* The index leaves out no expression that unifies with the patterns.        *)
THEOREM Complete == Spec => []SearchComplete
<1>1. Init => TypeOK /\ Aligned /\ Fits /\ SearchComplete
  <2> SUFFICES ASSUME Init PROVE TypeOK /\ Aligned /\ Fits /\ SearchComplete
    OBVIOUS
  <2>1. TypeOK /\ Aligned /\ SearchComplete
    BY TypeInit DEF Init, Aligned, SearchComplete
  <2>2. Fits
    BY TypeInit DEF Fits, StackFits, ReferencesFit, Solves, Init
  <2> QED BY <2>1, <2>2
<1>2. TypeOK /\ Aligned /\ Fits /\ SearchComplete /\ [Next]_vars
        => (TypeOK /\ Aligned /\ Fits /\ SearchComplete)'
  BY TypeInvariance, AlignedInvariance, FitsInvariance, CompleteInvariance
<1> QED BY <1>1, <1>2, PTL DEF Spec

-----------------------------------------------------------------------------
(* unify *)

(* unify's terms are the terms of the descent. *)
LEMMA UnifyTerms ==
  /\ \A p : Unification!Locs(p) = Locs(p)
  /\ \A p, l : /\ Unification!Label(p, l) = Label(p, l)
               /\ Unification!IsVar(p, l) <=> IsVar(p, l)
               /\ Unification!Var(p, l) = Var(p, l)
  /\ \A l, q : Unification!At(l, q) = At(l, q)
  /\ \A p, l, m : Unification!Shared(p, l, m) = Shared(p, l, m)
  /\ \A p, s : Unification!Solves(p, s) <=> Solves(p, s)
BY DEF Unification!Locs, Locs, Unification!Label, Label, Unification!IsVar, IsVar,
   Unification!Var, Var, Unification!At, At, Unification!Shared, Shared,
   Unification!Solves, Solves

LEMMA UnifyCardinality == \A S : Unification!Cardinality(S) = Cardinality(S)
BY DEF Unification!Cardinality, Cardinality

LEMMA LeastSize ==
  ASSUME NEW T \in SUBSET Nat, T # {}
  PROVE  \E n \in T : \A k \in T : ~(k < n)
<1>1. PICK n \in T : \A k \in T : ~(<<k, n>> \in OpToRel(<, Nat))
  BY WFMin, NatLessThanWellFounded, Zenon
<1>2. ASSUME NEW k \in T PROVE ~(k < n)
  <2>1. ~(<<k, n>> \in {w \in Nat \X Nat : w[1] < w[2]})
    BY <1>1, Zenon DEF OpToRel
  <2> QED BY <2>1
<1> QED BY <1>2

(* One value for all occurrences of a variable. *)
LEMMA OneValue ==
  ASSUME NEW p \in Problems, NEW s \in Valuations(p), NEW l \in Locs(p), NEW m \in Locs(p),
         IsVar(p, l), IsVar(p, m), Var(p, l) = Var(p, m)
  PROVE  s[l] = s[m]
BY ValuationsAssumption DEF Instantiates

(* Equal values are equal wherever both terms have a position, and their     *)
(* labels are, where neither side is a variable.                             *)
LEMMA EqualParts ==
  ASSUME NEW p \in Problems, NEW s \in Valuations(p), NEW l \in Locs(p), NEW m \in Locs(p),
         s[l] = s[m], NEW q \in Shared(p, l, m)
  PROVE  /\ s[At(l, q)] = s[At(m, q)]
         /\ IsVar(p, At(l, q)) \/ IsVar(p, At(m, q)) \/ Label(p, At(l, q)) = Label(p, At(m, q))
<1>1. Agree(p, s, l, m) /\ \A r \in Shared(p, l, m) : s[At(l, r)] = s[At(m, r)]
  BY ValuationsAssumption DEF Instantiates
<1>2. q \in Positions /\ At(l, q) \in Locs(p) /\ At(m, q) \in Locs(p)
  BY DEF Shared
<1> QED BY <1>1, <1>2 DEF Agree

(* Different values differ at a position that both terms have. *)
LEMMA UnequalParts ==
  ASSUME NEW p \in Problems, NEW s \in Valuations(p), NEW l \in Locs(p), NEW m \in Locs(p),
         s[l] # s[m]
  PROVE  \E q \in Shared(p, l, m) :
           IF IsVar(p, At(l, q)) \/ IsVar(p, At(m, q))
           THEN s[At(l, q)] # s[At(m, q)]
           ELSE Label(p, At(l, q)) # Label(p, At(m, q))
<1>1. ~Agree(p, s, l, m)
  BY ValuationsAssumption DEF Instantiates
<1> QED BY <1>1 DEF Agree, Shared

LEMMA Sizes ==
  ASSUME NEW p \in Problems, NEW s \in Valuations(p), NEW l \in Locs(p)
  PROVE  /\ Size(s[l]) \in Nat
         /\ \A q \in Positions \ {<<>>} : At(l, q) \in Locs(p) => Size(s[At(l, q)]) < Size(s[l])
BY ValuationsAssumption DEF Instantiates

-----------------------------------------------------------------------------
(* What the bindings and the pairs say *)

IsBound(l) == IsVar(problem, l) /\ Var(problem, l) \in DOMAIN bindings

Obeys(s) == \A l \in Locs(problem) : IsBound(l) => s[l] = s[bindings[Var(problem, l)]]

\* The valuations that respect the bindings.
Obedient == {s \in Valuations(problem) : Obeys(s)}

SolvesPairs(s) == \A k \in DOMAIN pairs : s[pairs[k][1]] = s[pairs[k][2]]

Clashing(l, m) ==
  \E q \in Shared(problem, l, m) :
    /\ ~IsVar(problem, At(l, q)) /\ ~IsVar(problem, At(m, q))
    /\ Label(problem, At(l, q)) # Label(problem, At(m, q))

HolesOf(l, m) ==
  {q \in Shared(problem, l, m) : IsVar(problem, At(l, q)) \/ IsVar(problem, At(m, q))}

LEMMA UnifyWords ==
  /\ \A l : Unification!Bound(l) <=> IsBound(l)
  /\ \A s : Unification!Respects(s) <=> Obeys(s)
  /\ \A s : Unification!SolvesStack(s) <=> SolvesPairs(s)
  /\ \A l, m : Unification!Differ(l, m) <=> Clashing(l, m)
  /\ \A l, m : Unification!Holes(l, m) = HolesOf(l, m)
<1>1. \A l : Unification!Bound(l) <=> IsBound(l)
  BY UnifyTerms DEF Unification!Bound, IsBound
<1>2. \A s : Unification!Respects(s) <=> Obeys(s)
  BY <1>1, UnifyTerms DEF Unification!Respects, Obeys
<1>3. \A s : Unification!SolvesStack(s) <=> SolvesPairs(s)
  BY DEF Unification!SolvesStack, SolvesPairs
<1>4. \A l, m : Unification!Differ(l, m) <=> Clashing(l, m)
  BY UnifyTerms DEF Unification!Differ, Clashing
<1>5. \A l, m : Unification!Holes(l, m) = HolesOf(l, m)
  BY UnifyTerms DEF Unification!Holes, HolesOf
<1> QED BY <1>1, <1>2, <1>3, <1>4, <1>5

\* A claim is a pair of locations that has to be equal.  It waits on the stack,
\* in its own words or in what the bindings make of them;
Waits(c) ==
  \E k \in DOMAIN pairs : \A s \in Obedient :
    s[c[1]] = s[pairs[k][1]] /\ s[c[2]] = s[pairs[k][2]]

\* or the bindings say it;
Equated(c) == \A s \in Obedient : s[c[1]] = s[c[2]]

\* or match2 has compared what the bindings make of it, with a claim in C for
\* each hole: on the stack, since, or on one of the earlier occasions that
\* encountered remembers.
Split(c, C) ==
  \E l, m \in Locs(problem) :
    /\ ~IsVar(problem, l) /\ ~IsVar(problem, m)
    /\ \A s \in Obedient : s[c[1]] = s[l] /\ s[c[2]] = s[m]
    /\ ~Clashing(l, m)
    /\ \A q \in HolesOf(l, m) : <<At(l, q), At(m, q)>> \in C

Accounted(C) ==
  /\ C \subseteq Locs(problem) \X Locs(problem)
  /\ \A k \in DOMAIN problem.pairs : problem.pairs[k] \in C
  /\ encountered \subseteq C
  /\ \A c \in C : Waits(c) \/ Equated(c) \/ Split(c, C)

(* Claims may be split into one another in a circle, when the bindings are   *)
(* cyclic.  They hold nevertheless: of the claims that do not, one is about  *)
(* the smallest value; it was split, and a claim for one of its holes, which *)
(* is about a smaller value, does not hold either.                           *)
LEMMA ClaimsHold ==
  ASSUME problem \in Problems, NEW C, Accounted(C), NEW s \in Obedient, SolvesPairs(s)
  PROVE  \A c \in C : s[c[1]] = s[c[2]]
<1> SUFFICES ASSUME NEW b \in C, s[b[1]] # s[b[2]] PROVE FALSE
  OBVIOUS
<1> DEFINE broken == {c \in C : s[c[1]] # s[c[2]]}
           T == {Size(s[c[1]]) : c \in broken}
<1>1. s \in Valuations(problem) /\ C \subseteq Locs(problem) \X Locs(problem)
  BY DEF Obedient, Accounted
<1>2. \A l \in Locs(problem) : Size(s[l]) \in Nat
  BY <1>1, Sizes
<1>3. T \in SUBSET Nat /\ T # {}
  BY <1>1, <1>2
<1>4. PICK n \in T : \A k \in T : ~(k < n)
  BY <1>3, LeastSize
<1>5. PICK c \in broken : n = Size(s[c[1]])
  OBVIOUS
<1>6. ~Waits(c) /\ ~Equated(c)
  BY <1>5 DEF Waits, Equated, SolvesPairs
<1>7. PICK l \in Locs(problem), m \in Locs(problem) :
        /\ ~IsVar(problem, l) /\ ~IsVar(problem, m)
        /\ s[c[1]] = s[l] /\ s[c[2]] = s[m]
        /\ ~Clashing(l, m)
        /\ \A q \in HolesOf(l, m) : <<At(l, q), At(m, q)>> \in C
  BY <1>5, <1>6 DEF Accounted, Split
<1>8. PICK q \in Shared(problem, l, m) :
        IF IsVar(problem, At(l, q)) \/ IsVar(problem, At(m, q))
        THEN s[At(l, q)] # s[At(m, q)]
        ELSE Label(problem, At(l, q)) # Label(problem, At(m, q))
  BY <1>1, <1>5, <1>7, UnequalParts
<1>9. q \in HolesOf(l, m) /\ s[At(l, q)] # s[At(m, q)]
  BY <1>7, <1>8 DEF Clashing, HolesOf
<1>10. q \in Positions \ {<<>>} /\ At(l, q) \in Locs(problem)
  <2>1. At(l, <<>>) = l /\ At(m, <<>>) = m
    BY Leaf
  <2> QED BY <1>7, <1>9, <2>1 DEF HolesOf, Shared
<1>11. Size(s[At(l, q)]) < n
  BY <1>1, <1>5, <1>7, <1>10, Sizes
<1>12. <<At(l, q), At(m, q)>> \in broken
  BY <1>7, <1>9
<1> QED BY <1>4, <1>11, <1>12

-----------------------------------------------------------------------------
(* The inductive invariant of unify *)

UTyped ==
  /\ problem \in Problems
  /\ pairs \in Seq(Locs(problem) \X Locs(problem))
  /\ \A v \in DOMAIN bindings : bindings[v] \in Locs(problem)
  /\ encountered \subseteq Locs(problem) \X Locs(problem)
  /\ outcome = "bound" => pairs # <<>>
  /\ outcome = "ok" => pairs = <<>>

\* Nothing is assumed that the pairs do not say.
Implied == \A s \in Valuations(problem) : Solves(problem, s) => Obeys(s) /\ SolvesPairs(s)

\* Nothing is lost of what they say.
Justified == \E C : Accounted(C)

Refuted == outcome \in {"difference", "occurs"} => \A s \in Valuations(problem) : ~Solves(problem, s)

UInv == UTyped /\ Implied /\ Justified /\ Refuted

(* The bindings and the pairs of an intermediate state say what the pairs    *)
(* of the problem do.                                                        *)
LEMMA SaysTheSame ==
  ASSUME UInv, NEW s \in Valuations(problem)
  PROVE  Solves(problem, s) <=> Obeys(s) /\ SolvesPairs(s)
<1>1. Solves(problem, s) => Obeys(s) /\ SolvesPairs(s)
  BY DEF UInv, Implied
<1>2. ASSUME Obeys(s), SolvesPairs(s) PROVE Solves(problem, s)
  <2>1. PICK C : Accounted(C)
    BY DEF UInv, Justified
  <2>2. s \in Obedient /\ problem \in Problems
    BY <1>2 DEF Obedient, UInv, UTyped
  <2>3. \A c \in C : s[c[1]] = s[c[2]]
    BY <1>2, <2>1, <2>2, ClaimsHold
  <2> QED BY <2>1, <2>3 DEF Accounted, Solves
<1> QED BY <1>1, <1>2

(* unify starts with the pairs themselves. *)
LEMMA Called ==
  /\ problem \in Problems /\ pairs = problem.pairs /\ bindings = <<>> /\ encountered = {}
  /\ outcome = "pop"
  => UInv
<1> SUFFICES ASSUME problem \in Problems, pairs = problem.pairs, bindings = <<>>,
                    encountered = {}, outcome = "pop"
             PROVE  UInv
  OBVIOUS
<1>1. problem.pairs \in Seq(Locs(problem) \X Locs(problem))
  BY ProblemsAssumption DEF WellFormed
<1>2. UTyped /\ Refuted
  BY <1>1 DEF UTyped, Refuted
<1>3. Implied
  BY DEF Implied, Obeys, IsBound, SolvesPairs, Solves
<1>4. Justified
  <2> DEFINE C == {pairs[k] : k \in DOMAIN pairs}
  <2>1. C \subseteq Locs(problem) \X Locs(problem) /\ \A k \in DOMAIN problem.pairs : problem.pairs[k] \in C
    BY <1>1
  <2>2. \A c \in C : Waits(c)
    BY DEF Waits
  <2>3. Accounted(C)
    BY <2>1, <2>2 DEF Accounted
  <2> QED BY <2>3 DEF Justified
<1> QED BY <1>2, <1>3, <1>4 DEF UInv

(* A step that leaves the bindings and the pairs alone.                      *)
LEMMA Untouched ==
  ASSUME UInv, UNCHANGED <<problem, pairs, bindings, encountered>>
  PROVE  Implied' /\ Justified'
<1>1. Implied'
  BY DEF UInv, Implied, Obeys, IsBound, SolvesPairs
<1>2. PICK C : Accounted(C)
  BY DEF UInv, Justified
<1>3. Obedient' = Obedient
  BY DEF Obedient, Obeys, IsBound
<1>4. Accounted(C)'
  <2>1. \A c \in C : Waits(c) => Waits(c)'
    BY <1>3 DEF Waits
  <2>2. \A c \in C : Equated(c) => Equated(c)'
    BY <1>3 DEF Equated
  <2>3. ASSUME NEW l, NEW m PROVE (Clashing(l, m)' <=> Clashing(l, m)) /\ HolesOf(l, m)' = HolesOf(l, m)
    BY DEF Clashing, HolesOf
  <2>4. \A c \in C : Split(c, C) => Split(c, C)'
    BY <1>3, <2>3 DEF Split
  <2> QED BY <1>2, <2>1, <2>2, <2>4 DEF Accounted
<1> QED BY <1>1, <1>4 DEF Justified

(* The pair on top, which a step is about.                                   *)
LEMMA OnTop ==
  ASSUME UInv, pairs # <<>>
  PROVE  /\ Len(pairs) \in Nat \ {0} /\ DOMAIN pairs = 1 .. Len(pairs)
         /\ Unification!X \in Locs(problem) /\ Unification!Y \in Locs(problem)
         /\ pairs[Len(pairs)] = <<Unification!X, Unification!Y>>
         /\ Unification!Rest \in Seq(Locs(problem) \X Locs(problem))
         /\ Len(Unification!Rest) = Len(pairs) - 1
         /\ \A k \in 1 .. Len(pairs) - 1 : Unification!Rest[k] = pairs[k]
<1>1. /\ pairs \in Seq(Locs(problem) \X Locs(problem)) /\ Len(pairs) \in Nat \ {0}
      /\ DOMAIN pairs = 1 .. Len(pairs)
  BY EmptySeq DEF UInv, UTyped
<1>2. \A k \in 1 .. Len(pairs) : pairs[k] \in Locs(problem) \X Locs(problem)
  BY <1>1
<1>3. pairs[Len(pairs)] \in Locs(problem) \X Locs(problem)
  BY <1>1, <1>2
<1>4. /\ Unification!Rest \in Seq(Locs(problem) \X Locs(problem))
      /\ Len(Unification!Rest) = Len(pairs) - 1
      /\ \A k \in 1 .. Len(pairs) - 1 : Unification!Rest[k] = pairs[k]
  <2> DEFINE n == Len(pairs) - 1
  <2>1. n \in Nat /\ \A k \in 1 .. n : pairs[k] \in Locs(problem) \X Locs(problem)
    BY <1>1, <1>2
  <2>2. Unification!Rest = SubSeq(pairs, 1, n)
    BY DEF Unification!Rest
  <2> HIDE DEF n
  <2>3. /\ SubSeq(pairs, 1, n) \in Seq(Locs(problem) \X Locs(problem))
        /\ Len(SubSeq(pairs, 1, n)) = IF 1 <= n THEN n - 1 + 1 ELSE 0
        /\ \A i \in 1 .. n - 1 + 1 : SubSeq(pairs, 1, n)[i] = pairs[1 + i - 1]
    BY <2>1, SubSeqProperties
  <2>4. n - 1 + 1 = n /\ \A i \in 1 .. n : 1 + i - 1 = i
    BY <2>1
  <2>5. Len(SubSeq(pairs, 1, n)) = n
    BY <2>1, <2>3
  <2> QED BY <2>2, <2>3, <2>4, <2>5 DEF n
<1> QED BY <1>1, <1>3, <1>4 DEF Unification!X, Unification!Y

(* How the claims are accounted for after a step that is about the pair t on *)
(* top of the stack: those below t wait as before, t waits in other words,   *)
(* is equated or is split into the claims D, and these wait, unless they are *)
(* claims already.                                                           *)
LEMMA AccountStep ==
  ASSUME UInv, pairs # <<>>, problem' = problem, Obedient' \subseteq Obedient,
         NEW C, Accounted(C), NEW t, t = pairs[Len(pairs)],
         NEW D, D \subseteq Locs(problem) \X Locs(problem), encountered' \subseteq C \cup D,
         \A k \in 1 .. Len(pairs) - 1 : k \in DOMAIN pairs' /\ pairs'[k] = pairs[k],
         (Waits(t) \/ Equated(t) \/ Split(t, C \cup D))',
         \A d \in D : d \in C \/ Waits(d)'
  PROVE  Justified'
<1>1. Len(pairs) \in Nat \ {0} /\ DOMAIN pairs = 1 .. Len(pairs)
  BY OnTop
<1>2. ASSUME NEW c \in C PROVE (Waits(c) \/ Equated(c) \/ Split(c, C \cup D))'
  <2>1. CASE Waits(c)
    <3>1. PICK k \in DOMAIN pairs : \A s \in Obedient :
            s[c[1]] = s[pairs[k][1]] /\ s[c[2]] = s[pairs[k][2]]
      BY <2>1 DEF Waits
    <3>2. CASE k = Len(pairs)
      <4>1. \A s \in Obedient' : s[c[1]] = s[t[1]] /\ s[c[2]] = s[t[2]]
        BY <3>1, <3>2
      <4>2. Waits(t)' => Waits(c)'
        BY <4>1 DEF Waits
      <4>3. Equated(t)' => Equated(c)'
        BY <4>1 DEF Equated
      <4>4. Split(t, C \cup D)' => Split(c, C \cup D)'
        BY <4>1 DEF Split
      <4> QED BY <4>2, <4>3, <4>4
    <3>3. CASE k # Len(pairs)
      <4>1. k \in 1 .. Len(pairs) - 1
        BY <1>1, <3>3
      <4>2. k \in DOMAIN pairs' /\ pairs'[k] = pairs[k]
        BY <4>1
      <4>3. \A s \in Obedient' : s[c[1]] = s[pairs'[k][1]] /\ s[c[2]] = s[pairs'[k][2]]
        BY <3>1, <4>2
      <4> QED BY <4>2, <4>3 DEF Waits
    <3> QED BY <3>2, <3>3
  <2>2. CASE Equated(c)
    BY <2>2 DEF Equated
  <2>3. CASE Split(c, C)
    BY <2>3 DEF Split, Clashing, HolesOf
  <2> QED BY <1>2, <2>1, <2>2, <2>3 DEF Accounted
<1>3. (C \cup D \subseteq Locs(problem) \X Locs(problem))'
  BY DEF Accounted
<1>4. (\A k \in DOMAIN problem.pairs : problem.pairs[k] \in C \cup D)'
  BY DEF Accounted
<1>5. Accounted(C \cup D)'
  BY <1>2, <1>3, <1>4 DEF Accounted
<1> QED BY <1>5 DEF Justified

LEMMA AccountTop ==
  ASSUME UInv, pairs # <<>>, UNCHANGED <<problem, encountered>>, Obedient' \subseteq Obedient,
         NEW t, t = pairs[Len(pairs)],
         \A k \in 1 .. Len(pairs) - 1 : k \in DOMAIN pairs' /\ pairs'[k] = pairs[k],
         (Waits(t) \/ Equated(t))'
  PROVE  Justified'
<1>1. PICK C : Accounted(C)
  BY DEF UInv, Justified
<1> DEFINE D == {}
<1>2. D \subseteq Locs(problem) \X Locs(problem) /\ \A d \in D : d \in C \/ Waits(d)'
  OBVIOUS
<1>3. encountered' \subseteq C \cup D
  BY <1>1 DEF Accounted
<1> HIDE DEF D
<1>4. (Waits(t) \/ Equated(t) \/ Split(t, C \cup D))'
  OBVIOUS
<1>5. problem' = problem
  OBVIOUS
<1> QED BY ONLY UInv, pairs # <<>>, <1>5, Obedient' \subseteq Obedient, <1>1, <1>2, <1>3, <1>4,
           t = pairs[Len(pairs)],
           \A k \in 1 .. Len(pairs) - 1 : k \in DOMAIN pairs' /\ pairs'[k] = pairs[k], AccountStep

-----------------------------------------------------------------------------
(* The steps of unify *)

\* A step that changes the outcome only.
LEMMA ReturnStep ==
  ASSUME UInv,
         Unification!Pop \/ Unification!GiveUp \/ Unification!Finish
  PROVE  UInv'
<1>1. UNCHANGED <<problem, pairs, bindings, encountered>> /\ outcome' \in {"bound", "maxiter", "ok"}
  BY DEF Unification!Pop, Unification!GiveUp, Unification!Finish
<1>2. (outcome' = "bound" => pairs # <<>>) /\ (outcome' = "ok" => pairs = <<>>)
  BY DEF Unification!Pop, Unification!GiveUp, Unification!Finish
<1>3. UTyped' /\ Refuted'
  BY <1>1, <1>2 DEF UInv, UTyped, Refuted
<1> QED BY <1>1, <1>3, Untouched DEF UInv

LEMMA RefuseStep ==
  ASSUME UInv,
         Unification!Clash \/ Unification!OccursX \/ Unification!OccursY
  PROVE  UInv'
<1>1. /\ UNCHANGED <<problem, pairs, bindings, encountered>> /\ outcome' \in {"difference", "occurs"}
      /\ outcome = "bound" /\ pairs # <<>>
  BY DEF Unification!Clash, Unification!OccursX, Unification!OccursY, Unification!Dereferenced,
     UInv, UTyped
<1>2. PICK x, y : x = Unification!X /\ y = Unification!Y
  OBVIOUS
<1>3. /\ Len(pairs) \in DOMAIN pairs /\ pairs[Len(pairs)] = <<x, y>>
      /\ x \in Locs(problem) /\ y \in Locs(problem) /\ problem \in Problems
  BY <1>1, <1>2, OnTop DEF UInv, UTyped
<1>4. ASSUME NEW s \in Valuations(problem), Solves(problem, s) PROVE FALSE
  <2>1. s[x] = s[y]
    BY <1>3, <1>4 DEF UInv, Implied, SolvesPairs
  <2>2. CASE Unification!Clash
    <3>1. PICK q \in Shared(problem, x, y) :
            /\ ~IsVar(problem, At(x, q)) /\ ~IsVar(problem, At(y, q))
            /\ Label(problem, At(x, q)) # Label(problem, At(y, q))
      BY <1>2, <2>2, UnifyWords DEF Unification!Clash, Clashing
    <3> QED BY <1>3, <2>1, <3>1, EqualParts
  <2>3. ASSUME NEW u \in Locs(problem), NEW v \in Locs(problem), s[u] = s[v], IsVar(problem, u),
               ~(IsVar(problem, v) /\ Var(problem, u) = Var(problem, v)),
               Unification!Occurs(Unification!Var(problem, u), v)
        PROVE  FALSE
    <3>1. PICK q \in Shared(problem, v, v) :
            IsVar(problem, At(v, q)) /\ Var(problem, At(v, q)) = Var(problem, u)
      BY <2>3, UnifyTerms DEF Unification!Occurs
    <3>2. q \in Positions /\ At(v, q) \in Locs(problem)
      BY DEF Shared
    <3>3. q # <<>>
      BY <1>3, <2>3, <3>1, Leaf
    <3>4. s[At(v, q)] = s[u]
      BY <1>3, <2>3, <3>1, <3>2, OneValue
    <3>5. Size(s[At(v, q)]) < Size(s[v]) /\ Size(s[v]) \in Nat
      BY <1>3, <3>2, <3>3, Sizes
    <3> QED BY <2>3, <3>4, <3>5
  <2>4. CASE Unification!OccursX
    <3>1. /\ IsVar(problem, x) /\ ~(IsVar(problem, y) /\ Var(problem, x) = Var(problem, y))
          /\ Unification!Occurs(Unification!Var(problem, x), y)
      BY <1>2, <2>4, UnifyTerms DEF Unification!OccursX, Unification!SameVariable
    <3> QED BY <1>3, <2>1, <2>3, <3>1
  <2>5. CASE Unification!OccursY
    <3>1. /\ IsVar(problem, y) /\ ~IsVar(problem, x)
          /\ Unification!Occurs(Unification!Var(problem, y), x)
      BY <1>2, <2>5, UnifyTerms DEF Unification!OccursY
    <3> QED BY <1>3, <2>1, <2>3, <3>1
  <2> QED BY <2>2, <2>4, <2>5
<1>5. UTyped' /\ Refuted'
  BY <1>1, <1>4 DEF UInv, UTyped, Refuted
<1> QED BY <1>1, <1>5, Untouched DEF UInv

\* One turn of derefBound: the pair waits in the words of the binding.
LEMMA DerefStep ==
  ASSUME UInv,
         Unification!DerefX \/ Unification!DerefY
  PROVE  UInv'
<1>1. /\ UNCHANGED <<problem, bindings, encountered, outcome>>
      /\ outcome = "bound" /\ pairs # <<>>
  BY DEF Unification!DerefX, Unification!DerefY, UInv, UTyped
<1>2. PICK x, y : x = Unification!X /\ y = Unification!Y
  OBVIOUS
<1>3. /\ Len(pairs) \in Nat \ {0} /\ DOMAIN pairs = 1 .. Len(pairs) /\ pairs[Len(pairs)] = <<x, y>>
      /\ x \in Locs(problem) /\ y \in Locs(problem) /\ problem \in Problems
      /\ Unification!Rest \in Seq(Locs(problem) \X Locs(problem))
      /\ Len(Unification!Rest) = Len(pairs) - 1
      /\ \A k \in 1 .. Len(pairs) - 1 : Unification!Rest[k] = pairs[k]
  BY <1>1, <1>2, OnTop DEF UInv, UTyped
<1>4. \E l \in Locs(problem), m \in Locs(problem) :
        /\ pairs' = Append(Unification!Rest, <<l, m>>)
        /\ \A s : Obeys(s) => s[x] = s[l] /\ s[y] = s[m]
  <2>1. CASE Unification!DerefX
    <3>1. IsBound(x) /\ pairs' = Append(Unification!Rest, <<bindings[Var(problem, x)], y>>)
      BY <1>2, <2>1, UnifyTerms, UnifyWords DEF Unification!DerefX
    <3>2. bindings[Var(problem, x)] \in Locs(problem)
      BY <3>1 DEF IsBound, UInv, UTyped
    <3>3. \A s : Obeys(s) => s[x] = s[bindings[Var(problem, x)]]
      BY <1>3, <3>1 DEF Obeys
    <3> QED BY <1>3, <3>1, <3>2, <3>3
  <2>2. CASE Unification!DerefY
    <3>1. IsBound(y) /\ pairs' = Append(Unification!Rest, <<x, bindings[Var(problem, y)]>>)
      BY <1>2, <2>2, UnifyTerms, UnifyWords DEF Unification!DerefY
    <3>2. bindings[Var(problem, y)] \in Locs(problem)
      BY <3>1 DEF IsBound, UInv, UTyped
    <3>3. \A s : Obeys(s) => s[y] = s[bindings[Var(problem, y)]]
      BY <1>3, <3>1 DEF Obeys
    <3> QED BY <1>3, <3>1, <3>2, <3>3
  <2> QED BY <2>1, <2>2
<1>5. PICK l \in Locs(problem), m \in Locs(problem) :
        /\ pairs' = Append(Unification!Rest, <<l, m>>)
        /\ \A s : Obeys(s) => s[x] = s[l] /\ s[y] = s[m]
  BY <1>4
<1>6. /\ pairs' \in Seq(Locs(problem) \X Locs(problem)) /\ pairs' # <<>>
      /\ DOMAIN pairs' = 1 .. Len(pairs)
      /\ \A k \in 1 .. Len(pairs) - 1 : pairs'[k] = pairs[k]
      /\ pairs'[Len(pairs)] = <<l, m>>
  <2> DEFINE r == Unification!Rest
             n == Len(pairs) - 1
             e == <<l, m>>
  <2>1. /\ n \in Nat /\ n + 1 = Len(pairs)
        /\ r \in Seq(Locs(problem) \X Locs(problem)) /\ Len(r) = n
        /\ \A k \in 1 .. n : r[k] = pairs[k]
    BY <1>3
  <2>e. e \in Locs(problem) \X Locs(problem)
    BY <1>5
  <2>r. r \in Seq(Locs(problem) \X Locs(problem))
    BY <1>3
  <2>0. pairs' = Append(r, e)
    BY <1>5
  <2> HIDE DEF r, n, e
  <2>2. /\ Append(r, e) \in Seq(Locs(problem) \X Locs(problem))
        /\ Append(r, e) # <<>>
        /\ Len(Append(r, e)) = Len(r) + 1
        /\ \A i \in 1 .. Len(r) : Append(r, e)[i] = r[i]
        /\ Append(r, e)[Len(r) + 1] = e
    BY <2>e, <2>r, AppendProperties
  <2>3. DOMAIN pairs' = 1 .. Len(pairs)
    BY <2>0, <2>1, <2>2
  <2> QED BY <2>0, <2>1, <2>2, <2>3 DEF n, e
<1>7. Obedient' = Obedient /\ \A s : Obeys(s)' <=> Obeys(s)
  BY <1>1 DEF Obedient, Obeys, IsBound
<1>8. UTyped' /\ Refuted'
  BY <1>1, <1>6 DEF UInv, UTyped, Refuted
<1>9. Implied'
  <2> SUFFICES ASSUME NEW s \in Valuations(problem), Solves(problem, s)
               PROVE  Obeys(s)' /\ SolvesPairs(s)'
    BY <1>1 DEF Implied
  <2>1. Obeys(s) /\ SolvesPairs(s)
    BY DEF UInv, Implied
  <2>2. \A k \in 1 .. Len(pairs) : s[pairs'[k][1]] = s[pairs'[k][2]]
    <3> SUFFICES ASSUME NEW k \in 1 .. Len(pairs) PROVE s[pairs'[k][1]] = s[pairs'[k][2]]
      OBVIOUS
    <3>1. CASE k = Len(pairs)
      <4>1. s[x] = s[y]
        BY <1>3, <2>1 DEF SolvesPairs
      <4>2. s[x] = s[l] /\ s[y] = s[m]
        BY <1>5, <2>1, Zenon
      <4>3. pairs'[k] = <<l, m>>
        BY <1>6, <3>1, Zenon
      <4>4. pairs'[k][1] = l /\ pairs'[k][2] = m
        BY <4>3
      <4> QED BY <4>1, <4>2, <4>4, Zenon
    <3>2. CASE k # Len(pairs)
      <4>0. Len(pairs) \in Nat \ {0}
        BY <1>3
      <4>1. k \in 1 .. Len(pairs) - 1
        BY <4>0, <3>2
      <4>2. pairs'[k] = pairs[k] /\ k \in DOMAIN pairs
        BY <1>3, <1>6, <4>1
      <4> QED BY <2>1, <4>2 DEF SolvesPairs
    <3> QED BY <3>1, <3>2
  <2> QED BY <1>6, <1>7, <2>1, <2>2 DEF SolvesPairs
<1>10. Justified'
  <2>1. PICK t : t = pairs[Len(pairs)]
    OBVIOUS
  <2>2. \A s \in Obedient' : s[t[1]] = s[l] /\ s[t[2]] = s[m]
    BY <1>3, <1>5, <1>7, <2>1 DEF Obedient
  <2>3. Len(pairs) \in DOMAIN pairs'
    BY <1>3, <1>6
  <2>4. Waits(t)'
    <3>1. \A s \in Obedient' : s[t[1]] = s[pairs'[Len(pairs)][1]] /\ s[t[2]] = s[pairs'[Len(pairs)][2]]
      BY <1>6, <2>2
    <3> QED BY <2>3, <3>1 DEF Waits
  <2>5. \A k \in 1 .. Len(pairs) - 1 : k \in DOMAIN pairs' /\ pairs'[k] = pairs[k]
    <3>1. \A k \in 1 .. Len(pairs) - 1 : k \in 1 .. Len(pairs)
      BY <1>3
    <3> QED BY <1>6, <3>1, Zenon
  <2>6. UNCHANGED <<problem, encountered>> /\ Obedient' \subseteq Obedient
    BY <1>1, <1>7
  <2> QED BY <1>1, <2>1, <2>4, <2>5, <2>6, AccountTop
<1> QED BY <1>8, <1>9, <1>10 DEF UInv

\* The pair is popped when the bindings say it: it is one variable twice, or
\* one of its sides is a variable that is now bound to the other.
LEMMA PopStep ==
  ASSUME UInv,
         Unification!Same \/ Unification!BindX \/ Unification!BindY
  PROVE  UInv'
<1>1. /\ UNCHANGED <<problem, encountered>> /\ pairs' = Unification!Rest
      /\ outcome = "bound" /\ outcome' = "pop" /\ pairs # <<>>
  BY DEF Unification!Same, Unification!BindX, Unification!BindY, Unification!Dereferenced,
     UInv, UTyped
<1>2. PICK x, y : x = Unification!X /\ y = Unification!Y
  OBVIOUS
<1>3. /\ Len(pairs) \in Nat \ {0} /\ DOMAIN pairs = 1 .. Len(pairs) /\ pairs[Len(pairs)] = <<x, y>>
      /\ x \in Locs(problem) /\ y \in Locs(problem) /\ problem \in Problems
      /\ pairs' \in Seq(Locs(problem) \X Locs(problem))
      /\ Len(pairs') = Len(pairs) - 1
      /\ \A k \in 1 .. Len(pairs) - 1 : pairs'[k] = pairs[k]
  BY <1>1, <1>2, OnTop DEF UInv, UTyped
<1>4. \/ /\ IsVar(problem, x) /\ IsVar(problem, y) /\ Var(problem, x) = Var(problem, y)
         /\ bindings' = bindings
      \/ \E u, v \in Locs(problem) :
           /\ {u, v} = {x, y} /\ IsVar(problem, u) /\ ~IsBound(u)
           /\ bindings' = [w \in DOMAIN bindings \cup {Var(problem, u)} |->
                             IF w = Var(problem, u) THEN v ELSE bindings[w]]
  <2>1. CASE Unification!Same
    BY <1>2, <2>1, UnifyTerms DEF Unification!Same, Unification!SameVariable
  <2>2. CASE Unification!BindX
    BY <1>2, <1>3, <2>2, UnifyTerms, UnifyWords
       DEF Unification!BindX, Unification!Bind, Unification!Dereferenced
  <2>3. CASE Unification!BindY
    BY <1>2, <1>3, <2>3, UnifyTerms, UnifyWords
       DEF Unification!BindY, Unification!Bind, Unification!Dereferenced
  <2> QED BY <2>1, <2>2, <2>3
<1>5. /\ \A v \in DOMAIN bindings' : bindings'[v] \in Locs(problem)
      /\ \A s \in Valuations(problem) : Obeys(s)' <=> Obeys(s) /\ s[x] = s[y]
  <2>1. CASE /\ IsVar(problem, x) /\ IsVar(problem, y) /\ Var(problem, x) = Var(problem, y)
             /\ bindings' = bindings
    <3>1. \A s \in Valuations(problem) : s[x] = s[y]
      BY <1>3, <2>1, OneValue
    <3> QED BY <1>1, <2>1, <3>1 DEF Obeys, IsBound, UInv, UTyped
  <2>2. ASSUME NEW u \in Locs(problem), NEW v \in Locs(problem),
               {u, v} = {x, y}, IsVar(problem, u), ~IsBound(u),
               bindings' = [w \in DOMAIN bindings \cup {Var(problem, u)} |->
                              IF w = Var(problem, u) THEN v ELSE bindings[w]]
        PROVE  /\ \A w \in DOMAIN bindings' : bindings'[w] \in Locs(problem)
               /\ \A s \in Valuations(problem) : Obeys(s)' <=> Obeys(s) /\ s[x] = s[y]
    <3>1. Var(problem, u) \notin DOMAIN bindings
      BY <2>2 DEF IsBound
    <3>2. \A w \in DOMAIN bindings' : bindings'[w] \in Locs(problem)
      BY <2>2 DEF UInv, UTyped
    <3>3. ASSUME NEW s \in Valuations(problem), Obeys(s)' PROVE Obeys(s) /\ s[x] = s[y]
      <4>1. \A l \in Locs(problem) : IsVar(problem, l) /\ Var(problem, l) \in DOMAIN bindings' =>
              s[l] = s[bindings'[Var(problem, l)]]
        BY <1>1, <3>3 DEF Obeys, IsBound
      <4>2. s[u] = s[v]
        BY <2>2, <4>1
      <4>3. ASSUME NEW l \in Locs(problem), IsBound(l) PROVE s[l] = s[bindings[Var(problem, l)]]
        <5>1. IsVar(problem, l) /\ Var(problem, l) \in DOMAIN bindings
          BY <4>3 DEF IsBound
        <5>2. bindings'[Var(problem, l)] = bindings[Var(problem, l)]
          BY <2>2, <3>1, <5>1
        <5> QED BY <2>2, <4>1, <5>1, <5>2
      <4>4. s[x] = s[y]
        BY <2>2, <4>2
      <4> QED BY <4>3, <4>4 DEF Obeys
    <3>4. ASSUME NEW s \in Valuations(problem), Obeys(s), s[x] = s[y] PROVE Obeys(s)'
      <4>1. ASSUME NEW l \in Locs(problem), IsVar(problem, l), Var(problem, l) \in DOMAIN bindings'
            PROVE  s[l] = s[bindings'[Var(problem, l)]]
        <5>1. CASE Var(problem, l) = Var(problem, u)
          <6>1. s[l] = s[u]
            BY <1>3, <2>2, <4>1, <5>1, OneValue
          <6>2. s[u] = s[v]
            BY <2>2, <3>4
          <6> QED BY <2>2, <5>1, <6>1, <6>2
        <5>2. CASE Var(problem, l) # Var(problem, u)
          BY <2>2, <3>4, <4>1, <5>2 DEF Obeys, IsBound
        <5> QED BY <5>1, <5>2
      <4> QED BY <1>1, <4>1 DEF Obeys, IsBound
    <3> QED BY <3>2, <3>3, <3>4
  <2> QED BY <1>4, <2>1, <2>2
<1>6. UTyped' /\ Refuted'
  BY <1>1, <1>3, <1>5 DEF UInv, UTyped, Refuted
<1>7. Implied'
  <2> SUFFICES ASSUME NEW s \in Valuations(problem), Solves(problem, s)
               PROVE  Obeys(s)' /\ SolvesPairs(s)'
    BY <1>1 DEF Implied
  <2>1. Obeys(s) /\ SolvesPairs(s)
    BY DEF UInv, Implied
  <2>2. s[x] = s[y]
    BY <1>3, <2>1 DEF SolvesPairs
  <2>3. ASSUME NEW k \in DOMAIN pairs' PROVE pairs'[k] = pairs[k] /\ k \in DOMAIN pairs
    <3>1. k \in 1 .. Len(pairs) - 1
      BY <1>3
    <3> QED BY <1>3, <3>1
  <2> QED BY <1>5, <2>1, <2>2, <2>3 DEF SolvesPairs
<1>8. Justified'
  <2>1. PICK t : t = pairs[Len(pairs)]
    OBVIOUS
  <2>2. Obedient' \subseteq Obedient
    BY <1>1, <1>5 DEF Obedient
  <2>3. Equated(t)'
    BY <1>1, <1>3, <1>5, <2>1 DEF Equated, Obedient
  <2>4. \A k \in 1 .. Len(pairs) - 1 : k \in DOMAIN pairs' /\ pairs'[k] = pairs[k]
    BY <1>3
  <2> QED BY <1>1, <2>1, <2>2, <2>3, <2>4, AccountTop
<1> QED BY <1>6, <1>7, <1>8 DEF UInv

\* match2: the pair is split into one for each of its holes, and those that
\* were encountered before are not pushed again.
LEMMA DecomposeStep ==
  ASSUME UInv, Unification!Decompose
  PROVE  UInv'
<1>1. /\ UNCHANGED <<problem, bindings>> /\ outcome = "bound" /\ outcome' = "pop" /\ pairs # <<>>
  BY DEF Unification!Decompose, Unification!Dereferenced, UInv, UTyped
<1>2. PICK x, y : x = Unification!X /\ y = Unification!Y
  OBVIOUS
<1>3. /\ Len(pairs) \in Nat \ {0} /\ DOMAIN pairs = 1 .. Len(pairs) /\ pairs[Len(pairs)] = <<x, y>>
      /\ x \in Locs(problem) /\ y \in Locs(problem) /\ problem \in Problems
      /\ Unification!Rest \in Seq(Locs(problem) \X Locs(problem))
      /\ Len(Unification!Rest) = Len(pairs) - 1
      /\ \A k \in 1 .. Len(pairs) - 1 : Unification!Rest[k] = pairs[k]
  BY <1>1, <1>2, OnTop DEF UInv, UTyped
<1>4. ~IsVar(problem, x) /\ ~IsVar(problem, y) /\ ~Clashing(x, y)
  BY <1>2, UnifyTerms, UnifyWords DEF Unification!Decompose
<1> DEFINE Part(q) == <<At(x, q), At(y, q)>>
<1>5. PICK new \in SUBSET HolesOf(x, y) :
        /\ \A q \in HolesOf(x, y) : q \in new \/ Part(q) \in encountered
        /\ encountered' \subseteq encountered \cup {Part(q) : q \in new}
        /\ \E f \in [1 .. Cardinality(new) -> new] :
             /\ \A q \in new : \E k \in 1 .. Cardinality(new) : f[k] = q
             /\ pairs' = Unification!Rest \o [k \in 1 .. Cardinality(new) |-> Part(f[k])]
  <2> DEFINE N == {q \in Unification!Holes(x, y) :
                     Unification!Pushed(Unification!At(x, q), Unification!At(y, q))}
  <2>1. /\ \E f \in Unification!Ordered(N) :
             pairs' = Unification!Rest \o
               [k \in 1 .. Cardinality(N) |-> <<Unification!At(x, f[k]), Unification!At(y, f[k])>>]
        /\ encountered' = encountered \cup
             {<<Unification!At(x, q), Unification!At(y, q)>> :
                q \in {r \in N : ~Unification!Unrecorded(Unification!At(x, r), Unification!At(y, r))}}
    <3> DEFINE Splits(l, m, M) ==
                 /\ \E f \in Unification!Ordered(M) :
                      pairs' = Unification!Rest \o
                        [k \in 1 .. Unification!Cardinality(M) |->
                           <<Unification!At(l, f[k]), Unification!At(m, f[k])>>]
                 /\ encountered' = encountered \cup
                      {<<Unification!At(l, q), Unification!At(m, q)>> :
                         q \in {r \in M : ~Unification!Unrecorded(Unification!At(l, r), Unification!At(m, r))}}
               Pushable(l, m) == {q \in Unification!Holes(l, m) :
                                    Unification!Pushed(Unification!At(l, q), Unification!At(m, q))}
    <3>1. Splits(Unification!X, Unification!Y, Pushable(Unification!X, Unification!Y))
      BY DEF Unification!Decompose
    <3>2. Pushable(x, y) = N
      OBVIOUS
    <3> HIDE DEF Splits, Pushable, N
    <3>3. Splits(x, y, N)
      BY <1>2, <3>1, <3>2
    <3> QED BY <3>3, UnifyCardinality DEF Splits
  <2>2. N \in SUBSET HolesOf(x, y)
    BY UnifyWords
  <2>3. \A q \in HolesOf(x, y) : q \in N \/ Part(q) \in encountered
    BY UnifyWords, UnifyTerms DEF Unification!Pushed
  <2>4. \A q : Part(q) = <<Unification!At(x, q), Unification!At(y, q)>>
    BY UnifyTerms
  <2> HIDE DEF N, Part
  <2>5. encountered' \subseteq encountered \cup {Part(q) : q \in N}
    BY <2>1, <2>4
  <2>6. PICK f \in Unification!Ordered(N) :
             pairs' = Unification!Rest \o
               [k \in 1 .. Cardinality(N) |-> <<Unification!At(x, f[k]), Unification!At(y, f[k])>>]
    BY <2>1
  <2>7. f \in [1 .. Cardinality(N) -> N] /\ \A q \in N : \E k \in 1 .. Cardinality(N) : f[k] = q
    BY UnifyCardinality DEF Unification!Ordered
  <2>8. pairs' = Unification!Rest \o [k \in 1 .. Cardinality(N) |-> Part(f[k])]
    BY <2>4, <2>6
  <2> QED BY <2>2, <2>3, <2>5, <2>7, <2>8
<1>6. PICK f \in [1 .. Cardinality(new) -> new] :
        /\ \A q \in new : \E k \in 1 .. Cardinality(new) : f[k] = q
        /\ pairs' = Unification!Rest \o [k \in 1 .. Cardinality(new) |-> Part(f[k])]
  BY <1>5
<1> DEFINE n == Cardinality(new)
           r == Len(pairs) - 1
           block == [k \in 1 .. n |-> Part(f[k])]
<1>7. \A q \in HolesOf(x, y) : q \in Shared(problem, x, y) /\ Part(q) \in Locs(problem) \X Locs(problem)
  BY DEF HolesOf, Shared
<1>8. n \in Nat
  <2>1. new \subseteq Positions
    BY DEF HolesOf, Shared
  <2>2. IsFiniteSet(new)
    BY <2>1, PositionsAssumption, FS_Subset
  <2> QED BY <2>2, FS_CardinalityType
<1>9. \A k \in 1 .. n : f[k] \in new /\ f[k] \in HolesOf(x, y) /\ block[k] = Part(f[k])
  OBVIOUS
<1>10. block \in Seq(Locs(problem) \X Locs(problem)) /\ Len(block) = n
  <2>1. \A k \in 1 .. n : Part(f[k]) \in Locs(problem) \X Locs(problem)
    BY <1>7, <1>9
  <2> HIDE DEF Part, n
  <2> QED BY <1>8, <2>1
<1>11. pairs' = Unification!Rest \o block
  BY <1>6
<1> HIDE DEF Part, n, r, block
<1>12. /\ pairs' \in Seq(Locs(problem) \X Locs(problem))
       /\ DOMAIN pairs' = 1 .. r + n
       /\ \A k \in 1 .. r : pairs'[k] = pairs[k]
       /\ \A k \in 1 .. n : pairs'[r + k] = Part(f[k])
  <2>1. r \in Nat /\ Len(Unification!Rest) = r /\ \A k \in 1 .. r : Unification!Rest[k] = pairs[k]
    BY <1>3 DEF r
  <2>2. /\ Unification!Rest \o block \in Seq(Locs(problem) \X Locs(problem))
        /\ Len(Unification!Rest \o block) = r + n
        /\ \A i \in 1 .. r + n : (Unification!Rest \o block)[i] =
             IF i <= r THEN Unification!Rest[i] ELSE block[i - r]
    <3> DEFINE rest == Unification!Rest
               S == Locs(problem) \X Locs(problem)
    <3>1. rest \in Seq(S) /\ block \in Seq(S) /\ Len(rest) = r /\ Len(block) = n
      BY <1>3, <1>10, <2>1
    <3> HIDE DEF rest, S
    <3>2. /\ rest \o block \in Seq(S)
          /\ Len(rest \o block) = Len(rest) + Len(block)
          /\ \A i \in 1 .. Len(rest) + Len(block) : (rest \o block)[i] =
               IF i <= Len(rest) THEN rest[i] ELSE block[i - Len(rest)]
      BY <3>1, ConcatProperties
    <3>3. /\ rest \o block \in Seq(S)
          /\ Len(rest \o block) = r + n
          /\ \A i \in 1 .. r + n : (rest \o block)[i] = IF i <= r THEN rest[i] ELSE block[i - r]
      BY <3>1, <3>2
    <3> QED BY <3>3 DEF rest, S
  <2>3. DOMAIN pairs' = 1 .. r + n
    BY <1>11, <2>2
  <2>4. ASSUME NEW k \in 1 .. r PROVE pairs'[k] = pairs[k]
    <3>1. k \in 1 .. r + n /\ k <= r
      BY <1>8, <2>1
    <3> QED BY <1>11, <2>1, <2>2, <3>1
  <2>5. ASSUME NEW k \in 1 .. n PROVE pairs'[r + k] = Part(f[k])
    <3>0. PICK i : i = r + k
      OBVIOUS
    <3>1. i \in 1 .. r + n /\ ~(i <= r) /\ i - r = k
      BY <1>8, <2>1, <3>0
    <3>2. pairs'[i] = block[i - r]
      BY <1>11, <2>2, <3>1, Zenon
    <3> QED BY <1>9, <3>0, <3>1, <3>2
  <2> QED BY <1>11, <2>2, <2>3, <2>4, <2>5
<1>13. Obedient' = Obedient /\ \A s : Obeys(s)' <=> Obeys(s)
  BY <1>1 DEF Obedient, Obeys, IsBound
<1>14. encountered' \subseteq Locs(problem) \X Locs(problem)
  <2>1. encountered \subseteq Locs(problem) \X Locs(problem)
    BY DEF UInv, UTyped
  <2> QED BY <1>5, <1>7, <2>1
<1>15. UTyped' /\ Refuted'
  BY <1>1, <1>12, <1>14 DEF UInv, UTyped, Refuted
<1>16. r \in Nat /\ Len(pairs) = r + 1
  BY <1>3 DEF r
<1>17. Implied'
  <2> SUFFICES ASSUME NEW s \in Valuations(problem), Solves(problem, s)
               PROVE  Obeys(s)' /\ SolvesPairs(s)'
    BY <1>1 DEF Implied
  <2>1. Obeys(s) /\ SolvesPairs(s)
    BY DEF UInv, Implied
  <2>2. s[x] = s[y]
    BY <1>3, <2>1 DEF SolvesPairs
  <2>3. ASSUME NEW k \in 1 .. r + n PROVE s[pairs'[k][1]] = s[pairs'[k][2]]
    <3>1. CASE k \in 1 .. r
      <4>1. pairs'[k] = pairs[k] /\ k \in DOMAIN pairs
        BY <1>3, <1>12, <1>16, <3>1
      <4> QED BY <2>1, <4>1 DEF SolvesPairs
    <3>2. CASE k \notin 1 .. r
      <4>1. k - r \in 1 .. n /\ r + (k - r) = k
        BY <1>8, <1>16, <3>2
      <4>2. pairs'[k] = Part(f[k - r]) /\ f[k - r] \in Shared(problem, x, y)
        BY <1>7, <1>9, <1>12, <4>1
      <4>3. s[At(x, f[k - r])] = s[At(y, f[k - r])]
        BY <1>3, <2>2, <4>2, EqualParts
      <4> QED BY <4>2, <4>3 DEF Part
    <3> QED BY <3>1, <3>2
  <2> QED BY <1>12, <1>13, <2>1, <2>3 DEF SolvesPairs
<1>18. Justified'
  <2>1. PICK C : Accounted(C)
    BY DEF UInv, Justified
  <2>2. PICK t : t = pairs[Len(pairs)]
    OBVIOUS
  <2>3. PICK D : D = {Part(q) : q \in HolesOf(x, y)}
    OBVIOUS
  <2>4. D \subseteq Locs(problem) \X Locs(problem)
    BY <1>7, <2>3
  <2>5. encountered \subseteq C
    BY <2>1 DEF Accounted
  <2>6. encountered' \subseteq C \cup D
    BY <1>5, <2>3, <2>5
  <2>7. \A k \in 1 .. Len(pairs) - 1 : k \in DOMAIN pairs' /\ pairs'[k] = pairs[k]
    <3>1. Len(pairs) - 1 = r /\ \A k \in 1 .. r : k \in 1 .. r + n
      BY <1>8, <1>16
    <3> QED BY <1>12, <3>1
  <2>8. Split(t, C \cup D)'
    <3>1. t[1] = x /\ t[2] = y
      BY <1>3, <2>2
    <3>2. ~Clashing(x, y)' /\ HolesOf(x, y)' = HolesOf(x, y)
      BY <1>1, <1>4 DEF Clashing, HolesOf
    <3>3. \A q \in HolesOf(x, y)' : <<At(x, q), At(y, q)>> \in C \cup D
      BY <2>3, <3>2 DEF Part
    <3> QED BY <1>1, <1>3, <1>4, <3>1, <3>2, <3>3 DEF Split
  <2>9. ASSUME NEW d \in D, d \notin C PROVE Waits(d)'
    <3>1. PICK q \in HolesOf(x, y) : d = Part(q)
      BY <2>3
    <3>2. q \in new
      BY <1>5, <2>5, <2>9, <3>1
    <3>3. PICK k \in 1 .. n : f[k] = q
      BY <1>6, <3>2 DEF n
    <3>4. r + k \in DOMAIN pairs' /\ pairs'[r + k] = d
      BY <1>8, <1>12, <1>16, <3>1, <3>3
    <3> QED BY <3>4 DEF Waits
  <2>10. problem' = problem /\ Obedient' \subseteq Obedient
    BY <1>1, <1>13
  <2> QED BY <1>1, <2>1, <2>2, <2>4, <2>6, <2>7, <2>8, <2>9, <2>10, AccountStep
<1> QED BY <1>15, <1>17, <1>18 DEF UInv

LEMMA UStep ==
  ASSUME UInv, Unification!Next
  PROVE  UInv'
BY ReturnStep, RefuseStep, DerefStep, PopStep, DecomposeStep DEF Unification!Next

-----------------------------------------------------------------------------
(* A tuple of a query *)

\* The tuple is descended to, then handed over, then unified.
QInv ==
  /\ TypeOK /\ Aligned /\ Fits /\ SearchComplete
  /\ outcome = "idle" => bindings = <<>> /\ encountered = {}
  /\ outcome # "idle" => UInv

LEMMA QInvInit == QInit => QInv
<1>1. CASE SearchInit
  <2>1. TypeOK /\ Aligned /\ SearchComplete
    BY <1>1, TypeInit DEF SearchInit, Init, Aligned, SearchComplete
  <2>2. Fits
    BY <1>1, TypeInit DEF SearchInit, Fits, StackFits, ReferencesFit, Solves, Init
  <2> QED BY <1>1, <2>1, <2>2 DEF SearchInit, NoUnification, QInv
<1>2. CASE ExhaustiveInit
  <2>1. /\ problem \in Problems /\ pairs = problem.pairs /\ bindings = <<>> /\ encountered = {}
        /\ outcome = "pop" /\ stack = <<>> /\ todo = <<>> /\ references = <<>>
        /\ strayed = FALSE /\ status = "found"
    BY <1>2 DEF ExhaustiveInit, Unification!Init
  <2>2. TypeOK
    <3>0. DOMAIN <<>> = {}
      OBVIOUS
    <3>1. DOMAIN references = {} /\ strayed \in BOOLEAN
      BY <2>1, <3>0, Zenon
    <3>2. stack \in Seq(Items) /\ todo \in Seq(Locs(problem))
      BY <2>1, EmptySeq
    <3> QED BY <2>1, <3>1, <3>2 DEF TypeOK
  <2>3. Aligned /\ SearchComplete
    BY <2>1 DEF Aligned, SearchComplete
  <2>4. Fits
    BY <2>1 DEF Fits, StackFits, ReferencesFit
  <2> QED BY <2>1, <2>2, <2>3, <2>4, Called DEF QInv
<1> QED BY <1>1, <1>2 DEF QInit

LEMMA QInvStep == QInv /\ [QNext]_qvars => QInv'
<1>1. QInv /\ Call => QInv'
  <2>1. QInv /\ Call => /\ (problem \in Problems /\ pairs = problem.pairs /\ bindings = <<>>
                            /\ encountered = {} /\ outcome = "pop")'
                        /\ UNCHANGED vars
    BY DEF Call, QInv, TypeOK, vars
  <2>2. QInv /\ UNCHANGED vars => (TypeOK /\ Aligned /\ Fits /\ SearchComplete)'
    BY TypeInvariance, AlignedInvariance, FitsInvariance, CompleteInvariance DEF QInv
  <2>3. QInv /\ Call => UInv'
    BY <2>1, Called, PTL
  <2>4. QInv /\ Call => outcome' # "idle"
    BY DEF Call
  <2> QED BY <2>1, <2>2, <2>3, <2>4 DEF QInv
<1>2. ASSUME QInv, [Next]_vars, UNCHANGED uvars PROVE QInv'
  <2>1. (TypeOK /\ Aligned /\ Fits /\ SearchComplete)'
    BY <1>2, TypeInvariance, AlignedInvariance, FitsInvariance, CompleteInvariance DEF QInv
  <2>2. UNCHANGED <<problem, pairs, bindings, encountered, outcome>>
    BY <1>2 DEF uvars, Next, vars, MatchNew, Resolve, Stray, MatchVariable, MatchConstant, Yield, DeadEnd
  <2>3. UInv => UInv'
    BY <2>2, Untouched DEF UInv, UTyped, Refuted
  <2> QED BY <1>2, <2>1, <2>2, <2>3 DEF QInv
<1>3. ASSUME QInv, Unifying PROVE QInv'
  <2>1. (TypeOK /\ Aligned /\ Fits /\ SearchComplete)'
    BY <1>3, TypeInvariance, AlignedInvariance, FitsInvariance, CompleteInvariance DEF QInv, Unifying
  <2>2. UInv'
    BY <1>3, UStep DEF QInv, Unifying
  <2>3. outcome' # "idle"
    BY <1>3 DEF Unifying, Unification!Next, Unification!Pop, Unification!GiveUp, Unification!Finish,
       Unification!DerefX, Unification!DerefY, Unification!Same, Unification!BindX,
       Unification!OccursX, Unification!BindY, Unification!OccursY, Unification!Decompose,
       Unification!Clash, Unification!Dereferenced
  <2> QED BY <2>1, <2>2, <2>3 DEF QInv
<1> QED BY <1>1, <1>2, <1>3 DEF QNext, qvars

LEMMA QInvHolds == QSpec => []QInv
BY QInvInit, QInvStep, PTL DEF QSpec

(* What holds of the descent alone holds of it in a query, whether unify     *)
(* follows it or, under no_search, is called without it.                     *)
THEOREM Descends == QSpec => [](TypeOK /\ FoundIsWhole /\ StraysFindNothing /\ SearchComplete)
<1>1. QInv => TypeOK /\ FoundIsWhole /\ StraysFindNothing /\ SearchComplete
  <2> SUFFICES ASSUME QInv PROVE status = "found" => todo = <<>> /\ ~strayed
    BY DEF QInv, FoundIsWhole, StraysFindNothing
  <2>1. status = "found" => Len(stack) = 0 /\ Len(todo) \in Nat
    BY EmptySeq DEF QInv, Aligned, TypeOK
  <2> QED BY <2>1, EmptySeq DEF QInv, Aligned, TypeOK
<1> QED BY <1>1, QInvHolds, PTL

(* For any problem and at every step of unify, also with cyclic bindings and *)
(* with pairs that are skipped because they were encountered: the bindings   *)
(* and the pairs left have the solutions of the problem, no more, no less.   *)
THEOREM Kept == QSpec => []KeepsSolutions
<1>1. QInv => KeepsSolutions
  BY SaysTheSame, UnifyTerms, UnifyWords DEF QInv, KeepsSolutions, Unification!KeepsSolutions
<1> QED BY <1>1, QInvHolds, PTL

(* A query leaves out only what is no match, or what unify gave up; and a    *)
(* tuple it hands on is solved by whatever its bindings allow.               *)
THEOREM Answers == QSpec => []AnswersAreMatches
<1>1. QInv => AnswersAreMatches
  <2> SUFFICES ASSUME QInv PROVE AnswersAreMatches
    OBVIOUS
  <2>1. \A s \in Valuations(problem) :
          (status = "dead" /\ ~strayed) \/ outcome \in {"difference", "occurs"} => ~Solves(problem, s)
    BY DEF QInv, SearchComplete, UInv, Refuted
  <2>2. ASSUME outcome = "ok", NEW s \in Valuations(problem), Unification!Respects(s)
        PROVE  Solves(problem, s)
    <3>1. UInv /\ Obeys(s) /\ pairs = <<>>
      BY <2>2, UnifyWords DEF QInv, UInv, UTyped
    <3>2. SolvesPairs(s)
      BY <3>1 DEF SolvesPairs
    <3> QED BY <3>1, <3>2, SaysTheSame
  <2> QED BY <2>1, <2>2 DEF AnswersAreMatches
<1> QED BY <1>1, QInvHolds, PTL
=============================================================================
