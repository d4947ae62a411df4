--------------------------- MODULE CalculusProofs ---------------------------
(***************************************************************************)
(* Theorems about the main loop of the kernel, for every program: any      *)
(* execs, templates and matches, and any bound on the steps.               *)
(***************************************************************************)
EXTENDS Calculus, TLAPS

-----------------------------------------------------------------------------
(* What an exec sinks *)

LEMMA Elements ==
  ASSUME NEW T, NEW s \in Seq(T)
  PROVE  Len(s) \in Nat /\ \A n \in 1 .. Len(s) : s[n] \in T
OBVIOUS

LEMMA ProgramTypes ==
  ASSUME NEW e \in Execs
  PROVE  /\ Len(Templates[e]) \in Nat /\ Len(Matches[e]) \in Nat
         /\ Tpls(e) = 1 .. Len(Templates[e])
         /\ \A i \in Tpls(e) : /\ Kind(e, i) \in Kinds
                               /\ Templates[e][i].reduce \in [SUBSET Atoms -> SUBSET Atoms]
         /\ \A m \in 1 .. Len(Matches[e]), i \in Tpls(e) :
              Matches[e][m].out[i] \in Atoms \cup {NoAtom}
<1> DEFINE Template == [kind : Kinds, reduce : [SUBSET Atoms -> SUBSET Atoms]]
           Match == [needs : SUBSET Atoms, out : [1 .. Len(Templates[e]) -> Atoms \cup {NoAtom}]]
<1>1. Templates[e] \in Seq(Template) /\ Matches[e] \in Seq(Match)
  BY ProgramAssumption
<1>2. /\ Len(Templates[e]) \in Nat /\ Len(Matches[e]) \in Nat
      /\ \A i \in 1 .. Len(Templates[e]) : Templates[e][i] \in Template
      /\ \A m \in 1 .. Len(Matches[e]) : Matches[e][m] \in Match
  <2> HIDE DEF Template, Match
  <2> QED
    BY <1>1, Elements
<1> QED
  BY <1>2 DEF Tpls, Kind

LEMMA SunkAtoms ==
  ASSUME NEW e \in Execs, NEW S, NEW k \in 0 .. Len(Matches[e]), NEW i \in Tpls(e)
  PROVE  Sunk(e, S, k, i) \subseteq Atoms
<1>1. \A m \in 1 .. k : Matches[e][m].out[i] \in Atoms \cup {NoAtom}
  BY ProgramTypes
<1> QED
  BY <1>1 DEF Sunk

LEMMA SunkNone ==
  ASSUME NEW e, NEW S, NEW i
  PROVE  Sunk(e, S, 0, i) = {}
BY DEF Sunk

\* The query adds the atoms of one more match.
LEMMA SunkNext ==
  ASSUME NEW S, match \in Nat, NEW i
  PROVE  Sunk(cur, S, match + 1, i) = Sunk(cur, S, match, i) \cup Output(S, i)
<1> DEFINE found(k) == {n \in 1 .. k : Matches[cur][n].needs \subseteq S}
<1>1. found(match + 1) = found(match)
         \cup (IF Matches[cur][match + 1].needs \subseteq S THEN {match + 1} ELSE {})
  OBVIOUS
<1>2. Sunk(cur, S, match + 1, i) = {Matches[cur][m].out[i] : m \in found(match + 1)} \ {NoAtom}
  BY DEF Sunk
<1>3. Sunk(cur, S, match, i) = {Matches[cur][m].out[i] : m \in found(match)} \ {NoAtom}
  BY DEF Sunk
<1> HIDE DEF found
<1> QED
  BY <1>1, <1>2, <1>3 DEF Output

-----------------------------------------------------------------------------
(* The inductive invariant *)

AddsOf(e) == {j \in Tpls(e) : Kind(e, j) = "add"}

\* While the query runs, the space has lost the exec and gained what the add
\* templates got from the matches so far; the other sinks hold theirs.
Querying ==
  /\ IsFirst(cur, readCopy) /\ fin = 0
  /\ space = (readCopy \ {cur}) \cup UNION {Sunk(cur, readCopy, match, i) : i \in AddsOf(cur)}
  /\ \A i \in Tpls(cur) \ AddsOf(cur) : held[i] = Sunk(cur, readCopy, match, i)

\* The effect of an exec when its first n sinks have been finalized.
Partial(e, S, n) ==
  {a \in Atoms :
     \/ /\ a \in (S \ {e}) \cup Atomic!Added(e, S)
        /\ \A i \in 1 .. n : a \notin Atomic!Removed(e, S, i)
     \/ \E i \in 1 .. n :
          /\ a \in Atomic!Reduced(e, S, i)
          /\ \A j \in 1 .. n : j > i => a \notin Atomic!Removed(e, S, j)}

\* The helpers of the abstract specification are the ones used here.
LEMMA AtomicHelpers ==
  ASSUME NEW e, NEW S
  PROVE  /\ Atomic!Tpls(e) = Tpls(e)
         /\ \A i : Atomic!Kind(e, i) = Kind(e, i)
         /\ \A i : Atomic!All(e, S, i) = Sunk(e, S, Len(Matches[e]), i)
         /\ Atomic!IsFirst(e, S) <=> IsFirst(e, S)
BY DEF Atomic!Tpls, Tpls, Atomic!Kind, Kind, Atomic!All, Atomic!Sunk, Sunk,
   Atomic!IsFirst, IsFirst

LEMMA AddedAtoms ==
  ASSUME NEW e, NEW S
  PROVE  Atomic!Added(e, S) = UNION {Sunk(e, S, Len(Matches[e]), i) : i \in AddsOf(e)}
<1>1. {j \in Atomic!Tpls(e) : Atomic!Kind(e, j) = "add"} = AddsOf(e)
  BY AtomicHelpers DEF AddsOf
<1>2. \A i : Atomic!All(e, S, i) = Sunk(e, S, Len(Matches[e]), i)
  BY AtomicHelpers
<1> QED
  BY <1>1, <1>2 DEF Atomic!Added

Finalizing ==
  /\ IsFirst(cur, readCopy)
  /\ space = Partial(cur, readCopy, fin)
  /\ \A i \in Tpls(cur) \ AddsOf(cur) : held[i] = Atomic!All(cur, readCopy, i)

Inv ==
  /\ TypeOK
  /\ pc = "query" => Querying
  /\ pc = "finalize" => Finalizing
  /\ EarlyMeansQuiet

LEMMA InitInv == Init => Inv
BY DEF Init, Inv, TypeOK, EarlyMeansQuiet

LEMMA StutterInv == Inv /\ UNCHANGED vars => Inv'
<1> SUFFICES ASSUME Inv, UNCHANGED vars PROVE Inv'
  OBVIOUS
<1>1. TypeOK' /\ EarlyMeansQuiet'
  BY DEF Inv, TypeOK, EarlyMeansQuiet, vars
<1>2. (pc = "query" => Querying)' /\ (pc = "finalize" => Finalizing)'
  BY DEF Inv, Querying, Finalizing, vars
<1> QED
  BY <1>1, <1>2 DEF Inv

-----------------------------------------------------------------------------
(* The steps *)

\* Taking the first exec out starts a query that has sunk nothing.
LEMMA PickInv ==
  ASSUME Inv, NEW e \in Execs, Pick(e)
  PROVE  Inv'
<1>1. /\ e \in WellFormed /\ IsFirst(e, space) /\ pc' = "query"
      /\ space' = space \ {e} /\ readCopy' = space /\ cur' = e /\ match' = 0
      /\ held' = [i \in Tpls(e) |-> {}] /\ fin' = 0
  BY DEF Pick, Prepare, IsFirst
<1>2. TypeOK'
  BY <1>1, ProgramTypes, MaxStepsAssumption DEF OneMore, Pick, Prepare, Inv, TypeOK, Tpls
<1>3. Querying'
  <2>1. \A i : Sunk(cur', readCopy', match', i) = {}
    BY <1>1, SunkNone
  <2>2. space' = (readCopy' \ {cur'}) \cup UNION {Sunk(cur', readCopy', match', i) : i \in AddsOf(cur')}
    BY <1>1, <2>1
  <2> QED
    BY <1>1, <2>1, <2>2 DEF Querying
<1> QED
  BY <1>1, <1>2, <1>3 DEF Inv, EarlyMeansQuiet

\* One more match is sunk, as found in the copy.
LEMMA QueryInv ==
  ASSUME Inv, Query
  PROVE  Inv'
<1>1. /\ pc = "query" /\ pc' = "query" /\ match' = match + 1
      /\ UNCHANGED <<steps, done, performed, readCopy, cur, fin>>
  BY DEF Query
<1>2. cur \in WellFormed /\ cur \in Execs /\ match \in Nat /\ match < Len(Matches[cur])
      /\ match' \in 0 .. Len(Matches[cur]) /\ Querying
  BY ProgramAssumption, ProgramTypes DEF Query, Inv, TypeOK
<1>3. \A i : Sunk(cur, readCopy, match', i) = Sunk(cur, readCopy, match, i) \cup Output(readCopy, i)
  BY <1>1, <1>2, SunkNext
<1>4. \A i \in Tpls(cur) : Output(readCopy, i) \subseteq Atoms
  BY <1>1, <1>2, <1>3, SunkAtoms
<1>5. space' = space \cup UNION {Output(readCopy, i) : i \in AddsOf(cur)}
      /\ held' = [i \in Tpls(cur) |-> IF Kind(cur, i) = "add" THEN {}
                                      ELSE held[i] \cup Output(readCopy, i)]
  BY DEF Query, AddsOf
<1>6. TypeOK'
  <2>1. space' \subseteq Atoms
    BY <1>4, <1>5 DEF Inv, TypeOK, AddsOf
  <2>2. held' \in [Tpls(cur) -> SUBSET Atoms]
    BY <1>1, <1>4, <1>5 DEF Inv, TypeOK
  <2> QED
    BY <1>1, <1>2, <2>1, <2>2 DEF Inv, TypeOK, Tpls
<1>7. Querying'
  <2>1. space' = (readCopy \ {cur}) \cup UNION {Sunk(cur, readCopy, match', i) : i \in AddsOf(cur)}
    BY <1>2, <1>3, <1>5 DEF Querying
  <2>2. \A i \in Tpls(cur) \ AddsOf(cur) : held'[i] = Sunk(cur, readCopy, match', i)
    BY <1>2, <1>3, <1>5 DEF Querying, AddsOf
  <2> QED
    BY <1>1, <1>2, <2>1, <2>2 DEF Querying
<1> QED
  BY <1>1, <1>6, <1>7 DEF Inv, EarlyMeansQuiet

\* The query is over: every sink has all its atoms, none is finalized.
LEMMA QueryDoneInv ==
  ASSUME Inv, QueryDone
  PROVE  Inv'
<1>1. /\ pc = "query" /\ pc' = "finalize" /\ match = Len(Matches[cur])
      /\ UNCHANGED <<steps, done, performed, space, readCopy, cur, match, held, fin>>
  BY DEF QueryDone
<1>2. TypeOK' /\ cur \in Execs /\ space \subseteq Atoms /\ Querying
  BY <1>1, ProgramAssumption DEF Inv, TypeOK, Tpls
<1>3. space = (readCopy \ {cur}) \cup Atomic!Added(cur, readCopy)
  BY <1>1, <1>2, AddedAtoms DEF Querying
<1>4. space = Partial(cur, readCopy, fin)
  BY <1>2, <1>3 DEF Partial, Querying
<1>5. Finalizing'
  BY <1>1, <1>2, <1>4, AtomicHelpers DEF Querying, Finalizing, Partial
<1> QED
  BY <1>1, <1>2, <1>5 DEF Inv, EarlyMeansQuiet

\* Finalizing one more sink removes what it removed and adds what it reduced.
LEMMA PartialNext ==
  ASSUME NEW e, NEW S, NEW n \in Nat, Atomic!Reduced(e, S, n + 1) \subseteq Atoms
  PROVE  Partial(e, S, n + 1) =
           (Partial(e, S, n) \ Atomic!Removed(e, S, n + 1)) \cup Atomic!Reduced(e, S, n + 1)
<1> DEFINE base == (S \ {e}) \cup Atomic!Added(e, S)
           rem(i) == Atomic!Removed(e, S, i)
           red(i) == Atomic!Reduced(e, S, i)
           P(m) == {a \in Atoms :
                      \/ a \in base /\ \A i \in 1 .. m : a \notin rem(i)
                      \/ \E i \in 1 .. m : a \in red(i) /\ \A j \in 1 .. m : j > i => a \notin rem(j)}
<1>1. Partial(e, S, n) = P(n) /\ Partial(e, S, n + 1) = P(n + 1)
  BY DEF Partial
<1>2. red(n + 1) \subseteq Atoms
  OBVIOUS
<1> HIDE DEF base, rem, red
<1>3. 1 .. n + 1 = (1 .. n) \cup {n + 1} /\ \A i \in 1 .. n : n + 1 > i /\ ~(i > n + 1)
  OBVIOUS
<1>4. ~(n + 1 > n + 1)
  OBVIOUS
<1>5. ASSUME NEW a \in P(n + 1) PROVE a \in (P(n) \ rem(n + 1)) \cup red(n + 1)
  BY <1>3, <1>4, <1>5
<1>6. ASSUME NEW a \in P(n), a \notin rem(n + 1) PROVE a \in P(n + 1)
  BY <1>3, <1>4, <1>6
<1>7. ASSUME NEW a \in red(n + 1) PROVE a \in P(n + 1)
  BY <1>2, <1>3, <1>4, <1>7
<1>8. P(n + 1) = (P(n) \ rem(n + 1)) \cup red(n + 1)
  BY <1>5, <1>6, <1>7
<1> QED
  BY <1>1, <1>8 DEF rem, red

LEMMA FinalizeInv ==
  ASSUME Inv, Finalize
  PROVE  Inv'
<1> DEFINE i == fin + 1
<1>1. /\ pc = "finalize" /\ pc' = "finalize" /\ fin' = i /\ i \in Tpls(cur)
      /\ space' = CASE Kind(cur, i) = "add"    -> space
                    [] Kind(cur, i) = "remove" -> space \ held[i]
                    [] Kind(cur, i) = "reduce" -> space \cup Templates[cur][i].reduce[held[i]]
      /\ UNCHANGED <<steps, done, performed, readCopy, cur, match, held>>
  BY DEF Finalize
<1>2. cur \in WellFormed /\ cur \in Execs /\ fin \in Nat /\ Finalizing
  BY <1>1, ProgramAssumption, ProgramTypes DEF Inv, TypeOK
<1>3. Kind(cur, i) \in Kinds /\ Templates[cur][i].reduce \in [SUBSET Atoms -> SUBSET Atoms]
  BY <1>1, <1>2, ProgramTypes
<1>4. Atomic!All(cur, readCopy, i) \subseteq Atoms
  <2>1. Len(Matches[cur]) \in 0 .. Len(Matches[cur])
    BY <1>2, ProgramTypes
  <2>2. Sunk(cur, readCopy, Len(Matches[cur]), i) \subseteq Atoms
    BY <1>1, <1>2, <2>1, SunkAtoms
  <2> QED
    BY <2>2, AtomicHelpers
<1>5. /\ Kind(cur, i) # "remove" => Atomic!Removed(cur, readCopy, i) = {}
      /\ Kind(cur, i) # "reduce" => Atomic!Reduced(cur, readCopy, i) = {}
      /\ Kind(cur, i) = "remove" => Atomic!Removed(cur, readCopy, i) = held[i]
      /\ Kind(cur, i) = "reduce" =>
           Atomic!Reduced(cur, readCopy, i) = Templates[cur][i].reduce[held[i]]
      /\ Atomic!Reduced(cur, readCopy, i) \subseteq Atoms
  <2>1. Kind(cur, i) # "add" => held[i] = Atomic!All(cur, readCopy, i)
    BY <1>1, <1>2 DEF Finalizing, AddsOf
  <2>2. Templates[cur][i].reduce[Atomic!All(cur, readCopy, i)] \subseteq Atoms
    BY <1>3, <1>4
  <2> QED
    BY <1>1, <2>1, <2>2, AtomicHelpers DEF Atomic!Removed, Atomic!Reduced
<1>6. space' = (space \ Atomic!Removed(cur, readCopy, i)) \cup Atomic!Reduced(cur, readCopy, i)
  <2> HIDE DEF i
  <2>1. CASE Kind(cur, i) = "add"
    BY <1>1, <1>5, <2>1
  <2>2. CASE Kind(cur, i) = "remove"
    BY <1>1, <1>5, <2>2
  <2>3. CASE Kind(cur, i) = "reduce"
    BY <1>1, <1>5, <2>3
  <2> QED
    BY <1>3, <2>1, <2>2, <2>3 DEF Kinds
<1>7. space' = Partial(cur, readCopy, fin')
  BY <1>1, <1>2, <1>5, <1>6, PartialNext DEF Finalizing
<1>8. Finalizing'
  BY <1>1, <1>2, <1>7 DEF Finalizing, Partial
<1>9. TypeOK'
  <2>1. fin' \in 0 .. Len(Templates[cur])
    BY <1>1, <1>2 DEF Tpls
  <2>2. space' \subseteq Atoms
    BY <1>7 DEF Partial
  <2> QED
    BY <1>1, <2>1, <2>2 DEF Inv, TypeOK
<1> QED
  BY <1>1, <1>8, <1>9 DEF Inv, EarlyMeansQuiet

\* The steps between two execs.
LEMMA LoopInv ==
  ASSUME Inv, (\E e \in Execs : Discard(e)) \/ Ran \/ Continue \/ Exhausted \/ Quiet
  PROVE  Inv'
<1>1. pc' \notin {"query", "finalize"} /\ space' \subseteq Atoms
  BY DEF Inv, TypeOK, Discard, Ran, Continue, Exhausted, Quiet
<1>2. TypeOK'
  BY <1>1, MaxStepsAssumption DEF Inv, TypeOK, OneMore, Discard, Ran, Continue, Exhausted, Quiet
<1>3. EarlyMeansQuiet'
  BY MaxStepsAssumption DEF Inv, TypeOK, EarlyMeansQuiet, Discard, Ran, Continue, Exhausted, Quiet
<1> QED
  BY <1>1, <1>2, <1>3 DEF Inv

\* Between the removal of an exec by metta_calculus and the end of its
\* transform_multi_multi_* the space is the copy without the exec, plus what
\* the matches and finalized sinks so far are meant to have contributed.
THEOREM Invariant == Spec => []Inv
<1>1. ASSUME Inv, [Next]_vars PROVE Inv'
  BY <1>1, StutterInv, PickInv, QueryInv, QueryDoneInv, FinalizeInv, LoopInv DEF Next
<1> QED
  BY <1>1, InitInv, PTL DEF Spec

\* The types hold for every program: metta_calculus never counts beyond its
\* budget, and transform_multi_multi_* feeds and finalizes no sink beyond the
\* exec's templates.
THEOREM Typed == Spec => []TypeOK
<1>1. Inv => TypeOK
  BY DEF Inv
<1> QED
  BY <1>1, Invariant, PTL

\* metta_calculus returns below its budget only when no exec is left.
THEOREM Early == Spec => []EarlyMeansQuiet
<1>1. Inv => EarlyMeansQuiet
  BY DEF Inv
<1> QED
  BY <1>1, Invariant, PTL

-----------------------------------------------------------------------------
(* The count *)

\* The loop counts an exec when it goes on, after it has been taken out: from
\* its removal to that point the history is one ahead of done.  It never gets
\* to where OneMore stops counting, because done stays within the budget.
Counting ==
  /\ pc = "pick" => performed = done
  /\ pc \in {"query", "finalize", "ran"} => performed = done + 1
  /\ ResultCountsRuns

LEMMA CountingStep ==
  ASSUME TypeOK, Counting, [Next]_vars
  PROVE  Counting'
<1>1. steps \in Nat /\ done \in Nat /\ done <= steps /\ steps <= MaxSteps /\ MaxSteps \in Nat
  BY MaxStepsAssumption DEF TypeOK
<1>2. ASSUME NEW e \in Execs, Discard(e) \/ Pick(e) PROVE Counting'
  <2>1. /\ pc = "pick" /\ performed' = OneMore(performed) /\ pc' \in {"query", "ran"}
        /\ UNCHANGED <<steps, done>>
    BY <1>2 DEF Discard, Pick
  <2>2. performed' = done + 1
    BY <1>1, <2>1 DEF Counting, OneMore
  <2> QED
    BY <2>1, <2>2 DEF Counting, ResultCountsRuns
<1>3. CASE Query \/ QueryDone \/ Finalize \/ Ran
  <2>1. /\ pc \in {"query", "finalize"} /\ pc' \in {"query", "finalize", "ran"}
        /\ UNCHANGED <<steps, done, performed>>
    BY <1>3 DEF Query, QueryDone, Finalize, Ran
  <2> QED
    BY <2>1 DEF Counting, ResultCountsRuns
<1>4. CASE Continue
  <2>1. pc = "ran" /\ pc' = "pick" /\ done' = done + 1 /\ UNCHANGED <<steps, performed>>
    BY <1>4 DEF Continue
  <2> QED
    BY <2>1 DEF Counting, ResultCountsRuns
<1>5. CASE Exhausted
  <2>1. /\ pc = "ran" /\ done >= steps /\ pc' = "stopped"
        /\ UNCHANGED <<steps, done, performed>>
    BY <1>5 DEF Exhausted
  <2>2. done = steps /\ performed = done + 1
    BY <1>1, <2>1 DEF Counting
  <2> QED
    BY <1>1, <2>1, <2>2 DEF Counting, ResultCountsRuns
<1>6. CASE Quiet
  <2>1. pc = "pick" /\ pc' = "stopped" /\ UNCHANGED <<steps, done, performed>>
    BY <1>6 DEF Quiet
  <2>2. performed = done /\ ~(performed > steps)
    BY <1>1, <2>1 DEF Counting
  <2> QED
    BY <2>1, <2>2 DEF Counting, ResultCountsRuns
<1>7. CASE UNCHANGED vars
  BY <1>7 DEF vars, Counting, ResultCountsRuns
<1> QED
  BY <1>2, <1>3, <1>4, <1>5, <1>6, <1>7 DEF Next

\* What metta_calculus returns is the number of execs it ran, for every
\* program and budget: it is one short of them exactly when the loop ended
\* because the budget was used up.
THEOREM Counted == Spec => []ResultCountsRuns
<1>1. Init => Counting
  BY DEF Init, Counting, ResultCountsRuns
<1>2. Counting => ResultCountsRuns
  BY DEF Counting
<1> QED
  BY <1>1, <1>2, CountingStep, Typed, PTL DEF Spec

-----------------------------------------------------------------------------
(* The refinement *)

\* When all sinks are finalized the space is what the abstract exec makes it.
LEMMA PartialAll ==
  ASSUME NEW e \in Execs, NEW S
  PROVE  Partial(e, S, Len(Templates[e])) = Atomic!Result(e, S)
BY AtomicHelpers DEF Partial, Atomic!Result, Tpls

LEMMA StepRefines ==
  ASSUME Inv, Next
  PROVE  [Atomic!Next]_committed
<1>1. ASSUME NEW e \in Execs, Discard(e) PROVE Atomic!Next
  <2>1. Atomic!IsFirst(e, space) /\ committed = space /\ committed' = space \ {e}
    BY <1>1, AtomicHelpers DEF Discard, committed
  <2>2. Atomic!Discard(e)
    BY <1>1, <2>1 DEF Discard, Atomic!Discard
  <2> QED
    BY <2>2 DEF Atomic!Next
<1>2. ASSUME NEW e \in Execs, Pick(e) PROVE UNCHANGED committed
  BY <1>2 DEF Pick, Prepare, IsFirst, committed
<1>3. CASE Query \/ QueryDone \/ Finalize
  BY <1>3 DEF Query, QueryDone, Finalize, committed
<1>4. CASE Continue \/ Exhausted \/ Quiet
  BY <1>4 DEF Continue, Exhausted, Quiet, committed
<1>5. CASE Ran
  <2>1. cur \in WellFormed /\ cur \in Execs /\ Finalizing /\ fin = Len(Templates[cur])
    BY <1>5, ProgramAssumption DEF Ran, Inv, TypeOK
  <2>2. committed = readCopy /\ committed' = space
    BY <1>5 DEF Ran, committed
  <2>3. space = Atomic!Result(cur, readCopy) /\ Atomic!IsFirst(cur, readCopy)
    BY <2>1, PartialAll, AtomicHelpers DEF Finalizing
  <2>4. Atomic!Rewrite(cur)
    BY <2>1, <2>2, <2>3 DEF Atomic!Rewrite
  <2> QED
    BY <2>1, <2>4 DEF Atomic!Next
<1> QED
  BY <1>1, <1>2, <1>3, <1>4, <1>5 DEF Next

\* An exec is an atomic rewrite of the space, for every program: its query is
\* not disturbed by what its sinks write, the order of its templates decides
\* only between reductions and later removals, and it is consumed once.
THEOREM Refinement == Spec => AtomicRewrite
<1>1. Init => Atomic!Init
  BY DEF Init, Atomic!Init, committed
<1>2. Inv /\ [Next]_vars => [Atomic!Next]_committed
  <2>1. UNCHANGED vars => UNCHANGED committed
    BY DEF vars, committed
  <2> QED
    BY <2>1, StepRefines
<1> QED
  BY <1>1, <1>2, Invariant, PTL DEF Spec, AtomicRewrite, Atomic!Spec

=============================================================================
