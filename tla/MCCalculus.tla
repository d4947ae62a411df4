----------------------------- MODULE MCCalculus -----------------------------
(* Instance of Calculus for TLC: a program with five execs.                 *)
EXTENDS Calculus, FiniteSets, TLC

MCAtoms == 1 .. 10
MCExecs == 1 .. 5
MCWellFormed == {1, 2, 4, 5}

Add == [kind |-> "add", reduce |-> [S \in SUBSET MCAtoms |-> {}]]
Remove == [kind |-> "remove", reduce |-> [S \in SUBSET MCAtoms |-> {}]]
\* Counts what was sunk: 9 for one, 10 for two or more.
Count == [kind |-> "reduce", reduce |->
            [S \in SUBSET MCAtoms |-> IF S = {} THEN {}
                                      ELSE IF Cardinality(S) = 1 THEN {9} ELSE {10}]]
\* (head 1 ...)
First == [kind |-> "reduce", reduce |->
            [S \in SUBSET MCAtoms |-> {a \in S : \A b \in S : a <= b}]]

M(needs, out) == [needs |-> needs, out |-> out]

\* 1: consumes 6, makes 7 and a new exec 4; what it adds would match again.
\* 2: its additions and removals overlap, across matches.
\* 3: not well formed.
\* 4: matches itself, writes itself again, and counts.
\* 5: selects, and has a removal after a reduction that it may undo.
MCTemplates ==
  1 :> <<Remove, Add, Add>> @@ 2 :> <<Add, Remove>> @@ 3 :> <<>> @@
  4 :> <<Add, Count, Remove>> @@ 5 :> <<First, Remove, Count>>
MCMatches ==
  1 :> <<M({6}, <<6, 7, 4>>), M({7}, <<7, 8, NoAtom>>)>> @@
  2 :> <<M({7}, <<6, 7>>), M({8}, <<7, 8>>), M({6, 8}, <<8, 9>>)>> @@
  3 :> <<>> @@
  4 :> <<M({4, 7}, <<4, 7, 10>>), M({8}, <<3, 8, 8>>)>> @@
  5 :> <<M({7}, <<8, 6, 6>>), M({8}, <<7, 7, 9>>), M({9}, <<6, 8, 5>>)>>
=============================================================================
