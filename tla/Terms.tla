------------------------------- MODULE Terms -------------------------------
(***************************************************************************)
(* Expressions as the matcher sees them (expr/src/lib.rs).  An expression  *)
(* is a byte string in prefix order; here it is a tree of labels, and an   *)
(* ExprEnv is a location: the number n of the expression and a position.   *)
(* Expression 0 is the pattern, 1, 2, ... are expressions of the space.    *)
(* p is a problem: its expressions and the pairs of locations to unify.    *)
(***************************************************************************)
EXTENDS Naturals, Sequences, FiniteSets

CONSTANTS
  Positions,      \* sequences of argument numbers; <<>> is the whole expression
  Problems,       \* [label |-> from locations, pairs |-> sequence of pairs]
  Valuations(_),  \* assignments of values to the locations of a problem
  Size(_)         \* the size of a value

\* Tag.  A NewVar carries the number it introduces, a VarRef the one it refers
\* to; a symbol and an arity are what they are.
Labels == [tag : {"new", "ref", "sym", "arity"}, val : Nat]

\* The locations of all expressions, and the label at one.
Locs(p)     == DOMAIN p.label
Label(p, l) == p.label[l]

\* The location at position q below l.
At(l, q) == <<l[1], l[2] \o q>>

\* The positions that two locations both have.
Shared(p, l, m) == {q \in Positions : At(l, q) \in Locs(p) /\ At(m, q) \in Locs(p)}

\* var_opt
IsVar(p, l) == Label(p, l).tag \in {"new", "ref"}
Var(p, l)   == <<l[1], Label(p, l).val>>

\* ExprEnv::args
Args(p, l) == [k \in 1 .. Label(p, l).val |-> At(l, <<k>>)]

\* Arguments exist, and nothing is below a variable or a symbol.
WellFormed(p) ==
  /\ Locs(p) \subseteq Nat \X Positions
  /\ \A l \in Locs(p) :
       /\ Label(p, l) \in Labels
       /\ IF Label(p, l).tag = "arity"
          THEN \A k \in DOMAIN Args(p, l) : Args(p, l)[k] \in Locs(p)
          ELSE \A q \in Positions \ {<<>>} : At(l, q) \notin Locs(p)
  /\ p.pairs \in Seq(Locs(p) \X Locs(p))

-----------------------------------------------------------------------------
(* What it means to solve a unification problem *)

\* Wherever both locations have a position, they have one label there, or one
\* value if the label of one is a variable.
Agree(p, s, l, m) ==
  \A q \in Positions : At(l, q) \in Locs(p) /\ At(m, q) \in Locs(p) =>
    IF IsVar(p, At(l, q)) \/ IsVar(p, At(m, q))
    THEN s[At(l, q)] = s[At(m, q)]
    ELSE Label(p, At(l, q)) = Label(p, At(m, q))

\* s gives values to the locations as an instantiation of the variables does:
\* one value to all occurrences of a variable; equal values have equal labels
\* and equal parts, and what agrees is equal; and a part is smaller than the
\* whole, so that no value contains itself.
Instantiates(p, s) ==
  /\ \A l \in Locs(p) :
       /\ Size(s[l]) \in Nat
       /\ \A q \in Positions \ {<<>>} :
            At(l, q) \in Locs(p) => Size(s[At(l, q)]) < Size(s[l])
  /\ \A l, m \in {k \in Locs(p) : IsVar(p, k)} : Var(p, l) = Var(p, m) => s[l] = s[m]
  /\ \A l, m \in Locs(p) :
       IF s[l] = s[m]
       THEN /\ Agree(p, s, l, m)
            /\ \A q \in Shared(p, l, m) : s[At(l, q)] = s[At(m, q)]
       ELSE ~Agree(p, s, l, m)

Solves(p, s) == \A k \in DOMAIN p.pairs : s[p.pairs[k][1]] = s[p.pairs[k][2]]

ASSUME PositionsAssumption ==
  /\ IsFiniteSet(Positions)
  /\ <<>> \in Positions
  /\ Positions \subseteq Seq(Nat)
  /\ \A q \in Positions : \A i \in DOMAIN q : <<q[i]>> \in Positions

ASSUME ProblemsAssumption == \A p \in Problems : WellFormed(p)

ASSUME ValuationsAssumption ==
  \A p \in Problems : \A s \in Valuations(p) : Instantiates(p, s)
=============================================================================
