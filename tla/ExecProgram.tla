---------------------------- MODULE ExecProgram ----------------------------
(***************************************************************************)
(* The execs of a MeTTa program and what they do, as data: an exec         *)
(* (exec loc patterns templates) has a list of matches of its patterns and *)
(* a list of templates, each of which feeds a sink.                        *)
(***************************************************************************)
EXTENDS Naturals, Sequences

CONSTANTS
  Atoms,       \* expressions, as numbers in the order of their byte strings
  Execs,       \* those that start with the exec prefix
  WellFormed,  \* those that interpret accepts
  Templates,   \* for each exec, its sinks: [kind, reduce]
  Matches,     \* for each exec, every match its patterns could have, in
               \* query order: [needs |-> atoms, out |-> an atom per template]
  NoAtom       \* a template that could not be instantiated (a cycle)

\* "add" writes at once, "remove" and "reduce" when the query is over.
\* reduce[S] is what count, sum, hash, and, head, tail, U... write after the
\* set S has been sunk.
Kinds == {"add", "remove", "reduce"}

ASSUME ProgramAssumption ==
  /\ Atoms \subseteq Nat
  /\ WellFormed \subseteq Execs
  /\ Execs \subseteq Atoms
  /\ NoAtom \notin Atoms
  /\ \A e \in Execs :
       /\ Templates[e] \in Seq([kind : Kinds, reduce : [SUBSET Atoms -> SUBSET Atoms]])
       /\ Matches[e] \in Seq([needs : SUBSET Atoms,
                             out : [1 .. Len(Templates[e]) -> Atoms \cup {NoAtom}]])

Tpls(e)    == 1 .. Len(Templates[e])
Kind(e, i) == Templates[e][i].kind

\* What the matches number 1 to k of e, found in the space S, sink into
\* template i.
Sunk(e, S, k, i) ==
  {Matches[e][m].out[i] : m \in {n \in 1 .. k : Matches[e][n].needs \subseteq S}} \ {NoAtom}

\* The exec that is next: rz.to_next_val() under the exec prefix.
IsFirst(e, S) == e \in S \cap Execs /\ \A f \in S \cap Execs : e <= f
=============================================================================
