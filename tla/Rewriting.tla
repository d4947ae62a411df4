----------------------------- MODULE Rewriting -----------------------------
(***************************************************************************)
(* What the calculus promises to a program: the space is rewritten by one  *)
(* exec at a time, always the first one there is.  An exec sees the space  *)
(* as it was when it was chosen, itself included, and its effect is a      *)
(* single step: it disappears, and for every atom the last template that   *)
(* wrote or removed it decides, where all plain additions come first.      *)
(***************************************************************************)
EXTENDS ExecProgram

VARIABLE space

\* All atoms of all matches that e sinks into template i.
All(e, S, i) == Sunk(e, S, Len(Matches[e]), i)

Added(e, S) == UNION {All(e, S, i) : i \in {j \in Tpls(e) : Kind(e, j) = "add"}}

Removed(e, S, i) == IF Kind(e, i) = "remove" THEN All(e, S, i) ELSE {}
Reduced(e, S, i) == IF Kind(e, i) = "reduce" THEN Templates[e][i].reduce[All(e, S, i)] ELSE {}

Result(e, S) ==
  {a \in Atoms :
     \/ /\ a \in (S \ {e}) \cup Added(e, S)
        /\ \A i \in Tpls(e) : a \notin Removed(e, S, i)
     \/ \E i \in Tpls(e) :
          /\ a \in Reduced(e, S, i)
          /\ \A j \in Tpls(e) : j > i => a \notin Removed(e, S, j)}

Init == space \in SUBSET Atoms

Rewrite(e) ==
  /\ IsFirst(e, space)
  /\ e \in WellFormed
  /\ space' = Result(e, space)

\* An exec of the wrong shape is only consumed.
Discard(e) ==
  /\ IsFirst(e, space)
  /\ e \notin WellFormed
  /\ space' = space \ {e}

Next == \E e \in Execs : Rewrite(e) \/ Discard(e)

Spec == Init /\ [][Next]_space
=============================================================================
