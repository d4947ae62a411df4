------------------------------ MODULE Calculus ------------------------------
(***************************************************************************)
(* The main loop of the kernel (Space::metta_calculus), interpret, and     *)
(* transform_multi_multi_*: take the first exec out of the space, match    *)
(* its patterns against a copy of the space while the sinks of its         *)
(* templates write to the space itself, then finalize the sinks.           *)
(***************************************************************************)
EXTENDS ExecProgram

CONSTANT
  MaxSteps   \* bound: the largest steps argument

ASSUME MaxStepsAssumption == MaxSteps \in Nat

VARIABLES
  steps,      \* the argument of metta_calculus
  done,       \* execs counted by the loop
  performed,  \* execs taken out of the space (history, up to MaxSteps + 1)
  space,      \* btm
  readCopy,   \* read_copy
  cur,        \* rt, the exec that is interpreted
  match,      \* matches the query has been through
  held,       \* what the sinks of the templates hold
  fin,        \* sinks finalized
  pc          \* "pick", "query", "finalize", "ran" or "stopped"

vars == <<steps, done, performed, space, readCopy, cur, match, held, fin, pc>>

Init ==
  /\ steps \in 0 .. MaxSteps
  /\ done = 0
  /\ performed = 0
  /\ space \in SUBSET Atoms
  /\ readCopy = {}
  /\ cur = NoAtom
  /\ match = 0
  /\ held = <<>>
  /\ fin = 0
  /\ pc = "pick"

\* The history stops counting where no result can reach it.
OneMore(n) == IF n > MaxSteps THEN n ELSE n + 1

\* Faulty Discard: an exec of the wrong shape ends the loop.
DiscardAndStop(e) ==
  /\ pc = "pick"
  /\ IsFirst(e, space)
  /\ e \notin WellFormed
  /\ space' = space \ {e}
  /\ performed' = OneMore(performed)
  /\ pc' = "stopped"
  /\ UNCHANGED <<steps, done, readCopy, cur, match, held, fin>>

\* Faulty Discard: an exec of the wrong shape is not counted.
DiscardUncounted(e) ==
  /\ pc = "pick"
  /\ IsFirst(e, space)
  /\ e \notin WellFormed
  /\ space' = space \ {e}
  /\ performed' = OneMore(performed)
  /\ pc' = "pick"
  /\ UNCHANGED <<steps, done, readCopy, cur, match, held, fin>>

\* interpret fails: the exec is gone, and the loop goes on.
Discard(e) ==
  /\ pc = "pick"
  /\ IsFirst(e, space)
  /\ e \notin WellFormed
  /\ space' = space \ {e}
  /\ performed' = OneMore(performed)
  /\ pc' = "ran"
  /\ UNCHANGED <<steps, done, readCopy, cur, match, held, fin>>

\* transform_multi_multi_*: a sink for each template of e, and a copy of the
\* space S that has e again.
Prepare(e, S) ==
  /\ readCopy' = S \cup {e}
  /\ cur' = e
  /\ match' = 0
  /\ held' = [i \in Tpls(e) |-> {}]
  /\ fin' = 0

\* The first exec is removed from the space and interpreted.
Pick(e) ==
  /\ pc = "pick"
  /\ IsFirst(e, space)
  /\ e \in WellFormed
  /\ space' = space \ {e}
  /\ Prepare(e, space')
  /\ performed' = OneMore(performed)
  /\ pc' = "query"
  /\ UNCHANGED <<steps, done>>

\* What the next match sinks into template i, if it matches in S.
Output(S, i) ==
  LET m == Matches[cur][match + 1]
  IN IF m.needs \subseteq S THEN {m.out[i]} \ {NoAtom} ELSE {}

\* Faulty Query: the space itself is matched, while it is written to.
QueryLive ==
  /\ pc = "query"
  /\ match < Len(Matches[cur])
  /\ match' = match + 1
  /\ space' = space \cup UNION {Output(space, i) : i \in {j \in Tpls(cur) : Kind(cur, j) = "add"}}
  /\ held' = [i \in Tpls(cur) |-> IF Kind(cur, i) = "add" THEN {} ELSE held[i] \cup Output(space, i)]
  /\ UNCHANGED <<steps, done, performed, readCopy, cur, fin, pc>>

\* One match: every template is instantiated and sunk, in order.
Query ==
  /\ pc = "query"
  /\ match < Len(Matches[cur])
  /\ match' = match + 1
  /\ space' = space \cup UNION {Output(readCopy, i) : i \in {j \in Tpls(cur) : Kind(cur, j) = "add"}}
  /\ held' = [i \in Tpls(cur) |-> IF Kind(cur, i) = "add" THEN {} ELSE held[i] \cup Output(readCopy, i)]
  /\ UNCHANGED <<steps, done, performed, readCopy, cur, fin, pc>>

QueryDone ==
  /\ pc = "query"
  /\ match = Len(Matches[cur])
  /\ pc' = "finalize"
  /\ UNCHANGED <<steps, done, performed, space, readCopy, cur, match, held, fin>>

\* finalize of the next sink.
Finalize ==
  LET i == fin + 1
  IN /\ pc = "finalize"
     /\ i \in Tpls(cur)
     /\ fin' = i
     /\ space' = CASE Kind(cur, i) = "add"    -> space
                   [] Kind(cur, i) = "remove" -> space \ held[i]
                   [] Kind(cur, i) = "reduce" -> space \cup Templates[cur][i].reduce[held[i]]
     /\ UNCHANGED <<steps, done, performed, readCopy, cur, match, held, pc>>

Ran ==
  /\ pc = "finalize"
  /\ fin = Len(Templates[cur])
  /\ pc' = "ran"
  /\ UNCHANGED <<steps, done, performed, space, readCopy, cur, match, held, fin>>

\* Faulty Continue: the budget is not used up.
ContinueUncounted ==
  /\ pc = "ran"
  /\ done < steps
  /\ pc' = "pick"
  /\ UNCHANGED <<steps, done, performed, space, readCopy, cur, match, held, fin>>

\* The loop's condition, done < steps, is tested after the exec.
Continue ==
  /\ pc = "ran"
  /\ done < steps
  /\ done' = done + 1
  /\ pc' = "pick"
  /\ UNCHANGED <<steps, performed, space, readCopy, cur, match, held, fin>>

\* ... or the loop ends, out of budget,
Exhausted ==
  /\ pc = "ran"
  /\ done >= steps
  /\ pc' = "stopped"
  /\ UNCHANGED <<steps, done, performed, space, readCopy, cur, match, held, fin>>

\* ... or because no exec is left.
Quiet ==
  /\ pc = "pick"
  /\ space \cap Execs = {}
  /\ pc' = "stopped"
  /\ UNCHANGED <<steps, done, performed, space, readCopy, cur, match, held, fin>>

Next ==
  \/ \E e \in Execs : Discard(e) \/ Pick(e)
  \/ Query \/ QueryDone \/ Finalize \/ Ran
  \/ Continue \/ Exhausted \/ Quiet

Spec == Init /\ [][Next]_vars

\* The loop is one thread that never waits.
FairSpec == Spec /\ WF_vars(Next)

-----------------------------------------------------------------------------
(* Properties *)

TypeOK ==
  /\ steps \in 0 .. MaxSteps
  /\ done \in 0 .. steps
  /\ performed \in Nat
  /\ space \subseteq Atoms
  /\ readCopy \subseteq Atoms
  /\ cur \in WellFormed \cup {NoAtom}
  /\ pc \in {"pick", "query", "finalize", "ran", "stopped"}
  /\ pc \in {"query", "finalize"} =>
       /\ cur \in WellFormed
       /\ match \in 0 .. Len(Matches[cur])
       /\ held \in [Tpls(cur) -> SUBSET Atoms]
       /\ fin \in 0 .. Len(Templates[cur])

\* The space as of the last exec that is finished: what the program is meant
\* to see.  While an exec runs, the copy still is what it started from.
committed == IF pc \in {"query", "finalize"} THEN readCopy ELSE space

\* An exec is one atomic rewrite of the space, although its sinks write while
\* its query still runs: no match is found, lost or changed by what the same
\* exec writes, the removals of an exec undo its own additions whatever the
\* order of the templates, and the exec is consumed exactly once.
Atomic == INSTANCE Rewriting WITH space <- committed
AtomicRewrite == Atomic!Spec

\* The tests that drive a program one step at a time (main.rs: if n == 1
\* { continue }) take a result below steps to mean that it is finished: so
\* metta_calculus returns early only when no exec is left.
EarlyMeansQuiet == pc = "stopped" /\ done < steps => space \cap Execs = {}

\* Every run of metta_calculus returns, even when execs keep each other alive.
Returns == <>(pc = "stopped")

\* What the callers of metta_calculus print as the steps that were performed:
\* the execs that were run, but for the one that exceeds the budget.
ResultCountsRuns ==
  pc = "stopped" => done = IF performed > steps THEN performed - 1 ELSE performed
=============================================================================
