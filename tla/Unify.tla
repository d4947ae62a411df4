------------------------------- MODULE Unify -------------------------------
(***************************************************************************)
(* unify: solve pairs of expressions for their variables.  Bindings are    *)
(* triangular and never applied; cycles through expressions of different   *)
(* n are let in, and the set of pairs encountered is what stops the        *)
(* comparison of two cyclic expressions.                                   *)
(***************************************************************************)
EXTENDS Terms

CONSTANT
  Limits  \* values of MAX_UNIFY_ITER

VARIABLES
  problem,
  stack,        \* pairs to be unified; in "bound", the popped pair is its last
  bindings,     \* from variables to locations
  encountered,  \* pairs recorded by push
  iterations,
  limit,        \* MAX_UNIFY_ITER
  status        \* "pop", "bound", or how unify returned: "ok", "difference",
                \* "occurs", "maxiter"

vars == <<problem, stack, bindings, encountered, iterations, limit, status>>

X == stack[Len(stack)][1]
Y == stack[Len(stack)][2]
Rest == SubSeq(stack, 1, Len(stack) - 1)

Bound(l) == IsVar(problem, l) /\ Var(problem, l) \in DOMAIN bindings

\* step!(isUnbound): the chain of variables from l ends at one without a binding.
\* No chain is longer than there are bindings.
IsUnbound(l) ==
  LET end[k \in Nat] == IF k = 0 THEN l
                        ELSE IF Bound(end[k - 1]) THEN bindings[Var(problem, end[k - 1])]
                        ELSE end[k - 1]
  IN IsVar(problem, end[Cardinality(DOMAIN bindings)])

\* step!(occurs): v is in l as it stands, whatever its variables are bound to.
Occurs(v, l) ==
  \E q \in Shared(problem, l, l) : IsVar(problem, At(l, q)) /\ Var(problem, At(l, q)) = v

\* match2 fails: labels differ where neither side is a variable.
Differ(l, m) ==
  \E q \in Shared(problem, l, m) :
    /\ ~IsVar(problem, At(l, q)) /\ ~IsVar(problem, At(m, q))
    /\ Label(problem, At(l, q)) # Label(problem, At(m, q))

\* Faulty Holes: a variable of the second expression is no hole.
HolesOfFirst(l, m) == {q \in Shared(problem, l, m) : IsVar(problem, At(l, q))}

\* The holes of match2: the positions where one side is a variable.
Holes(l, m) ==
  {q \in Shared(problem, l, m) : IsVar(problem, At(l, q)) \/ IsVar(problem, At(m, q))}

\* step!(push)
Unrecorded(l, m) ==
  IsVar(problem, l) /\ IsVar(problem, m) /\ IsUnbound(l) /\ IsUnbound(m)
\* Faulty Pushed: what was encountered is not asked.
PushedAlways(l, m) == Unrecorded(l, m) \/ <<l, m>> \in Locs(problem) \X Locs(problem)
Pushed(l, m) == Unrecorded(l, m) \/ <<l, m>> \notin encountered

\* The order in which match2 comes to two positions.
Before(q, r) ==
  \E i \in 1 .. Len(r) :
    /\ \A j \in 1 .. i - 1 : j <= Len(q) /\ q[j] = r[j]
    /\ Len(q) < i \/ q[i] < r[i]

Ordered(S) ==
  {f \in [1 .. Cardinality(S) -> S] :
     /\ \A q \in S : \E k \in 1 .. Cardinality(S) : f[k] = q
     /\ \A i, k \in 1 .. Cardinality(S) : i < k => Before(f[i], f[k])}

-----------------------------------------------------------------------------

Init ==
  /\ problem \in Problems
  /\ stack = problem.pairs
  /\ bindings = <<>>
  /\ encountered = {}
  /\ iterations = 0
  /\ limit \in Limits
  /\ status = "pop"

Pop ==
  /\ status = "pop"
  /\ stack # <<>>
  /\ iterations <= limit
  /\ iterations' = iterations + 1
  /\ status' = "bound"
  /\ UNCHANGED <<problem, stack, bindings, encountered, limit>>

\* Err(MaxIter)
GiveUp ==
  /\ status = "pop"
  /\ stack # <<>>
  /\ iterations > limit
  /\ status' = "maxiter"
  /\ UNCHANGED <<problem, stack, bindings, encountered, iterations, limit>>

\* Ok(bindings)
Finish ==
  /\ status = "pop"
  /\ stack = <<>>
  /\ status' = "ok"
  /\ UNCHANGED <<problem, stack, bindings, encountered, iterations, limit>>

\* step!(derefBound xpop), one turn of its loop
DerefX ==
  /\ status = "bound"
  /\ Bound(X)
  /\ stack' = Append(Rest, <<bindings[Var(problem, X)], Y>>)
  /\ UNCHANGED <<problem, bindings, encountered, iterations, limit, status>>

\* step!(derefBound ypop), one turn of its loop
DerefY ==
  /\ status = "bound"
  /\ ~Bound(X)
  /\ Bound(Y)
  /\ stack' = Append(Rest, <<X, bindings[Var(problem, Y)]>>)
  /\ UNCHANGED <<problem, bindings, encountered, iterations, limit, status>>

\* X and Y are now dt1 and dt2.
Dereferenced == status = "bound" /\ ~Bound(X) /\ ~Bound(Y)

SameVariable == IsVar(problem, X) /\ IsVar(problem, Y) /\ Var(problem, X) = Var(problem, Y)

\* continue 'popping
Same ==
  /\ Dereferenced
  /\ SameVariable
  /\ stack' = Rest
  /\ status' = "pop"
  /\ UNCHANGED <<problem, bindings, encountered, iterations, limit>>

Bind(v, l) == [w \in DOMAIN bindings \cup {v} |-> IF w = v THEN l ELSE bindings[w]]

\* The arm (Some(vx), ov).
BindX ==
  /\ Dereferenced
  /\ IsVar(problem, X)
  /\ ~SameVariable
  /\ ~Occurs(Var(problem, X), Y)
  /\ bindings' = Bind(Var(problem, X), Y)
  /\ stack' = Rest
  /\ status' = "pop"
  /\ UNCHANGED <<problem, encountered, iterations, limit>>

OccursX ==
  /\ Dereferenced
  /\ IsVar(problem, X)
  /\ ~SameVariable
  /\ Occurs(Var(problem, X), Y)
  /\ status' = "occurs"
  /\ UNCHANGED <<problem, stack, bindings, encountered, iterations, limit>>

\* Faulty BindY: the variable is bound to its own side.
BindYItself ==
  /\ Dereferenced
  /\ ~IsVar(problem, X)
  /\ IsVar(problem, Y)
  /\ ~Occurs(Var(problem, Y), X)
  /\ bindings' = Bind(Var(problem, Y), Y)
  /\ stack' = Rest
  /\ status' = "pop"
  /\ UNCHANGED <<problem, encountered, iterations, limit>>

\* The arm (ov, Some(vy)), which is left to an X that is no variable.
BindY ==
  /\ Dereferenced
  /\ ~IsVar(problem, X)
  /\ IsVar(problem, Y)
  /\ ~Occurs(Var(problem, Y), X)
  /\ bindings' = Bind(Var(problem, Y), X)
  /\ stack' = Rest
  /\ status' = "pop"
  /\ UNCHANGED <<problem, encountered, iterations, limit>>

OccursY ==
  /\ Dereferenced
  /\ ~IsVar(problem, X)
  /\ IsVar(problem, Y)
  /\ Occurs(Var(problem, Y), X)
  /\ status' = "occurs"
  /\ UNCHANGED <<problem, stack, bindings, encountered, iterations, limit>>

\* The arm (None, None): match2 pushes the pairs at the holes, in order.
Decompose ==
  /\ Dereferenced
  /\ ~IsVar(problem, X) /\ ~IsVar(problem, Y)
  /\ ~Differ(X, Y)
  /\ LET new == {q \in Holes(X, Y) : Pushed(At(X, q), At(Y, q))}
     IN /\ \E order \in Ordered(new) :
             stack' = Rest \o [k \in 1 .. Cardinality(new) |-> <<At(X, order[k]), At(Y, order[k])>>]
        /\ encountered' = encountered \cup
             {<<At(X, q), At(Y, q)>> : q \in {r \in new : ~Unrecorded(At(X, r), At(Y, r))}}
  /\ status' = "pop"
  /\ UNCHANGED <<problem, bindings, iterations, limit>>

\* Err(Difference)
Clash ==
  /\ Dereferenced
  /\ ~IsVar(problem, X) /\ ~IsVar(problem, Y)
  /\ Differ(X, Y)
  /\ status' = "difference"
  /\ UNCHANGED <<problem, stack, bindings, encountered, iterations, limit>>

Next ==
  \/ Pop \/ GiveUp \/ Finish \/ DerefX \/ DerefY \/ Same
  \/ BindX \/ OccursX \/ BindY \/ OccursY \/ Decompose \/ Clash

Spec     == Init /\ [][Next]_vars
FairSpec == Spec /\ WF_vars(Next)

-----------------------------------------------------------------------------

TypeOK ==
  /\ problem \in Problems
  /\ stack \in Seq(Locs(problem) \X Locs(problem))
  /\ DOMAIN bindings \subseteq {Var(problem, l) : l \in {m \in Locs(problem) : IsVar(problem, m)}}
  /\ \A v \in DOMAIN bindings : bindings[v] \in Locs(problem)
  /\ encountered \subseteq Locs(problem) \X Locs(problem)
  /\ iterations \in 0 .. limit + 1
  /\ limit \in Limits
  /\ status \in {"pop", "bound", "ok", "difference", "occurs", "maxiter"}
  /\ status = "bound" => stack # <<>>

\* s gives every bound variable the value of what it is bound to.
Respects(s) ==
  \A l \in Locs(problem) : Bound(l) => s[l] = s[bindings[Var(problem, l)]]

SolvesStack(s) == \A k \in DOMAIN stack : s[stack[k][1]] = s[stack[k][2]]

\* What the bindings and the stack say is at every step what the pairs said:
\* nothing is lost with a pair that is skipped as encountered or as the same
\* variable, and nothing is assumed that the pairs do not say.  When unify
\* returns Ok the stack is empty, so the bindings alone say what the pairs did.
KeepsSolutions ==
  status \in {"pop", "bound", "ok"} =>
    \A s \in Valuations(problem) : Solves(problem, s) <=> Respects(s) /\ SolvesStack(s)

\* unify refuses only what has no solution.  (A variable that occurs in what
\* it should be equal to, in the same expression, has none in finite terms.)
RefusesRightly ==
  status \in {"difference", "occurs"} =>
    \A s \in Valuations(problem) : ~Solves(problem, s)

\* MAX_UNIFY_ITER stops no problem that is small beside it: pairs are not
\* compared over and over.
GivesUpLate ==
  status = "maxiter" => limit < Cardinality(Locs(problem)) * Cardinality(Locs(problem))

\* unify returns; in particular the loops of derefBound end.
Terminates == <>(status \notin {"pop", "bound"})
=============================================================================
