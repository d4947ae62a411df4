------------------------------ MODULE MCSinks ------------------------------
(* Instance of the modules about sinks and their resources for TLC, one of  *)
(* them at a time: which says whose steps are taken.  Subsumption's         *)
(* variables are as after an exec without templates when it is another one. *)
EXTENDS Subsumption, Resources

-----------------------------------------------------------------------------

(* Inputs for the modules about sinks. *)

\* Prefixes up to two bytes, and two resources outside the space.
MCPaths == UNION {[1 .. n -> {1, 2}] : n \in 0 .. 2}
MCRequests ==
  {[kind |-> "BTM", path |-> p] : p \in MCPaths}
    \cup {[kind |-> "ACT", path |-> <<1>>], [kind |-> "Z3", path |-> <<1>>]}

X == <<Var("x")>>
Y == <<Var("y")>>

\* Contexts, guards and payloads; 1 and 2 are numbers, 10 is not.
MCTemplates ==
  {[ctx |-> <<Arity(2), Sym(10)>> \o X, guard |-> X, payload |-> Y],
   [ctx |-> <<Arity(2)>> \o X \o Y, guard |-> Y, payload |-> X],
   [ctx |-> X, guard |-> X, payload |-> Y],
   [ctx |-> X, guard |-> <<Sym(2)>>, payload |-> Y],
   [ctx |-> X, guard |-> <<Arity(1)>> \o X, payload |-> Y],
   [ctx |-> X, guard |-> <<Var("fresh")>>, payload |-> Y]}

MCValues == {<<Sym(1)>>, <<Sym(2)>>, <<Var("u")>>, <<Var("w")>>}
MCReducers == {"count", "hash", "and", "sum", "fsum", "min", "max", "prod", "pure"}

\* What matches agree on, or not, next to each other and within each other.
A == <<Sym(1)>>
B == <<Sym(2)>>
Pair(x, y) == <<Arity(2)>> \o x \o y

MCFolds    == {"U", "AU"}
MCPatterns == {Pair(A, Pair(X, Y)), Pair(X, Pair(A, X)), Pair(A, B)}
MCFillings == {A, <<Var("u")>>, <<Var("w")>>, Pair(A, <<Var("u")>>)}
MCGrounds  ==
  LET parts == {A, B, Pair(A, B), Pair(B, A), Pair(A, Pair(A, A))}
  IN {Pair(A, Pair(x, y)) : x, y \in parts} \cup {Pair(x, Pair(A, y)) : x, y \in parts}
       \cup {Pair(A, B)}

-----------------------------------------------------------------------------

\* Expressions with variables, and some that refer to one twice.
MCSpaces ==
  {{<<Sym("a")>>, <<New>>, <<Arity(2), New, New>>},
   {<<New>>, <<Arity(2), New, Ref(0)>>, <<Arity(2), New, New>>}}
MCDumps == {{}, {<<Sym("a")>>}}

\* p and q exclude each other; Z3 does not understand oops.
MCBatches == {<<>>, <<"p">>, <<"q">>, <<"p", "q">>, <<"oops">>}

-----------------------------------------------------------------------------

CONSTANTS
  Reducers, Templates, Values, Other, MaxSum, MaxSunk,
  Folds, Patterns, Fillings, Grounds, MaxVars, MaxDepth, MaxMatches

VARIABLES which,
  kind, template, checked, unique, sunk, matches, visits, written, status,
  fold, pattern, buf, room, last, conflict, calls, seen, output, stage

dvars == <<kind, template, checked, unique, sunk, matches, visits, written, status>>
fvars == <<fold, pattern, buf, room, last, conflict, calls, seen, output, stage>>
svars == <<which, vars, dvars, fvars, rvars>>

Reduction == INSTANCE Reductions
Folding   == INSTANCE FoldSinks

NoTemplates  == Init /\ requests = <<>>
NoReductions ==
  /\ kind = No /\ template = No /\ checked = No /\ unique = No /\ sunk = No
  /\ matches = No /\ visits = No /\ written = No /\ status = No
NoExecs ==
  /\ space = No /\ execs = No /\ point = "idle" /\ source = No /\ target = No /\ factor = No
  /\ files = No /\ mmaps = No /\ pipe = No /\ reader = No /\ sent = No /\ dumped = No
NoFolds ==
  /\ fold = No /\ pattern = No /\ buf = No /\ room = No /\ last = No
  /\ conflict = No /\ calls = No /\ seen = No /\ output = No /\ stage = No

SInit ==
  \/ which = "requests" /\ Init /\ NoReductions /\ NoFolds /\ NoExecs
  \/ which = "reduction" /\ Reduction!Init /\ NoTemplates /\ NoFolds /\ NoExecs
  \/ which = "fold" /\ Folding!Init /\ NoTemplates /\ NoReductions /\ NoExecs
  \/ which = "resources" /\ RInit /\ NoTemplates /\ NoReductions /\ NoFolds

SNext ==
  \/ which = "requests" /\ Next /\ UNCHANGED <<which, dvars, fvars, rvars>>
  \/ which = "reduction" /\ Reduction!Next /\ UNCHANGED <<which, vars, fvars, rvars>>
  \/ which = "fold" /\ Folding!Next /\ UNCHANGED <<which, vars, dvars, rvars>>
  \/ which = "resources" /\ RNext /\ UNCHANGED <<which, vars, dvars, fvars>>

SSpec == SInit /\ [][SNext]_svars

-----------------------------------------------------------------------------

\* Whatever the order and the number of its matches, a reduction sink writes
\* what they declare (kernel/src/sinks.rs, finalize).
MatchesAreReduced == which = "reduction" => Reduction!TypeOK /\ Reduction!MatchesAreReduced

\* Whatever the order and the number of its matches, U writes what they can
\* all become, AU what they have in common (kernel/src/sinks.rs, finalize).
FoldIsExact == which = "fold" => Folding!TypeOK /\ Folding!FoldIsExact
=============================================================================
