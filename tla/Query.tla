------------------------------- MODULE Query -------------------------------
(***************************************************************************)
(* One tuple of expressions in a query (query_multi_raw): the descent of   *)
(* TrieSearch finds it and hands its pairs to unify.  In a build with the  *)
(* feature no_search the descent is left out, and every tuple is unified.  *)
(***************************************************************************)
EXTENDS TrieSearch

CONSTANT
  Limits  \* values of MAX_UNIFY_ITER

VARIABLES
  pairs,     \* stack of unify
  bindings, encountered, iterations, limit,
  outcome    \* "idle" before unify is called, then its status

uvars == <<pairs, bindings, encountered, iterations, limit, outcome>>
qvars == <<vars, uvars>>

Unification == INSTANCE Unify WITH stack <- pairs, status <- outcome

NoUnification ==
  /\ pairs = <<>>
  /\ bindings = <<>>
  /\ encountered = {}
  /\ iterations = 0
  /\ limit = 0
  /\ outcome = "idle"

\* Not under no_search.
SearchInit == Init /\ NoUnification

\* Under no_search: to_next_val comes to every tuple.
ExhaustiveInit ==
  /\ Unification!Init
  /\ stack = <<>>
  /\ todo = <<>>
  /\ references = <<>>
  /\ strayed = FALSE
  /\ status = "found"

QInit == SearchInit \/ ExhaustiveInit

\* Faulty Call: the pattern's first factor is not handed over.
CallWithoutFirst ==
  /\ status = "found"
  /\ outcome = "idle"
  /\ pairs' = Tail(problem.pairs)
  /\ limit' \in Limits
  /\ outcome' = "pop"
  /\ UNCHANGED <<vars, bindings, encountered, iterations>>

\* unify(&mut pairs), with a source and the expression at its path index each.
Call ==
  /\ status = "found"
  /\ outcome = "idle"
  /\ pairs' = problem.pairs
  /\ limit' \in Limits
  /\ outcome' = "pop"
  /\ UNCHANGED <<vars, bindings, encountered, iterations>>

Unifying == outcome # "idle" /\ Unification!Next /\ UNCHANGED vars

QNext == (Next /\ UNCHANGED uvars) \/ Call \/ Unifying

QSpec == QInit /\ [][QNext]_qvars

\* A query is one thread that never waits.
QFairSpec == QSpec /\ WF_qvars(QNext)

-----------------------------------------------------------------------------

\* No step of unify loses or adds a solution of the tuple (expr/src/lib.rs).
KeepsSolutions == outcome # "idle" => Unification!KeepsSolutions

\* MAX_UNIFY_ITER drops no tuple that is small beside it.
GivesUpLate == Unification!GivesUpLate

\* With the trie or without it, the query leaves out only what is no match, or
\* what unify gave up: no tuple is lost between the descent, which looks at
\* constants and repeated variables only, and unify, which gets its pairs.
\* A tuple that is handed on solves all the factors (effect(Err(bs), e)).
AnswersAreMatches ==
  /\ (status = "dead" /\ ~strayed) \/ outcome \in {"difference", "occurs"} =>
       \A s \in Valuations(problem) : ~Solves(problem, s)
  /\ outcome = "ok" =>
       \A s \in Valuations(problem) : Unification!Respects(s) => Solves(problem, s)

\* A tuple is either left by the descent or unify returns for it.
Terminates == <>(status = "dead" \/ outcome \notin {"idle", "pop", "bound"})
=============================================================================
