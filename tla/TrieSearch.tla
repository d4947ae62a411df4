----------------------------- MODULE TrieSearch -----------------------------
(***************************************************************************)
(* coreferential_transition: the descent of the product of tries along the *)
(* patterns of a query.  A behaviour is one branch of the descent: the one *)
(* along the expressions 1, 2, ... of the problem, one from every factor.  *)
(* What it reaches with an empty stack is handed to unify.                 *)
(***************************************************************************)
EXTENDS Terms

VARIABLES
  problem,
  stack,       \* what is still to be matched, top first (stack)
  todo,        \* locations of the data that lie ahead of the zipper
  references,  \* where the variables of the pattern were met (references)
  strayed,     \* a reference was pushed but the zipper passed it by
  status       \* "run", "found" (f is called) or "dead"

vars == <<problem, stack, todo, references, strayed, status>>

\* An item of the stack is a location, of the pattern (n = 0) or of the data
\* (n = 254 in the code), or the $ that matches anything (n = 255).
Wild == <<>>

IsNew(e)     == e # Wild => Label(problem, e).tag = "new"
IsRef(e)     == e # Wild /\ Label(problem, e).tag = "ref"
InPattern(e) == e # Wild /\ e[1] = 0

Arity(l) == IF Label(problem, l).tag = "arity" THEN Label(problem, l).val ELSE 0

\* The zipper goes down one label: the arguments of an arity come next.
Walk == todo' = [k \in 1 .. Arity(Head(todo)) |-> At(Head(todo), <<k>>)] \o Tail(todo)

Init ==
  /\ problem \in Problems
  /\ stack = [k \in DOMAIN problem.pairs |-> problem.pairs[k][1]]
  /\ todo = [k \in DOMAIN problem.pairs |-> problem.pairs[k][2]]
  /\ references = <<>>
  /\ strayed = FALSE
  /\ status = "run"

AtItem == status = "run" /\ stack # <<>>

Met(e, l) ==
  IF InPattern(e)
  THEN [v \in DOMAIN references \cup {Var(problem, e)} |->
          IF v = Var(problem, e) THEN l ELSE references[v]]
  ELSE references

\* Faulty MatchNew: one $ too few below an arity.
MatchNewOneLess ==
  /\ AtItem
  /\ IsNew(Head(stack))
  /\ todo # <<>>
  /\ references' = Met(Head(stack), Head(todo))
  /\ stack' = [k \in 1 .. Arity(Head(todo)) - 1 |-> Wild] \o Tail(stack)
  /\ Walk
  /\ UNCHANGED <<problem, strayed, status>>

\* The arm Tag::NewVar: all children.  A variable or a symbol is passed over
\* whole; below an arity, as many $ are matched.
MatchNew ==
  /\ AtItem
  /\ IsNew(Head(stack))
  /\ todo # <<>>
  /\ references' = Met(Head(stack), Head(todo))
  /\ stack' = [k \in 1 .. Arity(Head(todo)) |-> Wild] \o Tail(stack)
  /\ Walk
  /\ UNCHANGED <<problem, strayed, status>>

\* Faulty Addition: a reference in the data is looked up among the pattern's.
AdditionAnyN(e) ==
  IF <<0, Label(problem, e).val>> \in DOMAIN references
  THEN references[<<0, Label(problem, e).val>>]
  ELSE Wild

\* What the arm Tag::VarRef pushes: the data at the reference, if the variable
\* is one of the pattern that was met, else $.
Addition(e) ==
  IF InPattern(e) /\ Var(problem, e) \in DOMAIN references
  THEN references[Var(problem, e)]
  ELSE Wild

Resolve ==
  /\ AtItem
  /\ IsRef(Head(stack))
  /\ stack' = <<Addition(Head(stack))>> \o Tail(stack)
  /\ UNCHANGED <<problem, todo, references, strayed, status>>

\* Faulty Stray: the addition is off the stack when vs! goes on.
StrayPopped ==
  /\ AtItem
  /\ IsRef(Head(stack))
  /\ todo # <<>>
  /\ IsVar(problem, Head(todo))
  /\ stack' = Tail(stack)
  /\ Walk
  /\ strayed' = TRUE
  /\ UNCHANGED <<problem, references, status>>

\* vs! in the arm Tag::VarRef: a variable of the data is passed over while the
\* addition stays on the stack.
Stray ==
  /\ AtItem
  /\ IsRef(Head(stack))
  /\ todo # <<>>
  /\ IsVar(problem, Head(todo))
  /\ stack' = <<Addition(Head(stack))>> \o Tail(stack)
  /\ Walk
  /\ strayed' = TRUE
  /\ UNCHANGED <<problem, references, status>>

\* The arms Tag::SymbolSize and Tag::Arity.
IsConstant(e) == ~IsNew(e) /\ ~IsRef(e)

\* vs! in these arms: a variable of the data stands for all of it.
MatchVariable ==
  /\ AtItem
  /\ IsConstant(Head(stack))
  /\ todo # <<>>
  /\ IsVar(problem, Head(todo))
  /\ stack' = Tail(stack)
  /\ Walk
  /\ UNCHANGED <<problem, references, strayed, status>>

MatchConstant ==
  /\ AtItem
  /\ IsConstant(Head(stack))
  /\ todo # <<>>
  /\ Label(problem, Head(todo)) = Label(problem, Head(stack))
  /\ stack' = [k \in 1 .. Arity(Head(stack)) |-> At(Head(stack), <<k>>)] \o Tail(stack)
  /\ Walk
  /\ UNCHANGED <<problem, references, strayed, status>>

Yield ==
  /\ status = "run"
  /\ stack = <<>>
  /\ status' = "found"
  /\ UNCHANGED <<problem, stack, todo, references, strayed>>

\* No child of the trie on the way to this data fits.
DeadEnd ==
  /\ AtItem
  /\ ~IsRef(Head(stack))
  /\ todo # <<>> =>
       /\ IsConstant(Head(stack))
       /\ ~IsVar(problem, Head(todo))
       /\ Label(problem, Head(todo)) # Label(problem, Head(stack))
  /\ status' = "dead"
  /\ UNCHANGED <<problem, stack, todo, references, strayed>>

Next ==
  \/ MatchNew \/ Resolve \/ Stray \/ MatchVariable \/ MatchConstant \/ Yield \/ DeadEnd

Spec == Init /\ [][Next]_vars

-----------------------------------------------------------------------------

Items == Locs(problem) \cup {Wild}

TypeOK ==
  /\ problem \in Problems
  /\ stack \in Seq(Items)
  /\ todo \in Seq(Locs(problem))
  /\ DOMAIN references \subseteq Nat \X Nat
  /\ \A v \in DOMAIN references : references[v] \in Locs(problem)
  /\ strayed \in BOOLEAN
  /\ status \in {"run", "found", "dead"}

\* f is called only where the zipper is at the end of the last expression, so
\* that origin_path and path_indices are those of whole expressions.
FoundIsWhole == status = "found" => todo = <<>>

\* The descent with the addition left on the stack never gets to f: it finds
\* nothing a second time, and nothing that the other one would not find.
StraysFindNothing == strayed => status # "found"

\* What the descent leaves out is not unifiable with the patterns: a variable
\* that is met a second time, on either side, cuts off no answer.
SearchComplete ==
  status = "dead" /\ ~strayed =>
    \A s \in Valuations(problem) : ~Solves(problem, s)
=============================================================================
