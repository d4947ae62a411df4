------------------------------ MODULE FoldSinks ------------------------------
(***************************************************************************)
(* The sinks that fold their matches into one expression                   *)
(* (kernel/src/sinks.rs): U unifies them, AU takes what they have in       *)
(* common.  The first match is copied to a buffer, each later one is       *)
(* joined with it into a second buffer, and the two are swapped; when the  *)
(* query is over the buffer is written below the root of the template.     *)
(* What unify and apply_e do step by step is in Unify and Instantiation.   *)
(***************************************************************************)
EXTENDS NamedExprs

CONSTANTS
  Folds,       \* among U and AU
  Patterns,    \* templates, with names
  Fillings,    \* what a variable of a template can stand for
  Grounds,     \* expressions without variables to compare by
  MaxVars,     \* variables of a generalization, 64 in the code
  MaxDepth,    \* AU_MAX_DEPTH
  MaxMatches   \* bound: calls of sink

VARIABLES
  fold, pattern,
  buf,       \* the expression so far, or No
  room,      \* AU: bytes of the two buffers
  last,      \* end of the expression in buf, or Unset
  conflict,  \* U: two matches do not unify
  calls,     \* calls of sink (history)
  seen,      \* the distinct matches (history)
  output,    \* paths written
  stage      \* "sink", "done" or "panic"

vars == <<fold, pattern, buf, room, last, conflict, calls, seen, output, stage>>

\* usize::MAX
Unset == 99999

\* Bytes: symbols are of one byte here.
Bytes(e) == FoldSeq(LAMBDA i, sum : sum + (IF i.tag = "sym" THEN 2 ELSE 1), 0, e)

\* The matches of a template, and the path that the sink asks for.
Matches(t) == {Encode(Instance(t, b)) : b \in [Names(t) -> Fillings]}
RootOf(t)  == Prefix(Encode(t))
Rel(p)     == SubSeq(p, Len(RootOf(pattern)) + 1, Len(p))

-----------------------------------------------------------------------------
(* anti_unify: pairs of places of the expressions x and y, last one first *)

\* RelExprEnv: what is at a place, with its variables by their levels.
Absolute(x, i) == SubSeq(Named(x, 0), i, EndAt(x, i))

Decomposable(a, b) == ~IsVar(a) /\ a = b

\* ExprEnv::args
RECURSIVE ArgsFrom(_, _, _)
ArgsFrom(x, i, n) == IF n = 0 THEN <<>> ELSE <<i>> \o ArgsFrom(x, EndAt(x, i) + 1, n - 1)
ArgsAt(x, i) == ArgsFrom(x, i + 1, x[i].val)

\* Faulty Disagree: what was left out before is not found again.
DisagreeAnew(key, out, memo) == [out |-> Append(out, New), memo |-> Append(memo, key)]
\* A variable for two subterms: the one they have, or the next.
Disagree(key, out, memo) ==
  IF \E k \in DOMAIN memo : memo[k] = key
  THEN [out |-> Append(out, Ref((CHOOSE k \in DOMAIN memo : memo[k] = key) - 1)), memo |-> memo]
  ELSE [out |-> Append(out, New), memo |-> Append(memo, key)]

\* anti_unify_apply.  No is an error, which the sink unwraps.
RECURSIVE AntiUnifyFrom(_, _, _, _, _)
AntiUnifyFrom(x, y, stack, out, memo) ==
  IF stack = <<>> THEN out
  ELSE LET i == Last(stack)[1]
           j == Last(stack)[2]
           rest == Front(stack)
           key == <<Absolute(x, i), Absolute(y, j)>>
           next == Disagree(key, out, memo)
           args == Reverse([k \in 1 .. x[i].val |-> <<ArgsAt(x, i)[k], ArgsAt(y, j)[k]>>])
       IN IF Len(rest) > MaxDepth THEN No
          ELSE IF Decomposable(x[i], y[j])
               THEN AntiUnifyFrom(x, y, IF x[i].tag = "arity" THEN rest \o args ELSE rest,
                                  Append(out, x[i]), memo)
          ELSE IF Len(next.memo) > MaxVars THEN No
          ELSE AntiUnifyFrom(x, y, rest, next.out, next.memo)
AntiUnify(x, y) == AntiUnifyFrom(x, y, <<<<1, 1>>>>, <<>>, <<>>)

-----------------------------------------------------------------------------
\* unifies_reuse_state
Unified(x, y) ==
  LET u == UnifyNamed(Named(x, 0), Named(y, 1))
  IN IF u = No THEN No ELSE Encode(u)

-----------------------------------------------------------------------------

Init ==
  /\ fold \in Folds
  /\ pattern \in Patterns
  /\ buf = No
  /\ room = 0
  /\ last = Unset
  /\ conflict = FALSE
  /\ calls = 0
  /\ seen = {}
  /\ output = {}
  /\ stage = "sink"

Called(p) ==
  /\ stage = "sink"
  /\ calls < MaxMatches
  /\ calls' = calls + 1
  /\ seen' = seen \cup {p}
  /\ UNCHANGED <<fold, pattern, output>>

\* U knows where its copy ends; AU leaves last as it is.
SinkFirst(p) ==
  /\ Called(p)
  /\ ~conflict
  /\ buf = No
  /\ buf' = p
  /\ IF fold = "U" THEN last' = Bytes(p) /\ UNCHANGED room
                   ELSE room' = Bytes(p) /\ UNCHANGED last
  /\ UNCHANGED <<conflict, stage>>

\* The match is ignored once there was a conflict.
SinkUnified(p) ==
  /\ fold = "U"
  /\ Called(p)
  /\ buf # No
  /\ LET u == Unified(buf, p)
     IN IF conflict \/ u = No
        THEN conflict' = TRUE /\ UNCHANGED <<buf, last>>
        ELSE buf' = u /\ last' = Bytes(u) /\ UNCHANGED conflict
  /\ UNCHANGED <<room, stage>>

SinkGeneralized(p) ==
  /\ fold = "AU"
  /\ Called(p)
  /\ buf # No
  /\ LET g == AntiUnify(buf, p)
     IN IF g = No
        THEN stage' = "panic" /\ UNCHANGED <<buf, last>>
        ELSE buf' = g /\ last' = Bytes(g) /\ UNCHANGED stage
  /\ UNCHANGED <<room, conflict>>

\* The slice up to last is beyond the buffer if AU was called once.
FoldFinalize ==
  /\ stage = "sink"
  /\ CASE conflict \/ buf = No            -> stage' = "done" /\ UNCHANGED output
       [] fold = "AU" /\ last > room      -> ~conflict /\ buf # No /\ stage' = "panic" /\ UNCHANGED output
       [] OTHER                           -> stage' = "done" /\ output' = {RootOf(pattern) \o Rel(buf)}
  /\ UNCHANGED <<fold, pattern, buf, room, last, conflict, calls, seen>>

Next ==
  \/ \E p \in Matches(pattern) : SinkFirst(p) \/ SinkUnified(p) \/ SinkGeneralized(p)
  \/ FoldFinalize

Spec == Init /\ [][Next]_vars

-----------------------------------------------------------------------------
(* Properties *)

\* What is written to a buffer of AU fits in it.
TypeOK ==
  /\ stage \in {"sink", "done", "panic"}
  /\ Cardinality(seen) <= calls /\ calls <= MaxMatches
  /\ fold = "AU" /\ last # Unset => last <= room

\* What expressions have in common, all at once: where they disagree a
\* variable that is named by what each of them has there.
RECURSIVE Common(_, _)
Common(xs, at) ==
  LET first == CHOOSE x \in xs : TRUE
      head  == first[at[first]]
      parts == [x \in xs |-> Absolute(x, at[x])]
      arg[k \in 1 .. head.val] == Common(xs, [x \in xs |-> ArgsAt(x, at[x])[k]])
  IN IF IsVar(head) \/ \E x \in xs : x[at[x]] # head THEN <<Var(parts)>>
     ELSE IF head.tag = "sym" THEN <<head>>
     ELSE <<head>> \o FlattenSeq([k \in 1 .. head.val |-> arg[k]])

Generalization(xs) == Encode(Common(xs, [x \in xs |-> 1]))

\* Whether g is m with something for each of its variables, the first one first.
RECURSIVE IsInstance(_, _)
IsInstance(m, g) ==
  IF Names(m) = {} THEN m = g
  ELSE LET i == CHOOSE i \in DOMAIN m : m[i].tag = "var" /\ Names(SubSeq(m, 1, i - 1)) = {}
       IN /\ i <= Len(g) /\ SubSeq(m, 1, i - 1) = SubSeq(g, 1, i - 1)
          /\ IsInstance(Replace(m, LAMBDA k : IF m[k] = m[i] THEN Span(g, i) ELSE <<m[k]>>), g)

Covers(x) == {g \in Grounds : IsInstance(Named(x, 0), g)}

\* Whatever the order of the matches and however often each comes, AU writes
\* their least general generalization, and U an expression that stands for
\* what every one of them stands for; U writes nothing only if there is no
\* match, or none of Grounds is an instance of all.  AU loses its single
\* match, and nothing else, to a panic.
FoldIsExact ==
  /\ stage = "panic" <=> fold = "AU" /\ calls = 1 /\ stage # "sink"
  /\ stage = "done" =>
       CASE fold = "AU" -> output = {Generalization(seen) : x \in seen}
         [] fold = "U"  ->
              LET all == {g \in Grounds : \A x \in seen : g \in Covers(x)}
              IN IF output = {} THEN seen = {} \/ all = {}
                 ELSE \A x \in output : Covers(x) = all
=============================================================================
