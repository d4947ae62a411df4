----------------------------- MODULE ExprAlgebra -----------------------------
(***************************************************************************)
(* The operations on encoded expressions, one after another on the same    *)
(* expression, next to what they mean for variables with names.            *)
(***************************************************************************)
EXTENDS NamedExprs

CONSTANTS
  Exprs,         \* expressions to start from
  Replacements,  \* expressions to put for variables
  Rules,         \* <<pattern, template>> of transformData
  MaxLen,        \* bound: items of an expression
  MaxVars        \* bound: variables of an expression, 64 in the code

VARIABLES
  e,        \* the expression
  meaning   \* the same with names for its variables (history)

vars == <<e, meaning>>

-----------------------------------------------------------------------------

Init ==
  /\ e \in Exprs
  /\ meaning = Canonical(Named(e, 0))

Fits(x) == Len(x) <= MaxLen /\ NewVars(x) <= MaxVars

SubstituteAll(subs) ==
  /\ Len(subs) = NewVars(e)
  /\ e' = SubstituteDeBruijn(e, subs)
  /\ Fits(e')
  /\ meaning' = Instance(meaning, [k \in Names(meaning) |-> Named(subs[k + 1], k)])

ReplaceVar(k, s) ==
  /\ k < NewVars(e)
  /\ e' = SubstituteOne(e, k, s)
  /\ Fits(e')
  /\ meaning' = Instance(meaning, [j \in Names(meaning) |->
                                     IF j = k THEN Named(s, k) ELSE <<Var(<<j, 0>>)>>])

\* assert!(new_var > refer_to)
JoinVar(n, r) ==
  /\ r < n
  /\ n < NewVars(e)
  /\ e' = EquateVar(e, n, r)
  /\ meaning' = Instance(meaning, [j \in Names(meaning) |-> <<Var(IF j = n THEN r ELSE j)>>])

\* into[k] is the variable that variable k joins, or k itself; one that is
\* joined stays.  The call names it by its level in the result.
JoinVars(into) ==
  LET LevelAfter(k) == Cardinality({j \in DOMAIN into : j < k /\ into[j] = j})
      refers == [k \in 1 .. NewVars(e) |->
                   IF into[k - 1] = k - 1 THEN Keep ELSE LevelAfter(into[k - 1])]
  IN /\ \A k \in DOMAIN into : into[k] <= k /\ into[into[k]] = into[k]
     /\ e' = EquateVars(e, refers)
     /\ meaning' = Instance(meaning, [j \in Names(meaning) |-> <<Var(into[j])>>])

\* A compound that a reference of the pattern can meet.
Repeats(d) ==
  \E i, j \in DOMAIN d : i # j /\ d[i].tag = "arity" /\ Span(d, i) = Span(d, j)

\* transformData.  What it does at a repeated compound is left out.
Transform(pattern, template) ==
  LET found == ExtractData(pattern, e)
      meant == Solutions(pattern, e)
      of(by) == Instance(Canonical(Named(template, 0)), by)
  IN /\ (\E i \in DOMAIN pattern : pattern[i].tag = "ref") => ~Repeats(e)
     /\ e' = IF found = No THEN e ELSE Substitute(template, found)
     /\ meaning' = IF meant = {} THEN meaning ELSE of(CHOOSE by \in meant : TRUE)
     /\ Fits(e')

Next ==
  \/ \E subs \in [1 .. NewVars(e) -> Replacements] : SubstituteAll(subs)
  \/ \E k \in 0 .. MaxVars - 1, s \in Replacements : ReplaceVar(k, s)
  \/ \E n, r \in 0 .. MaxVars - 1 : JoinVar(n, r)
  \/ \E into \in [0 .. NewVars(e) - 1 -> 0 .. NewVars(e) - 1] : JoinVars(into)
  \/ \E rule \in Rules : IsGround(e) /\ Transform(rule[1], rule[2])

Spec == Init /\ [][Next]_vars

-----------------------------------------------------------------------------
(* Properties *)

\* One expression, whose references are to variables introduced before them.
TypeOK ==
  /\ Fits(e)
  /\ Span(e, 1) = e
  /\ ~HasUnbound(e)

\* After any sequence of operations the encoding is that of the expression with
\* names on which the same was done: no reference was shifted to a neighbour,
\* no variable of a replacement was caught, and what was matched against a
\* pattern was its instance.
EncodingKeepsMeaning == e = Encode(meaning)
=============================================================================
