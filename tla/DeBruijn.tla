------------------------------ MODULE DeBruijn ------------------------------
(***************************************************************************)
(* Expressions as they are encoded (expr/src/lib.rs): items in prefix      *)
(* order, with variables as De Bruijn levels.  The first occurrence of a   *)
(* variable is "new", and a later one refers to it by the number of "new"s *)
(* before its first.  Whatever replaces or joins variables has to renumber *)
(* the references behind it.                                               *)
(***************************************************************************)
EXTENDS Naturals, Sequences, SequencesExt, FiniteSets

New      == [tag |-> "new", val |-> 0]
Ref(k)   == [tag |-> "ref", val |-> k]
Sym(s)   == [tag |-> "sym", val |-> s]
Arity(k) == [tag |-> "arity", val |-> k]

IsNew(i) == i.tag = "new"
IsVar(i) == i.tag \in {"new", "ref"}

\* newvars, of the whole and of what comes before item i.
NewVars(e)      == Cardinality({i \in DOMAIN e : IsNew(e[i])})
NewBefore(e, i) == NewVars(SubSeq(e, 1, i - 1))

\* The variable, by its level, that item i is an occurrence of.
LevelAt(e, i) == IF IsNew(e[i]) THEN NewBefore(e, i) ELSE e[i].val

\* variables, is_ground
Variables(e) == Len(SelectSeq(e, IsVar))
IsGround(e)  == Variables(e) = 0

\* has_unbound: a reference to what was not introduced before it.
HasUnbound(e) == \E i \in DOMAIN e : e[i].tag = "ref" /\ e[i].val >= NewBefore(e, i)

\* span: the end of the expression that starts at item i.  The number of
\* expressions still to come is one more after an arity for each argument.
EndAt(e, i) ==
  LET open[j \in Nat] == IF j < i THEN 1
                         ELSE open[j - 1] - 1 + (IF e[j].tag = "arity" THEN e[j].val ELSE 0)
  IN CHOOSE j \in i .. Len(e) : open[j] = 0 /\ \A k \in i .. j - 1 : open[k] > 0
Span(e, i) == SubSeq(e, i, EndAt(e, i))

\* prefix, up to the first variable; the whole expression if there is none.
Prefix(e) ==
  IF IsGround(e) THEN e
  ELSE SubSeq(e, 1, (CHOOSE i \in DOMAIN e : IsVar(e[i]) /\ IsGround(SubSeq(e, 1, i - 1))) - 1)

\* One replacement for every item.
Replace(e, by(_)) == FlattenSeq([i \in DOMAIN e |-> by(i)])

\* shift: make room for n variables before an expression.
Shift(e, n) == [i \in DOMAIN e |-> IF e[i].tag = "ref" THEN Ref(e[i].val + n) ELSE e[i]]

\* bind: repeat an expression whose variables were introduced from level n on.
Bind(e, n) == [i \in DOMAIN e |-> IF IsVar(e[i]) THEN Ref(LevelAt(e, i) + n) ELSE e[i]]

\* additions[k]: the variables that the replacements of earlier ones introduce.
Additions(subs, k) ==
  LET sum[j \in 0 .. k] == IF j = 0 THEN 0 ELSE sum[j - 1] + NewVars(subs[j])
  IN sum[k]

\* Faulty SubstituteDeBruijn: references within a replacement are not shifted.
SubstituteUnshifted(e, subs) ==
  Replace(e, LAMBDA i : CASE IsNew(e[i])       -> subs[NewBefore(e, i) + 1]
                          [] e[i].tag = "ref"  -> Bind(subs[e[i].val + 1], Additions(subs, e[i].val))
                          [] OTHER             -> <<e[i]>>)
\* substitute_de_bruijn: subs[k + 1] for the variable of level k.
SubstituteDeBruijn(e, subs) ==
  Replace(e, LAMBDA i : CASE IsNew(e[i])       -> Shift(subs[NewBefore(e, i) + 1], Additions(subs, NewBefore(e, i)))
                          [] e[i].tag = "ref"  -> Bind(subs[e[i].val + 1], Additions(subs, e[i].val))
                          [] OTHER             -> <<e[i]>>)

\* substitute_one_de_bruijn
SubstituteOne(e, k, s) ==
  SubstituteDeBruijn(e, [j \in 1 .. NewVars(e) |-> IF j = k + 1 THEN s ELSE <<New>>])

\* substitute: copies of expressions that introduce no variables.
Substitute(e, subs) ==
  Replace(e, LAMBDA i : IF IsVar(e[i]) THEN subs[LevelAt(e, i) + 1] ELSE <<e[i]>>)

\* equate_var and equate_var_inplace: variable n becomes variable r.
EquateVar(e, n, r) ==
  [i \in DOMAIN e |->
     CASE IsVar(e[i]) /\ LevelAt(e, i) = n -> Ref(r)
       [] e[i].tag = "ref" /\ e[i].val > n -> Ref(e[i].val - 1)
       [] OTHER                            -> e[i]]

\* equate_vars_inplace: refers[k + 1] is what becomes of variable k, as a level
\* of the result, or Keep.  The level of one that is kept sinks by those joined
\* before it.
Keep == 255
EquateVars(e, refers) ==
  LET joined(k) == Cardinality({j \in 1 .. k : refers[j] # Keep})
      level(k)  == IF refers[k + 1] # Keep THEN refers[k + 1] ELSE k - joined(k)
  IN [i \in DOMAIN e |->
        IF IsNew(e[i]) /\ refers[NewBefore(e, i) + 1] = Keep THEN New
        ELSE IF IsVar(e[i]) THEN Ref(level(LevelAt(e, i))) ELSE e[i]]

\* extract_data, from item i of the pattern e and item j of the data d on: the
\* parts of the data that the pattern's variables stand for, or No.  After a
\* reference that meets a compound the data is one item further, as it is after
\* an arity, although all of the compound was compared.
No == <<<<>>>>
ExtractData(e, d) ==
  LET Item(s, i) ==
        LET j == s.at
        IN IF ~s.ok \/ IsVar(d[j]) THEN [s EXCEPT !.ok = FALSE]
           ELSE IF IsNew(e[i]) THEN [s EXCEPT !.at = EndAt(d, j) + 1, !.found = Append(@, Span(d, j))]
           ELSE IF e[i].tag = "ref" THEN [s EXCEPT !.at = j + 1, !.ok = s.found[e[i].val + 1] = Span(d, j)]
           ELSE [s EXCEPT !.at = j + 1, !.ok = e[i] = d[j]]
      all == FoldLeft(Item, [at |-> 1, found |-> <<>>, ok |-> TRUE], [i \in DOMAIN e |-> i])
  IN IF all.ok THEN all.found ELSE No
=============================================================================
