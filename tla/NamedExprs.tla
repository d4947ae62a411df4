----------------------------- MODULE NamedExprs -----------------------------
(***************************************************************************)
(* What encoded expressions mean: the same items with names for variables. *)
(* Renaming, instances and matches are defined here without the levels of  *)
(* DeBruijn, so that they can be compared with what the code does.         *)
(***************************************************************************)
EXTENDS DeBruijn

Var(name) == [tag |-> "var", val |-> name]

Names(m) == {m[i].val : i \in {j \in DOMAIN m : m[j].tag = "var"}}
At(m, i, name) == m[i].tag = "var" /\ m[i].val = name
First(m, name) == CHOOSE i \in DOMAIN m : At(m, i, name) /\ \A j \in 1 .. i - 1 : ~At(m, j, name)
Rank(m, name)  == Cardinality({n \in Names(m) : First(m, n) < First(m, name)})

\* Names do not matter: the variables are renamed by their order.
Canonical(m) == [i \in DOMAIN m |-> IF m[i].tag = "var" THEN Var(Rank(m, m[i].val)) ELSE m[i]]

Encode(m) ==
  [i \in DOMAIN m |-> IF m[i].tag # "var" THEN m[i]
                      ELSE IF First(m, m[i].val) = i THEN New ELSE Ref(Rank(m, m[i].val))]

\* The variables of an expression, each apart from those of other expressions.
Named(x, from) == [i \in DOMAIN x |-> IF IsVar(x[i]) THEN Var(<<from, LevelAt(x, i)>>) ELSE x[i]]

\* Every variable replaced by the named expression by[name].
Instance(m, by) ==
  Canonical(Replace(m, LAMBDA i : IF m[i].tag = "var" THEN by[m[i].val] ELSE <<m[i]>>))

\* The instances of the pattern among ground expressions made of parts of d.
Solutions(pattern, d) ==
  LET p == Canonical(Named(pattern, 0))
      parts == {Span(d, j) : j \in DOMAIN d}
  IN {by \in [Names(p) -> parts] : Instance(p, by) = d}

(* unify: of the first difference one side is a variable, which becomes the  *)
(* other side, or there is no common instance.                               *)
UnifyNamed(m, n) ==
  LET Put(p, v, s) ==
        LET In(x) == Replace(x, LAMBDA k : IF x[k] = v THEN s ELSE <<x[k]>>)
        IN IF \E k \in DOMAIN s : s[k] = v THEN p ELSE <<In(p[1]), In(p[2])>>
      Step(p) ==
        LET i == CHOOSE i \in DOMAIN p[1] : p[1][i] # p[2][i] /\ \A j \in 1 .. i - 1 : p[1][j] = p[2][j]
        IN IF p[1] = p[2] THEN p
           ELSE IF p[1][i].tag = "var" THEN Put(p, p[1][i], Span(p[2], i))
           ELSE IF p[2][i].tag = "var" THEN Put(p, p[2][i], Span(p[1], i))
           ELSE p
      all == FoldLeft(LAMBDA p, v : Step(p), <<m, n>>, SetToSeq(Names(m) \cup Names(n)))
  IN IF all[1] = all[2] THEN all[1] ELSE No
=============================================================================
