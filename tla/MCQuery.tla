------------------------------ MODULE MCQuery ------------------------------
(* Instance of Query for TLC.                                               *)
EXTENDS Query, SequencesExt, TLC

-----------------------------------------------------------------------------

(* Problems and valuations for TLC.  A term is sketched as nested tuples:   *)
(* <<"a">> the symbol, <<"x">> a variable, <<"f", t1, ..., tk>> a compound.   *)

\* The same function, which TLC then evaluates once, at every argument.
Tabulated(f) == f @@ <<>>

VarNames == {"x", "y", "z", "w"}

RECURSIVE Nodes(_)
Nodes(t) ==
  {<<>>} \cup UNION {{<<k - 1>> \o q : q \in Nodes(t[k])} : k \in 2 .. Len(t)}

RECURSIVE Sub(_, _)
Sub(t, q) == IF q = <<>> THEN t ELSE Sub(t[q[1] + 1], Tail(q))

LexBefore(q, r) ==
  \E i \in 1 .. Len(r) :
    /\ \A j \in 1 .. i - 1 : j <= Len(q) /\ q[j] = r[j]
    /\ Len(q) < i \/ q[i] < r[i]

IsName(t) == Len(t) = 1 /\ t[1] \in VarNames

\* De Bruijn levels: an occurrence is new unless the name came before it.
Encode(t) ==
  LET nodes == Nodes(t)
      First(name) == CHOOSE q \in nodes :
                       Sub(t, q) = name /\ \A r \in nodes : Sub(t, r) = name => ~LexBefore(r, q)
      Firsts == {First(Sub(t, q)) : q \in {r \in nodes : IsName(Sub(t, r))}}
      Level(name) == Cardinality({q \in Firsts : LexBefore(q, First(name))})
  IN Tabulated([q \in nodes |->
       LET u == Sub(t, q)
       IN IF IsName(u)
          THEN [tag |-> IF q = First(u) THEN "new" ELSE "ref", val |-> Level(u)]
          ELSE IF Len(u) = 1 THEN [tag |-> "sym", val |-> 1]
          ELSE [tag |-> "arity", val |-> Len(u) - 1]])

\* A pattern of some factors against as many expressions.
QueryOf(pattern, data) ==
  LET terms == Tabulated([n \in 0 .. Len(data) |-> Encode(IF n = 0 THEN pattern ELSE data[n])])
  IN [label |-> Tabulated([l \in UNION {{n} \X DOMAIN terms[n] : n \in DOMAIN terms} |-> terms[l[1]][l[2]]]),
      pairs |-> [k \in DOMAIN data |-> <<<<0, <<k>>>>, <<k, <<>>>>>>]]

a == <<"a">>
x == <<"x">>
y == <<"y">>
z == <<"z">>
w == <<"w">>
h(t) == <<"f", t>>
p(t, u) == <<"f", t, u>>
p3(t, u, v) == <<"f", t, u, v>>

Leaves == {a, x, y, h(x)}

\* Two arguments against two, in one factor.
Plain == {QueryOf(h(p(t, u)), <<p(v, r)>>) : t, u, v, r \in Leaves}

\* Three arguments, and two factors: a variable of the pattern that is met
\* again as data with a reference of its own, and bindings that are cyclic.
Cyclic ==
  {QueryOf(h(p3(x, p(z, y), y)), <<p3(a, p(w, h(w)), h(h(a)))>>),
   QueryOf(h(p3(x, h(x), x)), <<p3(h(y), y, y)>>),
   QueryOf(h(p3(x, h(y), x)), <<p3(h(y), y, y)>>),
   QueryOf(h(p3(x, y, p(x, y))), <<p3(h(w), h(w), p(w, w))>>),
   QueryOf(h(p3(x, x, y)), <<p3(p(y, w), p(w, y), h(w))>>),
   QueryOf(p(p(x, h(x)), p(x, y)), <<p(h(w), w), p(w, w)>>),
   QueryOf(p(p(x, h(y)), p(y, x)), <<p(h(w), w), p(w, h(a))>>)}

MCProblems == {r : r \in Plain \cup Cyclic}

\* The positions that occur, with what remains of them below other positions.
MCPositions ==
  {SubSeq(e[1], e[2], Len(e[1])) :
     e \in UNION {{l[2]} \X (1 .. Len(l[2]) + 1) : l \in UNION {DOMAIN r.label : r \in MCProblems}}}

-----------------------------------------------------------------------------

Ground == {a, h(a), h(h(a))}

RECURSIVE SizeOf(_)
SizeOf(t) == 1 + FoldSeq(LAMBDA u, n : SizeOf(u) + n, 0, Tail(t))

\* The value at location l when variable v has the value g[v].
RECURSIVE ValueAt(_, _, _)
ValueAt(r, l, g) ==
  LET label == r.label[l]
  IN CASE label.tag \in {"new", "ref"} -> g[<<l[1], label.val>>]
       [] label.tag = "sym"   -> a
       [] label.tag = "arity" ->
            <<"f">> \o [k \in 1 .. label.val |-> ValueAt(r, <<l[1], Append(l[2], k)>>, g)]

\* All choices of ground terms for the variables.
Valued(r) ==
  LET vs == {<<l[1], r.label[l].val>> : l \in {m \in DOMAIN r.label : r.label[m].tag = "new"}}
  IN {Tabulated([l \in DOMAIN r.label |-> ValueAt(r, l, g)]) : g \in [vs -> Ground]}

ValuedProblems == Tabulated([r \in MCProblems |-> Valued(r)])
MCValuations(r) == ValuedProblems[r]
=============================================================================
