----------------------------- MODULE Reductions -----------------------------
(***************************************************************************)
(* The sinks that reduce (kernel/src/sinks.rs): count, hash, and, sum, the *)
(* float reductions and pure.  A template is a context, a guard and a      *)
(* payload.  Its instances are collected as a set of paths below the root  *)
(* that the sink asked for, which is all of the template before its first  *)
(* variable.  When the query is over every context is visited once, and    *)
(* its guards say what becomes of the value its payloads reduce to:        *)
(*   a symbol      the context is written if it equals the value;          *)
(*   a new variable the context is written whatever the value is;          *)
(*   a reference   the value replaces that variable of the context.        *)
(* Float arithmetic is that of the integers here, and hashes do not clash. *)
(***************************************************************************)
EXTENDS NamedExprs, Bitwise, Integers, TLC

CONSTANTS
  Reducers,      \* among count, hash, and, sum, fsum, min, max, prod and pure
  Templates,  \* [ctx, guard, payload |-> expressions with names]
  Values,     \* what a variable can stand for, but "fresh", which no pattern has
  Other,      \* symbols from Other on are not numbers
  MaxSum,     \* the last number of SumSink, 2^32 - 1 in the code
  MaxSunk     \* bound: instances

VARIABLES
  kind, template,
  checked,  \* whether the build stops at an overflow
  unique,   \* the instances, without the root
  sunk,     \* how often sink was called
  matches,  \* the distinct instances (history)
  visits,   \* contexts still to be visited
  written,  \* paths
  status    \* "sink", "visit" or "panic"

vars == <<kind, template, checked, unique, sunk, matches, visits, written, status>>

Whole(t) == Encode(t.ctx \o t.guard \o t.payload)

\* prefix().unwrap_or_else: all but the last byte of a ground template.
Roots == [t \in Templates |-> LET e == Whole(t) IN IF IsGround(e) THEN Front(e) ELSE Prefix(e)]
Root  == Roots[template]
Below(p, root) == SubSeq(p, Len(root) + 1, Len(p))

Bindings(t) ==
  LET names == Names(t.ctx \o t.guard \o t.payload)
  IN {b \in [names -> Values \cup {<<Var("fresh")>>}] : \A n \in names : b[n] = <<Var("fresh")>> <=> n = "fresh"}

Instances ==
  [t \in Templates |-> {Encode(Instance(t.ctx \o t.guard \o t.payload, b)) : b \in Bindings(t)}]

\* rooted_input, as contexts, their guards, and the payloads under these.
Rooted            == {Root \o p : p \in unique}
At1(p)            == Span(p, 1)
Under(ctx)        == {Below(p, ctx) : p \in {q \in Rooted : At1(q) = ctx}}
Guards(ctx)       == {At1(p) : p \in Under(ctx)}
Payloads(ctx, g)  == {Below(p, g) : p \in {q \in Under(ctx) : At1(q) = g}}
Literals(ctx)     == {g \in Guards(ctx) : g[1].tag = "sym"}
References(ctx)   == {g \in Guards(ctx) : g[1].tag = "ref"}
Compounds(ctx)    == {g \in Guards(ctx) : g[1].tag = "arity"}

IsNumber(p) == p[1].tag = "sym" /\ p[1].val < Other
Number(p)   == p[1].val

\* One operator per sink: what the payloads ps come to, without regard to the
\* width of a number.  HashSink hashes the subtrie.
CountOf(ps) == Cardinality(ps)
HashOf(ps)  == 100 + FoldSet(LAMBDA p, sum : sum + 2 ^ (IF p[1].tag = "sym" THEN p[1].val ELSE Other + p[1].val), 0, ps)
AndOf(ps)   == FoldSet(LAMBDA p, bits : bits & Number(p), 255, ps)
SumOf(ps)   == FoldSet(LAMBDA p, sum : sum + Number(p), 0, ps)
FloatOf(ps) ==
  LET numbers == {Number(p) : p \in ps}
  IN CASE kind = "min"  -> CHOOSE n \in numbers : \A m \in numbers : n <= m
       [] kind = "max"  -> CHOOSE n \in numbers : \A m \in numbers : n >= m
       [] kind = "prod" -> FoldSet(LAMBDA p, prod : prod * Number(p), 1, ps)
       [] kind = "fsum" -> FoldSet(LAMBDA p, sum : sum + Number(p), 0, ps)

Value(ps) ==
  CASE kind = "count" -> CountOf(ps)
    [] kind = "hash"  -> HashOf(ps)
    [] kind = "and"   -> AndOf(ps)
    [] kind = "sum"   -> SumOf(ps)
    [] OTHER          -> FloatOf(ps)

\* Counts are of the whole context; sums are in a u32.
Reduce(ctx, g) ==
  CASE kind = "count" -> Value(Under(ctx))
    [] kind = "sum"   -> Value(Payloads(ctx, g)) % (MaxSum + 1)
    [] OTHER          -> Value(Payloads(ctx, g))

\* What is put for a reference: pure evaluates each payload, here a number to
\* itself, and goes on after an error.
Answers(ctx, g) ==
  IF kind = "pure" THEN {Number(p) : p \in {q \in Payloads(ctx, g) : IsNumber(q)}}
  ELSE {Reduce(ctx, g)}

\* str::parse(..).unwrap(), p[clen+1], todo!()
IsLost(ctx, g) ==
  LET ps == Payloads(ctx, g)
  IN CASE kind \in {"sum", "fsum", "min", "max", "prod"} ->
            \/ \E p \in ps : ~IsNumber(p)
            \/ kind = "sum" /\ checked /\ SumOf(ps) > MaxSum
       [] kind = "and"  -> \E p \in ps : p[1].tag # "sym"
       [] kind = "pure" -> g[1].tag # "ref"
       [] OTHER         -> FALSE

-----------------------------------------------------------------------------

Init ==
  /\ kind \in Reducers
  /\ template \in Templates
  /\ checked \in {FALSE, kind = "sum"}
  /\ unique = {}
  /\ sunk = 0
  /\ matches = {}
  /\ visits = {}
  /\ written = {}
  /\ status = "sink"

\* The set holds a path once, however often it is sunk.
Sink(p) ==
  /\ status = "sink"
  /\ sunk < MaxSunk
  /\ unique' = unique \cup {Below(p, Root)}
  /\ sunk' = sunk + 1
  /\ matches' = matches \cup {p}
  /\ UNCHANGED <<kind, template, checked, visits, written, status>>

Finalize ==
  /\ status = "sink"
  /\ status' = "visit"
  /\ visits' = {At1(p) : p \in Rooted}
  /\ UNCHANGED <<kind, template, checked, unique, sunk, matches, written>>

\* The path of a context, as the guards that keep it move to it: below the root,
\* although it is a whole path already.
Kept(ctx) == Root \o ctx

\* A symbol that equals the value; count compares the whole of the context.
KeepsLiteral(ctx) ==
  \E g \in Literals(ctx) : g = <<Sym(Reduce(ctx, g))>>

IgnoresValue(ctx) == <<New>> \in Guards(ctx)

\* The first child of the context: compounds come before references, these
\* before variables, and a lower reference before a higher one.
Referred(ctx) ==
  IF Compounds(ctx) # {} THEN {}
  ELSE {g \in References(ctx) : \A h \in References(ctx) : g[1].val <= h[1].val}

\* Faulty Replaced: the value is put for the first variable.
ReplacedFirst(ctx) ==
  {Root \o Below(SubstituteOne(ctx, 0, <<Sym(n)>>), Root) :
     n \in UNION {Answers(ctx, g) : g \in Referred(ctx)}}
Replaced(ctx) ==
  UNION {{Root \o Below(SubstituteOne(ctx, g[1].val, <<Sym(n)>>), Root) : n \in Answers(ctx, g)} :
           g \in Referred(ctx)}

\* The guards whose payloads are read.
Read(ctx) ==
  IF kind = "pure" THEN Literals(ctx) \cup Compounds(ctx) \cup Referred(ctx)
  ELSE Literals(ctx) \cup Referred(ctx)

Visit(ctx) ==
  /\ status = "visit"
  /\ ctx \in visits
  /\ \A g \in Read(ctx) : ~IsLost(ctx, g)
  /\ visits' = visits \ {ctx}
  /\ written' = written \cup Replaced(ctx)
                  \cup (IF (kind # "pure" /\ KeepsLiteral(ctx)) \/ IgnoresValue(ctx) THEN {Kept(ctx)} ELSE {})
  /\ UNCHANGED <<kind, template, checked, unique, sunk, matches, status>>

\* The exec, and the process with it.
Panic(ctx) ==
  /\ status = "visit"
  /\ ctx \in visits
  /\ \E g \in Read(ctx) : IsLost(ctx, g)
  /\ status' = "panic"
  /\ UNCHANGED <<kind, template, checked, unique, sunk, matches, visits, written>>

Next ==
  \/ \E p \in Instances[template] : Sink(p)
  \/ Finalize
  \/ \E ctx \in visits : Visit(ctx) \/ Panic(ctx)

Spec == Init /\ [][Next]_vars

-----------------------------------------------------------------------------
(* Properties *)

\* Every path that was collected is an instance of the template.
TypeOK ==
  /\ status \in {"sink", "visit", "panic"}
  /\ Cardinality(matches) <= sunk /\ sunk <= MaxSunk
  /\ Rooted = matches
  /\ visits \subseteq {At1(p) : p \in matches}

Done == status = "visit" /\ visits = {}

Ctx(p)   == At1(p)
Guard(p) == At1(Below(p, Ctx(p)))

\* The matches that are reduced with p.
Group(p) == {q \in matches : Ctx(q) = Ctx(p) /\ (kind = "count" \/ Guard(q) = Guard(p))}
Rest(p)  == Below(Below(p, Ctx(p)), Guard(p))

\* What one match and those with it declare: the value takes the place of the
\* variable that the guard is.  A sum is meant up to its width.
Wide(n) == IF kind = "sum" THEN n % (MaxSum + 1) ELSE n
Declares(p) ==
  LET value  == Wide(Value(IF kind = "count" THEN Group(p) ELSE {Rest(q) : q \in Group(p)}))
      values == IF kind = "pure" THEN {Number(r) : r \in {s \in {Rest(p)} : IsNumber(s)}} ELSE {value}
      named  == Named(Ctx(p), 0)
      with(n) == Encode(Instance(named, [v \in Names(named) |->
                   IF v = <<0, Guard(p)[1].val>> THEN <<Sym(n)>> ELSE <<Var(v)>>]))
  IN CASE Guard(p)[1].tag = "new" -> {Ctx(p)}
       [] Guard(p)[1].tag = "ref" -> {with(n) : n \in values}
       [] Guard(p)[1].tag = "sym" -> {c \in {Ctx(p)} : Guard(p) = <<Sym(value)>>}
       [] OTHER                   -> {}

\* Guards that the sinks tell apart: one reference at most per context, and a
\* root that is empty unless there are only references.
AreDistinct ==
  /\ \A p, q \in matches : Ctx(p) = Ctx(q) /\ Guard(p) # Guard(q)
                             => ~(Guard(p)[1].tag = "ref" /\ Guard(q)[1].tag \in {"ref", "arity"})
  /\ Root = <<>> \/ \A p \in matches : Guard(p)[1].tag \in {"ref", "arity"}

Fits(p) == Guard(p)[1].tag \in {"sym", "ref"} => SumOf({Rest(q) : q \in Group(p)}) <= MaxSum

\* Whatever the order and the number of the matches, the sink writes what they
\* declare and nothing else; where the build checks, it does not get to the end
\* if a sum does not fit.
MatchesAreReduced ==
  Done /\ AreDistinct =>
    /\ written = UNION {Declares(p) : p \in matches}
    /\ kind = "sum" /\ checked => \A p \in matches : Fits(p)
=============================================================================
