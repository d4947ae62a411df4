--------------------------- MODULE MCExpressions ---------------------------
(* Instance of the modules about expressions for TLC, one of them at a      *)
(* time: which says whose steps are taken.                                  *)
EXTENDS ExprAlgebra

-----------------------------------------------------------------------------

(* Inputs for the modules about encoded expressions. *)

A == Sym("a")

\* Well-formed sequences of three arguments with up to three variables.
Argument == {<<A>>, <<New>>, <<Ref(0)>>, <<Ref(1)>>}
MCExprs ==
  {x \in {<<Arity(3)>> \o u \o v \o w : u, v, w \in Argument} : ~HasUnbound(x)}
    \cup {<<Arity(2), Arity(2), A, New, Arity(2), A, New>>, <<Arity(2), Arity(1), A, Arity(1), A>>,
          <<Arity(3), Arity(1), A, Sym("b"), A>>, <<New>>}

MCReplacements == {<<A>>, <<New>>, <<Arity(2), New, New>>, <<Arity(2), New, Ref(0)>>, <<Arity(1), A>>}

P(args) == <<Arity(Len(args))>> \o args
MCRules ==
  {<<P(<<New, Ref(0), New>>), P(<<New, A, Ref(0)>>)>>,
   <<P(<<New, New, Ref(0)>>), P(<<New, New>>)>>,
   <<P(<<New, A, New>>), P(<<New, New, Ref(0), Ref(1)>>)>>,
   <<P(<<New, New>>), P(<<A, New>>)>>,
   <<<<Arity(2), New, Arity(1), New>>, P(<<New, New>>)>>,
   <<<<New>>, P(<<New, Ref(0)>>)>>}

-----------------------------------------------------------------------------

\* (p x y), then templates that share a variable z of their own.
Bodies ==
  LET pattern == <<Arity(2), New, New>>
  IN {[expr |-> pattern \o <<Arity(2), New, Ref(0)>> \o <<Arity(3), Ref(2), New, Ref(1)>>, parts |-> <<1, 4, 7>>],
      [expr |-> pattern \o <<Arity(2), Ref(1), Ref(0)>> \o <<Arity(2), New, Ref(1)>>, parts |-> <<1, 4, 7>>],
      [expr |-> pattern \o <<New>> \o <<Arity(2), Ref(2), Ref(2)>> \o <<Arity(2), New, Ref(0)>>, parts |-> <<1, 4, 5, 8>>]}

\* Two expressions of the space.
Data1 == <<Arity(3), New, A, Arity(2), New, Ref(0)>>
Data2 == <<Arity(2), New, Ref(0)>>

MatchExprs(body) == [n \in 0 .. 2 |-> IF n = 0 THEN body.expr ELSE IF n = 1 THEN Data1 ELSE Data2]

MCVars == {<<0, 0>>, <<0, 1>>, <<1, 0>>, <<1, 1>>, <<2, 0>>}
Places == {<<1, 2>>, <<1, 3>>, <<1, 4>>, <<1, 5>>, <<2, 1>>, <<0, 2>>, <<0, 3>>}

\* A variable is not in its own binding if that is of the same expression
\* (the occurs check of unify).
Unified(x, b) ==
  \A v \in DOMAIN b :
    b[v][1] = v[1] => \A i \in b[v][2] .. EndAt(x[v[1]], b[v][2]) :
                        IsVar(x[v[1]][i]) => LevelAt(x[v[1]], i) # v[2]

Bindings == UNION {[D -> Places] : D \in {E \in SUBSET MCVars : Cardinality(E) <= 3}}

MCMatches ==
  {[exprs |-> MatchExprs(body), bindings |-> b, parts |-> body.parts] :
     body \in Bodies, b \in {c \in Bindings : Unified(MatchExprs(CHOOSE d \in Bodies : TRUE), c)}}

-----------------------------------------------------------------------------

\* Two spellings of one stored symbol, and another symbol.
MCStored == [s \in {"a", "a...", "b"} |-> IF s = "a..." THEN "a" ELSE s]

LoadOf(form, add, pattern, template) == [form |-> form, add |-> add, pattern |-> pattern, template |-> template]
MCLoads ==
  {LoadOf("all", add, <<New>>, <<New>>) : add \in BOOLEAN}
    \cup {LoadOf("each", TRUE, <<New>>, P(<<A, New>>)), LoadOf("each", TRUE, P(<<A, New>>), <<New>>),
          LoadOf("each", FALSE, P(<<A, New>>), P(<<New>>))}
    \cup {LoadOf("csv", TRUE, P(<<New, New>>), P(<<Ref(1), Ref(0)>>)), LoadOf("csv", TRUE, P(<<New, A>>), P(<<A, New>>)),
          LoadOf("csv", TRUE, <<New>>, P(<<A, New>>))}
MCViews == {[pattern |-> P(<<A, New>>), template |-> <<Ref(0)>>], [pattern |-> <<New>>, template |-> P(<<New, Ref(0)>>)]}
MCRows  == {<<"a">>, <<"b">>, <<"">>, <<"a...">>, <<"a", "b">>}
MCSpace == {P(<<A>>), <<Sym("b")>>, P(<<Sym("b")>>)}

\* Parts of texts: expressions that share and repeat variables, one of them for
\* no pattern, one too wide, one with too many variables, comments, and brackets
\* that do not close.
Token(c) ==
  CASE c = "(" -> [tag |-> "open", val |-> 0]
    [] c = ")" -> [tag |-> "close", val |-> 0]
    [] c = ";" -> [tag |-> "comment", val |-> 0]
    [] c \in {"x", "y", "z"} -> [tag |-> "var", val |-> c]
    [] OTHER -> Sym(c)
Parts ==
  {<<"(", "a", "x", ")">>, <<"(", "b", "y", ")">>, <<"y">>, <<"(", "a", "(", "x", "x", ")", ")">>,
   <<"(", "a", "(", "b", ")", ";">>, <<")">>, <<"(", "b", ")">>, <<"(", "b", ";", "b", "b", "x", ")">>, <<"(", "(", "y", "x", ")", "z", ")">>}
MCTexts == {[i \in DOMAIN t |-> Token(t[i])] : t \in {u \o v \o w : u, v, w \in Parts}}

-----------------------------------------------------------------------------

\* Lines: documents with everything in everything, and where one breaks off.
Document(cs) ==
  [i \in DOMAIN cs |-> IF cs[i] \in {"[", "]", "{", "}", ",", ":"} THEN [tag |-> "mark", val |-> cs[i]]
                       ELSE [tag |-> IF cs[i] \in {"1", "true"} THEN "lit" ELSE "str", val |-> cs[i]]]
Documents ==
  {Document(d) : d \in
    {<<"1">>,
     <<"{", "k", ":", "1", ",", "", ":", "[", "k", ",", "[", "]", "]", "}">>,
     <<"[", "[", "true", ",", "1", "]", ",", "{", "k", ":", "{", "}", ",", "j", ":", "true", "}", "]">>,
     <<"[", "1", ",", "{", "k", ":", "true", "k">>, <<"{", "k", ":", "1", ",", "]">>, <<"[", "[", "[", "[">>,
     <<"{", "k", ":", "[", "1", ",", "]">>, <<"{", "k", ":", "1", ",">>}}
MCLines == {<<d>> : d \in Documents} \cup {<<d, f>> : d, f \in Documents}

-----------------------------------------------------------------------------

\* Encoded expressions, one with a symbol whose bytes look like tags, and more
\* bytes behind them.
Encoded == {<<192>>, <<128>>, <<193, 5>>, <<194, 192, 2>>, <<0>>}
Flat == Encoded \cup {<<1>> \o x : x \in Encoded} \cup {<<2>> \o x \o y : x, y \in Encoded}
Deep == {<<193, 5>>, <<1, 192>>, <<2, 0, 2, 192, 128>>, <<1, 1, 0>>}
Followed(x) == x \o <<2, 193>>
MCWalked ==
  {Followed(x) : x \in Flat \cup {<<2>> \o x \o y : x, y \in Flat} \cup {<<3>> \o x \o y \o <<192>> : x, y \in Deep}}
MCCompared ==
  {Followed(x) : x \in Flat \cup {<<2, 1, 192, 193, 5>>, <<2, 1, 192, 193, 3>>, <<2, 1, 193, 5, 192>>, <<2, 0, 2, 192, 128>>}}
MCRenaming == [x \in {<<5>>, <<192, 2>>} |-> IF x = <<5>> THEN <<128, 5>> ELSE <<3>>]

-----------------------------------------------------------------------------

CONSTANTS
  Symbols, Stored, VarNames, Loads, Views, Rows, Texts, StartSpace, MaxArity, MaxVariables, MaxTokens,
  Strings, Literals, Numbers, Forms, Lines, DEPTH_LIMIT, LineBytes, MaxMarks,
  Digits, U64, MAX_PRECISION, I16, Letters, MaxChars,
  Walked, Compared, Renaming

VARIABLES which,
  load, text, rest, buf, open, inner, variables, space, count, dumped, progress,
  form, given, lines, doc, ch, below, wz, paths, phase,
  source, mantissa, exponent, sign, power, resume, buffer, pending, at,
  mode, bytes, zipper, loop, walked, sink, shown, counts, renamed, target, other, ozipper, hop, stage,
  match, carry, part, frames, stack, cycled, assignments, new_intros, oi, ni, out, outputs, status

ivars == <<match, carry, part, frames, stack, cycled, assignments, new_intros, oi, ni, out, outputs, status>>
lvars == <<load, text, rest, buf, open, inner, variables, space, count, dumped, progress>>
jvars == <<form, given, lines, doc, ch, below, wz, paths, phase>>
xvars == <<source, mantissa, exponent, sign, power, resume, buffer, pending, at>>
wvars == <<mode, bytes, zipper, loop, walked, sink, shown, counts, renamed, target, other, ozipper, hop, stage>>
svars == <<which, vars, ivars, lvars, jvars, xvars, wvars>>

Instances == INSTANCE Instantiation WITH Matches <- MCMatches

Load == INSTANCE Loading WITH status <- progress
Json == INSTANCE JsonLoading WITH Texts <- Lines, MaxTokens <- MaxMarks, text <- doc, stack <- below
Lexeme == INSTANCE JsonLexemes WITH e <- power
Walk == INSTANCE Walks WITH source <- walked, status <- stage

NoAlgebra   == e = <<New>> /\ meaning = Canonical(Named(<<New>>, 0))
NoInstances ==
  /\ match = <<>> /\ carry = <<>> /\ part = <<>> /\ frames = <<>> /\ stack = <<>> /\ cycled = <<>>
  /\ assignments = <<>> /\ new_intros = <<>> /\ oi = <<>> /\ ni = <<>> /\ out = <<>>
  /\ outputs = <<>> /\ status = "off"

NoLoad ==
  /\ load = No /\ text = No /\ rest = No /\ buf = No /\ open = No /\ inner = No
  /\ variables = No /\ space = No /\ count = No /\ dumped = No /\ progress = No
NoJson ==
  /\ form = No /\ given = No /\ lines = No /\ doc = No /\ ch = No /\ below = No
  /\ wz = No /\ paths = No /\ phase = No
NoLexeme ==
  /\ source = No /\ mantissa = No /\ exponent = No /\ sign = No /\ power = No /\ resume = No
  /\ buffer = No /\ pending = No /\ at = No

NoWalk ==
  /\ mode = No /\ bytes = No /\ zipper = No /\ loop = No /\ walked = No /\ sink = No /\ shown = No
  /\ counts = No /\ renamed = No /\ target = No /\ other = No /\ ozipper = No /\ hop = No /\ stage = No

SInit ==
  \/ which = "algebra" /\ Init /\ NoInstances /\ NoLoad /\ NoJson /\ NoLexeme /\ NoWalk
  \/ which = "instances" /\ Instances!Init /\ NoAlgebra /\ NoLoad /\ NoJson /\ NoLexeme /\ NoWalk
  \/ which = "load" /\ Load!Init /\ NoAlgebra /\ NoInstances /\ NoJson /\ NoLexeme /\ NoWalk
  \/ which = "json" /\ Json!Init /\ NoAlgebra /\ NoInstances /\ NoLoad /\ NoLexeme /\ NoWalk
  \/ which = "lexeme" /\ Lexeme!Init /\ NoAlgebra /\ NoInstances /\ NoLoad /\ NoJson /\ NoWalk
  \/ which = "walk" /\ Walk!Init /\ NoAlgebra /\ NoInstances /\ NoLoad /\ NoJson /\ NoLexeme

SNext ==
  \/ which = "algebra" /\ Next /\ UNCHANGED <<which, ivars, lvars, jvars, xvars, wvars>>
  \/ which = "instances" /\ Instances!Next /\ UNCHANGED <<which, vars, lvars, jvars, xvars, wvars>>
  \/ which = "load" /\ Load!Next /\ UNCHANGED <<which, vars, ivars, jvars, xvars, wvars>>
  \/ which = "json" /\ Json!Next /\ UNCHANGED <<which, vars, ivars, lvars, xvars, wvars>>
  \/ which = "lexeme" /\ Lexeme!Next /\ UNCHANGED <<which, vars, ivars, lvars, jvars, wvars>>
  \/ which = "walk" /\ Walk!Next /\ UNCHANGED <<which, vars, ivars, lvars, jvars, xvars>>

\* Instantiation is one thread that never waits.
SSpec == SInit /\ [][SNext]_svars /\ WF_ivars(which = "instances" /\ Instances!Next)

-----------------------------------------------------------------------------

\* The encoding keeps what an expression means under every operation, and all
\* that walk over it find the same items, parts, ends and differences (expr).
EncodingIsSound ==
  /\ EncodingKeepsMeaning
  /\ which = "walk" => Walk!WalkersAgree /\ Walk!TraversalsAreRecursive /\ Walk!ZipperFindsParts /\ Walk!DifferencesAreFound

\* Each sink gets the instance of its template, and exactly the matches whose
\* pattern would be infinite are dropped (transform_multi_multi_*).
TemplatesAreInstantiated ==
  which = "instances" => Instances!TemplatesAreInstantiated /\ Instances!DropsCyclicMatches

\* Instantiation ends, also where bindings are cyclic.
InstantiationEnds == which = "instances" => Instances!Ends

\* A text or a table is loaded as what it says, with every expression and row
\* on its own, and a dump loads back (add_sexpr, load_csv, dump_all_sexpr,
\* dump_sexpr).
LoadsWhatIsWritten ==
  which = "load" => Load!LoadsWhatIsWritten /\ Load!RowsAreKept /\ Load!DumpLoadsBack /\ Load!ViewsAreLoads

\* The leaves of JSON documents are what is written, and nothing else, and
\* strings are what they spell (json_parser.rs, load_json, jsonl_to_paths).
DocumentsAreRead ==
  /\ which = "json" => Json!DocumentsAreRead
  /\ which = "lexeme" => Lexeme!StringIsSpelled

\* Numbers of JSON documents are as close as a mantissa can be, and their
\* exponents do not turn over (json_parser.rs).
NumbersAreClose == which = "lexeme" => Lexeme!NumberIsClose
=============================================================================
