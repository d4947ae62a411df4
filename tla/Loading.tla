------------------------------ MODULE Loading ------------------------------
(***************************************************************************)
(* Text and tables that become expressions of a space, and a space that    *)
(* becomes text (bytestring_parser.rs, space.rs): the parser with its      *)
(* Context, the loops that add or remove what it returns, as it is or by a *)
(* pattern and a template, the rows of load_csv, and dump_all_sexpr.       *)
(* A token is what the parser reads between two tests of a character; an   *)
(* adversarial text is one that is chosen token by token.                  *)
(***************************************************************************)
EXTENDS NamedExprs

CONSTANTS
  Symbols,        \* what a symbol is written as
  Stored,         \* [Symbols -> Symbols]: the first 63 bytes of it (ParDataParser)
  VarNames,       \* what a variable is written as
  Loads,          \* [form, add, pattern, template]: form is "all", "each" or "csv"
  Views,          \* [pattern, template]: what dump_sexpr is asked for
  Rows,           \* lines of a table, "" is an empty field
  Texts,          \* some texts, next to all short ones
  StartSpace,     \* what is in the space before
  MaxArity,       \* 63 in the code
  MaxVariables,   \* 64 in the code
  MaxTokens       \* bound on the texts that are chosen token by token, and on tables

VARIABLES
  load,       \* which function was called with what
  text,       \* the tokens read so far
  rest,       \* the tokens to come, <<Free>> while they are free
  buf,        \* what is written at the target zipper
  open,       \* arity_loc of every sexpr that has not returned
  inner,      \* in sexpr's loop before an item, not in the loop of a list
  variables,  \* Context::variables
  space, count,
  dumped,     \* the space as it was when it was dumped
  status

lvars == <<load, text, rest, buf, open, inner, variables, space, count, dumped, status>>

OpenP   == [tag |-> "open", val |-> 0]
CloseP  == [tag |-> "close", val |-> 0]
Comment == [tag |-> "comment", val |-> 0]
Escape  == [tag |-> "escape", val |-> 0]     \* a string that ends with a backslash
End     == [tag |-> "end", val |-> 0]
Free     == [tag |-> "any", val |-> 0]
Row(r)  == [tag |-> "row", val |-> r]

\* item_byte(Arity(64)) is a byte that byte_item does not know.
Reserved   == [tag |-> "reserved", val |-> 0]
ItemByte(k) == IF k > MaxArity THEN Reserved ELSE Arity(k)

Init ==
  /\ load \in Loads
  /\ text = <<>> /\ rest \in {<<Free>>} \cup (IF load.form = "csv" THEN {} ELSE Texts) /\ buf = <<>> /\ open = <<>> /\ inner = TRUE /\ variables = <<>>
  /\ space = StartSpace /\ count = 0 /\ dumped = {} /\ status = "parsing"

\* peek and next
Reads(token) ==
  /\ status = "parsing" /\ load.form # "csv"
  /\ IF rest = <<Free>> THEN (token = End \/ Len(text) < MaxTokens) /\ UNCHANGED rest
     ELSE IF rest = <<>> THEN token = End /\ UNCHANGED rest
     ELSE token = Head(rest) /\ rest' = Tail(rest)
  /\ text' = IF token = End THEN text ELSE Append(text, token)

\* sexpr returns: its caller is a list, which counts it, or the loop of a load.
\* The arity of the list may be a reserved byte by now, then byte_item panics.
Returns(b, callers) ==
  /\ open' = callers /\ inner' = (callers = <<>>)
  /\ IF callers = <<>> THEN buf' = b /\ status' = "parsed"
     ELSE LET list == Last(callers)
          IN IF b[list] = Reserved THEN buf' = b /\ status' = "panic"
             ELSE buf' = [b EXCEPT ![list] = ItemByte(@.val + 1)] /\ status' = "parsing"

\* An Err of sexpr: add_all_sexpr panics and add_sexpr returns it.
Fails(error) == status' = error /\ UNCHANGED <<buf, open, inner, variables>>

Unloaded == <<load, space, count, dumped>>

\* A comment is read by sexpr, which then waits for an item.
ReadComment ==
  /\ Reads(Comment)
  /\ inner' = TRUE
  /\ UNCHANGED <<Unloaded, buf, open, variables, status>>

\* tokenizer and write_symbol
ReadSymbol(s) ==
  /\ Reads(Sym(s))
  /\ Returns(Append(buf, Sym(Stored[s])), open)
  /\ UNCHANGED <<Unloaded, variables>>

\* get_or_put
ReadVariable(x) ==
  /\ Reads(Var(x))
  /\ IF \E k \in DOMAIN variables : variables[k] = x
     THEN /\ Returns(Append(buf, Ref((CHOOSE k \in DOMAIN variables : variables[k] = x) - 1)), open)
          /\ UNCHANGED variables
     ELSE IF Len(variables) < MaxVariables
     THEN Returns(Append(buf, New), open) /\ variables' = Append(variables, x)
     ELSE Fails("TooManyVars")
  /\ UNCHANGED Unloaded

ReadOpen ==
  /\ Reads(OpenP)
  /\ buf' = Append(buf, Arity(0)) /\ open' = Append(open, Len(buf) + 1) /\ inner' = FALSE
  /\ UNCHANGED <<Unloaded, variables, status>>

\* In sexpr a bracket is none of its own list: UnexpectedRightBracket, also
\* where only a comment is between it and the last child.
ReadClose ==
  /\ Reads(CloseP)
  /\ IF inner THEN Fails("UnexpectedRightBracket") ELSE Returns(buf, Front(open)) /\ UNCHANGED variables
  /\ UNCHANGED Unloaded

\* UnfinishedEscapeSequence
ReadEscape == Reads(Escape) /\ Fails("UnfinishedEscapeSequence") /\ UNCHANGED Unloaded

\* InputFinished where an item is expected, which ends the load whatever is
\* open; UnexpectedEOF in a list.
ReadEnd ==
  /\ Reads(End)
  /\ status' = IF inner THEN "done" ELSE "UnexpectedEOF"
  /\ UNCHANGED <<Unloaded, buf, open, inner, variables>>

\* transformData: extract_data and substitute
Transform(x) ==
  IF load.form = "all" THEN x
  ELSE LET found == ExtractData(load.pattern, x)
       IN IF found = No THEN No ELSE Substitute(load.template, found)

Unreadable(x) == Contains(x, Reserved)

\* The pattern does not match: on to the next, which has the variables of this
\* one before its own.
Skip == UNCHANGED <<space, count, variables>>

\* Faulty Enter: variables last for the whole text.
EnterKeepsVariables(x, add) ==
  /\ space' = IF add THEN space \cup {x} ELSE space \ {x}
  /\ count' = count + 1 /\ UNCHANGED variables
Enter(x, add) ==
  /\ space' = IF add THEN space \cup {x} ELSE space \ {x}
  /\ count' = count + 1 /\ variables' = <<>>

\* The body of the loops of load_all_sexpr_impl and load_sexpr_impl.  A
\* reserved byte makes extract_data panic, unless it finds a difference first.
Store ==
  /\ status = "parsed" /\ buf' = <<>>
  /\ IF Unreadable(buf) /\ load.form # "all"
     THEN status' \in {"parsing", "panic"} /\ Skip
     ELSE /\ status' = "parsing"
          /\ IF Transform(buf) = No THEN Skip ELSE Enter(Transform(buf), load.add)
  /\ UNCHANGED <<load, text, rest, open, inner, dumped>>

-----------------------------------------------------------------------------

\* write_symbol of nothing is the byte of a new variable.
Cell(s) == IF s = "" THEN New ELSE Sym(Stored[s])
RowExpr(n, fields) ==
  <<ItemByte(Len(fields) + 1), Sym(ToString(n))>> \o [k \in DOMAIN fields |-> Cell(fields[k])]

\* load_csv: rows are numbered in the order they are loaded.
LoadRow(fields) ==
  LET x == RowExpr(count, fields)
  IN /\ load.form = "csv" /\ status = "parsing" /\ Len(text) < MaxTokens
     /\ text' = Append(text, Row(fields))
     /\ status' = IF Unreadable(x) THEN "panic" ELSE "parsing"
     /\ IF Unreadable(x) \/ Transform(x) = No THEN Skip ELSE Enter(Transform(x), TRUE)
     /\ UNCHANGED <<load, rest, buf, open, inner, dumped>>

-----------------------------------------------------------------------------

\* SerializerTraversal2: VARNAMES are by level.
Said(x, i) ==
  CASE x[i].tag = "arity" -> OpenP
    [] IsVar(x[i])        -> Var(ToString(LevelAt(x, i)))
    [] OTHER              -> x[i]

\* The popping loop of execute_loop: as many lists are at their end as there are
\* that wait for one item only, from the innermost on.
Popped(stack) ==
  LET k    == CHOOSE n \in 0 .. Len(stack) : /\ \A i \in Len(stack) - n + 1 .. Len(stack) : stack[i] = 1
                                             /\ n < Len(stack) => stack[Len(stack) - n] # 1
      left == SubSeq(stack, 1, Len(stack) - k)
  IN [closed |-> k, stack |-> IF left = <<>> THEN left ELSE [left EXCEPT ![Len(left)] = @ - 1]]

\* The putting loop of execute_loop, over the items in order.
Serialize(x) ==
  LET Closing(k) == [i \in 1 .. k |-> CloseP]
      Put(done, i) ==
        IF x[i].tag = "arity" /\ x[i].val > 0
        THEN [out |-> Append(done.out, Said(x, i)), stack |-> Append(done.stack, x[i].val)]
        ELSE LET after == Popped(done.stack)
             IN [out   |-> done.out \o <<Said(x, i)>> \o Closing(after.closed + (IF x[i].tag = "arity" THEN 1 ELSE 0)),
                 stack |-> after.stack]
  IN FoldLeft(Put, [out |-> <<>>, stack |-> <<>>], [i \in DOMAIN x |-> i]).out

\* query_multi of a single pattern, and the template of a match: its variables
\* go on from those of the pattern.
Both(view) == Named(<<Arity(2)>> \o view.pattern \o view.template, 0)
Shown(view, x) ==
  LET u == UnifyNamed(Both(view), <<Arity(2)>> \o Named(x, 1) \o <<Var(<<2, 0>>)>>)
  IN IF u = No THEN {} ELSE {Encode(Span(u, EndAt(u, 2) + 1))}
ShownOf(view, xs) == UNION {Shown(view, x) : x \in xs}

\* What is written, and add_all_sexpr of that to an empty space.
Reload(lines) ==
  /\ status = "done" /\ dumped = {} /\ lines # {}
  /\ \A x \in space : ~Unreadable(x)
  /\ dumped' = lines /\ space' = {} /\ count' = 0
  /\ rest' = FlattenSeq(SetToSeq({Serialize(x) : x \in lines}))
  /\ load' = [load EXCEPT !.form = "all", !.add = TRUE]
  /\ text' = <<>> /\ buf' = <<>> /\ open' = <<>> /\ inner' = TRUE /\ variables' = <<>> /\ status' = "parsing"

\* dump_all_sexpr and dump_sexpr
Dump == Reload(space)
DumpView(view) == Reload(ShownOf(view, space))

Next ==
  \/ ReadComment \/ ReadOpen \/ ReadClose \/ ReadEscape \/ ReadEnd
  \/ \E s \in Symbols : ReadSymbol(s)
  \/ \E x \in VarNames \cup {ToString(k) : k \in 0 .. MaxVariables - 1} : ReadVariable(x)
  \/ Store
  \/ \E fields \in Rows : LoadRow(fields)
  \/ Dump
  \/ \E view \in Views : DumpView(view)

-----------------------------------------------------------------------------

Broken == {"UnexpectedEOF", "UnexpectedRightBracket", "TooManyVars", "UnfinishedEscapeSequence", "panic"}

\* What a text says, by its brackets: the depth after each token.
Tokens(t) == SelectSeq(t, LAMBDA k : k # Comment)
Depths(t) ==
  LET depth[i \in 0 .. Len(t)] ==
        IF i = 0 THEN 0 ELSE depth[i - 1] + (IF t[i] = OpenP THEN 1 ELSE IF t[i] = CloseP THEN -1 ELSE 0)
  IN depth

\* The children of the list that opens at i: what starts one level below.
Children(t, depth, i) ==
  Cardinality({k \in i + 1 .. Len(t) : /\ t[k] # CloseP /\ depth[k - 1] = depth[i]
                                       /\ \A j \in i .. k - 1 : depth[j] >= depth[i]})

Positions(i, j) == [k \in 1 .. j - i + 1 |-> i + k - 1]

\* The expressions of a text, with names, the last one unless it is complete.
Written(t) ==
  LET depth   == Depths(t)
      Item(i) == CASE t[i] = OpenP     -> Arity(Children(t, depth, i))
                   [] t[i].tag = "sym" -> Sym(Stored[t[i].val])
                   [] OTHER            -> t[i]
      ends    == SelectSeq(Positions(1, Len(t)), LAMBDA j : depth[j] = 0)
      Begin(n) == IF n = 1 THEN 1 ELSE ends[n - 1] + 1
  IN [n \in DOMAIN ends |->
        LET at == SelectSeq(Positions(Begin(n), ends[n]), LAMBDA i : t[i] # CloseP)
        IN [k \in DOMAIN at |-> Item(at[k])]]

\* The limit of the encoding.
Narrow(m) == \A i \in DOMAIN m : m[i].tag = "arity" => m[i].val <= MaxArity

\* The expression that becomes of one, or No: the pattern's variables stand for
\* parts of it that are no variables.
Becomes(m) ==
  IF load.form = "all" THEN Encode(m)
  ELSE LET found == {by \in Solutions(load.pattern, Canonical(m)) : \A n \in DOMAIN by : by[n][1].tag # "var"}
       IN IF found = {} THEN No
          ELSE Encode(Instance(Canonical(Named(load.template, 0)), CHOOSE by \in found : TRUE))

Loaded(ms) ==
  LET all == {Becomes(ms[i]) : i \in DOMAIN ms} \ {No}
  IN IF load.add THEN StartSpace \cup all ELSE StartSpace \ all

\* A comment, then a bracket or the end, where something is open.
Trapped(t) ==
  \E i \in DOMAIN t : /\ t[i] = Comment /\ Depths(t)[i] > 0
                      /\ i = Len(t) \/ t[i + 1] = CloseP

\* What is wrong with a text that is not loaded.
Justified(error, t) ==
  LET depth == Depths(t)
      \* the expression that is not complete, closed here
      begun == {i \in DOMAIN t : depth[i] = 0}
      from  == IF begun = {} THEN 1 ELSE 1 + CHOOSE i \in begun : \A j \in begun : j <= i
  IN CASE error = "done"                     -> depth[Len(t)] = 0 \/ Trapped(t)
       [] error = "UnexpectedEOF"            -> depth[Len(t)] > 0
       [] error = "UnexpectedRightBracket"   -> depth[Len(t)] < 0 \/ Trapped(t)
       [] error = "UnfinishedEscapeSequence" -> Last(t) = Escape
       [] error = "TooManyVars"              -> Cardinality({t[i].val : i \in {j \in from .. Len(t) : t[j].tag = "var"}}) > MaxVariables
       [] error = "panic"                    -> \E i \in DOMAIN t : t[i] = OpenP /\ Children(Tokens(t), Depths(Tokens(t)), Len(Tokens(SubSeq(t, 1, i)))) > MaxArity

\* A text is loaded as what it says: after each expression the space has what
\* became of those before, whatever was skipped, and nothing else (the
\* variables of one that is skipped reach the next, so those without are
\* meant).  A load fails where the text is no sequence of expressions, where an
\* expression is too large for the encoding, or where a comment is the last in
\* a list; it never ends within an expression, but after a comment.
LoadsWhatIsWritten ==
  load.form # "csv" /\ dumped = {} =>
    LET t  == IF status \in {"parsed", "UnexpectedRightBracket", "panic", "TooManyVars", "UnfinishedEscapeSequence"} THEN Front(text) ELSE text
        ms == Written(Tokens(t))
        fits == {i \in DOMAIN ms : Becomes(ms[i]) # No}
    IN (\A i \in DOMAIN ms : Narrow(ms[i]) /\ (i \in fits \/ Names(ms[i]) = {})) =>
         /\ space = Loaded(ms) /\ count = Cardinality(fits)
         /\ status \in Broken \cup {"done"} => Justified(status, text)

\* A space that is dumped and loaded again is the same, unless a variable of a
\* skipped expression went into it.
DumpLoadsBack ==
  /\ dumped # {} /\ status \in Broken \cup {"done"}
  /\ \A x \in dumped : ~HasUnbound(x)
  => status = "done" /\ space = dumped

\* A view of ground expressions is what a load by its pattern and template
\* makes of them, if the template has no variables of its own.
ViewsAreLoads ==
  status = "done" /\ dumped = {} =>
    \A view \in Views, x \in space :
      (IsGround(x) /\ ~Unreadable(x) /\ NewVars(view.template) = 0) =>
        LET found == ExtractData(view.pattern, x)
        IN Shown(view, x) = IF found = No THEN {} ELSE {Substitute(view.template, found)}

\* Every row that the pattern matches is an entry of its own, by its number.
RowsAreKept == load.form = "csv" => Cardinality(space \ StartSpace) = count
=============================================================================
