---------------------------- MODULE JsonLoading ----------------------------
(***************************************************************************)
(* JSON documents that become paths of a space or of a file                *)
(* (json_parser.rs: parse and parse_stream; space.rs: SpaceTranscriber and *)
(* ASpaceTranscriber with the functions that load one document or one in   *)
(* every line).  The parser keeps a stack of the indices and keys it is    *)
(* below, and tells its transcriber when one begins and ends; the          *)
(* transcriber keeps the path, byte by byte, and writes it for every leaf. *)
(***************************************************************************)
EXTENDS DeBruijn

CONSTANTS
  Strings,      \* keys and strings, "" among them
  Literals,     \* numbers, true, false and null
  Numbers,      \* those that are numbers
  Forms,        \* subset of {"load_json", "json_to_paths", "load_jsonl", "jsonl_to_paths"}
  DEPTH_LIMIT,  \* 512 in the code
  LineBytes,    \* 8 in the code, the bytes of a line's number
  Texts,        \* some texts, as their lines, next to all short ones
  MaxTokens     \* bound on the texts that are chosen token by token, with their line ends

VARIABLES
  form,    \* the function that was called
  given,   \* the lines of the text, <<>> if it is chosen token by token
  lines,   \* the texts of the lines before this one
  text,    \* the tokens read of this document
  ch,      \* the token that was read last
  stack,   \* StackBlock: what the value being read is below
  wz,      \* the path of the transcriber
  paths,   \* what was written: the line and the path
  phase

jvars == <<form, given, lines, text, ch, stack, wz, paths, phase>>

Mark(c) == [tag |-> "mark", val |-> c]
Str(s)  == [tag |-> "str", val |-> s]
Lit(s)  == [tag |-> "lit", val |-> s]
EndOfJson == [tag |-> "end", val |-> ""]
Marks   == {Mark(c) : c \in {"[", "]", "{", "}", ",", ":"}}
Tokens  == Marks \cup {Str(s) : s \in Strings} \cup {Lit(s) : s \in Literals} \cup {EndOfJson}

IsStr(c) == c.tag = "str"

\* The bytes of a symbol, two of them for any that is not empty: its size,
\* which for none is the byte of a new variable, and what it is written with.
Bytes(s) == IF s = "" THEN <<New>> ELSE <<[tag |-> "size", val |-> s], [tag |-> "bytes", val |-> s]>>
Block(b) == IF b.tag = "index" THEN Bytes(ToString(b.val)) ELSE Bytes(b.val)
Index(i) == [tag |-> "index", val |-> i]
Key(k)   == [tag |-> "key", val |-> k]

AsPaths == form \in {"json_to_paths", "jsonl_to_paths"}
PerLine == form \in {"load_jsonl", "jsonl_to_paths"}
\* load_jsonl writes a line's number without the byte for its size.
Header  == <<Arity(3)>> \o Bytes("JSONL") \o (IF form = "load_jsonl" THEN <<>> ELSE <<[tag |-> "size", val |-> "line"]>>)
Number(n) == [k \in 1 .. LineBytes |-> [tag |-> "number", val |-> <<n, k>>]]
LinePrefix(n) == IF PerLine THEN Header \o Number(n) ELSE <<>>

Truncate(path, n) == SubSeq(path, 1, Len(path) - n)

Init ==
  /\ form \in Forms /\ given \in {<<>>} \cup Texts /\ (PerLine \/ Len(given) < 2)
  /\ lines = <<>> /\ text = <<>> /\ ch = EndOfJson /\ stack = <<>>
  /\ wz = LinePrefix(0)
  /\ paths = {} /\ phase = "start"

-----------------------------------------------------------------------------

Size == Len(text) + Len(FlattenSeq(lines)) + Len(lines)

\* expect_byte_ignore_whitespace: the next token, or UnexpectedEndOfJson.
Reads(c) ==
  /\ IF given = <<>> THEN c = EndOfJson \/ Size < MaxTokens
     ELSE c = IF Len(text) < Len(given[Len(lines) + 1]) THEN given[Len(lines) + 1][Len(text) + 1] ELSE EndOfJson
  /\ text' = IF c = EndOfJson THEN text ELSE Append(text, c)

\* The parser returns.  The callers of parse panic on an error, those of
\* parse_stream take it for the end of the document.
Stop(e) == phase' = e /\ UNCHANGED <<ch, stack, wz, paths>>

Read(c) ==
  /\ Reads(c)
  /\ IF c = EndOfJson THEN Stop("UnexpectedEndOfJson")
     ELSE ch' = c /\ phase' = "parsing" /\ UNCHANGED <<stack, wz, paths>>

\* descend_index and descend_key; the list of both has two items.
Descend(path, b, first) == path \o (IF first THEN <<Arity(2)>> ELSE <<>>) \o Block(b)
\* Faulty Ascend: only the token is taken back where an object or array ends.
AscendToken(path, b, last) == Truncate(path, Len(Block(b)))
\* ascend_index and ascend_key.  Of a key only its length matters here: one with
\* escapes is a slice of a buffer that may have moved.
Ascend(path, b, last) == Truncate(path, Len(Block(b)) + (IF last THEN 1 ELSE 0))

\* Every document begins with a value, and one follows a colon.
Start == phase \in {"start", "value"} /\ \E c \in Tokens : Read(c) /\ UNCHANGED <<form, given, lines>>

\* A leaf is written below the path, which is as before afterwards.
Write(leaf) ==
  /\ paths' = paths \cup {<<Len(lines), wz \o leaf>>}
  /\ phase' = "popping" /\ UNCHANGED <<ch, stack, wz>>

\* What is found where a number's digits were: a path takes them from the buffer
\* of a call that has returned.  How many they were is known.
Dead(s) == <<Head(Bytes(s)), [tag |-> "bytes", val |-> "dead"]>>
Found(c) ==
  {Bytes(c.val)} \cup {Dead(n) : n \in {m \in Numbers : AsPaths /\ c = Lit(m)}}

Scalar ==
  /\ phase = "parsing" /\ ch \notin Marks
  /\ \E leaf \in Found(ch) : Write(leaf)
  /\ UNCHANGED <<form, given, lines, text>>

Full == Len(stack) = DEPTH_LIMIT

\* '[': the next token closes it, or is the first of the value at index 0.
OpenArray(c) ==
  /\ phase = "parsing" /\ ch = Mark("[")
  /\ Reads(c)
  /\ CASE c = EndOfJson -> Stop("UnexpectedEndOfJson")
       [] c = Mark("]") -> Write(Bytes("[]"))
       [] OTHER         -> IF Full THEN Stop("ExceededDepthLimit")
                           ELSE /\ wz' = Descend(wz, Index(0), TRUE) /\ stack' = Append(stack, Index(0))
                                /\ ch' = c /\ UNCHANGED <<paths, phase>>
  /\ UNCHANGED <<form, given, lines>>

\* '{': the next token closes it, or is its first key.
OpenObject(c) ==
  /\ phase = "parsing" /\ ch = Mark("{")
  /\ Reads(c)
  /\ CASE c = EndOfJson -> Stop("UnexpectedEndOfJson")
       [] c = Mark("}") -> Write(Bytes("{}"))
       [] OTHER         -> IF Full THEN Stop("ExceededDepthLimit")
                           ELSE IF ~IsStr(c) THEN Stop("UnexpectedCharacter")
                           ELSE /\ wz' = Descend(wz, Key(c.val), TRUE) /\ stack' = Append(stack, Key(c.val))
                                /\ ch' = c /\ phase' = "colon" /\ UNCHANGED paths
  /\ UNCHANGED <<form, given, lines>>

\* Any other character where a value should be.
NoValue ==
  /\ phase = "parsing" /\ ch \in Marks \ {Mark("["), Mark("{")}
  /\ Stop("UnexpectedCharacter") /\ UNCHANGED <<form, given, lines, text>>

\* expect!(':')
Colon(c) ==
  /\ phase = "colon"
  /\ Reads(c)
  /\ CASE c = EndOfJson -> Stop("UnexpectedEndOfJson")
       [] c = Mark(":") -> phase' = "value" /\ UNCHANGED <<ch, stack, wz, paths>>
       [] OTHER         -> Stop("UnexpectedCharacter")
  /\ UNCHANGED <<form, given, lines>>

\* The popping loop, where the stack is empty: expect_eof.
PopDocument(c) ==
  /\ phase = "popping" /\ stack = <<>>
  /\ Reads(c)
  /\ IF c = EndOfJson THEN Stop("done") ELSE Stop("UnexpectedCharacter")
  /\ UNCHANGED <<form, given, lines>>

Top == Last(stack)

\* After a value in an array or an object: its end.
PopBlock(c) ==
  /\ phase = "popping" /\ stack # <<>>
  /\ Reads(c)
  /\ CASE c = EndOfJson -> Stop("UnexpectedEndOfJson")
       [] c = Mark(IF Top.tag = "index" THEN "]" ELSE "}") ->
            wz' = Ascend(wz, Top, TRUE) /\ stack' = Front(stack) /\ UNCHANGED <<ch, paths, phase>>
       [] c = Mark(",") -> phase' = "comma" /\ UNCHANGED <<ch, stack, wz, paths>>
       [] OTHER         -> Stop("UnexpectedCharacter")
  /\ UNCHANGED <<form, given, lines>>

\* The next token is read before the index changes, the key before the next
\* one is.
NextIndex(c) ==
  /\ phase = "comma" /\ Top.tag = "index"
  /\ Reads(c)
  /\ IF c = EndOfJson THEN Stop("UnexpectedEndOfJson")
     ELSE LET i == Index(Top.val + 1)
          IN /\ wz' = Descend(Ascend(wz, Top, FALSE), i, FALSE) /\ stack' = Append(Front(stack), i)
             /\ ch' = c /\ phase' = "parsing" /\ UNCHANGED paths
  /\ UNCHANGED <<form, given, lines>>
NextKey(c) ==
  /\ phase = "comma" /\ Top.tag = "key"
  /\ Reads(c)
  /\ LET up == Ascend(wz, Top, FALSE)
     IN IF IsStr(c)
        THEN /\ wz' = Descend(up, Key(c.val), FALSE) /\ stack' = Append(Front(stack), Key(c.val))
             /\ phase' = "colon" /\ UNCHANGED <<ch, paths>>
        ELSE /\ wz' = up /\ phase' = (IF c = EndOfJson THEN "UnexpectedEndOfJson" ELSE "UnexpectedCharacter")
             /\ UNCHANGED <<ch, stack, paths>>
  /\ UNCHANGED <<form, given, lines>>

-----------------------------------------------------------------------------

Errors == {"UnexpectedEndOfJson", "UnexpectedCharacter", "ExceededDepthLimit"}

\* The next line; jsonl_to_paths goes on after an error as well, and takes the
\* bytes of a number from the end of whatever path there is.
NextLine ==
  /\ PerLine /\ (phase = "done" \/ (phase \in Errors /\ form = "jsonl_to_paths"))
  /\ IF given = <<>> THEN Size < MaxTokens ELSE Len(lines) + 1 < Len(given)
  /\ lines' = Append(lines, text)
  /\ wz' = Truncate(wz, LineBytes) \o Number(Len(lines) + 1)
  /\ text' = <<>> /\ ch' = EndOfJson /\ stack' = <<>> /\ phase' = "start"
  /\ UNCHANGED <<form, given, paths>>

Next ==
  \/ Start \/ Scalar \/ NoValue \/ NextLine
  \/ \E c \in Tokens :
       OpenArray(c) \/ OpenObject(c) \/ Colon(c) \/ PopDocument(c) \/ PopBlock(c) \/ NextIndex(c) \/ NextKey(c)

-----------------------------------------------------------------------------

\* What a text says, read off its brackets.
Opens  == {Mark("["), Mark("{")}
Closes == {Mark("]"), Mark("}")}
Depth(t, i) == Cardinality({j \in 1 .. i : t[j] \in Opens}) - Cardinality({j \in 1 .. i : t[j] \in Closes})

\* The brackets around token i.
Around(t, i) == {o \in 1 .. i - 1 : t[o] \in Opens /\ \A j \in o .. i - 1 : Depth(t, j) >= Depth(t, o)}
Inner(t, i)  == IF Around(t, i) = {} THEN 0 ELSE CHOOSE o \in Around(t, i) : \A p \in Around(t, i) : p <= o

StartsValue(t, i) == t[i] \in Opens \/ t[i] \notin Marks \cup {EndOfJson}
IsKey(t, i) ==
  /\ IsStr(t[i]) /\ Inner(t, i) # 0 /\ t[Inner(t, i)] = Mark("{") /\ t[i - 1] \in {Mark("{"), Mark(",")}
EndsValue(t, i) == t[i] \in Closes \/ (t[i] \notin Marks /\ ~IsKey(t, i))

\* Token i may follow the tokens before it.
Allowed(t, i) ==
  LET o     == Inner(t, i)
      array == o # 0 /\ t[o] = Mark("[")
      first == o # 0 /\ i = o + 1
  IN CASE i = 1 -> StartsValue(t, i)
       [] i > 1 /\ t[i] = Mark(":") -> IsKey(t, i - 1)
       [] i > 1 /\ t[i] = Mark(",") -> o # 0 /\ EndsValue(t, i - 1)
       [] i > 1 /\ t[i] = Mark("]") -> array /\ (first \/ EndsValue(t, i - 1))
       [] i > 1 /\ t[i] = Mark("}") -> o # 0 /\ ~array /\ (first \/ EndsValue(t, i - 1))
       [] OTHER -> \/ IsKey(t, i)
                   \/ t[i - 1] = Mark(":")
                   \/ array /\ t[i - 1] \in {Mark("["), Mark(",")}

Begun(t)    == \A i \in DOMAIN t : Allowed(t, i)
Complete(t) == t # <<>> /\ Begun(t) /\ Depth(t, Len(t)) = 0 /\ EndsValue(t, Len(t))

\* Where the leaf at token i is: the index or key within all that is around it.
Within(t, o, i) ==
  LET commas == {j \in o + 1 .. i : t[j] = Mark(",") /\ Inner(t, j) = o}
      keys   == {j \in o + 1 .. i : IsKey(t, j) /\ Inner(t, j) = o}
  IN IF t[o] = Mark("[") THEN Index(Cardinality(commas)) ELSE Key(t[CHOOSE j \in keys : \A k \in keys : k <= j].val)
PathTo(t, i) ==
  LET around == SelectSeq([k \in 1 .. i - 1 |-> k], LAMBDA k : k \in Around(t, i))
  IN FlattenSeq([n \in DOMAIN around |-> <<Arity(2)>> \o Block(Within(t, around[n], i))])

IsEmpty(t, i) == <<t[i], t[i + 1]>> \in {<<Mark("["), Mark("]")>>, <<Mark("{"), Mark("}")>>}

\* Leaves are scalars and what is empty.
Leaves(t) ==
  {PathTo(t, i) \o Bytes(t[i].val) : i \in {j \in DOMAIN t : t[j] \notin Marks /\ ~IsKey(t, j)}}
    \cup {PathTo(t, i) \o Bytes(IF t[i] = Mark("[") THEN "[]" ELSE "{}") :
            i \in {j \in 1 .. Len(t) - 1 : IsEmpty(t, j)}}

\* The depth of what has something in it.
Deep(t) == {i \in 1 .. Len(t) - 1 : t[i] \in Opens /\ ~IsEmpty(t, i) /\ Depth(t, i) > DEPTH_LIMIT}

PathsOf(n) == {p[2] : p \in {q \in paths : q[1] = n}}
Below(n, t) == {LinePrefix(n) \o leaf : leaf \in Leaves(t)}

\* p is written for q; among paths the bytes of a number may be any.
Stands(p, q) ==
  \/ p = q
  \/ AsPaths /\ \E n \in Numbers : LET up == Truncate(q, 2) IN q = up \o Bytes(n) /\ p = up \o Dead(n)
Says(ps, qs) ==
  \/ ps = qs
  \/ /\ AsPaths
     /\ \A p \in ps : \E q \in qs : Stands(p, q)
     /\ \A q \in qs : \E p \in ps : Stands(p, q)

\* A document is read to its end exactly if it is one, within the depth limit;
\* then its leaves are what was written, each under its indices and keys, and
\* the path is back where it was.  An error is at the first token that no
\* document can go on with, and what was written are the leaves before it.  A
\* line's leaves are below its own number as long as no line before was broken.
\* Only a number's own bytes may differ, and only in a file of paths.
DocumentsAreRead ==
  (\A n \in DOMAIN lines : Complete(lines[n])) =>
    /\ \A n \in DOMAIN lines : Says(PathsOf(n - 1), Below(n - 1, lines[n]))
    /\ phase = "done" => /\ Complete(text) /\ Deep(text) = {}
                         /\ wz = LinePrefix(Len(lines))
                         /\ Says(PathsOf(Len(lines)), Below(Len(lines), text))
    /\ phase = "UnexpectedEndOfJson" => Begun(text) /\ ~Complete(text)
    /\ phase = "UnexpectedCharacter" => Begun(Front(text)) /\ ~Begun(text)
    /\ phase = "ExceededDepthLimit"  => Deep(text) # {} /\ Begun(Front(text))
    /\ phase \in Errors \ {"UnexpectedEndOfJson"} => Says(PathsOf(Len(lines)), Below(Len(lines), Front(text)))
=============================================================================
