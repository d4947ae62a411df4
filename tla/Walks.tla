------------------------------- MODULE Walks -------------------------------
(* The ways of walking over an encoded expression in expr/src: ExprZipper,   *)
(* the traversals driven by execute_loop, and the coroutines item_source and *)
(* item_sink.  An expression is bytes with tags in the top two bits, and has *)
(* no end but the one its arities imply; other bytes lie behind it.          *)
EXTENDS Integers, Sequences, SequencesExt, FiniteSetsExt

CONSTANTS
  Walked,      \* buffers: an expression and what lies behind it
  Compared,    \* buffers to be compared with each other
  Renaming     \* substitute_symbols: a function from symbols to symbols

VARIABLES
  mode,      \* "walk", "descend" or "compare"
  bytes,     \* the buffer
  zipper,    \* ExprZipper: [loc, trace], the trace of breadcrumbs
  loop,      \* execute_loop: [j, stack, value], the value when it returned
  source,    \* item_source: [j, stack, done]
  sink,      \* item_sink: [written, stack, size, done]
  shown,     \* a serializer: [out, transient, n]
  counts,    \* the traversals that count
  renamed,   \* what substitute_symbols has written
  target,    \* the offset to be highlighted
  other,     \* "compare": the other buffer
  ozipper,   \* "compare": and its zipper
  hop,       \* "descend": the last call, [base, from, found] (history)
  status     \* "walking", "over", "differ", "lost", "panic"

wvars == <<mode, bytes, zipper, loop, source, sink, shown, counts, renamed, target, other, ozipper, hop, status>>

-----------------------------------------------------------------------------
(* byte_item, item_byte: 01 in the top bits is reserved.                     *)
Item(b, o) ==
  LET byte == b[o + 1]
  IN  CASE byte = 192       -> [tag |-> "new", n |-> 0]
        [] byte > 192       -> [tag |-> "sym", n |-> byte - 192]
        [] byte \in 128 .. 191 -> [tag |-> "ref", n |-> byte - 128]
        [] byte < 64        -> [tag |-> "arity", n |-> byte]
        [] OTHER            -> [tag |-> "reserved", n |-> byte]
ItemByte(i) == CASE i.tag = "new" -> 192 [] i.tag = "sym" -> 192 + i.n
                 [] i.tag = "ref" -> 128 + i.n [] i.tag = "arity" -> i.n

Width(b, o) == IF Item(b, o).tag = "sym" THEN 1 + Item(b, o).n ELSE 1
Slice(b, o) == SubSeq(b, o + 2, o + Width(b, o))
Opens(b, o) == Item(b, o).tag = "arity"

-----------------------------------------------------------------------------
(* ExprZipper *)
Crumb(b, o) == [parent |-> o, arity |-> Item(b, o).n, seen |-> 0]
NewZipper(b) == [loc |-> 0, trace |-> IF Opens(b, 0) THEN <<Crumb(b, 0)>> ELSE <<>>]

(* gnext: on to the next item, out of the expressions that are through; or   *)
(* nowhere, with an empty trace.                                             *)
RECURSIVE GNext(_, _)
GNext(b, z) ==
  IF z.trace = <<>> THEN z
  ELSE IF Last(z.trace).seen = Last(z.trace).arity THEN GNext(b, [z EXCEPT !.trace = Front(@)])
  ELSE LET loc == z.loc + Width(b, z.loc)
           trace == [z.trace EXCEPT ![Len(z.trace)].seen = @ + 1]
       IN  [loc |-> loc, trace |-> IF Opens(b, loc) THEN Append(trace, Crumb(b, loc)) ELSE trace]
Moved(z) == z.trace # <<>>
FinishSpan(b, z) == z.loc + Width(b, z.loc)

(* next_descendant: on until an item whose breadcrumb hangs on base. *)
BaseOf(z, to) == IF to < 0 THEN z.trace[Len(z.trace) + to + 1].parent
                 ELSE IF to > 0 THEN z.trace[to].parent ELSE 0
HangsOn(b, z, base) ==
  LET l == Len(z.trace)
  IN  IF Opens(b, z.loc) THEN l > 1 /\ z.trace[l - 1].parent = base ELSE z.trace[l].parent = base
RECURSIVE NextDescendant(_, _, _, _)
NextDescendant(b, z, base, initial) ==
  LET next == GNext(b, z)
  IN  IF ~Moved(next) THEN [loc |-> next.loc, trace |-> initial, found |-> FALSE]
      ELSE IF HangsOn(b, next, base) THEN [loc |-> next.loc, trace |-> next.trace, found |-> TRUE]
      ELSE NextDescendant(b, next, base, initial)

-----------------------------------------------------------------------------
(* A traversal: what the callbacks of every Traversal are called with, as a  *)
(* term.  (add is also given an offset, which no traversal looks at: that    *)
(* behind the part in execute_loop, that before it in execute.)              *)
NoValue == [is |-> "none", at |-> 0, end |-> 0, n |-> 0, parts |-> <<>>]
LeafTerm(b, o) == [is |-> Item(b, o).tag, at |-> o, end |-> 0, n |-> Item(b, o).n, parts |-> <<>>]
ZeroTerm(b, o) == LeafTerm(b, o)
Add(term, part) == [term EXCEPT !.parts = Append(@, part)]
Finalize(term, o) == [term EXCEPT !.end = o]

(* 'popping: the value goes into the expression on top of the stack, and     *)
(* when that is the last of its parts, the expression is the value.  The     *)
(* serializer closes a bracket for each, and has seen something to put a     *)
(* blank behind.                                                             *)
RECURSIVE Popping(_, _, _, _)
Popping(stack, value, j, closed) ==
  IF stack = <<>> THEN [stack |-> <<>>, value |-> value, closed |-> closed]
  ELSE LET top == Last(stack)
           acc == Add(top.acc, value)
       IN  IF top.iter > 1
           THEN [stack |-> Append(Front(stack), [iter |-> top.iter - 1, acc |-> acc]), value |-> NoValue, closed |-> closed]
           ELSE Popping(Front(stack), Finalize(acc, j), j, Append(closed, top.acc.at))

(* One turn of 'putting.                                                     *)
Putting(b, l) ==
  LET o == l.j
      j == l.j + Width(b, o)
      p == Popping(l.stack, IF Opens(b, o) THEN Finalize(ZeroTerm(b, o), j) ELSE LeafTerm(b, o), j,
                   IF Opens(b, o) THEN <<o>> ELSE <<>>)
  IN  IF Opens(b, o) /\ Item(b, o).n > 0
      THEN [j |-> j, stack |-> Append(l.stack, [iter |-> Item(b, o).n, acc |-> ZeroTerm(b, o)]), value |-> NoValue, closed |-> <<>>]
      ELSE [j |-> j, stack |-> p.stack, value |-> p.value, closed |-> p.closed]

(* execute: the same by recursion. *)
RECURSIVE Execute(_, _)
Execute(b, o) ==
  LET all == FoldLeft(LAMBDA s, k : LET part == Execute(b, s.j) IN [j |-> part.j, value |-> Add(s.value, part.value)],
                      [j |-> o + 1, value |-> ZeroTerm(b, o)], [k \in 1 .. Item(b, o).n |-> k])
  IN  IF Opens(b, o) THEN [j |-> all.j, value |-> Finalize(all.value, all.j)]
      ELSE [j |-> o + Width(b, o), value |-> LeafTerm(b, o)]

-----------------------------------------------------------------------------
(* item_source and item_sink: stacks of how many parts are still to come.    *)
RECURSIVE CountDown(_)
CountDown(stack) ==
  IF stack = <<>> THEN <<>>
  ELSE IF Last(stack) > 1 THEN Append(Front(stack), Last(stack) - 1)
  ELSE CountDown(Front(stack))
After(stack, i) == IF i.tag = "arity" /\ i.n > 0 THEN Append(stack, i.n) ELSE CountDown(stack)

Yielded(s) == IF Item(bytes, s.j).tag = "sym" THEN [tag |-> "sym", slice |-> Slice(bytes, s.j)]
              ELSE [tag |-> Item(bytes, s.j).tag, n |-> Item(bytes, s.j).n]
Resume(s) == LET stack == After(s.stack, Item(bytes, s.j))
             IN  [j |-> s.j + Width(bytes, s.j), stack |-> stack, done |-> stack = <<>>]
Drain(k, i) ==
  LET item == IF i.tag = "sym" THEN <<192 + Len(i.slice)>> \o i.slice ELSE <<ItemByte(i)>>
      stack == After(k.stack, i)
  IN  [written |-> k.written \o item, stack |-> stack, size |-> k.size + Len(item), done |-> stack = <<>>]

-----------------------------------------------------------------------------
(* The serializers: a blank before everything that follows something in the  *)
(* same expression; the variables by number, the new ones counted; and marks *)
(* around the item or expression at the target.                              *)
Word(is, at) == [is |-> is, at |-> at]
IfTarget(o, is) == IF o = target THEN <<Word(is, 0)>> ELSE <<>>
Shown(s, o, after) ==
  LET i == Item(bytes, o)
      blank == IF s.transient THEN <<Word("blank", 0)>> ELSE <<>>
      word == CASE i.tag = "new" -> Word("var", s.n) [] i.tag = "ref" -> Word("var", i.n)
                [] i.tag = "sym" -> Word("sym", o) [] i.tag = "arity" -> Word("open", 0)
      closing == FlattenSeq([k \in DOMAIN after.closed |-> <<Word("close", 0)>> \o IfTarget(after.closed[k], "end")])
  IN  [out |-> s.out \o blank \o IfTarget(o, "begin") \o <<word>>
                 \o (IF i.tag = "arity" THEN <<>> ELSE IfTarget(o, "end")) \o closing,
       transient |-> i.tag # "arity" \/ i.n = 0,
       n |-> IF i.tag = "new" THEN s.n + 1 ELSE s.n]

(* The traversals that count.                                                *)
Counted(c, i) ==
  [size |-> c.size + 1,
   leaves |-> IF i.tag = "arity" THEN c.leaves ELSE c.leaves + 1,
   expressions |-> IF i.tag = "arity" THEN c.expressions + 1 ELSE c.expressions,
   symbols |-> IF i.tag = "sym" THEN c.symbols + 1 ELSE c.symbols,
   newvars |-> IF i.tag = "new" THEN c.newvars + 1 ELSE c.newvars,
   references |-> IF i.tag = "ref" THEN c.references + 1 ELSE c.references,
   max_arity |-> IF i.tag = "arity" /\ i.n > c.max_arity THEN i.n ELSE c.max_arity,
   unbound |-> c.unbound \/ (i.tag = "ref" /\ i.n >= c.newvars),
   forward |-> IF i.tag = "ref" /\ i.n \notin c.known THEN c.forward + 1 ELSE c.forward,
   known |-> CASE i.tag = "new" -> c.known \cup {CHOOSE k \in 0 .. 63 : k \notin c.known /\ \A l \in 0 .. k - 1 : l \in c.known}
               [] i.tag = "ref" -> c.known \cup {i.n}
               [] OTHER -> c.known]
NoCounts == [size |-> 0, leaves |-> 0, expressions |-> 0, symbols |-> 0, newvars |-> 0, references |-> 0,
             max_arity |-> 0, unbound |-> FALSE,
             forward |-> 0, known |-> {}]

-----------------------------------------------------------------------------
Init ==
  /\ mode \in {"walk", "descend", "compare"}
  /\ bytes \in IF mode = "compare" THEN Compared ELSE Walked
  /\ zipper = NewZipper(bytes)
  /\ loop = [j |-> 0, stack |-> <<>>, value |-> NoValue, closed |-> <<>>]
  /\ source = [j |-> 0, stack |-> <<>>, done |-> FALSE]
  /\ sink = [written |-> <<>>, stack |-> <<>>, size |-> 0, done |-> FALSE]
  /\ shown = [out |-> <<>>, transient |-> FALSE, n |-> 0]
  /\ counts = NoCounts /\ renamed = <<>> /\ status = "walking"
  /\ target \in IF mode = "walk" THEN 0 .. Len(bytes) - 1 ELSE {0}
  /\ other \in IF mode = "compare" THEN Compared ELSE {bytes}
  /\ ozipper = NewZipper(other)
  /\ hop = [base |-> 0, from |-> 0, found |-> FALSE]

(* All the ways of walking, one item further.  The zipper is at the item and *)
(* moves on, or finds that there is no more.                                 *)
Walk ==
  /\ mode = "walk" /\ status = "walking"
  /\ loop' = Putting(bytes, loop)
  /\ source' = Resume(source)
  /\ sink' = Drain(sink, Yielded(source))
  /\ shown' = Shown(shown, loop.j, loop')
  /\ counts' = Counted(counts, Item(bytes, loop.j))
  /\ renamed' = LET i == Item(bytes, zipper.loc)
                    symbol == Renaming[Slice(bytes, zipper.loc)]
                IN  renamed \o IF i.tag = "sym" THEN <<192 + Len(symbol)>> \o symbol ELSE <<bytes[zipper.loc + 1]>>
  /\ LET next == GNext(bytes, zipper)
     IN  /\ zipper' = IF Moved(next) THEN next ELSE zipper
         /\ status' = IF Moved(next) THEN "walking" ELSE "over"
  /\ UNCHANGED <<mode, bytes, target, other, ozipper, hop>>

Still == UNCHANGED <<mode, bytes, loop, source, sink, shown, counts, renamed, target, other>>

(* next_descendant, which panics where there is no breadcrumb; and next in   *)
(* between.  After a call that finds nothing the zipper is at the end with   *)
(* the breadcrumbs of where it was.                                          *)
Descend(to) ==
  /\ mode = "descend" /\ status = "walking" /\ zipper.trace # <<>> /\ to <= Len(zipper.trace)
  /\ LET base == BaseOf(zipper, to)
         next == NextDescendant(bytes, zipper, base, zipper.trace)
     IN  /\ zipper' = [loc |-> next.loc, trace |-> next.trace]
         /\ hop' = [base |-> base, from |-> zipper.loc, found |-> next.found]
         /\ status' = IF next.found THEN "walking" ELSE "lost"
  /\ UNCHANGED ozipper /\ Still
ZipperNext ==
  /\ mode = "descend" /\ status = "walking"
  /\ LET next == GNext(bytes, zipper)
     IN  /\ zipper' = next
         /\ status' = IF Moved(next) THEN "walking" ELSE "over"
  /\ hop' = [hop EXCEPT !.found = FALSE]
  /\ UNCHANGED ozipper /\ Still

(* difference *)
SameItem ==
  /\ Item(bytes, zipper.loc) = Item(other, ozipper.loc)
  /\ Item(bytes, zipper.loc).tag = "sym" => Slice(bytes, zipper.loc) = Slice(other, ozipper.loc)
Compare ==
  /\ mode = "compare" /\ status = "walking"
  /\ LET next == GNext(bytes, zipper)
         onext == GNext(other, ozipper)
     IN  IF ~SameItem THEN status' = "differ" /\ UNCHANGED <<zipper, ozipper>>
         ELSE IF ~Moved(next) THEN status' = "over" /\ UNCHANGED <<zipper, ozipper>>
         ELSE IF ~Moved(onext) THEN status' = "panic" /\ UNCHANGED <<zipper, ozipper>>
         ELSE zipper' = next /\ ozipper' = onext /\ UNCHANGED status
  /\ UNCHANGED hop /\ Still

Next == Walk \/ (\E to \in -1 .. 3 : Descend(to)) \/ ZipperNext \/ Compare

Spec == Init /\ [][Next]_wvars

-----------------------------------------------------------------------------
(* Properties *)

Value == Execute(bytes, 0).value
RECURSIVE StartsIn(_)
StartsIn(term) == {term.at} \cup UNION {StartsIn(term.parts[k]) : k \in DOMAIN term.parts}
Before(starts, o) == Cardinality({p \in starts : p < o})
With(starts, tag) == {o \in starts : Item(bytes, o).tag = tag}

(* What is to be shown of a term, by recursion.                              *)
RECURSIVE TextOf(_)
TextOf(term) ==
  LET inner == FlattenSeq([k \in DOMAIN term.parts |-> (IF k > 1 THEN <<Word("blank", 0)>> ELSE <<>>) \o TextOf(term.parts[k])])
      word == CASE term.is = "new" -> <<Word("var", Before(With(StartsIn(Value), "new"), term.at))>>
                [] term.is = "ref" -> <<Word("var", term.n)>> [] term.is = "sym" -> <<Word("sym", term.at)>>
                [] term.is = "arity" -> <<Word("open", 0)>> \o inner \o <<Word("close", 0)>>
  IN  IfTarget(term.at, "begin") \o word \o IfTarget(term.at, "end")

(* Every way of walking is at the same item, knows as many expressions to be *)
(* open, and ends at the same place, where the expression ends and not with  *)
(* the bytes behind it; what came out on the way is the expression.          *)
WalkersAgree ==
  mode = "walk" =>
    /\ loop.j = source.j /\ loop.j = sink.size
    /\ Len(loop.stack) = Len(source.stack) /\ source.stack = sink.stack
    /\ status = "walking" => zipper.loc = loop.j
    /\ status = "over" => FinishSpan(bytes, zipper) = loop.j /\ loop.j = Execute(bytes, 0).j
    /\ (status = "over") = source.done /\ source.done = sink.done /\ sink.done = (loop.value # NoValue)
    /\ sink.written = SubSeq(bytes, 1, loop.j)

(* The loop hands the callbacks of a traversal what the recursion hands      *)
(* them, so that a serializer writes, and a count counts, the expression;    *)
(* and symbols that are replaced by others leave all else as it was.         *)
TraversalsAreRecursive ==
  (mode = "walk" /\ status = "over") =>
    LET starts == StartsIn(Value)
        copies == StartsIn(Execute(renamed, 0).value)
    IN  /\ loop.value = Value
        /\ shown.out = TextOf(Value)
        /\ counts.size = Cardinality(starts) /\ counts.size = counts.leaves + counts.expressions
        /\ counts.leaves = counts.symbols + counts.newvars + counts.references
        /\ \A o \in With(starts, "arity") : counts.max_arity >= Item(bytes, o).n
        /\ counts.unbound = (\E o \in With(starts, "ref") : Item(bytes, o).n >= Before(With(starts, "new"), o))
        /\ counts.unbound = (counts.forward > 0)
        /\ Execute(renamed, 0).j = Len(renamed) /\ Cardinality(copies) = Cardinality(starts)
        /\ \A o \in starts, c \in copies :
             Before(starts, o) = Before(copies, c) =>
               IF Item(bytes, o).tag = "sym" THEN Slice(renamed, c) = Renaming[Slice(bytes, o)]
               ELSE Item(renamed, c) = Item(bytes, o)

(* Wherever a zipper is, its breadcrumbs say how many of each expression's   *)
(* parts have begun; and one sent down, up or along from anywhere arrives at *)
(* the next part of the expression it was sent to, or there is none.         *)
PartsOf(base) == LET parts == Execute(bytes, base).value.parts IN {parts[k].at : k \in DOMAIN parts}
ZipperFindsParts ==
  mode = "descend" =>
    /\ status = "walking" =>
         \A k \in DOMAIN zipper.trace :
           zipper.trace[k].seen = Cardinality({o \in PartsOf(zipper.trace[k].parent) : o <= zipper.loc})
    /\ (status = "walking" /\ hop.found) =>
         /\ zipper.loc \in PartsOf(hop.base) /\ zipper.loc > hop.from
         /\ \A o \in PartsOf(hop.base) : o > hop.from => o >= zipper.loc
    /\ status = "lost" => \A o \in PartsOf(hop.base) : o <= hop.from

(* The first difference of two expressions is found where both have an item  *)
(* and all before is the same; two that do not differ end together.          *)
DifferencesAreFound ==
  mode = "compare" =>
    /\ status # "panic"
    /\ zipper.loc = ozipper.loc
    /\ SubSeq(bytes, 1, zipper.loc) = SubSeq(other, 1, zipper.loc)
    /\ status = "over" => SubSeq(bytes, 1, FinishSpan(bytes, zipper)) = SubSeq(other, 1, FinishSpan(bytes, zipper))
=============================================================================
