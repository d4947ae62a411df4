------------------------------- MODULE EvalVM -------------------------------
(* The evaluation machine of experiments/eval as the pure sink uses it: one  *)
(* scope evaluates one payload after another.  An expression is a sequence   *)
(* of items read from left to right; a stack frame collects in its sink the  *)
(* call whose arguments are being evaluated, and a finished call is handed   *)
(* to its function, which writes one expression into the sink below.         *)
(*                                                                           *)
(* Sinks are buffers of a fixed size, taken from and returned to a pool.     *)
EXTENDS PureFunctions, FiniteSets

CONSTANTS Programs,      \* the payloads each evaluation of one scope may be given
          Jobs,          \* how many payloads one scope evaluates (bound)
          Capacity       \* items that fit in a sink (EXPR_SIZE bytes)

VARIABLES code,      \* the expression being evaluated
          position,  \* the next item to be read from it
          stack,     \* frames [sink, rest, func], the root frame first
          status,    \* "idle", "running", or how the last evaluation ended
          result,    \* the items it returned
          pool,      \* buffers waiting in alloc_pool
          allocated, \* buffers ever allocated
          lost,      \* buffers of frames an error left behind
          job,       \* evaluations begun
          deepest    \* calls that can be open at once in what was evaluated (history)

vars == <<code, position, stack, status, result, pool, allocated, lost, job, deepest>>

----------------------------------------------------------------------------
(* The registry: a function is an operation and the size of its family, and  *)
(* its name is a symbol of one byte that is no byte of the data.             *)
OnExpressions == <<"quote", "tuple", "ifnz", "reverse_symbol", "collapse_symbol", "explode_symbol",
                   "encode_hex", "decode_hex">>
OnUnsigned == <<"zeros", "ones", "and", "or", "parity", "not", "swap_bytes", "leading_zeros", "leading_ones", "count_zeros",
                "count_ones", "reverse_bits", "nand", "andn", "nor", "xor", "xnor", "shl", "shr", "ternarylogic">>
OnSigned == <<"one", "from_string", "to_string", "widen", "narrow", "neg", "abs", "signum", "sub", "div", "mod", "pow", "clamp",
              "sum", "product", "max", "min", "lt", "gt", "lte", "gte", "eq", "ne">>
\* In the families of floats, besides those that are called as on integers.
OnFloats == <<"inf", "neginf", "sqrt", "recip", "fract", "floor", "ceil", "round", "trunc", "copysign",
              "as_integer", "from_integer", "wider", "narrower", "elementary", "constant">>
Operations == OnExpressions \o OnUnsigned \o OnSigned \o OnFloats
Name(op, size) == <<Base + 2 + 100 * size + CHOOSE k \in 1 .. Len(Operations) : Operations[k] = op>>
IsRegistered(b) == Len(b) = 1 /\ b[1] > Base + 2
FunctionOf(b) == <<Operations[(b[1] - Base - 2) % 100], (b[1] - Base - 2) \div 100>>

(* An expression, as the parser lays it out *)
Call(op, size, args) == <<Arity(Len(args) + 1), Symbol(Name(op, size))>> \o FlattenSeq(args)
Data(bytes) == <<Symbol(bytes)>>

----------------------------------------------------------------------------
Top == Len(stack)
Frame(sink, rest, func) == [sink |-> sink, rest |-> rest, func |-> func]
Root == Frame(<<>>, 1, <<"nothing", 0>>)
Current == code[position]
AtEnd == position > Len(code)
HeadIsRegistered == IF IsSymbol(code[position + 1])
                    THEN IsRegistered(code[position + 1].bytes) ELSE FALSE

(* A buffer for a new sink comes from the pool when there is one. *)
TakeBuffer == /\ pool' = IF pool > 0 THEN pool - 1 ELSE 0
              /\ allocated' = IF pool > 0 THEN allocated ELSE allocated + 1

(* An error leaves the frames where they are: the next evaluation drops them *)
(* and their buffers with them, for a sink does not own its memory.          *)
Fail(how) == /\ status' = how
             /\ UNCHANGED <<code, position, stack, result, pool, allocated, lost, job, deepest>>

Init == /\ code = <<>> /\ position = 1 /\ stack = <<>> /\ status = "idle" /\ result = <<>>
        /\ pool = 0 /\ allocated = 0 /\ lost = 0 /\ job = 0 /\ deepest = 0

(* How deep the calls of an expression nest. *)
Depth(e) ==
  LET depth[i \in 1 .. Len(e)] ==
        IF ~IsArity(e[i]) THEN 0
        ELSE 1 + FoldLeft(LAMBDA d, k : IF depth[k] > d THEN depth[k] ELSE d, 0,
                          [k \in 1 .. EndOf(e, i) - i - 1 |-> i + k])
  IN  depth[1]
Deepest(p) == IF Depth(p) > deepest THEN Depth(p) ELSE deepest

MayEvaluate == status \in {"idle", "returned", "error", "nospace"} /\ job < Jobs

(* eval: a new root frame on an emptied stack. *)
Eval(p) ==
  /\ MayEvaluate
  /\ code' = p /\ position' = 1 /\ stack' = <<Root>> /\ status' = "first" /\ result' = <<>>
  /\ lost' = lost + Top /\ job' = job + 1 /\ deepest' = Deepest(p) /\ TakeBuffer

(* The loop takes an item's place out of the frame that was on top before    *)
(* push_eval, and the very first item out of no frame.                       *)
Counted(s) == IF status = "first" THEN s ELSE [s EXCEPT ![Top].rest = @ - 1]
Written(items) == [stack EXCEPT ![Top].sink = @ \o items]
MayPush == status = "first" \/ (status = "running" /\ Top > 1 /\ stack[Top].rest > 0)

(* push_eval on a symbol *)
PushSymbol ==
  /\ MayPush /\ ~AtEnd /\ IsSymbol(Current)
  /\ IF Len(stack[Top].sink) >= Capacity THEN Fail("nospace")
     ELSE /\ stack' = Counted(Written(<<Current>>)) /\ position' = position + 1
          /\ status' = "running"
          /\ UNCHANGED <<code, result, pool, allocated, lost, job, deepest>>

\* Faulty PushError: the error is swallowed and the loop tries again.
PushErrorRetries ==
  /\ MayPush /\ ~AtEnd /\ ~IsSymbol(Current)
  /\ IsArity(Current) => position < Len(code) /\ ~HeadIsRegistered
  /\ Fail("running")

(* push_eval on a variable, on a call without a symbol at its head, or on a  *)
(* call of a function nobody registered                                      *)
PushError ==
  /\ MayPush /\ ~AtEnd /\ ~IsSymbol(Current)
  /\ IsArity(Current) => position < Len(code) /\ ~HeadIsRegistered
  /\ Fail("error")

CallsOf(op) == /\ MayPush /\ position < Len(code) /\ IsArity(Current) /\ HeadIsRegistered
               /\ (FunctionOf(code[position + 1].bytes)[1] = "quote") = (op = "quote")

(* push_eval on a quotation: the expression after the quote is copied into   *)
(* the frame on top, and the position stays before it.                       *)
PushQuote ==
  /\ CallsOf("quote") /\ position + 1 < Len(code)
  /\ LET quoted == Span(code, position + 2)
     IN  IF Len(stack[Top].sink) + Len(quoted) > Capacity THEN Fail("nospace")
         ELSE /\ stack' = Counted(Written(quoted)) /\ position' = position + 2
              /\ status' = "running"
              /\ UNCHANGED <<code, result, pool, allocated, lost, job, deepest>>

(* push_eval on a call: a new frame waits for its arguments.                 *)
PushCall ==
  /\ CallsOf("call") /\ Current.n > 0
  /\ stack' = Append(Counted(stack), Frame(<<Current, code[position + 1]>>, Current.n - 1,
                                          FunctionOf(code[position + 1].bytes)))
  /\ position' = position + 2 /\ status' = "running" /\ TakeBuffer
  /\ UNCHANGED <<code, result, lost, job, deepest>>

(* An empty expression followed by a function's name has one argument less   *)
(* than none: the subtraction overflows.                                     *)
PushEmpty == CallsOf("call") /\ Current.n = 0 /\ Fail("overflow")

(* An empty expression, or a quote of nothing, at the very end of the        *)
(* payload: the next byte read is not part of it.                            *)
PushPastEnd ==
  /\ MayPush
  /\ \/ AtEnd
     \/ position = Len(code) /\ IsArity(Current)
     \/ CallsOf("quote") /\ position + 1 = Len(code)
  /\ Fail("pastend")

\* Faulty Reduce: a function that fails contributes nothing to its caller.
ReduceIgnoresErrors ==
  /\ status = "running" /\ Top > 1 /\ stack[Top].rest = 0
  /\ \E args \in {Arguments(stack[Top].sink)}, f \in {stack[Top].func} : \E a \in Answers(f[1], f[2], args) :
       /\ stack' = [Front(stack) EXCEPT ![Top - 1].sink = @ \o a.items]
       /\ pool' = pool + 1
       /\ UNCHANGED <<code, position, status, result, allocated, lost, job, deepest>>

(* A finished frame: its function writes into the sink below, and the        *)
(* frame's buffer goes back to the pool, or is freed when the function fails. *)
Reduce ==
  /\ status = "running" /\ Top > 1 /\ stack[Top].rest = 0
  /\ \E args \in {Arguments(stack[Top].sink)}, f \in {stack[Top].func} : \E a \in Answers(f[1], f[2], args) :
       CASE a.is = "ok" /\ Len(stack[Top - 1].sink) + Len(a.items) <= Capacity ->
              /\ stack' = [Front(stack) EXCEPT ![Top - 1].sink = @ \o a.items]
              /\ pool' = pool + 1
              /\ UNCHANGED <<code, position, status, result, allocated, lost, job, deepest>>
         [] a.is = "ok" /\ Len(stack[Top - 1].sink) + Len(a.items) > Capacity -> Fail("nospace")
         [] a.is = "err" -> Fail("error")
         [] OTHER -> Fail(a.is)

(* Only the root frame is left: its sink is the result, which the pure sink  *)
(* gives back to the pool when it has used it.                               *)
Return ==
  /\ status = "running" /\ Top = 1
  /\ result' = stack[1].sink /\ stack' = <<>> /\ pool' = pool + 1 /\ status' = "returned"
  /\ UNCHANGED <<code, position, allocated, lost, job, deepest>>

(* The loop of eval, which never waits once it has begun. *)
Running == \/ PushSymbol \/ PushError \/ PushQuote \/ PushCall \/ PushEmpty \/ PushPastEnd
           \/ Reduce \/ Return

Next == \/ MayEvaluate /\ \E p \in Programs[job + 1] : Eval(p)
        \/ Running

Spec == Init /\ [][Next]_vars /\ WF_vars(Running)

----------------------------------------------------------------------------
(* What an expression means, read off the expression itself: the outcomes of *)
(* the expression at position i of e, and where it ends.                     *)
Meanings(e) ==
  LET value[i \in 1 .. Len(e)] ==
        LET args == [k \in 1 .. e[i].n - 1 |->
                       FoldLeft(LAMBDA p, j : EndOf(e, p), i + 2, [j \in 1 .. k - 1 |-> j])]
            f == FunctionOf(e[i + 1].bytes)
            lists == FoldLeft(LAMBDA acc, k : {Append(l, v.items) : l \in acc, v \in value[args[k]]},
                              {<<>>}, [k \in 1 .. Len(args) |-> k])
            failed == {k \in 1 .. Len(args) : \A v \in value[args[k]] : v.is # "ok"}
        IN  CASE IsSymbol(e[i]) -> {Ok(<<e[i]>>)}
              [] ~IsSymbol(e[i]) /\ ~IsArity(e[i]) -> {Err}
              [] IsArity(e[i]) ->
                   IF \/ e[i].n = 0 \/ ~IsSymbol(e[i + 1]) \/ ~IsRegistered(e[i + 1].bytes)
                      \/ f[1] = "quote" /\ i + 1 = Len(e)
                   THEN {Err}
                   ELSE IF f[1] = "quote" THEN {Ok(Span(e, i + 2))}
                   ELSE IF failed # {} THEN value[args[CHOOSE k \in failed : \A j \in failed : k <= j]]
                   ELSE UNION {Answers(f[1], f[2], l) : l \in lists}
  IN  value[1]

----------------------------------------------------------------------------
(* As long as nothing fails, a scope needs no more buffers than the deepest   *)
(* stack, one for every call that can be open at once and one for the root:  *)
(* every finished frame's buffer is taken again.                             *)
TypeOK ==
  /\ position \in 1 .. Len(code) + 1
  /\ \A i \in 1 .. Top : /\ stack[i].rest \in 0 .. 63 /\ Len(stack[i].sink) <= Capacity
                          /\ stack[i].func[1] \in {"nothing"} \cup {Operations[k] : k \in 1 .. Len(Operations)}
  /\ status \in {"idle", "first", "running", "returned", "error", "nospace",
                 "overflow", "pastend", "abort", "illegal"}
  /\ pool + lost + Top = allocated /\ job \in 0 .. Jobs
  /\ lost = 0 => allocated <= deepest + 1

(* How many whole expressions a sequence of items is, 0 if it is torn: read  *)
(* backwards, every arity must find its arguments.                           *)
Wholes(s) ==
  FoldRight(LAMBDA i, n : IF n < 0 THEN n
                          ELSE IF ~IsArity(i) THEN n + 1
                          ELSE IF i.n > n THEN -1 ELSE n - i.n + 1, s, 0)

(* Every frame's sink is a call that lacks exactly the arguments the frame   *)
(* still counts (or its child is working on): however calls and quotations   *)
(* nest, a function is handed one whole expression, never a torn one or one  *)
(* with an argument too few.                                                 *)
FramesAreCalls ==
  status = "running" =>
    \A i \in 2 .. Top :
      LET s == stack[i].sink
      IN  /\ IsArity(s[1])
          /\ Wholes(Tail(s)) = s[1].n - stack[i].rest - IF i < Top THEN 1 ELSE 0

(* What eval returns is what the expression means, and it fails only where   *)
(* the expression has no value (or does not fit): no order of pushing and    *)
(* reducing frames, and nothing an earlier evaluation of the same scope left *)
(* behind, shows in the answer.  The count of arguments underflows, and what *)
(* is behind the payload is read, only where it has no value either.         *)
(* Quotations are covered where the quoted expression ends the payload.      *)
AnswersWhatItMeans ==
  /\ status = "returned" => Ok(result) \in Meanings(code)
  /\ status \in {"error", "overflow", "pastend"} => Err \in Meanings(code)
  /\ status \in {"abort", "illegal"} => \E m \in Meanings(code) : m.is = status

(* A number that comes back is the number meant: where the build checks, a   *)
(* result that does not fit is refused, at every boundary of every size.     *)
Meant(op, size, args) ==
  LET x == S(args[1], size)
      y == S(args[2], size)
  IN  CASE op = "sub" -> x - y [] op = "neg" -> -x [] op = "abs" -> IF x < 0 THEN -x ELSE x
        [] op = "sum" -> FoldLeft(LAMBDA a, e : a + S(e, size), 0, args)
        [] op = "product" -> FoldLeft(LAMBDA a, e : a * S(e, size), 1, args)
        [] op = "div" -> CHOOSE q \in -Size(size) .. Size(size) : \E r \in -Size(size) .. Size(size) :
                           /\ x = q * y + r /\ r * r < y * y /\ r * x >= 0
        [] op = "mod" -> CHOOSE r \in -Size(size) .. Size(size) : \E q \in -Size(size) .. Size(size) :
                           x = q * y + r /\ r * r < y * y /\ r * x >= 0
        [] op = "widen" -> x
Exact == {"sub", "neg", "abs", "sum", "product", "div", "mod", "widen"}
NumbersAreExact ==
  (status = "returned" /\ IsArity(code[1]) /\ FunctionOf(code[2].bytes)[1] \in Exact
     /\ ~IsFloat(FunctionOf(code[2].bytes)[2])) =>
    LET f == FunctionOf(code[2].bytes)
        args == Arguments(code)
        width == IF f[1] = "widen" THEN 2 * f[2] ELSE f[2]
    IN  (\A i \in 1 .. Len(args) : Typed(args[i], f[2])) => S(result, width) = Meant(f[1], f[2], args)

(* What is written as a numeral and read again is the same number.           *)
NumeralsAreRead ==
  (status = "returned" /\ IsArity(code[1]) /\ FunctionOf(code[2].bytes)[1] = "from_string") =>
    LET written == Arguments(code)[1]
    IN  (IsArity(written[1]) /\ FunctionOf(written[2].bytes) = <<"to_string", FunctionOf(code[2].bytes)[2]>>) =>
          result = Arguments(written)[1]

(* A float that comes back is the closest one to the number meant, and NaN   *)
(* comes of NaN except where a function is to pass over it: the largest and  *)
(* the smallest of some are among them and no further in than any, no more   *)
(* of none than infinite, and a conversion to a number of another kind keeps *)
(* what it can.                                                              *)
NoCloser(c, n, d, m) ==
  \A k \in Codes(m) :
    IsFinite(k, m) => Distance(n, d * InUnits(c, m)) <= Distance(n, d * InUnits(k, m))
MeantOfFloats(op, m, xs, r) ==
  LET v(i) == InUnits(xs[i], m)
      numbers == {i \in DOMAIN xs : ~IsNaN(xs[i], m)}
      finite == \A i \in DOMAIN xs : IsFinite(xs[i], m)
      strict == op \in {"sub", "div", "sum", "product", "sqrt", "fract", "trunc", "recip"}
  IN  /\ strict /\ numbers # DOMAIN xs => IsNaN(r, m)
      /\ op = "sub" /\ finite /\ IsFinite(r, m) => NoCloser(r, v(1) - v(2), 1, m)
      /\ op = "div" /\ finite /\ IsFinite(r, m) =>
           NoCloser(r, v(1) * 2^m * (IF v(2) < 0 THEN -1 ELSE 1), Distance(v(2), 0), m)
      /\ op = "product" /\ Len(xs) = 2 /\ finite /\ IsFinite(r, m) => NoCloser(r, v(1) * v(2), 2^m, m)
      /\ op = "sum" /\ Len(xs) = 2 /\ finite /\ IsFinite(r, m) => NoCloser(r, v(1) + v(2), 1, m)
      /\ op \in {"max", "min"} /\ numbers = {} => IsInfinite(r, m) /\ IsNegative(r, m) = (op = "max")
      /\ op \in {"max", "min"} /\ numbers # {} =>
           /\ \E i \in numbers : r = xs[i]
           /\ \A i \in numbers : IF op = "max" THEN InUnits(r, m) >= v(i) ELSE InUnits(r, m) <= v(i)
      /\ op = "clamp" /\ numbers = DOMAIN xs => v(2) <= InUnits(r, m) /\ InUnits(r, m) <= v(3)
FloatsAreClose ==
  (status = "returned" /\ IsArity(code[1]) /\ IsFloat(FunctionOf(code[2].bytes)[2])) =>
    LET f == FunctionOf(code[2].bytes)
        size == f[2] - 10
        m == Mantissa(size)
        args == Arguments(code)
        r == U(result)
    IN  CASE f[1] = "wider" ->
               /\ IsNaN(r, Mantissa(size + 1)) = IsNaN(U(args[1]), m)
               /\ ~IsNaN(r, Mantissa(size + 1)) => AsFormat(r, Mantissa(size + 1), m) = U(args[1])
          [] f[1] = "narrower" /\ IsFinite(r, m) ->
               NoCloser(r, InUnits(U(args[1]), Mantissa(size + 1)), 2^Bits, m)
          [] f[1] = "as_integer" ->
               \/ IsNaN(U(args[1]), m) /\ S(result, 1) = 0
               \/ S(result, 1) \in {Least(1), -Least(1) - 1}
               \/ Distance(InUnits(U(args[1]), m), S(result, 1) * 2^m) < 2^m
          [] f[1] = "from_integer" -> InUnits(r, m) = S(args[1], 1) * 2^m
          [] f[1] \in Comparisons -> \A i \in 1 .. 2 : IsNaN(U(args[i]), m) => r = (IF f[1] = "ne" THEN 1 ELSE 0)
          [] f[1] \in Unaries \cup Binaries \cup Naries \cup {"clamp"} ->
               MeantOfFloats(f[1], m, [i \in DOMAIN args |-> U(args[i])], r)
          [] OTHER -> TRUE

(* Every evaluation ends: with a result, an error, or the end of the process. *)
Ends == (status \in {"first", "running"}) ~> (status \notin {"first", "running"})
=============================================================================
