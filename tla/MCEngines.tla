----------------------------- MODULE MCEngines -----------------------------
(* Instance of the modules that calculate for TLC, one of them at a time:   *)
(* which says whose steps are taken.                                        *)
EXTENDS EvalVM, ParallelProduct

-----------------------------------------------------------------------------

(* Payloads for EvalVM. *)

(* Data: two one-byte numbers of two bits, a two-byte one, a variable. *)
One == Data(<<1>>)
Least1 == Data(<<2>>)
Zero == Data(<<0>>)
Wide == Data(<<1, 2>>)
Variable == <<NewVar>>

(* Every call of a one-byte family on one or two of the four numbers. *)
Number1 == {Data(<<b>>) : b \in Byte}
Number2 == {Data(<<b, c>>) : b \in Byte, c \in Byte}
ArithmeticCalls ==
  UNION {{Call(r[1], 1, <<a, b>>) : a, b \in Number1} : r \in {<<f>> : f \in Numeric}}
    \cup {Call(f, 1, <<a>>) : f \in Numeric, a \in Number1 \cup {Wide, Variable}}
    \cup {Call("clamp", 1, <<a, b, c>>) : a, b, c \in Number1}
    \cup {Call("from_string", size, <<Call("to_string", size, <<a>>)>>) : size \in {1, 2}, a \in Number1 \cup Number2}
    \cup {Call("from_string", 2, <<Data(b)>>) : b \in UNION {[1 .. n -> Byte] : n \in 1 .. 3}}
    \cup {Call(f, 1, <<>>) : f \in {"zeros", "ones", "one", "and", "sum"}}
    \cup {Call("ternarylogic", 1, <<One, Least1, Zero>>)}
    \cup {Call("sub", 2, <<a, b>>) : a, b \in {Data(<<0, 0>>), Data(<<2, 0>>), Data(<<1, 3>>), Data(<<0, 1>>)}}
    \cup {Call(f, 2, <<a>>) : f \in {"neg", "abs", "swap_bytes", "reverse_bits"}, a \in Number2}
    \cup {Call("narrow", 1, <<a>>) : a \in Number2}
    \cup {Call(f, 1, <<a, Call("count_ones", 1, <<b>>)>>) : f \in {"shl", "shr"}, a, b \in Number1}

(* Floats of four bits in calls of one or two, some of six, and calls with   *)
(* an argument of another size, too many or none.                            *)
F(c, size) == Data(Bytes(c, size))
Float4 == {F(c, 2) : c \in Codes(1)}
Some4 == {F(c, 2) : c \in {0, 1, 3, 5, 6, 7, 8, 13, 14}}
Few4  == {F(c, 2) : c \in {0, 3, 7, 8, 14}}
FloatCalls ==
  {Call(f, Float(2), <<a>>) : f \in Unaries \cup Naries \cup {"as_integer", "wider"}, a \in Float4 \cup {One}}
    \cup {Call(f, Float(2), <<a, b>>) : f \in {"sub", "div", "product", "max", "min"}, a, b \in Some4}
    \cup {Call(f, Float(2), <<a, b>>) : f \in {"copysign", "sum"} \cup Comparisons, a, b \in Few4}
    \cup {Call("clamp", Float(2), <<a, b, c>>) : a, b, c \in {F(k, 2) : k \in {0, 3, 7}}}
    \cup {Call(f, Float(2), <<>>) : f \in Nularies \cup Naries}
    \cup {Call(f, Float(2), <<F(c, 3)>>) : f \in {"narrower", "neg"}, c \in Codes(3)}
    \cup {Call(f, Float(2), <<a>>) : f \in {"from_integer", "elementary", "constant"}, a \in Number1 \cup {F(9, 2), F(7, 2)}}
    \cup {Call("elementary", Float(2), <<F(7, 2), F(0, 2)>>), Call("constant", Float(2), <<>>)}
    \cup {Call(f, Float(2), <<a, b, c>>) : f \in {"max", "min"}, a, b, c \in {F(k, 2) : k \in {3, 7, 13}} \cup {Wide}}
    \cup {Call(f, Float(3), <<F(c, 3), F(k, 3)>>) : f \in {"sub", "div", "product"}, c \in {3, 12, 20, 23, 24, 25, 41}, k \in {3, 21, 41}}

(* Calls in calls, quotations at the end, keywords, empty expressions and    *)
(* heads that are no functions: what one scope evaluates one after another.  *)
Quote(e) == Call("quote", 0, <<e>>)
Then == Data(then)
Else == Data(else)
Pair(a, b) == <<Arity(2)>> \o a \o b
Leaves == {One, Wide, Variable}
Inner == Leaves \cup {Call("tuple", 0, <<>>), Call("sum", 1, <<One, Least1>>),
                      Call("neg", 1, <<Least1>>), Call("explode_symbol", 0, <<Wide>>), <<Arity(0)>>, Pair(One, One)}
Final == Inner \cup {Quote(Variable), Quote(Pair(One, Variable))}
NestedCalls ==
  Final \cup {Call("tuple", 0, <<a, b>>) : a \in Inner, b \in Final}
       \cup {Call("tuple", 0, <<Call("tuple", 0, <<a>>), b>>) : a \in Inner, b \in Final}
       \cup {Call("ifnz", 0, <<c, Then, a, Else, b>>) : c \in {One, Zero, Variable}, a \in {One, Wide}, b \in Final}
       \cup {Call("ifnz", 0, <<c, Then, One>>) : c \in {One, Zero, Wide}}
       \cup {Call("collapse_symbol", 0, <<a>>) : a \in Final \cup {Quote(Pair(One, Wide)), Quote(Pair(Wide, Wide)), Quote(<<Arity(0)>>)}}
       \cup {Call("tuple", 0, << <<Arity(0)>>, Data(Name("tuple", 0))>>), <<Arity(1), Symbol(Name("quote", 0))>>}
       \cup {Call(f, 0, <<a>>) : f \in Symbolic, a \in {Wide, One, Data(<<1, 0, 1>>), Call("tuple", 0, <<One>>)}}

(* One evaluation of any of them; and a nested call, or one that fails half  *)
(* way, followed by one that would show what the first left behind.          *)
Evaluations ==
  <<ArithmeticCalls \cup FloatCalls \cup NestedCalls, {Call("tuple", 0, <<Call("tuple", 0, <<One>>), Quote(Variable)>>), Variable}>>

-----------------------------------------------------------------------------

VARIABLES which,
  call, program, outs, runs, answer, place, regs

tvars == <<call, program, outs, runs, answer, place, regs>>
svars == <<which, vars, tvars, pvars>>

Cases == INSTANCE TensorCases

Summation == INSTANCE Einsum WITH Zero <- <<>>, N <- 2, MaxRuns <- 2, Calls <- Cases!EinsumCalls
Sparse    == INSTANCE Csr WITH Zero <- 0, N <- 2, Givens <- Cases!MatrixCalls

No == <<>>
NoEval ==
  /\ code = No /\ position = 1 /\ stack = No /\ status = "off" /\ result = No /\ pool = 0
  /\ allocated = 0 /\ lost = 0 /\ job = 0 /\ deepest = 0
NoTensors ==
  call = No /\ program = No /\ outs = No /\ runs = No /\ answer = No /\ place = No /\ regs = No
NoMatrices ==
  /\ given = No /\ self = No /\ other = No /\ phase = "off" /\ matrix = No /\ counts = No
  /\ row_ptr = No /\ out = No /\ rows = No /\ busy = No

SInit ==
  \/ which = "eval" /\ Init /\ NoTensors /\ NoMatrices
  \/ which = "einsum" /\ Summation!Init /\ NoEval /\ NoMatrices
  \/ which = "csr" /\ Sparse!Init /\ NoEval /\ NoTensors

SNext ==
  \/ which = "eval" /\ Next /\ UNCHANGED <<which, tvars, pvars>>
  \/ which = "einsum" /\ Summation!Next /\ UNCHANGED <<which, vars, pvars>>
  \/ which = "csr" /\ Sparse!Next /\ UNCHANGED <<which, vars, tvars>>

\* The loop of an evaluation is one thread that never waits.
SSpec == SInit /\ [][SNext]_svars /\ WF_vars(which = "eval" /\ Running)

-----------------------------------------------------------------------------

\* The stack machine answers what the expression means, hands every function
\* whole expressions, and accounts for its buffers (experiments/eval).
Evaluates == which = "eval" => TypeOK /\ FramesAreCalls /\ AnswersWhatItMeans

\* A number that comes back is the number meant, or the call is refused
\* (kernel/src/pure.rs).
Calculates == which = "eval" => NumbersAreExact /\ NumeralsAreRead /\ FloatsAreClose

\* Every evaluation ends (experiments/eval).
EvaluationEnds == which = "eval" => Ends

\* A summation holds the products its text says, each once, whichever engine
\* ran it and however its tensors are stored (linalg einsum.rs, jit.rs,
\* blocked.rs), and calls that mean nothing are refused.
EinsumIsExact == which = "einsum" => Summation!SumsAreExact /\ Summation!RefusedRightly

\* Sparse matrices are built, merged, multiplied by one thread or by many, and
\* understood as graphs as they should be (linalg csr.rs).
MatricesAreExact ==
  which = "csr" => Sparse!OperationsAreExact /\ Sparse!ParallelAgrees /\ Sparse!GraphsAreUnderstood
=============================================================================
