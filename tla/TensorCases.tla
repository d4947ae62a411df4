---------------------------- MODULE TensorCases ----------------------------
(* What the linear algebra is asked in its models: einsum calls, and        *)
(* operations on sparse matrices.                                            *)
EXTENDS Integers, Sequences, FiniteSets, SequencesExt

Storage == INSTANCE Tensors WITH Zero <- <<>>, N <- 2

(* The slots' sizes: different, so that an axis taken for another one shows. *)
SlotSize(s) == CASE s = "a" -> 2 [] s = "b" -> 3 [] s = "c" -> 2 [] s = "d" -> 3
Letter == <<"a", "b", "c">>
ShapeOf(pattern) == [k \in 1 .. Len(pattern) |-> SlotSize(pattern[k])]

(* The tensor of an input: every element is its own name, and of a sparse    *)
(* one a third of the elements (and a whole row of most) is missing.         *)
Name(i, ix) == << << <<i, ix>> >> >>
IsPresent(i, ix) == FoldLeft(LAMBDA s, k : s + k * ix[k], i, [k \in 1 .. Len(ix) |-> k]) % 3 # 0
MadeDense(i, shape) ==
  Storage!FillFrom(Storage!Zeros(shape), [k \in 1 .. Storage!Product(shape) |-> Name(i, Storage!RowMajor(shape)[k])])
MadeCsr(i, shape) ==
  LET rows == Storage!RowMajor(SubSeq(shape, 1, Len(shape) - 1))
      entries(r) == SelectSeq([c \in 1 .. shape[Len(shape)] |-> Append(rows[r], c - 1)], LAMBDA ix : IsPresent(i, ix))
      upto(r) == FlattenSeq([k \in 1 .. r |-> entries(k)])
      all == upto(Len(rows))
  IN  Storage!FromParts(shape, [r \in 1 .. Len(rows) + 1 |-> Len(upto(r - 1))],
                        [k \in 1 .. Len(all) |-> all[k][Len(shape)]], [k \in 1 .. Len(all) |-> Name(i, all[k])])
MadeBlocked(i, shape) ==
  FoldLeft(LAMBDA t, ix : IF IsPresent(i, ix) THEN Storage!Set(t, ix, Name(i, ix)) ELSE t,
           Storage!WithShape(shape), Storage!RowMajor(shape))
Made(kind, i, shape) ==
  CASE kind = "dense" -> MadeDense(i, shape) [] kind = "csr" -> MadeCsr(i, shape) [] kind = "blocked" -> MadeBlocked(i, shape)
Cleared(kind, shape) == IF kind = "dense" THEN Storage!Zeros(shape) ELSE Storage!WithShape(shape)

(* A call with the spec its text says *)
Joined(patterns) ==
  FoldLeft(LAMBDA text, k : text \o <<",">> \o patterns[k], patterns[1], [k \in 1 .. Len(patterns) - 1 |-> k + 1])
Text(ins, os) == Joined(ins) \o <<"->">> \o Joined(os)
Call(ins, os, kinds, out, engine) ==
  [spec |-> [inputs |-> ins, outputs |-> os], text |-> Text(ins, os), engine |-> engine,
   inputs |-> [i \in 1 .. Len(ins) |-> Made(kinds[i], i, ShapeOf(ins[i]))],
   outs |-> [o \in 1 .. Len(os) |-> Cleared(IF Len(os[o]) < 2 THEN "dense" ELSE out, ShapeOf(os[o]))]]

(* Every pattern of n slots, up to the names of the slots *)
Canonical(n) ==
  {p \in [1 .. n -> 1 .. 3] : \A k \in 1 .. n : p[k] = 1 \/ \E j \in 1 .. k - 1 : p[j] >= p[k] - 1}
Spelled(p) == [k \in DOMAIN p |-> Letter[p[k]]]
Split(p, n) == <<SubSeq(p, 1, n), SubSeq(p, n + 1, Len(p))>>
OneInput == UNION {{<<Spelled(p)>> : p \in Canonical(n)} : n \in 1 .. 3}
TwoInputs == UNION {UNION {{Split(Spelled(p), m) : p \in Canonical(n)} : m \in {m \in 1 .. 2 : n - m <= 2 /\ m < n}} : n \in 2 .. 4}
MoreInputs == {<<<<"a", "b">>, <<"b", "c">>, <<"c", "a">>>>, <<<<"a", "b">>, <<"c", "b">>, <<"a", "c">>>>,
               <<<<"a", "b", "c">>, <<"a", "b">>>>, <<<<"a", "b">>, <<"b", "a", "c">>>>, <<<<"c", "a", "b">>, <<"b", "c">>>>}
Used(ins) == ToSet(FlattenSeq(ins))
Outputs(ins) == UNION {[1 .. n -> Used(ins)] : n \in 0 .. 2}
Wide(ins) == {o \in {<<"a", "b", "b">>, <<"b", "a", "b">>, <<"c", "a", "b">>, <<"a", "b", "c">>} : ToSet(o) \subseteq Used(ins)}
Several(ins) == {<<o, Reverse(o)>> : o \in Outputs(ins)} \cup {<<<<>>, o>> : o \in Outputs(ins)}
Kinds(ins, some) ==
  {k \in [1 .. Len(ins) -> some] : \A i \in 1 .. Len(ins) : Len(ins[i]) < 2 => k[i] = "dense"}

VmCalls ==
  UNION {{Call(ins, <<o>>, k, "dense", "vm") : o \in Outputs(ins) \cup Wide(ins), k \in Kinds(ins, {"dense", "csr", "blocked"})}
           : ins \in OneInput \cup TwoInputs}
    \cup UNION {{Call(ins, <<o>>, k, "blocked", "vm") : o \in Outputs(ins), k \in Kinds(ins, {"csr"})} : ins \in OneInput \cup TwoInputs}
    \cup UNION {{Call(ins, os, k, "dense", "vm") : os \in Several(ins), k \in Kinds(ins, {"csr"})} : ins \in OneInput \cup TwoInputs}
    \cup UNION {{Call(ins, <<o>>, k, "dense", "vm") : o \in Outputs(ins), k \in Kinds(ins, {"csr", "dense"})} : ins \in MoreInputs}
JitCalls ==
  UNION {{Call(ins, <<o>>, k, "dense", "jit") : o \in Outputs(ins) \cup Wide(ins), k \in Kinds(ins, {"dense", "csr"})}
           : ins \in OneInput \cup TwoInputs \cup MoreInputs}
    \cup UNION {{Call(ins, os, k, "dense", "jit") : os \in Several(ins), k \in Kinds(ins, {"csr"})} : ins \in OneInput \cup TwoInputs}

(* Texts and shapes that do not fit *)
Matmul == <<<<"a", "b">>, <<"b", "c">>>>
Plain(engine) == Call(Matmul, <<<<"a", "c">>>>, <<"dense", "csr">>, "dense", engine)
Senseless(text, engine) == [Plain(engine) EXCEPT !.text = text, !.spec = [inputs |-> <<>>, outputs |-> <<>>]]
OddCalls ==
  {Senseless(text, e) : e \in {"vm", "jit"},
     text \in {<<"a", "b", ",", "b", "c">>, <<"a", "B", ",", "b", "c", "->", "a">>, <<"a", "b", "->", "a", "b">>,
               <<"a", "b", ",", "->", "a">>, <<"a", "b", ",", "b", "c", "->", "a", "d">>, <<"->">>,
               <<"a", "b", ",", "b", "c", "->", "a", "->", "c">>}}
    \cup {[Plain(e) EXCEPT !.text = <<"a", "b", " ", ",", "b", "c", " ", "->", "a", " ", "c">>] : e \in {"vm", "jit"}}
    \cup {[Plain(e) EXCEPT !.inputs[2] = Made("csr", 2, s)] : e \in {"vm", "jit"}, s \in {<<2, 2>>, <<3, 2, 2>>, <<2, 3>>}}
    \cup {[Plain(e) EXCEPT !.outs = os] : e \in {"vm", "jit"},
            os \in {<<>>, <<Cleared("dense", <<2, 3>>)>>, <<Cleared("dense", <<2>>)>>,
                    <<Cleared("dense", <<2, 2>>), Cleared("dense", <<2, 2>>)>>}}
(* Attention, with and without outer axes; ragged blocks; no block, or one  *)
(* block missing                                                             *)
Without(t, missing) == [t EXCEPT !.blocks = [k \in 1 .. Len(@) |-> IF k \in missing THEN {} ELSE @[k]]]
Attention == {<<<<<<"c", "b", "d">>, <<"c", "a", "d">>>>, <<<<"c", "b", "a">>>>>>, <<<<<<"b", "d">>, <<"a", "d">>>>, <<<<"b", "a">>>>>>}
AttentionCalls ==
  UNION {UNION {{[Call(s[1], s[2], <<"blocked", "blocked">>, "blocked", "attention") EXCEPT
                    !.inputs[1] = Without(@, mq), !.inputs[2] = Without(@, mk)]
                   : mk \in {{}, {1}, {2}, {1, 2}}} : mq \in {{}, {1}, {1, 2}, {4}}} : s \in Attention}
EinsumCalls == AttentionCalls \cup VmCalls \cup JitCalls \cup OddCalls
----------------------------------------------------------------------------
(* Sparse matrices as lists of triplets, neither sorted nor free of repeats. *)
(* Of two nodes: every matrix of signed units, so that products cancel, and  *)
(* of values that saturate; of more, graphs.                                 *)
Cells == (0 .. 1) \X (0 .. 1)
MatrixOf(f) == SelectSeq([k \in 1 .. 4 |-> LET r == (4 - k) \div 2 c == (4 - k) % 2 IN <<r, c, f[<<r, c>>]>>], LAMBDA t : t[3] # 0)
Signed == {MatrixOf(f) : f \in [Cells -> {-1, 0, 1}]}
Saturating == {MatrixOf(f) : f \in [Cells -> {0, 1, 2}]}
Repeated == {<< <<1, 1, 1>>, <<0, 1, 2>>, <<0, 1, -2>> >>, << <<0, 0, 1>>, <<1, 0, 1>>, <<0, 0, 1>> >>,
             << <<0, 0, 1>>, <<0, 1, 1>>, <<0, 0, -1>> >>}
Excess == {<< <<1, 1, 2>>, <<0, 1, 2>>, <<1, 1, 2>> >>}
\* Three products meet in a column, whose sum may pass zero on the way.
Ones == << <<0, 0, 1>>, <<0, 1, 1>>, <<0, 2, 1>>, <<1, 0, 1>>, <<1, 1, 1>>, <<1, 2, 1>> >>
Columns == {<< <<0, 0, 1>>, <<0, 1, 1>>, <<1, 0, s[1]>>, <<1, 1, s[2]>>, <<2, 0, s[3]>>, <<2, 1, s[4]>> >> : s \in [1 .. 4 -> {-1, 1}]}
Graph(n, E) ==
  SelectSeq([k \in 1 .. n * n |-> <<(k - 1) \div n, (k - 1) % n, k>>], LAMBDA t : <<t[1], t[2]>> \in E)
Both(E) == E \cup {<<e[2], e[1]>> : e \in E}
Pairs == {<<0, 1>>, <<0, 2>>, <<0, 3>>, <<1, 2>>, <<1, 3>>, <<2, 3>>}
Loops == {<<0, 0>>, <<2, 2>>}
Ask(n, x, y, op, arith) == [n |-> n, a |-> x, b |-> y, op |-> op, arith |-> arith]
Algebra == {"add", "sub", "mul", "matmul"}
MatrixCalls ==
  {Ask(2, x, y, op, "signed") : op \in Algebra,
     x \in {m \in Signed : Len(m) > 1} \cup Repeated, y \in {m \in Signed : Len(m) = 3 /\ m[1][3] = 1} \cup Repeated}
    \cup {Ask(2, x, y, op, "saturating") : op \in Algebra,
            x \in {m \in Saturating : Len(m) > 2} \cup Excess, y \in {m \in Saturating : Len(m) = 3 /\ m[1][3] = 2}}
    \cup {Ask(2, x, y, "matmul_par", "signed") :
            x \in {m \in Signed : Len(m) > 2}, y \in {m \in Signed : Len(m) = 3 /\ m[1][3] = 1 /\ m[2][3] = -1} \cup Repeated}
    \cup {Ask(2, x, y, "matmul_par", "saturating") :
            x \in {m \in Saturating : Len(m) > 2}, y \in {m \in Saturating : Len(m) = 3 /\ m[1][3] = 2 /\ m[2][3] = 1}}
    \cup {Ask(3, Ones, y, op, "signed") : op \in {"matmul", "matmul_par"}, y \in Columns}
    \cup {Ask(3, Graph(3, E), <<>>, "components", "signed") : E \in SUBSET ((0 .. 2) \X (0 .. 2))}
    \cup {Ask(4, Graph(4, Both(E)), <<>>, op, "signed") : op \in {"components", "rcm"}, E \in SUBSET Pairs}
    \cup {Ask(4, Graph(4, Both(E \cup Loops)), <<>>, "rcm", "signed") : E \in SUBSET Pairs}
=============================================================================
