--------------------------- MODULE PureFunctions ---------------------------
(* The grounded functions of kernel/src/pure.rs: every one of them is handed *)
(* the finished expression (f a1 .. an) as a sequence of items and writes    *)
(* one expression into its sink, returns an error, or panics (which aborts   *)
(* the process: the functions are extern "C").                               *)
(*                                                                           *)
(* A symbol is a sequence of bytes, a byte has Bits bits.  The families i8,  *)
(* i16, .. u128 are one family with the size in bytes as a parameter; names  *)
(* of functions and keywords are symbols of one byte outside the alphabet.   *)
EXTENDS Floats

CONSTANTS Bits,            \* bits in a byte (8 in the code)
          MaxSymbol,       \* longest symbol a tag can announce (63)
          OverflowChecks   \* is the build one that panics on overflow?

ASSUME PureAssumption == /\ Bits \in Nat \ {0} /\ MaxSymbol \in Nat \ {0}
                         /\ OverflowChecks \in BOOLEAN

Base == 2^Bits
Byte == 0 .. Base - 1

----------------------------------------------------------------------------
(* Items *)
Arity(n) == [tag |-> "arity", n |-> n]
Symbol(b) == [tag |-> "symbol", bytes |-> b]
NewVar == [tag |-> "newvar"]

IsSymbol(i) == i.tag = "symbol"
IsArity(i) == i.tag = "arity"

(* The position after the expression that starts at position i of d. *)
EndOf(d, i) ==
  LET after[j \in 1 .. Len(d)] ==
        IF ~IsArity(d[j]) THEN j + 1
        ELSE FoldLeft(LAMBDA p, k : after[p], j + 1, [k \in 1 .. d[j].n |-> k])
  IN  after[i]

(* The positions at which the arguments of the call d start. *)
Starts(d) == [k \in 1 .. d[1].n - 1 |->
                FoldLeft(LAMBDA p, j : EndOf(d, p), 3, [j \in 1 .. k - 1 |-> j])]
Span(d, i) == SubSeq(d, i, EndOf(d, i) - 1)
Arguments(d) == [k \in 1 .. Len(Starts(d)) |-> Span(d, Starts(d)[k])]

----------------------------------------------------------------------------
(* Outcomes *)
Ok(items) == [is |-> "ok", items |-> items]
Err == [is |-> "err", items |-> << >>]
Abort == [is |-> "abort", items |-> << >>]

----------------------------------------------------------------------------
(* Numbers: big endian, of a fixed size *)
Value(b) == FoldLeft(LAMBDA a, x : a * Base + x, 0, b)
Size(size) == Base^size
Signed(u, size) == IF 2 * u >= Size(size) THEN u - Size(size) ELSE u
Bytes(n, size) == [i \in 1 .. size |-> (n \div Base^(size - i)) % Base]
Number(n, size) == Ok(<<Symbol(Bytes(n, size))>>)
Representable(n, size) == 2 * n >= -Size(size) /\ 2 * n < Size(size)

\* Faulty Arith: a result that does not fit wraps in every build.
ArithWraps(n, size) == Number(n, size)

(* A result of + - * - and abs: wrapped, or a panic in a checked build. *)
Arith(n, size) == IF OverflowChecks /\ ~Representable(n, size) THEN Abort ELSE Number(n, size)

(* consume::<T>: the next item must be a symbol of exactly size bytes. *)
Typed(e, size) == Len(e) = 1 /\ IsSymbol(e[1]) /\ Len(e[1].bytes) = size
S(e, size) == Signed(Value(e[1].bytes), size)
U(e) == Value(e[1].bytes)

TruncQuot(x, y) == LET q == (IF x < 0 THEN -x ELSE x) \div (IF y < 0 THEN -y ELSE y)
                   IN  IF (x < 0) = (y < 0) THEN q ELSE -q
Least(size) == -(Size(size) \div 2)

(* x.pow(exp as u32): the exponent loses all but its low four bytes, and a  *)
(* negative one becomes an enormous one.                                     *)
Power(x, e, size) ==
  LET exp == e % Size(4)
      fits == x \in {-1, 0, 1} \/ exp < Bits * size
      wrapped == FoldLeft(LAMBDA a, k : (a * x) % Size(size), 1, [k \in 1 .. exp |-> k])
  IN  IF fits /\ x \notin {-1, 0, 1} THEN Arith(x^exp, size)
      ELSE IF ~fits /\ OverflowChecks THEN Abort ELSE Number(wrapped, size)

Bit(n, i) == (n \div 2^i) % 2
FromBits(f, n) == FoldLeft(LAMBDA a, i : a + f[i] * 2^(i - 1), 0, [i \in 1 .. n |-> i])
Bitwise2(g(_, _), x, y, size) ==
  Number(FromBits([i \in 1 .. Bits * size |-> g(Bit(x, i - 1), Bit(y, i - 1))], Bits * size), size)

----------------------------------------------------------------------------
(* The numeric families: op!(num <shape> <name> ...).  An operand of another *)
(* size or an argument too many is an error before anything is computed.     *)
Typechecks(args, sizes) == /\ Len(args) = Len(sizes)
                           /\ \A i \in 1 .. Len(args) : Typed(args[i], sizes[i])

SignedUnary(op, x, size) ==
  CASE op = "neg" -> Arith(-x, size)
    [] op = "abs" -> Arith(IF x < 0 THEN -x ELSE x, size)
    [] op = "signum" -> Number(IF x = 0 THEN 0 ELSE IF x < 0 THEN -1 ELSE 1, size)

SignedBinary(op, x, y, size) ==
  CASE op = "sub" -> Arith(x - y, size)
    [] op = "div" -> IF y = 0 \/ ~Representable(TruncQuot(x, y), size) THEN Err
                     ELSE Number(TruncQuot(x, y), size)
    [] op = "mod" -> IF y = 0 \/ (x = Least(size) /\ y = -1) THEN Abort
                     ELSE Number(x - y * TruncQuot(x, y), size)
    [] op = "pow" -> Power(x, y, size)
    [] op \in Comparisons -> Number(IF Compares(op, x, y) THEN 1 ELSE 0, 1)

(* The n-ary ones fold from a neutral element and stop at the first failure. *)
SignedNary(op, xs, size) ==
  LET unit == CASE op = "sum" -> 0 [] op = "product" -> 1
                [] op = "max" -> Least(size) [] op = "min" -> -Least(size) - 1
      step(a, x) == CASE op = "sum" -> Arith(a + x, size) [] op = "product" -> Arith(a * x, size)
                      [] op = "max" -> Number(IF x > a THEN x ELSE a, size)
                      [] op = "min" -> Number(IF x < a THEN x ELSE a, size)
  IN  FoldLeft(LAMBDA r, e : IF r.is # "ok" THEN r
                             ELSE IF ~Typed(e, size) THEN Err
                             ELSE step(S(r.items, size), S(e, size)),
               Number(unit, size), xs)

Clamp(x, lo, hi, size) ==
  IF lo > hi THEN Abort ELSE Number(IF x < lo THEN lo ELSE IF x > hi THEN hi ELSE x, size)

(* x as T: truncated, or extended with the sign *)
Cast(x, to) == Number(x, to)

UnsignedUnary(op, x, size) ==
  LET n == Bits * size
      leading(b) == CHOOSE k \in 0 .. n : /\ \A i \in n - k .. n - 1 : Bit(x, i) = b
                                         /\ k < n => Bit(x, n - k - 1) # b
      ones == FoldLeft(LAMBDA a, i : a + Bit(x, i), 0, [i \in 1 .. n |-> i - 1])
  IN  CASE op = "not" -> Number(Size(size) - 1 - x, size)
        [] op = "swap_bytes" -> Ok(<<Symbol(Reverse(Bytes(x, size)))>>)
        [] op = "reverse_bits" -> Number(FromBits([i \in 1 .. n |-> Bit(x, n - i)], n), size)
        [] op = "leading_zeros" -> Number(leading(0), 4)
        [] op = "leading_ones" -> Number(leading(1), 4)
        [] op = "count_zeros" -> Number(n - ones, 4)
        [] op = "count_ones" -> Number(ones, 4)

UnsignedBinary(op, x, y, size) ==
  CASE op = "nand" -> Bitwise2(LAMBDA a, b : 1 - a * b, x, y, size)
    [] op = "andn" -> Bitwise2(LAMBDA a, b : a * (1 - b), x, y, size)
    [] op = "nor"  -> Bitwise2(LAMBDA a, b : (1 - a) * (1 - b), x, y, size)
    [] op = "xor"  -> Bitwise2(LAMBDA a, b : (a + b) % 2, x, y, size)
    [] op = "xnor" -> Bitwise2(LAMBDA a, b : (a + b + 1) % 2, x, y, size)

UnsignedNary(op, xs, size) ==
  LET bit(a, b) == CASE op = "and" -> a * b [] op = "or" -> a + b - a * b [] op = "parity" -> (a + b) % 2
  IN  FoldLeft(LAMBDA r, e : IF r.is # "ok" \/ ~Typed(e, size) THEN Err ELSE Bitwise2(bit, U(r.items), U(e), size),
               Number(IF op = "and" THEN Size(size) - 1 ELSE 0, size), xs)

(* checked_shl and checked_shr refuse only an amount of the whole width. *)
Shift(op, x, y, size) ==
  IF y >= Bits * size THEN Err
  ELSE Number(IF op = "shl" THEN x * 2^y ELSE x \div 2^y, size)

(* The table of the 256 three-place truth functions: the code spells out a  *)
(* formula for every row s, and each of them is the bit of s selected by the *)
(* bits of x, y and z.                                                       *)
TernaryTable(x, y, z, s) ==
  FromBits([i \in 1 .. Bits |-> Bit(s, 4 * Bit(x, i - 1) + 2 * Bit(y, i - 1) + Bit(z, i - 1))], Bits)

(* The operation on it checks for three arguments and consumes four: the     *)
(* fourth is whatever lies after the call in the frame's buffer, either not  *)
(* a number of the right size or any number at all.                          *)
TernaryLogic(args) ==
  IF ~Typechecks(args, <<1, 1, 1>>) THEN {Err}
  ELSE {Err} \cup {Number(TernaryTable(U(args[1]), U(args[2]), U(args[3]), s), 1) : s \in 0 .. 255}

----------------------------------------------------------------------------
(* The functions on symbols and expressions *)

(* ExprSink::write announces a symbol's length in six bits, where no length  *)
(* at all is the tag of a variable: an empty symbol or one a byte too long   *)
(* fails an assertion, or without assertions writes a variable and then      *)
(* loose bytes.                                                              *)
Emit(bytes) == IF Len(bytes) \in 1 .. MaxSymbol THEN Ok(<<Symbol(bytes)>>)
               ELSE [is |-> "illegal", items |-> << >>]
BufferSize == MaxSymbol + 1

reverse_symbol(e) == IF IsSymbol(e[1]) THEN Emit(Reverse(e[1].bytes)) ELSE Err
explode_symbol(e) ==
  IF ~IsSymbol(e[1]) THEN Err
  ELSE Ok(<<Arity(Len(e[1].bytes))>> \o [i \in 1 .. Len(e[1].bytes) |-> Symbol(<<e[1].bytes[i]>>)])
collapse_symbol(e) ==
  LET parts == Tail(e)
  IN  IF \/ ~IsArity(e[1]) \/ \E i \in 1 .. Len(parts) : ~IsSymbol(parts[i])
         \/ Len(FlattenSeq([i \in 1 .. Len(parts) |-> parts[i].bytes])) >= BufferSize
      THEN Err ELSE Emit(FlattenSeq([i \in 1 .. Len(parts) |-> parts[i].bytes]))

(* Two digits for each byte; a digit is written as the byte of its value.    *)
Half == 2^(Bits \div 2)
encode_hex(e) ==
  IF ~IsSymbol(e[1]) THEN Err
  ELSE IF 2 * Len(e[1].bytes) > BufferSize THEN Abort
  ELSE Emit(FlattenSeq([i \in 1 .. Len(e[1].bytes) |->
                          <<e[1].bytes[i] \div Half, e[1].bytes[i] % Half>>]))
decode_hex(e) ==
  IF \/ ~IsSymbol(e[1]) \/ Len(e[1].bytes) % 2 = 1
     \/ \E i \in 1 .. Len(e[1].bytes) : e[1].bytes[i] \notin 0 .. Half - 1
  THEN Err
  ELSE Emit([i \in 1 .. Len(e[1].bytes) \div 2 |->
               e[1].bytes[2 * i - 1] * Half + e[1].bytes[2 * i]])

(* Keywords: symbols of one byte that is no byte of the data. *)
then == <<Base>>
else == <<Base + 1>>
Keyword(e, k) == e = <<Symbol(k)>>

(* The condition is false only when every byte of it is zero. *)
ifnz(args) ==
  LET shaped == /\ Len(args) \in {3, 5} /\ IsSymbol(args[1][1]) /\ Keyword(args[2], then)
      zero == \A i \in 1 .. Len(args[1][1].bytes) : args[1][1].bytes[i] = 0
  IN  IF ~shaped THEN Err
      ELSE IF ~zero THEN Ok(args[3])
      ELSE IF Len(args) = 5 /\ Keyword(args[4], else) THEN Ok(args[5]) ELSE Err

(* Numerals: the greatest byte is the sign and the others are the digits.     *)
Radix == Base - 1
Minus == Base - 1
Digits(n) ==
  LET digits[k \in Nat] == IF k < Radix THEN <<k>> ELSE Append(digits[k \div Radix], k % Radix)
  IN  digits[n]
to_string(x) == Emit(IF x < 0 THEN <<Minus>> \o Digits(-x) ELSE Digits(x))
from_string(e, size) ==
  LET negative == Head(e[1].bytes) = Minus
      digits == IF negative THEN Tail(e[1].bytes) ELSE e[1].bytes
      n == FoldLeft(LAMBDA a, d : a * Radix + d, 0, digits)
      x == IF negative THEN -n ELSE n
  IN  IF \/ ~IsSymbol(e[1]) \/ digits = <<>>
         \/ \E i \in 1 .. Len(digits) : digits[i] = Minus
         \/ ~Representable(x, size)
      THEN Err ELSE Number(x, size)

tuple(args) == Ok(<<Arity(Len(args))>> \o FlattenSeq(args))

----------------------------------------------------------------------------
(* The registry: what a function, named by its operation and the size of its *)
(* family, may answer to a list of evaluated arguments.                      *)
SignedUnaries == {"neg", "abs", "signum"}
SignedBinaries == {"sub", "div", "mod", "pow"} \cup Comparisons
SignedNaries == {"sum", "product", "max", "min"}
UnsignedUnaries == {"not", "swap_bytes", "reverse_bits", "leading_zeros", "leading_ones",
                    "count_zeros", "count_ones"}
UnsignedBinaries == {"nand", "andn", "nor", "xor", "xnor"}
UnsignedNaries == {"and", "or", "parity"}
Numeric == SignedUnaries \cup SignedBinaries \cup SignedNaries \cup UnsignedUnaries
             \cup UnsignedBinaries \cup UnsignedNaries \cup {"zeros", "ones", "one", "from_string", "to_string", "clamp", "shl", "shr", "widen", "narrow"}
Symbolic == {"reverse_symbol", "explode_symbol", "collapse_symbol", "encode_hex", "decode_hex"}

OfSymbol(op, e) ==
  CASE op = "reverse_symbol" -> reverse_symbol(e) [] op = "explode_symbol" -> explode_symbol(e)
    [] op = "collapse_symbol" -> collapse_symbol(e)
    [] op = "encode_hex" -> encode_hex(e) [] op = "decode_hex" -> decode_hex(e)

OfNumbers(op, size, args) ==
  LET n == size
      typed(sizes) == Typechecks(args, sizes)
      x == S(args[1], n)
      y == S(args[2], n)
  IN  CASE op \in SignedUnaries -> IF typed(<<n>>) THEN SignedUnary(op, x, n) ELSE Err
        [] op \in SignedBinaries -> IF typed(<<n, n>>) THEN SignedBinary(op, x, y, n) ELSE Err
        [] op \in SignedNaries -> SignedNary(op, args, n)
        [] op = "clamp" -> IF typed(<<n, n, n>>) THEN Clamp(x, y, S(args[3], n), n) ELSE Err
        [] op = "from_string" -> IF Len(args) = 1 THEN from_string(args[1], n) ELSE Err
        [] op = "to_string" -> IF typed(<<n>>) THEN to_string(x) ELSE Err
        [] op = "widen" -> IF typed(<<n>>) THEN Cast(x, 2 * n) ELSE Err
        [] op = "narrow" -> IF typed(<<2 * n>>) THEN Cast(S(args[1], 2 * n), n) ELSE Err
        [] op \in UnsignedUnaries -> IF typed(<<n>>) THEN UnsignedUnary(op, U(args[1]), n) ELSE Err
        [] op \in UnsignedBinaries ->
             IF typed(<<n, n>>) THEN UnsignedBinary(op, U(args[1]), U(args[2]), n) ELSE Err
        [] op \in UnsignedNaries -> UnsignedNary(op, args, n)
        [] op \in {"zeros", "ones", "one"} ->
             IF typed(<<>>) THEN Number(CASE op = "zeros" -> 0 [] op = "ones" -> Size(n) - 1 [] op = "one" -> 1, n) ELSE Err
        [] op \in {"shl", "shr"} ->
             IF typed(<<n, 4>>) THEN Shift(op, U(args[1]), U(args[2]), n) ELSE Err

(* The families of floats, told from those of integers of the same size.     *)
Float(size) == 10 + size
IsFloat(family) == family > 10
Mantissa(size) == Bits * size - 3

(* A float in any of the families, or the error of a call that has another   *)
(* number of arguments, or one of another size.  The codes of the arguments  *)
(* are c.                                                                    *)
CodesOf(args) == [i \in DOMAIN args |-> IF Len(args[i]) = 1 /\ IsSymbol(args[i][1]) THEN U(args[i]) ELSE 0]
OfFloats(op, size, args, c) ==
  LET m == Mantissa(size)
      typed(sizes) == Typechecks(args, sizes)
      x == c[1]
      y == c[2]
      float(r) == Number(r, size)
      truth(b) == Number(IF b THEN 1 ELSE 0, 1)
  IN  CASE op \in Nularies -> IF typed(<<>>) THEN float(OfNone(op, m)) ELSE Err
        [] op \in Unaries -> IF typed(<<size>>) THEN float(OfOne(op, x, m)) ELSE Err
        [] op \in Binaries -> IF typed(<<size, size>>) THEN float(OfTwo(op, x, y, m)) ELSE Err
        [] op \in Comparisons -> IF typed(<<size, size>>) THEN truth(Holds(op, x, y, m)) ELSE Err
        [] op \in Naries ->
             IF \A i \in DOMAIN args : Typed(args[i], size)
             THEN float(OfMany(op, c, m)) ELSE Err
        [] op = "clamp" -> IF ~typed(<<size, size, size>>) THEN Err
                           ELSE IF ~MayClamp(y, c[3], m) THEN Abort
                           ELSE float(Clamped(x, y, c[3], m))
        [] op = "as_integer" ->
             IF typed(<<size>>) THEN Number(AsInteger(x, Least(1), -Least(1) - 1, m), 1) ELSE Err
        [] op = "from_integer" -> IF typed(<<1>>) THEN float(FromInteger(S(args[1], 1), m)) ELSE Err
        [] op = "wider" -> IF typed(<<size>>) THEN Number(AsFormat(x, m, Mantissa(size + 1)), size + 1) ELSE Err
        [] op = "narrower" -> IF typed(<<size + 1>>) THEN float(AsFormat(x, Mantissa(size + 1), m)) ELSE Err

(* The functions of the mathematical library: any float, but of a NaN alone  *)
(* only NaN; and its constants, which are positive and finite.  (powi has a   *)
(* four-byte integer for its second argument, which the model takes as one of  *)
(* the float's size.)                                                        *)
Elementary(size, args) ==
  LET m == Mantissa(size)
  IN  IF ~Typechecks(args, <<size>>) /\ ~Typechecks(args, <<size, size>>) THEN {Err}
      ELSE {Number(c, size) : c \in IF Len(args) = 1 /\ IsNaN(U(args[1]), m) THEN {NaN(m)} ELSE Codes(m)}
Constants(size, args) ==
  IF args # <<>> THEN {Err} ELSE {Number(c, size) : c \in 1 .. Infinite(Mantissa(size)) - 1}

Answers(op, size, args) ==
  CASE IsFloat(size) /\ op \notin {"elementary", "constant"} -> {OfFloats(op, size - 10, args, c) : c \in {CodesOf(args)}}
    [] IsFloat(size) /\ op = "elementary" -> Elementary(size - 10, args)
    [] IsFloat(size) /\ op = "constant" -> Constants(size - 10, args)
    [] op = "tuple" -> {tuple(args)}
    [] op = "ifnz" -> {ifnz(args)}
    [] op = "ternarylogic" -> TernaryLogic(args)
    [] op \in Symbolic -> {IF Len(args) = 1 THEN OfSymbol(op, args[1]) ELSE Err}
    [] op \in Numeric -> {OfNumbers(op, size, args)}
=============================================================================
