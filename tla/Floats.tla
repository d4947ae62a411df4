------------------------------ MODULE Floats ------------------------------
(* The floating-point families of kernel/src/pure.rs, f64 and f32, as one    *)
(* family of IEEE formats: a sign, two bits of exponent and m of mantissa,   *)
(* so that both zeros, subnormals, infinities, NaN, rounding and overflow    *)
(* are there.  A number is its code, a finite one a multiple of 1 / 2^m.     *)
EXTENDS Integers, Sequences, SequencesExt

Infinite(m) == 3 * 2^m
NaN(m) == Infinite(m) + 1
SignBit(m) == 4 * 2^m
Codes(m) == 0 .. 2 * SignBit(m) - 1

IsNegative(c, m) == c >= SignBit(m)
Magnitude(c, m) == c % SignBit(m)
IsNaN(c, m) == Magnitude(c, m) > Infinite(m)
IsInfinite(c, m) == Magnitude(c, m) = Infinite(m)
IsFinite(c, m) == Magnitude(c, m) < Infinite(m)
WithSign(negative, g, m) == IF negative THEN g + SignBit(m) ELSE g
Opposite(c, m) == WithSign(~IsNegative(c, m), Magnitude(c, m), m)

(* The value of a magnitude, in units of 1 / 2^m; that of the infinite one   *)
(* is where it would be if it were one more finite number.                   *)
Units(g, m) == LET f == g % 2^m IN IF g < 2^m THEN f ELSE (2^m + f) * 2^(g \div 2^m - 1)
InUnits(c, m) == IF IsNegative(c, m) THEN -Units(Magnitude(c, m), m) ELSE Units(Magnitude(c, m), m)
Distance(x, y) == IF x < y THEN y - x ELSE x - y

(* The magnitude closest to p / q units, of two the one with an even code.   *)
Nearest(p, q, m) ==
  LET between(g) == q * (Units(g, m) + Units(g + 1, m))
  IN  CHOOSE g \in 0 .. Infinite(m) :
        /\ g > 0 => 2 * p > between(g - 1) \/ (2 * p = between(g - 1) /\ g % 2 = 0)
        /\ g < Infinite(m) => 2 * p < between(g) \/ (2 * p = between(g) /\ g % 2 = 0)
Closest(n, d, m) == WithSign(n < 0, Nearest(Distance(n, 0), d, m), m)

(* Arithmetic *)
FloatSum(x, y, m) ==
  LET s == InUnits(x, m) + InUnits(y, m)
  IN  CASE IsNaN(x, m) \/ IsNaN(y, m) -> NaN(m)
        [] IsInfinite(x, m) /\ IsInfinite(y, m) -> IF x = y THEN x ELSE NaN(m)
        [] IsInfinite(x, m) /\ IsFinite(y, m) -> x
        [] IsFinite(x, m) /\ IsInfinite(y, m) -> y
        [] OTHER -> IF s = 0 THEN WithSign(IsNegative(x, m) /\ IsNegative(y, m), 0, m)
                    ELSE Closest(s, 1, m)

Signs(x, y, m) == IsNegative(x, m) # IsNegative(y, m)
FloatProduct(x, y, m) ==
  LET g == Magnitude(x, m)
      h == Magnitude(y, m)
  IN  IF \/ IsNaN(x, m) \/ IsNaN(y, m)
         \/ {g, h} = {0, Infinite(m)} THEN NaN(m)
      ELSE WithSign(Signs(x, y, m), IF Infinite(m) \in {g, h} THEN Infinite(m)
                                    ELSE Nearest(Units(g, m) * Units(h, m), 2^m, m), m)
FloatQuotient(x, y, m) ==
  LET g == Magnitude(x, m)
      h == Magnitude(y, m)
  IN  IF IsNaN(x, m) \/ IsNaN(y, m) \/ (g = h /\ g \in {0, Infinite(m)}) THEN NaN(m)
      ELSE WithSign(Signs(x, y, m), IF h = 0 \/ g = Infinite(m) THEN Infinite(m)
                                    ELSE IF h = Infinite(m) THEN 0
                                    ELSE Nearest(Units(g, m) * 2^m, Units(h, m), m), m)

(* The magnitude closest to the square root of that of g, which is no tie.   *)
SquareRootOf(g, m) ==
  LET w == Units(g, m) * 2^m
  IN  CHOOSE k \in 0 .. Infinite(m) :
        /\ k > 0 => (Units(k - 1, m) + Units(k, m))^2 < 4 * w
        /\ k < Infinite(m) => (Units(k, m) + Units(k + 1, m))^2 >= 4 * w
SquareRoot(x, m) ==
  IF IsNaN(x, m) \/ (IsNegative(x, m) /\ Magnitude(x, m) # 0) THEN NaN(m)
  ELSE IF ~IsFinite(x, m) THEN x ELSE WithSign(IsNegative(x, m), SquareRootOf(Magnitude(x, m), m), m)

(* To a whole number, the sign kept.                                         *)
Whole(op, x, m) ==
  LET u == Units(Magnitude(x, m), m)
      down == u \div 2^m
      up == (u + 2^m - 1) \div 2^m
      whole == CASE op = "trunc" -> down
                 [] op = "floor" -> IF IsNegative(x, m) THEN up ELSE down
                 [] op = "ceil" -> IF IsNegative(x, m) THEN down ELSE up
                 [] op = "round" -> (2 * u + 2^m) \div (2 * 2^m)
  IN  IF ~IsFinite(x, m) THEN x ELSE WithSign(IsNegative(x, m), Nearest(whole * 2^m, 1, m), m)

(* Order: no comparison but "ne" holds of NaN, and the zeros are equal.      *)
Comparable(x, y, m) == ~IsNaN(x, m) /\ ~IsNaN(y, m)
Compares(op, a, b) ==
  CASE op = "lt" -> a < b [] op = "gt" -> a > b [] op = "lte" -> a <= b [] op = "gte" -> a >= b
    [] op = "eq" -> a = b [] op = "ne" -> a # b
Holds(op, x, y, m) ==
  IF Comparable(x, y, m) THEN Compares(op, InUnits(x, m), InUnits(y, m)) ELSE op = "ne"

(* max and min pass over NaN; of the two zeros, where Rust lets either be the *)
(* answer, the earlier is.                                                   *)
Larger(t, x, m)  == IF IsNaN(t, m) \/ Holds("gt", x, t, m) THEN x ELSE t
Smaller(t, x, m) == IF IsNaN(t, m) \/ Holds("lt", x, t, m) THEN x ELSE t

(* x as T: to an integer of a smaller range the nearest end, NaN to nothing. *)
AsInteger(x, low, high, m) ==
  LET t == InUnits(Whole("trunc", x, m), m) \div 2^m
  IN  IF IsNaN(x, m) THEN 0
      ELSE IF IsInfinite(x, m) THEN (IF IsNegative(x, m) THEN low ELSE high)
      ELSE IF t < low THEN low ELSE IF t > high THEN high ELSE t
FromInteger(n, m) == Closest(n * 2^m, 1, m)
AsFormat(x, m, to) ==
  IF IsNaN(x, m) THEN NaN(to)
  ELSE IF IsInfinite(x, m) THEN WithSign(IsNegative(x, m), Infinite(to), to)
  ELSE WithSign(IsNegative(x, m), Nearest(Units(Magnitude(x, m), m) * 2^to, 2^m, to), to)

-----------------------------------------------------------------------------
(* The operations *)
Nularies == {"inf", "neginf"}
Roundings == {"floor", "ceil", "round", "trunc"}
Unaries == {"neg", "abs", "sqrt", "recip", "fract", "signum"} \cup Roundings
Comparisons == {"lt", "gt", "lte", "gte", "eq", "ne"}
Binaries == {"copysign", "sub", "div"}
Naries == {"sum", "product", "max", "min"}

OfNone(op, m) == IF op = "inf" THEN Infinite(m) ELSE WithSign(TRUE, Infinite(m), m)

OfOne(op, x, m) ==
  CASE op = "neg" -> Opposite(x, m) [] op = "abs" -> Magnitude(x, m) [] op = "sqrt" -> SquareRoot(x, m)
    [] op = "recip" -> FloatQuotient(2^m, x, m)
    [] op = "fract" -> FloatSum(x, Opposite(Whole("trunc", x, m), m), m)
    [] op = "signum" -> IF IsNaN(x, m) THEN x ELSE WithSign(IsNegative(x, m), 2^m, m)
    [] op \in Roundings -> Whole(op, x, m)

OfTwo(op, x, y, m) ==
  CASE op = "sub" -> FloatSum(x, Opposite(y, m), m) [] op = "div" -> FloatQuotient(x, y, m)
    [] op = "copysign" -> WithSign(IsNegative(y, m), Magnitude(x, m), m)

Neutral(op, m) ==
  CASE op = "sum" -> 0 [] op = "product" -> 2^m
    [] op = "max" -> WithSign(TRUE, Infinite(m), m) [] op = "min" -> Infinite(m)

OfMany(op, xs, m) ==
  FoldLeft(LAMBDA t, x : CASE op = "sum" -> FloatSum(t, x, m) [] op = "product" -> FloatProduct(t, x, m)
                           [] op = "max" -> Larger(t, x, m) [] op = "min" -> Smaller(t, x, m),
           Neutral(op, m), xs)

(* clamp panics unless its bounds are in order. *)
MayClamp(lo, hi, m) == Holds("lte", lo, hi, m)
Clamped(x, lo, hi, m) ==
  IF Holds("lt", x, lo, m) THEN lo ELSE IF Holds("gt", x, hi, m) THEN hi ELSE x
=============================================================================
