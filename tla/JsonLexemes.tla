---------------------------- MODULE JsonLexemes ----------------------------
(***************************************************************************)
(* Numbers and strings of a JSON document (json_parser.rs), character by   *)
(* character.  A number becomes a mantissa of 64 bits and an exponent of   *)
(* 16: digits that do not fit are dropped or counted.  A string is taken   *)
(* from the source as it is, up to its first escape.                       *)
(***************************************************************************)
EXTENDS Integers, Sequences, SequencesExt, FiniteSets

CONSTANTS
  Digits,         \* subset of 0 .. 9
  U64,            \* the largest mantissa, 2^64 - 1 in the code
  MAX_PRECISION,  \* below it one more digit always fits: 576460752303423500
  I16,            \* the largest exponent, 2^15 - 1 in the code
  Letters,        \* characters that are allowed in a string as they are
  MaxChars        \* bound on the length of a lexeme

VARIABLES
  source,    \* the characters read so far
  mantissa, exponent,
  sign, e,   \* of expect_exponent
  resume,    \* where that returns to
  buffer,    \* what read_complex_string has of the string
  pending,   \* the first codepoint of a surrogate pair
  at         \* the function and its place

xvars == <<source, mantissa, exponent, sign, e, resume, buffer, pending, at>>

Least(a, b) == IF a < b THEN a ELSE b
Most(a, b)  == IF a > b THEN a ELSE b
Saturated(n) == Most(Least(n, I16), -I16 - 1)

\* Characters.
C(s)     == [tag |-> "char", val |-> s]
Digit(d) == [tag |-> "digit", val |-> ToString(d)]
\* Four hexadecimal digits: a character, or a part of a surrogate pair.
Code(s)  == [tag |-> "code", val |-> s]
Eof      == C("eof")

Init ==
  /\ source = <<>> /\ mantissa = 0 /\ exponent = 0 /\ sign = 1 /\ e = 0 /\ resume = "done"
  /\ buffer = <<>> /\ pending = Eof
  /\ at \in {"number", "string"}

Reads(c) ==
  /\ c = Eof \/ Len(source) < MaxChars
  /\ source' = IF c = Eof THEN source ELSE Append(source, c)

InString == UNCHANGED <<mantissa, exponent, sign, e, resume>>
InNumber == UNCHANGED <<buffer, pending>>

\* An error of the parser, or the character ends the number.
Stop(how) == at' = how /\ UNCHANGED <<mantissa, exponent, sign, e, resume, buffer, pending>>
Broken(c) == Stop(IF c = Eof THEN "UnexpectedEndOfJson" ELSE "UnexpectedCharacter")

-----------------------------------------------------------------------------

\* parse's cases for '0' and '1' to '9'.
FirstDigit(d) ==
  /\ at = "number" /\ Reads(Digit(d))
  /\ mantissa' = d /\ at' = IF d = 0 THEN "zero" ELSE "integer"
  /\ UNCHANGED <<exponent, sign, e, resume>> /\ InNumber

\* expect_number
IntegerDigit(d) ==
  /\ at = "integer" /\ mantissa < MAX_PRECISION /\ Reads(Digit(d))
  /\ mantissa' = mantissa * 10 + d
  /\ UNCHANGED <<at, exponent, sign, e, resume>> /\ InNumber
TooBig ==
  /\ at = "integer" /\ mantissa >= MAX_PRECISION
  /\ at' = "big" /\ UNCHANGED <<source, mantissa, exponent, sign, e, resume>> /\ InNumber

\* read_big_number: a digit that does not fit counts in the exponent.
BigDigit(d) ==
  /\ at = "big" /\ Reads(Digit(d))
  /\ IF mantissa * 10 + d <= U64 THEN mantissa' = mantissa * 10 + d /\ UNCHANGED <<at, exponent>>
     ELSE IF exponent < I16 THEN exponent' = exponent + 1 /\ UNCHANGED <<at, mantissa>>
     ELSE at' = "ExceededDepthLimit" /\ UNCHANGED <<mantissa, exponent>>
  /\ UNCHANGED <<sign, e, resume>> /\ InNumber

\* allow_number_extensions, and the same in read_big_number.
Point ==
  /\ at \in {"zero", "integer", "big"} /\ (at = "integer" => mantissa < MAX_PRECISION) /\ Reads(C("."))
  /\ at' = "point" /\ UNCHANGED <<mantissa, exponent, sign, e, resume>> /\ InNumber
BeginExponent ==
  /\ at \in {"zero", "integer", "big", "fraction"} /\ (at = "integer" => mantissa < MAX_PRECISION) /\ Reads(C("e"))
  /\ resume' = IF at = "big" THEN "big" ELSE "done"
  /\ at' = "sign" /\ sign' = 1 /\ e' = 0 /\ UNCHANGED <<mantissa, exponent>> /\ InNumber

Lowered == IF exponent = -I16 - 1 THEN I16 ELSE exponent - 1
\* Faulty FractionDigit: a digit that is dropped counts in the exponent.
FractionDigitCounted(d) ==
  /\ at \in {"point", "fraction"} /\ Reads(Digit(d))
  /\ mantissa' = IF mantissa * 10 + d <= U64 THEN mantissa * 10 + d ELSE mantissa
  /\ exponent' = Lowered
  /\ at' = "fraction" /\ UNCHANGED <<sign, e, resume>> /\ InNumber
\* expect_fraction: a digit that does not fit is dropped.  The exponent wraps.
FractionDigit(d) ==
  /\ at \in {"point", "fraction"} /\ Reads(Digit(d))
  /\ IF mantissa * 10 + d <= U64
     THEN mantissa' = mantissa * 10 + d /\ exponent' = Lowered
     ELSE UNCHANGED <<mantissa, exponent>>
  /\ at' = "fraction" /\ UNCHANGED <<sign, e, resume>> /\ InNumber

\* expect_exponent
Sign(s) ==
  /\ at = "sign" /\ Reads(C(IF s = 1 THEN "+" ELSE "-"))
  /\ at' = "signed" /\ sign' = s /\ UNCHANGED <<mantissa, exponent, e, resume>> /\ InNumber
ExponentDigit(d) ==
  /\ at \in {"sign", "signed", "exponent"} /\ Reads(Digit(d))
  /\ at' = "exponent" /\ e' = Least(Least(e * 10, I16) + d, I16)
  /\ UNCHANGED <<mantissa, exponent, sign, resume>> /\ InNumber
\* The next character c is no digit.  In a big number it may begin another
\* fraction or exponent.
EndExponent(c) ==
  /\ at = "exponent" /\ c.tag # "digit"
  /\ IF resume = "big" /\ c \in {C("."), C("e")}
     THEN Reads(c) /\ at' = (IF c = C("e") THEN "sign" ELSE "point") /\ sign' = 1 /\ e' = 0
     ELSE UNCHANGED <<source, sign, e>> /\ at' = "done"
  /\ exponent' = Saturated(exponent + e * sign)
  /\ UNCHANGED <<mantissa, resume>> /\ InNumber

NumberChars == {C("."), C("e"), C("+"), C("-"), Eof} \cup {Digit(d) : d \in Digits}

\* Whatever else comes ends the number, or is wrong where a digit must be.
Otherwise(c) ==
  /\ \/ at \in {"zero"} /\ c \notin {C("."), C("e")}
     \/ at \in {"integer", "big", "fraction"} /\ c.tag # "digit" /\ (c # C(".") \/ at = "fraction") /\ c # C("e")
        /\ (at = "integer" => mantissa < MAX_PRECISION)
     \/ at \in {"point", "signed"} /\ c.tag # "digit"
     \/ at = "sign" /\ c.tag # "digit" /\ c \notin {C("+"), C("-")}
  /\ UNCHANGED source
  /\ IF at \in {"point", "sign", "signed"} THEN Broken(c) ELSE Stop("done")

-----------------------------------------------------------------------------

\* A quote ends a string: a slice of the source, or of the buffer.
Quote ==
  /\ at \in {"string", "complex"} /\ Reads(C("quote"))
  /\ buffer' = IF at = "string" THEN source ELSE buffer
  /\ at' = "read" /\ UNCHANGED pending /\ InString

\* expect_string, and read_complex_string between its escapes.
Allowed(c) ==
  /\ at \in {"string", "complex"} /\ Reads(c)
  /\ buffer' = IF at = "string" THEN buffer ELSE Append(buffer, c)
  /\ UNCHANGED <<at, pending>> /\ InString

\* The first escape: read_complex_string begins with a copy.
Backslash ==
  /\ at \in {"string", "complex"} /\ Reads(C("backslash"))
  /\ buffer' = IF at = "string" THEN source ELSE buffer
  /\ at' = "escape" /\ UNCHANGED pending /\ InString

Escapes == {C("quote"), C("backslash"), C("n")}
Unescaped(c) == IF c = C("n") THEN C("newline") ELSE c
Escaped(c) ==
  /\ at = "escape" /\ Reads(c)
  /\ buffer' = Append(buffer, Unescaped(c)) /\ at' = "complex" /\ UNCHANGED pending /\ InString
Unicode ==
  /\ at \in {"escape", "low"} /\ Reads(C("u"))
  /\ at' = IF at = "escape" THEN "codepoint" ELSE "lowpoint"
  /\ UNCHANGED <<buffer, pending>> /\ InString

\* read_codepoint: half a surrogate pair needs another escape behind it.
Codes == {Code("letter"), Code("high"), Code("low")}
Codepoint(c) ==
  /\ at = "codepoint" /\ Reads(c)
  /\ IF c = Code("letter") THEN buffer' = Append(buffer, C("letter")) /\ at' = "complex" /\ UNCHANGED pending
     ELSE pending' = c /\ at' = "pair" /\ UNCHANGED buffer
  /\ InString
SecondBackslash ==
  /\ at = "pair" /\ Reads(C("backslash")) /\ at' = "low" /\ UNCHANGED <<buffer, pending>> /\ InString
SecondCodepoint(c) ==
  /\ at = "lowpoint" /\ Reads(c)
  /\ IF pending = Code("high") /\ c = Code("low")
     THEN buffer' = Append(buffer, C("astral")) /\ at' = "complex"
     ELSE at' = "FailedUtf8Parsing" /\ UNCHANGED buffer
  /\ pending' = Eof /\ InString

StringChars == {C(l) : l \in Letters} \cup Escapes \cup Codes \cup {C("u"), C("control"), Eof}
Unfit(c) ==
  /\ \/ at \in {"string", "complex"} /\ c \in {C("control"), Eof}
     \/ at = "escape" /\ c \notin Escapes \cup {C("u")}
     \/ at = "pair" /\ c # C("backslash")
     \/ at = "low" /\ c # C("u")
     \/ at \in {"codepoint", "lowpoint"} /\ c \notin Codes
  /\ Reads(c) /\ Broken(c)

Next ==
  \/ \E d \in Digits :
       FirstDigit(d) \/ IntegerDigit(d) \/ BigDigit(d) \/ FractionDigit(d) \/ ExponentDigit(d)
  \/ TooBig \/ Point \/ BeginExponent \/ Sign(1) \/ Sign(-1)
  \/ \E c \in NumberChars : Otherwise(c) \/ EndExponent(c)
  \/ Quote \/ Backslash \/ Unicode \/ SecondBackslash
  \/ \E l \in Letters : Allowed(C(l))
  \/ \E c \in Escapes : Escaped(c)
  \/ \E c \in Codes : Codepoint(c) \/ SecondCodepoint(c)
  \/ \E c \in StringChars : Unfit(c)

-----------------------------------------------------------------------------

\* What is written: its digits before and behind the point, and its exponent.
First(s, c) == IF Contains(s, c) THEN CHOOSE i \in DOMAIN s : s[i] = c /\ \A j \in 1 .. i - 1 : s[j] # c ELSE Len(s) + 1
Power(s)    == First(s, C("e"))
Whole(s)    == SubSeq(s, 1, Least(First(s, C(".")), Power(s)) - 1)
Fraction(s) == SubSeq(s, First(s, C(".")) + 1, Power(s) - 1)
Scale(s)    == LET r == SubSeq(s, Power(s) + 1, Len(s))
               IN IF r # <<>> /\ r[1].tag # "digit" THEN Tail(r) ELSE r

AllDigits(s) == \A i \in DOMAIN s : s[i].tag = "digit"
ValueOf(s)   == FoldLeft(LAMBDA n, c : n * 10 + (CHOOSE d \in 0 .. 9 : ToString(d) = c.val), 0, s)
ScaleOf(s)   == IF Contains(SubSeq(s, Power(s), Len(s)), C("-")) THEN -ValueOf(Scale(s)) ELSE ValueOf(Scale(s))

IsNumeral(s) ==
  /\ Whole(s) # <<>> /\ AllDigits(Whole(s)) /\ (Whole(s)[1] = Digit(0) => Len(Whole(s)) = 1)
  /\ AllDigits(Fraction(s)) /\ (Contains(s, C(".")) => Fraction(s) # <<>>)
  /\ AllDigits(Scale(s)) /\ (Contains(s, C("e")) => Scale(s) # <<>>)

\* A numeral is read as the number it stands for, if its digits fit.  Else n of
\* them are dropped, between others as well, and it is less than ten units of
\* the mantissa's last digit away.  An exponent that is out of range, or written
\* with one that is, stays at that end of the range, as far as the digits around
\* the point can bring it.  Only so many digits behind the point that the
\* exponent wraps are excluded, and only a number beyond all of these is refused.
NumberIsClose ==
  IsNumeral(source) /\ Len(Fraction(source)) <= I16 + 1 =>
    LET all    == ValueOf(Whole(source) \o Fraction(source))
        scale  == ScaleOf(source) - Len(Fraction(source))
        high(n) == scale + n > I16 \/ ScaleOf(source) > I16
        low(n)  == scale + n < -I16 - 1 \/ ScaleOf(source) < -I16
    IN /\ at = "done" => \E n \in 0 .. Len(source) :
            /\ IF all <= U64 THEN n = 0 /\ mantissa = all ELSE all - mantissa * 10 ^ n \in 0 .. 10 ^ (n + 1) - 1
            /\ exponent \in CASE high(n) -> I16 - Len(Fraction(source)) .. I16
                               [] low(n)  -> -I16 - 1 .. -I16 + Len(Whole(source))
                               [] OTHER   -> {scale + n}
       /\ at = "ExceededDepthLimit" => all > U64 * 10 ^ I16

\* The spellings of a character within quotes.
Spelled(c) ==
  CASE c = C("newline") -> {<<C("backslash"), C("n")>>}
    [] c = C("letter")  -> {<<C("backslash"), C("u"), Code("letter")>>}
    [] c = C("astral")  -> {<<C("backslash"), C("u"), Code("high"), C("backslash"), C("u"), Code("low")>>}
    [] c \in {C("quote"), C("backslash")} -> {<<C("backslash"), c>>}
    [] OTHER            -> {<<c>>}

\* A string is read as the characters that it spells.
StringIsSpelled ==
  at = "read" => Front(source) \in {FlattenSeq(s) : s \in {f \in [DOMAIN buffer -> UNION {Spelled(buffer[i]) : i \in DOMAIN buffer}] :
                                                            \A i \in DOMAIN buffer : f[i] \in Spelled(buffer[i])}}
=============================================================================
