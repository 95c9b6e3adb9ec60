------------------------------- MODULE FloatBits -------------------------------
(***************************************************************************)
(* IEEE 754 binary numbers as the bit patterns that store them, of f32 and *)
(* f64 made small: the arithmetic of the arith dialect and of Rust, round- *)
(* ing to nearest, ties to even.  A pattern is a number below 2^Bits: the  *)
(* sign, the exponent, the mantissa.  No NaN is told from another.         *)
(***************************************************************************)
EXTENDS Integers, FiniteSetsExt

CONSTANTS
    Bits,       \* the width of "f32", of "f64", and of the integers i32 and i64
    Mantissa,   \* the bits of their mantissas, without the implicit one
    Scale       \* numbers are counted in units of 1/Scale: the smallest of any format

\* 2^n.
TwoTo(n) ==
    LET power[k \in 0..n] == IF k = 0 THEN 1 ELSE 2 * power[k - 1]
    IN power[n]

SignBit(elem) == TwoTo(Bits[elem] - 1)
ExponentBits(elem) == Bits[elem] - 1 - Mantissa[elem]
Bias(elem) == TwoTo(ExponentBits(elem) - 1) - 1

\* The patterns from Infinity(elem) on are infinity and NaN; 0..Infinity(elem)
\* are in the order of what they stand for.
Infinity(elem) == (TwoTo(ExponentBits(elem)) - 1) * TwoTo(Mantissa[elem])
NaN(elem) == Infinity(elem) + 1

\* Formats have room for every whole number of as many bits as the mantissa has
\* with its implicit one, and the unit divides the smallest number of each.
ASSUME FormatsAssumption ==
    /\ DOMAIN Bits = {"f32", "f64", "i32", "i64"} /\ DOMAIN Mantissa = {"f32", "f64"}
    /\ \A elem \in DOMAIN Bits : Bits[elem] \in Nat \ {0}
    /\ \A elem \in DOMAIN Mantissa :
         /\ Mantissa[elem] \in 1..Bits[elem] - 3
         /\ Mantissa[elem] < Bias(elem)
         /\ Scale % TwoTo(Bias(elem) + Mantissa[elem] - 1) = 0
    /\ Bits["i32"] = Bits["f32"] /\ Bits["i64"] = Bits["f64"]
    /\ Scale \in Nat \ {0}

Unsigned(elem, bits) == bits % SignBit(elem)
Negative(elem, bits) == bits >= SignBit(elem)
IsNaN(elem, bits) == Unsigned(elem, bits) > Infinity(elem)
IsInfinite(elem, bits) == Unsigned(elem, bits) = Infinity(elem)
IsFinite(elem, bits) == Unsigned(elem, bits) < Infinity(elem)
IsZero(elem, bits) == Unsigned(elem, bits) = 0
Signed(elem, negative, unsigned) == IF negative THEN SignBit(elem) + unsigned ELSE unsigned

\* What the positive patterns stand for, in units; infinity is the number that
\* would follow the largest, as it is when rounding.
Magnitudes ==
    [elem \in DOMAIN Mantissa |->
        [bits \in 0..Infinity(elem) |->
            LET fraction == bits % TwoTo(Mantissa[elem])
                exponent == bits \div TwoTo(Mantissa[elem])
                least == Scale \div TwoTo(Bias(elem) + Mantissa[elem] - 1)
            IN IF exponent = 0 THEN fraction * least
               ELSE (TwoTo(Mantissa[elem]) + fraction) * TwoTo(exponent - 1) * least]]

\* Every f32 is an f64 too.
ASSUME NestAssumption ==
    \A bits \in 0..Infinity("f32") - 1 : \E wider \in 0..Infinity("f64") - 1 :
        Magnitudes["f64"][wider] = Magnitudes["f32"][bits]

Number(elem, bits) ==
    LET magnitude == Magnitudes[elem][Unsigned(elem, bits)]
    IN IF Negative(elem, bits) THEN -magnitude ELSE magnitude

\* Of a pattern and the next the nearer to n / d units; at equal distance the even one.
Nearer(elem, n, d, below) ==
    LET down == n - Magnitudes[elem][below] * d
        up == Magnitudes[elem][below + 1] * d - n
    IN IF below = Infinity(elem) \/ down < up \/ (down = up /\ below % 2 = 0) THEN below ELSE below + 1

\* The pattern nearest to n / d units, n >= 0.
Nearest(elem, n, d) ==
    Nearer(elem, n, d, Cardinality({bits \in 1..Infinity(elem) : Magnitudes[elem][bits] * d <= n}))
Rounded(elem, n, d) == IF n < 0 THEN Signed(elem, TRUE, Nearest(elem, -n, d)) ELSE Nearest(elem, n, d)

\* arith.addf, arith.subf, arith.mulf.
Negated(elem, bits) == Signed(elem, ~Negative(elem, bits), Unsigned(elem, bits))
addf(elem, a, b) ==
    CASE IsNaN(elem, a) \/ IsNaN(elem, b) -> NaN(elem)
      [] IsInfinite(elem, a) /\ IsInfinite(elem, b) -> IF a = b THEN a ELSE NaN(elem)
      [] IsInfinite(elem, a) /\ IsFinite(elem, b) -> a
      [] IsFinite(elem, a) /\ IsInfinite(elem, b) -> b
      [] IsZero(elem, a) /\ a = b -> a
      [] OTHER -> Rounded(elem, Number(elem, a) + Number(elem, b), 1)
subf(elem, a, b) == addf(elem, a, Negated(elem, b))
mulf(elem, a, b) ==
    LET negative == Negative(elem, a) # Negative(elem, b)
        product == Magnitudes[elem][Unsigned(elem, a)] * Magnitudes[elem][Unsigned(elem, b)]
        none == \/ IsNaN(elem, a) \/ IsNaN(elem, b)
                \/ IsInfinite(elem, a) /\ IsZero(elem, b)
                \/ IsZero(elem, a) /\ IsInfinite(elem, b)
        infinite == IsInfinite(elem, a) \/ IsInfinite(elem, b)
    IN IF none THEN NaN(elem)
       ELSE Signed(elem, negative, IF infinite THEN Infinity(elem) ELSE Nearest(elem, product, Scale))

\* A whole number n >= 0 as a float, and arith.divf of a positive float by 2^k.
sitofp(elem, n) == Nearest(elem, n * Scale, 1)
DividedByPower(elem, bits, k) == Nearest(elem, Magnitudes[elem][bits], TwoTo(k))

\* Ordered comparisons: all false for NaN; the zeros are equal.
Comparable(elem, a, b) == ~IsNaN(elem, a) /\ ~IsNaN(elem, b)
oeq(elem, a, b) == Comparable(elem, a, b) /\ Number(elem, a) = Number(elem, b)
ogt(elem, a, b) == Comparable(elem, a, b) /\ Number(elem, a) > Number(elem, b)
oge(elem, a, b) == oeq(elem, a, b) \/ ogt(elem, a, b)

\* A conversion between floats (Rust's "as").
Converted(from, to, bits) ==
    CASE IsNaN(from, bits) -> NaN(to)
      [] IsInfinite(from, bits) -> Signed(to, Negative(from, bits), Infinity(to))
      [] OTHER -> Signed(to, Negative(from, bits), Nearest(to, Magnitudes[from][Unsigned(from, bits)], 1))

================================================================================
