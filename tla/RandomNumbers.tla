----------------------------- MODULE RandomNumbers -----------------------------
(***************************************************************************)
(* The random tensors: what the compiled graph computes (knok-compile,     *)
(* lowering/random.rs) and what the build computes for the static ones     *)
(* (knok-core, ops/static_creation.rs).  An element is a function of a     *)
(* counter: the key or seed, plus its place in row-major order.            *)
(*                                                                         *)
(* A word is a number below 2^Bits; integers of the host are whole numbers.*)
(***************************************************************************)
EXTENDS ShapeRules, FloatBits

CONSTANTS
    Increment, Shifts, Factors  \* the constants of splitmix64, for words of Bits["i64"]

ASSUME MixAssumption ==
    /\ Increment \in Nat
    /\ \A k \in 1..3 : Shifts[k] \in Nat \ {0}
    /\ \A k \in 1..2 : Factors[k] \in Nat /\ Factors[k] % 2 = 1

Modulo(elem, n) == n % TwoTo(Bits[elem])
Words(elem) == 0..TwoTo(Bits[elem]) - 1
Whole(elem) == -SignBit(elem)..SignBit(elem) - 1
Integer(elem, word) == IF word >= SignBit(elem) THEN word - 2 * SignBit(elem) ELSE word

RandomFloats == {"f32", "f64"}
RandomIntegers == {"i32", "i64"}

Places(shape) == {index \in [DOMAIN shape -> 0..Max({0} \cup ToSet(shape))] :
                    \A axis \in DOMAIN shape : index[axis] < shape[axis]}

(***************************************************************************)
(* In the compiled graph.                                                  *)
(***************************************************************************)
\* Words of 64 bits, bit by bit.
xor_i64(a, b) ==
    LET bit(word, n) == (word \div TwoTo(n)) % 2
        lowest[n \in 0..Bits["i64"]] ==
            IF n = 0 THEN 0 ELSE lowest[n - 1] + TwoTo(n - 1) * ((bit(a, n - 1) + bit(b, n - 1)) % 2)
    IN lowest[Bits["i64"]]

shift_right_i64(word, amount) == word \div TwoTo(amount)
mul_i64(word, factor) == Modulo("i64", word * factor)

\* Mutant: a factor with a bit too few.
splitmix64_in_block_EvenFactor(counter) ==
    LET value == Modulo("i64", counter + Increment)
        first == mul_i64(xor_i64(value, shift_right_i64(value, Shifts[1])), Factors[1] - 1)
        second == mul_i64(xor_i64(first, shift_right_i64(first, Shifts[2])), Factors[2])
    IN xor_i64(second, shift_right_i64(second, Shifts[3]))

\* "value" is the 64-bit counter.
splitmix64_in_block(counter) ==
    LET value == Modulo("i64", counter + Increment)
        first == mul_i64(xor_i64(value, shift_right_i64(value, Shifts[1])), Factors[1])
        second == mul_i64(xor_i64(first, shift_right_i64(first, Shifts[2])), Factors[2])
    IN xor_i64(second, shift_right_i64(second, Shifts[3]))

\* All hashes, worked out once.
HashesInBlock == [counter \in Words("i64") |-> splitmix64_in_block(counter)]

\* Mutant: strides of the transposed layout.
flattened_linalg_index_ColumnMajor(shape, index) ==
    LET flattened[n \in 0..Len(shape)] ==
            LET axis == Len(shape) + 1 - n
            IN IF n = 0 THEN 0 ELSE Modulo("i64", flattened[n - 1] * shape[axis] + index[axis])
    IN flattened[Len(shape)]

flattened_linalg_index(shape, index) ==
    LET flattened[axis \in 0..Len(shape)] ==
            IF axis = 0 THEN 0 ELSE Modulo("i64", flattened[axis - 1] * shape[axis] + index[axis])
    IN flattened[Len(shape)]

HashAt(shape, key, index) == HashesInBlock[Modulo("i64", key + flattened_linalg_index(shape, index))]

\* A word and a mask of its lowest bits.
and_i64(word, ones) == word % TwoTo(ones)

\* Mutant: a mask of one bit too many.
unit_float_from_hash_WideMask(elem, hash) ==
    LET precision == Mantissa[elem] + 1
    IN DividedByPower(elem, sitofp(elem, and_i64(hash, precision + 1)), precision)

\* As many bits as the mantissa has with its implicit one.
unit_float_from_hash(elem, hash) ==
    LET precision == Mantissa[elem] + 1
    IN DividedByPower(elem, sitofp(elem, and_i64(hash, precision)), precision)

\* Mutant: as if every bound were positive.
next_down_float_Decremented(elem, bits) == Modulo(elem, bits - 1)

\* Neighbours of a pattern are its neighbours as an integer.
next_down_float(elem, bits) ==
    CASE IsZero(elem, bits) -> SignBit(elem) + 1
      [] ogt(elem, bits, 0) -> Modulo(elem, bits - 1)
      [] OTHER -> Modulo(elem, bits + 1)

clamp_uniform_sample_below_high(elem, sample, high) ==
    IF oge(elem, sample, high) THEN next_down_float(elem, high) ELSE sample

uniform_sample(elem, low, high, hash) ==
    clamp_uniform_sample_below_high(elem,
        addf(elem, low, mulf(elem, unit_float_from_hash(elem, hash), subf(elem, high, low))), high)

integer_sample_from_hash(elem, hash) == Modulo(elem, hash)

\* Mutant: arith.remsi, the difference of the bounds as a signed word.
integer_sample_Signed(elem, low, high, hash) ==
    LET range == Integer(elem, Modulo(elem, high - low))
        sample == Integer(elem, integer_sample_from_hash(elem, hash))
        distance == IF range < 0 THEN -range ELSE range
    IN Modulo(elem, low + (IF sample < 0 THEN -((-sample) % distance) ELSE sample % distance))

\* arith.remui: the difference of the bounds is an unsigned word.
integer_sample(elem, low, high, hash) ==
    Modulo(elem, low + (integer_sample_from_hash(elem, hash) % Modulo(elem, high - low)))

random_uniform_tensor(target, key, low, high) ==
    [index \in Places(target.shape) |->
        uniform_sample(target.elem, low, high, HashAt(target.shape, key, index))]
random_int_tensor(target, key, low, high) ==
    [index \in Places(target.shape) |->
        integer_sample(target.elem, low, high, HashAt(target.shape, key, index))]

\* Mutant: the key moves on as far as the first axis.
random_next_key_FirstAxis(key, target) ==
    Modulo("i64", key + (IF target.shape = << >> THEN 1 ELSE Head(target.shape)))

\* The count of the elements is an i64, or an error of the build.
counts_in_i64(target) == element_count(target) < SignBit("i64")
random_next_key(key, target) == Modulo("i64", key + element_count(target))

\* The result types of RandomUniform and RandomInt, given the elements of the bounds.
random_result_types(elems, target, bound_elem) == Ok(target.elem \in elems /\ bound_elem = target.elem, target)

\* Mutant: two shifts swapped, in the build only.
splitmix64_OtherShift(counter) ==
    LET value == Modulo("i64", counter + Increment)
        first == Modulo("i64", xor_i64(value, value \div TwoTo(Shifts[2])) * Factors[1])
        second == Modulo("i64", xor_i64(first, first \div TwoTo(Shifts[1])) * Factors[2])
    IN xor_i64(second, second \div TwoTo(Shifts[3]))

(***************************************************************************)
(* In the build.  Float bounds are f64 literals, whatever the target.      *)
(***************************************************************************)
splitmix64(counter) ==
    LET value == Modulo("i64", counter + Increment)
        first == Modulo("i64", xor_i64(value, value \div TwoTo(Shifts[1])) * Factors[1])
        second == Modulo("i64", xor_i64(first, first \div TwoTo(Shifts[2])) * Factors[2])
    IN xor_i64(second, second \div TwoTo(Shifts[3]))

Hashes == [counter \in Words("i64") |-> splitmix64(counter)]
StaticHashes(target, seed) ==
    [n \in 1..element_count(target) |-> Hashes[Modulo("i64", seed + (n - 1))]]

\* unit_f32_from_u64, unit_f64_from_u64: the fraction times the power of two SCALE.
unit_from_u64(elem, value) ==
    LET precision == Mantissa[elem] + 1
    IN mulf(elem, sitofp(elem, and_i64(value, precision)), DividedByPower(elem, sitofp(elem, 1), precision))

\* next_down_f32, next_down_f64.
next_down(elem, value) ==
    CASE value = Signed(elem, TRUE, Infinity(elem)) -> value
      [] IsZero(elem, value) -> Signed(elem, TRUE, 1)
      [] ogt(elem, value, 0) -> value - 1
      [] OTHER -> value + 1

below_high(elem, value, high) == IF oge(elem, value, high) THEN next_down(elem, high) ELSE value
not_below(elem, value, low) == IF ogt(elem, low, value) THEN low ELSE value

random_uniform_literal(elem, low, high, hash) ==
    LET shifted == addf(elem, low, mulf(elem, unit_from_u64(elem, hash), subf(elem, high, low)))
    IN not_below(elem, below_high(elem, shifted, high), low)

\* Mutant: the order of the bounds is checked before they are rounded only.
static_random_uniform_literals_Unrounded(target, seed, low, high) ==
    LET from == Converted("f64", target.elem, low)
        to == Converted("f64", target.elem, high)
    IN Ok(target.elem \in RandomFloats /\ ogt("f64", high, low),
          [n \in 1..element_count(target) |->
              random_uniform_literal(target.elem, from, to, StaticHashes(target, seed)[n])])

\* An error unless the bounds, rounded to the target's elements, are finite and
\* in order.
static_random_uniform_literals(target, seed, low, high) ==
    LET from == Converted("f64", target.elem, low)
        to == Converted("f64", target.elem, high)
    IN Ok(/\ target.elem \in RandomFloats
          /\ ogt("f64", high, low)
          /\ element_count(target) > 0 => IsFinite(target.elem, from) /\ IsFinite(target.elem, to)
                                          /\ ogt(target.elem, to, from),
          [n \in 1..element_count(target) |->
              random_uniform_literal(target.elem, from, to, StaticHashes(target, seed)[n])])

\* Mutant: the fit of the bounds is taken for granted.
static_random_int_literals_Unfit(target, seed, low, high) ==
    Ok(target.elem \in RandomIntegers /\ low < high,
       IF low < high THEN [n \in 1..element_count(target) |-> low + (StaticHashes(target, seed)[n] % (high - low))]
       ELSE << >>)

\* The hash is not cut to the width of the target's elements, the remainder is
\* taken over the host's integers; a value must fit its elements.
static_random_int_literals(target, seed, low, high) ==
    LET values == [n \in 1..element_count(target) |-> low + (StaticHashes(target, seed)[n] % (high - low))]
    IN IF target.elem \in RandomIntegers /\ low < high
       THEN Ok(\A n \in DOMAIN values : values[n] \in Whole(target.elem), values)
       ELSE {}

================================================================================
