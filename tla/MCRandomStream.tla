----------------------------- MODULE MCRandomStream -----------------------------
(***************************************************************************)
(* Words of 6 and 8 bits: f32 has 3 bits of exponent and 2 of mantissa and *)
(* ends at 14, f64 has 4 and 3 and ends at 240; the constants of           *)
(* splitmix64 keep their lowest 8 bits, and its shifts their proportions.  *)
(***************************************************************************)
EXTENDS RandomStream

MCBits == [f32 |-> 6, f64 |-> 8, i32 |-> 6, i64 |-> 8]
MCMantissa == [f32 |-> 2, f64 |-> 3]
MCScale == 512
MCIncrement == 21
MCShifts == <<4, 3, 4>>
MCFactors == <<185, 235>>

Of(op, elem, shape, low, high) ==
    [op |-> op, elem |-> elem, low |-> low, high |-> high, target |-> Type(elem, shape)]

Finite(elem) == {bits \in 0..2^MCBits[elem] - 1 : IsFinite(elem, bits)}

\* Every sixth float, and the smallest, the largest and the last before one.
SomeOf(elem, step) ==
    {bits \in Finite(elem) : Unsigned(elem, bits) % step = 0 \/ Unsigned(elem, bits) \in
        {1, Infinity(elem) - 1, sitofp(elem, 1) - 1}}

Bounded(ops, elem, shapes, bounds) ==
    {Of(op, elem, shape, low, high) : op \in ops, shape \in shapes, low \in bounds, high \in bounds}

\* Float bounds are patterns, those of static draws of f64; integers are themselves.
MCPrograms ==
    [singles |-> [keys |-> {0, 100, 255}, count |-> 1,
                  draws |-> Bounded({"RandomUniform"}, "f32", {<<2, 2>>}, Finite("f32"))],
     doubles |-> [keys |-> {7, 254}, count |-> 1,
                  draws |-> Bounded({"RandomUniform"}, "f64", {<<3>>}, SomeOf("f64", 6))],
     static |-> [keys |-> {0, 7, 253}, count |-> 1,
                 draws |-> Bounded({"StaticRandomUniform"}, "f32", {<<3>>, <<0>>}, SomeOf("f64", 5))
                           \cup Bounded({"StaticRandomUniform"}, "f64", {<<2>>}, SomeOf("f64", 6))],
     words |-> [keys |-> {0, 253}, count |-> 1,
                draws |-> Bounded({"RandomInt", "StaticRandomInt"}, "i32", {<<2, 2>>}, -32..31)],
     longs |-> [keys |-> {3, 254}, count |-> 1,
                draws |-> Bounded({"RandomInt", "StaticRandomInt"}, "i64", {<<3>>},
                                  {-128, -127, -100, -64, -3, -1, 0, 1, 2, 50, 63, 64, 126, 127})],
     \* Bounds that leave the range of the elements, and elements that are neither.
     odd |-> [keys |-> {9}, count |-> 1,
              draws |-> Bounded({"StaticRandomInt"}, "i32", {<<3>>}, {-40, -30, 0, 30, 32, 33, 60})
                        \cup Bounded({"RandomInt", "RandomUniform", "StaticRandomInt", "StaticRandomUniform"},
                                     "bool", {<<3>>}, {0, 1})
                        \cup {[d EXCEPT !.target = Type("i64", <<3>>)] : d \in Bounded({"RandomInt"}, "i32", {<<3>>}, {0, 1})}],
     chains |-> [keys |-> {0, 252}, count |-> 3,
                 draws |-> Bounded({"RandomUniform"}, "f32", {<<2, 3>>, << >>, <<0, 2>>}, {33, 12})
                           \cup Bounded({"RandomInt"}, "i64", {<<3, 1, 2>>, <<4>>}, {-100, 120})
                           \cup Bounded({"StaticRandomInt"}, "i64", {<<2>>}, {-100, 120})],
     \* All the numbers there are, 256 of them; 128 are more than an i64 counts.
     whole |-> [keys |-> {5}, count |-> 3,
                draws |-> Bounded({"RandomInt"}, "i64", {<<14, 9>>, <<127>>, <<16, 8>>, <<2>>}, {-128, 127})]]
================================================================================
