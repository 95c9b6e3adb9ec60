------------------------------ MODULE RandomStream ------------------------------
(***************************************************************************)
(* A graph that draws random tensors, each from the key it was given or    *)
(* from one that an earlier draw returned, and a build that expands static *)
(* ones from the same seed.                                                *)
(***************************************************************************)
EXTENDS RandomNumbers

CONSTANTS
    Programs    \* programs, by name: the keys to start from, the draws to
                \* choose from, and how many draws are made

Operations == {"RandomUniform", "RandomInt", "StaticRandomUniform", "StaticRandomInt"}

\* Bounds of a graph's draw are elements of their type, those of a static one
\* f64 literals or integers of the host.
IsDraw(d) ==
    LET bounds == {d.low, d.high}
    IN /\ d.op \in Operations
       /\ d.target.shape \in Seq(Nat)
       /\ d.op = "RandomUniform" /\ d.elem \in RandomFloats => bounds \subseteq Words(d.elem)
       /\ d.op = "RandomInt" /\ d.elem \in RandomIntegers => bounds \subseteq Whole(d.elem)
       /\ d.op = "StaticRandomUniform" => bounds \subseteq Words("f64")
       /\ d.op = "StaticRandomInt" => bounds \subseteq Int

ASSUME ProgramsAssumption ==
    \A p \in DOMAIN Programs :
        /\ DOMAIN Programs[p] = {"keys", "draws", "count"}
        /\ Programs[p].keys \subseteq Words("i64")
        /\ Programs[p].count \in Nat
        /\ \A d \in Programs[p].draws : IsDraw(d)

VARIABLES
    program,    \* the name of the program
    keys,       \* the keys at hand: the given one, then each that was returned
    drawn       \* the draws: what was drawn, from which of the keys, the
                \* elements, and which key was returned (0 if none)

vars == <<program, keys, drawn>>

Init ==
    /\ program \in DOMAIN Programs
    /\ \E key \in Programs[program].keys : keys = <<key>>
    /\ drawn = << >>

\* The draws of each program by operation, worked out once.
Catalogue ==
    [p \in DOMAIN Programs |->
        [count |-> Programs[p].count,
         draws |-> [op \in Operations |-> {d \in Programs[p].draws : d.op = op}]]]
Draws(op) == IF Len(drawn) < Catalogue[program].count THEN Catalogue[program].draws[op] ELSE {}

\* A tensor of the graph.  The caller sees to it that low < high.
Draw(d, place, elements) ==
    /\ counts_in_i64(d.target)
    /\ keys' = Append(keys, random_next_key(keys[place], d.target))
    /\ drawn' = Append(drawn, [draw |-> d, from |-> place, elements |-> elements, returned |-> Len(keys) + 1])
    /\ UNCHANGED program

RandomUniform ==
    \E d \in Draws("RandomUniform"), place \in DOMAIN keys :
      \E target \in random_result_types(RandomFloats, d.target, d.elem) :
        /\ ogt(target.elem, d.high, d.low)
        /\ Draw(d, place, random_uniform_tensor(target, keys[place], d.low, d.high))

RandomInt ==
    \E d \in Draws("RandomInt"), place \in DOMAIN keys :
      \E target \in random_result_types(RandomIntegers, d.target, d.elem) :
        /\ d.low < d.high
        /\ Draw(d, place, random_int_tensor(target, keys[place], Modulo(d.elem, d.low), Modulo(d.elem, d.high)))

\* A tensor of the build, whose seed is the first key.  The MLIR parser takes
\* no NaN, which float_literal spells "NaN.0".
Expand(d, literals) ==
    /\ d.target.elem \in RandomFloats => \A n \in DOMAIN literals : ~IsNaN(d.target.elem, literals[n])
    /\ drawn' = Append(drawn, [draw |-> d, from |-> 1, elements |-> literals, returned |-> 0])
    /\ UNCHANGED <<program, keys>>

StaticRandomUniform ==
    \E d \in Draws("StaticRandomUniform") :
      \E target \in random_result_types(RandomFloats, d.target, d.elem) :
      \E literals \in static_random_uniform_literals(target, keys[1], d.low, d.high) : Expand(d, literals)

StaticRandomInt ==
    \E d \in Draws("StaticRandomInt") :
      \E target \in random_result_types(RandomIntegers, d.target, d.elem) :
      \E literals \in static_random_int_literals(target, keys[1], d.low, d.high) : Expand(d, literals)

Next ==
    \/ RandomUniform
    \/ RandomInt
    \/ StaticRandomUniform
    \/ StaticRandomInt

Spec == Init /\ [][Next]_vars

--------------------------------------------------------------------------------
Dynamic(r) == r.returned # 0
IsFloat(r) == r.draw.target.elem \in RandomFloats
ElementsOf(r) == {r.elements[i] : i \in DOMAIN r.elements}

\* An element of a draw of the graph by its place in row-major order.
InOrder(shape, index) ==
    LET later(axis) == Product(SubSeq(shape, axis + 1, Len(shape)))
        sum[axis \in 0..Len(shape)] == IF axis = 0 THEN 0 ELSE sum[axis - 1] + index[axis] * later(axis)
    IN sum[Len(shape)]

\* Keys, elements and what they belong to have their widths and places.
TypeOK ==
    /\ \A k \in DOMAIN keys : keys[k] \in Words("i64")
    /\ \A n \in DOMAIN drawn :
         LET r == drawn[n]
         IN /\ r.from \in DOMAIN keys
            /\ Cardinality(DOMAIN r.elements) = element_count(r.draw.target)
            /\ ElementsOf(r) \subseteq
                 (IF Dynamic(r) \/ IsFloat(r) THEN Words(r.draw.target.elem) ELSE Whole(r.draw.target.elem))

\* Whether it is the order of the bounds, their distance, or a sum that leaves
\* the range of the elements or is rounded to its edge: a sample is never below
\* low and always below high.  Of the compiled graph this is claimed only when
\* the distance of two float bounds is a finite float: with an infinite one a
\* fraction of zero gives NaN.
InRange(r, x) ==
    LET elem == r.draw.target.elem
        low == r.draw.low
        high == r.draw.high
    IN IF IsFloat(r)
       THEN LET from == IF Dynamic(r) THEN low ELSE Converted("f64", elem, low)
                to == IF Dynamic(r) THEN high ELSE Converted("f64", elem, high)
            IN (IsFinite(elem, subf(elem, to, from)) \/ ~Dynamic(r)) => oge(elem, x, from) /\ ogt(elem, to, x)
       ELSE LET value == IF Dynamic(r) THEN Integer(elem, x) ELSE x
            IN low <= value /\ value < high
SamplesLieInRange == \A n \in DOMAIN drawn : \A x \in ElementsOf(drawn[n]) : InRange(drawn[n], x)

\* The keys of n draws of one element each, and the key they leave.
KeysOf(key, n) ==
    LET ks[k \in 0..n] == IF k = 0 THEN key ELSE random_next_key(ks[k - 1], Type("f32", << >>))
    IN ks

Single(r, key) ==
    LET d == r.draw
        one == Type(d.target.elem, << >>)
        elements ==
            IF IsFloat(r) THEN random_uniform_tensor(one, key, d.low, d.high)
            ELSE random_int_tensor(one, key, Modulo(d.elem, d.low), Modulo(d.elem, d.high))
    IN elements[<< >>]

\* A key is a position in one stream of numbers: whatever the shapes, drawing a
\* tensor takes the same numbers in row-major order as drawing them one at a
\* time, passing the key on, and leaves the key where that would.
StreamsContinue ==
    \A n \in DOMAIN drawn :
        LET r == drawn[n]
            shape == r.draw.target.shape
        IN Dynamic(r) =>
             \E ks \in {KeysOf(keys[r.from], Product(shape))} :
               /\ keys[r.returned] = ks[Product(shape)]
               /\ \A index \in DOMAIN r.elements : r.elements[index] = Single(r, ks[InOrder(shape, index)])

\* Draws that pass the key on never see a number of the stream twice (until all
\* keys have gone by): the hashes of their elements all differ.
Follows(n) == n = 1 \/ drawn[n].from = drawn[n - 1].returned
HashesOf(r) == {HashAt(r.draw.target.shape, keys[r.from], index) : index \in DOMAIN r.elements}
Total ==
    LET total[n \in 0..Len(drawn)] == IF n = 0 THEN 0 ELSE total[n - 1] + element_count(drawn[n].draw.target)
    IN total[Len(drawn)]
NoNumberTwice ==
    /\ \A n \in DOMAIN drawn : Dynamic(drawn[n]) /\ Follows(n)
    /\ Total <= TwoTo(Bits["i64"])
    => Cardinality(UNION {HashesOf(drawn[n]) : n \in DOMAIN drawn}) = Total

\* The generator is written twice, for the compiled graph and for the build.  On
\* one seed and the same bounds both make the same elements; only for i32 they
\* do not, as the graph cuts the hash to 32 bits before it takes the remainder.
\* The build takes no float bounds but finite ones.
HostAgreesWithDevice ==
    \A n \in DOMAIN drawn :
        LET r == drawn[n]
            d == r.draw
            seed == keys[r.from]
            target == d.target
            literals ==
                IF IsFloat(r)
                THEN static_random_uniform_literals(target, seed, Converted(target.elem, "f64", d.low),
                                                    Converted(target.elem, "f64", d.high))
                ELSE static_random_int_literals(target, seed, d.low, d.high)
            bounded == IsFloat(r) => IsFinite(target.elem, d.low) /\ IsFinite(target.elem, d.high)
        IN Dynamic(r) /\ target.elem # "i32" /\ bounded =>
             \E host \in literals : \A index \in DOMAIN r.elements :
                 host[InOrder(target.shape, index) + 1] =
                     (IF IsFloat(r) THEN r.elements[index] ELSE Integer(target.elem, r.elements[index]))

================================================================================
