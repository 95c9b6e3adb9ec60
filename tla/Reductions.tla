------------------------------- MODULE Reductions ------------------------------
(***************************************************************************)
(* The calls that reduce one axis or all of them (lowering/reductions.rs). *)
(***************************************************************************)
EXTENDS TensorOps

(***************************************************************************)
(* The loops of a reduction: those of the result, then the reduced ones.   *)
(***************************************************************************)
reduced_dims(ty, axis) == IF axis = << >> THEN ty.shape ELSE <<Dim(ty, axis[1])>>
reduction_count(ty, axis) == Product(reduced_dims(ty, axis))
reduction_ty(ty, axis) == Type(ty.elem, reduction_shape(ty.shape, axis))

\* reduction_iterator_types and reduction_output_map: the loop of each input axis.
reduction_map(rank, axis) ==
    IF axis = << >> THEN Ascending(rank)
    ELSE [d \in 1..rank |-> CASE d - 1 < axis[1] -> d - 1
                              [] d - 1 = axis[1] -> rank - 1
                              [] d - 1 > axis[1] -> d - 2]

Whole(ty, axis) == Rank(ty) = 0 /\ axis = << >>

reduce(v, seed, name, axis) ==
    linalg_reduce(<<v>>, <<reduction_map(Rank(v.ty), axis)>>, reduction_ty(v.ty, axis),
                  reduced_dims(v.ty, axis), seed, LAMBDA acc, e : scalar_op(name, acc, e[1]))

\* A value of rank 0 is its own sum, product, maximum and minimum.
reduce_unless_whole(v, seed, name, axis) ==
    IF Whole(v.ty, axis) THEN v ELSE reduce(v, seed, name, axis)

sum(v, axis) ==
    reduce_unless_whole(v, 0, IF IsFloat(v.ty.elem) THEN "arith.addf" ELSE "arith.addi", axis)
prod(v, axis) ==
    reduce_unless_whole(v, 1, IF IsFloat(v.ty.elem) THEN "arith.mulf" ELSE "arith.muli", axis)
all(v, axis) == reduce_unless_whole(v, 1, "arith.andi", axis)
any(v, axis) == reduce_unless_whole(v, 0, "arith.ori", axis)

\* The element no other is below, and the element none is above.
max_seed(elem) == CASE elem = "bool" -> 0
                    [] IsFloat(elem) -> NegativeInfinity
                    [] OTHER -> IntMin
min_seed(elem) == CASE elem = "bool" -> 1
                    [] IsFloat(elem) -> PositiveInfinity
                    [] OTHER -> IntMax

max(v, axis) ==
    LET elem == v.ty.elem
    IN reduce_unless_whole(v, max_seed(elem), CASE elem = "bool" -> "arith.ori"
                                                [] IsFloat(elem) -> "arith.maximumf"
                                                [] OTHER -> "arith.maxsi", axis)
min(v, axis) ==
    LET elem == v.ty.elem
    IN reduce_unless_whole(v, min_seed(elem), CASE elem = "bool" -> "arith.andi"
                                                [] IsFloat(elem) -> "arith.minimumf"
                                                [] OTHER -> "arith.minsi", axis)

\* Mutant: the reduced axis is put back in front.
spread_InFront(v, ty, axis) == broadcast(v, ty)

\* The reduced value, put back over the axes it was reduced from.
spread(v, ty, axis) ==
    IF axis = << >> THEN broadcast(v, ty) ELSE broadcast_along_axis(v, ty, axis[1])

\* A sum divided by the number of elements it has summed.
scaled(total, ty, axis) ==
    emit_binary("arith.divf", total, constant(reduction_count(ty, axis), ty.elem))

mean(v, axis) == IF Whole(v.ty, axis) THEN v ELSE scaled(sum(v, axis), v.ty, axis)

centered(v, center, axis) == emit_binary("arith.subf", v, spread(center, v.ty, axis))
squared(v) == emit_binary("arith.mulf", v, v)

\* Mutant: a value of rank 0 is its own variance, as it is its own mean.
var_OfRankZero(v, axis) ==
    IF Whole(v.ty, axis) THEN v
    ELSE scaled(sum(squared(centered(v, mean(v, axis), axis)), axis), v.ty, axis)

var(v, axis) ==
    IF Whole(v.ty, axis) THEN zero_like(v.ty)
    ELSE scaled(sum(squared(centered(v, mean(v, axis), axis)), axis), v.ty, axis)

std(v, axis) == emit_unary("sqrt", var(v, axis))

ptp(v, axis) ==
    IF Whole(v.ty, axis) THEN zero_like(v.ty)
    ELSE emit_binary(IF IsFloat(v.ty.elem) THEN "arith.subf" ELSE "arith.subi",
                     max(v, axis), min(v, axis))

normalized(exp, axis) ==
    emit_binary("arith.divf", exp, spread(reduce(exp, 0, "arith.addf", axis), exp.ty, axis))
softmax(v, axis) == normalized(emit_unary("exp", centered(v, max(v, axis), axis)), axis)

sigmoid(v) ==
    LET one == constant(1, v.ty.elem)
        exp == emit_unary("exp", emit_binary("arith.subf", zero_like(v.ty), v))
    IN emit_binary("arith.divf", one, emit_binary("arith.addf", one, exp))

(***************************************************************************)
(* argmax and argmin: one loop carries the best value and its index.       *)
(***************************************************************************)
\* Extreme::initial_value: the smallest or largest finite number, at index 0.
finite_seed(extreme, elem) ==
    CASE elem = "bool" -> IF extreme = "Max" THEN 0 ELSE 1
      [] IsFloat(elem) -> IF extreme = "Max" THEN FieldMin ELSE FieldMax
      [] OTHER -> IF extreme = "Max" THEN IntMin ELSE IntMax

ordering_predicate(extreme, elem) ==
    CASE elem = "bool" -> IF extreme = "Max" THEN "ugt" ELSE "ult"
      [] IsFloat(elem) -> IF extreme = "Max" THEN "ogt" ELSE "olt"
      [] OTHER -> IF extreme = "Max" THEN "sgt" ELSE "slt"

Candidate(index, value) == [index |-> index, value |-> value]

\* Mutant: an equal value with a later index replaces the best one.
better_LastOfEqual(extreme, elem, best, candidate) ==
    \/ compare(ordering_predicate(extreme, elem), candidate.value, best.value) = 1
    \/ candidate.value = best.value

\* The body of the loop: a better value, or an equal one with a lower index.
better(extreme, elem, best, candidate) ==
    \/ compare(ordering_predicate(extreme, elem), candidate.value, best.value) = 1
    \/ candidate.value = best.value /\ candidate.index < best.index

arg_extreme(extreme, v, axis) ==
    LET ty == Type("i64", reduction_shape(v.ty.shape, axis))
        reduced == reduced_dims(v.ty, axis)
        rank == Rank(v.ty)
        loops(d) == IF axis = << >> THEN d - 1 ELSE rank - 1
        found == linalg_reduce(<<v, linalg_index(reduced)>>,
                     <<reduction_map(rank, axis), [d \in DOMAIN reduced |-> loops(d)]>>, ty, reduced,
                     Candidate(0, finite_seed(extreme, v.ty.elem)),
                     LAMBDA best, e : IF better(extreme, v.ty.elem, best, Candidate(e[2], e[1]))
                                      THEN Candidate(e[2], e[1]) ELSE best)
    IN IF Whole(v.ty, axis) THEN splat(constant(0, "i64"), ty)
       ELSE Tensor(ty, found.ok, LAMBDA i : found.at[i].index)

================================================================================
