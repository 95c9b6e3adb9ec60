--------------------------------- MODULE Emit ---------------------------------
(***************************************************************************)
(* The part of knok-compile's lowering that every kernel uses: constants,  *)
(* coercions between scalars and tensors, broadcasting and elementwise     *)
(* operations (lowering/emit.rs, and broadcasting in tensor_ops.rs).       *)
(*                                                                         *)
(* Every function is a function of Values; the block the operations are    *)
(* appended to is not kept, because an operation depends on its operands   *)
(* alone.  A function that bails gives a value that is not ok, as an       *)
(* operation that fails its verifier does: both end the compilation with   *)
(* an error.                                                               *)
(***************************************************************************)
EXTENDS StaticCreation

IsFloat(elem) == elem \in Floats
Refused(ty) == Tensor(ty, FALSE, LAMBDA i : Undefined)

(***************************************************************************)
(* emit.rs: constants, kinds and elementwise operations.                   *)
(***************************************************************************)
constant(element, elem) == ScalarOf(elem, element, TRUE)

\* A splat constant of any rank but 0, a scalar constant of rank 0.
filled_like(element, ty) ==
    IF Rank(ty) = 0 THEN constant(element, ty.elem) ELSE Tensor(ty, TRUE, LAMBDA i : element)
dense_constant(ty, literals) == Tensor(ty, TRUE, LAMBDA i : literals[Position(ty.shape, i) + 1])
zero_like(ty) == filled_like(0, ty)
one_like(ty) == filled_like(1, ty)

extract_first_scalar(v) == tensor_extract(v, [d \in DOMAIN v.ty.shape |-> 0])

coerce_to_scalar(v) ==
    CASE IsScalar(v) -> v
      [] IsTensor(v) /\ element_count(v.ty) = 1 -> extract_first_scalar(v)
      [] OTHER -> ScalarOf(v.ty.elem, Undefined, FALSE)

\* Mutant: a tensor of one element is filled from as it is.
splat_NotExtracted(v, ty) == linalg_fill(v, ty)

splat(v, ty) == linalg_fill(coerce_to_scalar(v), ty)

\* The type and the dimensions of a broadcast operand without its stretched axes.
Padding(ty, target) == Rank(target) - Rank(ty)
Stretches(ty, target, d) == ty.shape[d] = 1 /\ target.shape[Padding(ty, target) + d] # 1

\* Mutant: a stretched axis in front is left without a group.
squeeze_groups_KeptOnly(ty, target) ==
    LET kept == SelectSeq(Ascending(Rank(ty)), LAMBDA a : ~Stretches(ty, target, a + 1))
    IN [g \in DOMAIN kept |-> <<kept[g]>>]

\* collapse_reassociation_for_squeezed_broadcast: a stretched axis joins the
\* next axis that is kept, or the last one when none follows.
squeeze_groups(ty, target) ==
    LET kept == SelectSeq([d \in 1..Rank(ty) |-> d], LAMBDA d : ~Stretches(ty, target, d))
        first(g) == IF g = 1 THEN 0 ELSE kept[g - 1]
        last(g) == IF g = Len(kept) THEN Rank(ty) - 1 ELSE kept[g] - 1
    IN [g \in DOMAIN kept |-> [n \in 1..last(g) - first(g) + 1 |-> first(g) + n - 1]]

squeeze_singleton_broadcast_dims(v, target) ==
    LET padding == Padding(v.ty, target)
        stretched == SelectSeq(Ascending(Rank(v.ty)), LAMBDA a : Stretches(v.ty, target, a + 1))
        kept == SelectSeq(Ascending(Rank(v.ty)), LAMBDA a : ~Stretches(v.ty, target, a + 1))
        squeezed == Type(v.ty.elem, Permuted(v.ty.shape, kept))
    IN [input |-> IF stretched = << >> THEN v
                  ELSE tensor_collapse_shape(v, squeezed, squeeze_groups(v.ty, target)),
        dimensions |-> Ascending(padding) \o [n \in DOMAIN stretched |-> padding + stretched[n]]]

\* The axes that were squeezed or are missing are put in by linalg.broadcast.
stretch(squeezed, ty) == linalg_broadcast(squeezed.input, ty, squeezed.dimensions)

broadcast(v, ty) ==
    CASE v.ty = ty /\ IsTensor(v) -> v
      [] IsScalar(v) -> splat(v, ty)
      [] IsTensor(v) /\ v.ty # ty /\ (Rank(v.ty) = 0 \/ element_count(v.ty) = 1) -> splat(v, ty)
      [] OTHER ->
           IF v.ty.elem = ty.elem /\ broadcast_shape(v.ty.shape, ty.shape) = {ty.shape}
           THEN stretch(squeeze_singleton_broadcast_dims(v, ty), ty)
           ELSE Refused(ty)

\* ensure_axis_broadcastable and axis_broadcast_dimensions: one axis is put back.
broadcast_along_axis(v, ty, axis) ==
    CASE v.ty = ty /\ IsTensor(v) -> v
      [] IsScalar(v) \/ (v.ty # ty /\ element_count(v.ty) = 1) -> splat(v, ty)
      [] OTHER ->
           IF v.ty.elem = ty.elem /\ Rank(v.ty) + 1 = Rank(ty) /\ WithoutAxis(ty.shape, axis) = v.ty.shape
           THEN linalg_broadcast(v, ty, <<axis>>) ELSE Refused(ty)

coerce_to_kind(v, ty, kind) == IF kind = "Scalar" THEN coerce_to_scalar(v) ELSE broadcast(v, ty)

\* Operands coerced to a shape, and the kind they and the result have.
Coerced(operands, shape, kind) ==
    [k \in DOMAIN operands |-> coerce_to_kind(operands[k], Type(operands[k].ty.elem, shape), kind)]
KindOf(operands, shape) ==
    IF shape = << >> /\ \A k \in DOMAIN operands : IsScalar(operands[k]) THEN "Scalar" ELSE "Tensor"

emit_unary(name, v) == elementwise(<<v>>, v.ty, v.kind, LAMBDA e : math_op(name, e[1]))

\* The operands are stretched first, then the operation works on whole tensors.
ResultShape(operands) ==
    FoldLeft(LAMBDA shapes, v : UNION {broadcast_shape(s, v.ty.shape) : s \in shapes}, {<< >>}, operands)

append_op(name, operands, ty, kind) ==
    elementwise(Coerced(operands, ty.shape, kind), ty, kind, LAMBDA e : scalar_op(name, e[1], e[2]))

emit_binary(name, lhs, rhs) ==
    LET operands == <<lhs, rhs>>
        shapes == ResultShape(operands)
        shape == CHOOSE s \in shapes : TRUE
    IN IF shapes = {} \/ lhs.ty.elem # rhs.ty.elem THEN Refused(lhs.ty)
       ELSE append_op(name, operands, Type(lhs.ty.elem, shape), KindOf(operands, shape))

\* The float and the integer operation of each call.
Operations == [Add |-> <<"arith.addf", "arith.addi">>, Sub |-> <<"arith.subf", "arith.subi">>,
               Mul |-> <<"arith.mulf", "arith.muli">>, Div |-> <<"arith.divf", "arith.divsi">>,
               Minimum |-> <<"arith.minimumf", "arith.minsi">>,
               Maximum |-> <<"arith.maximumf", "arith.maxsi">>]

\* The form of an operation is chosen by the operand that has a shape.
named(op, lhs, rhs) ==
    LET elem == IF Rank(lhs.ty) = 0 THEN rhs.ty.elem ELSE lhs.ty.elem
    IN Operations[op][IF IsFloat(elem) THEN 1 ELSE 2]

binary_value(op, lhs, rhs) == emit_binary(named(op, lhs, rhs), lhs, rhs)
minimum(lhs, rhs) == binary_value("Minimum", lhs, rhs)
maximum(lhs, rhs) == binary_value("Maximum", lhs, rhs)

\* emit_elementwise_*: a scalar operation of rank 0, a linalg.generic otherwise.
append_generic(operands, ty, kind, Body(_)) ==
    IF Rank(ty) = 0 THEN elementwise(operands, ty, kind, Body)
    ELSE linalg_map(operands, [k \in DOMAIN operands |-> Ascending(Rank(ty))], ty, Body)

emit_elementwise(ty, operands, Body(_)) ==
    LET kind == KindOf(operands, ty.shape)
    IN append_generic(Coerced(operands, ty.shape, kind), ty, kind, Body)

\* The predicates of each comparison, of floats and of integers.
Predicates == [Greater |-> <<"ogt", "sgt">>, GreaterEqual |-> <<"oge", "sge">>,
               Less |-> <<"olt", "slt">>, LessEqual |-> <<"ole", "sle">>,
               Equal |-> <<"oeq", "eq">>, NotEqual |-> <<"une", "ne">>]

comparison(op, lhs, rhs) ==
    LET shape == CHOOSE s \in ResultShape(<<lhs, rhs>>) : TRUE
        predicate == Predicates[op][IF IsFloat(lhs.ty.elem) THEN 1 ELSE 2]
    IN emit_elementwise(Type("bool", shape), <<lhs, rhs>>,
                        LAMBDA e : compare(predicate, e[1], e[2]))

isnan(v) ==
    emit_elementwise(Type("bool", v.ty.shape), <<v, v>>, LAMBDA e : compare("uno", e[1], e[2]))

logical_binary(name, lhs, rhs) ==
    emit_elementwise(Type(lhs.ty.elem, CHOOSE s \in ResultShape(<<lhs, rhs>>) : TRUE), <<lhs, rhs>>,
                     LAMBDA e : scalar_op(name, e[1], e[2]))

logical_not(v) == logical_binary("arith.xori", v, broadcast(constant(1, "bool"), v.ty))

where_select(condition, true_value, false_value) ==
    LET shape == CHOOSE s \in ResultShape(<<true_value, false_value, condition>>) : TRUE
    IN emit_elementwise(Type(true_value.ty.elem, shape),
                        Coerced(<<condition, true_value, false_value>>, shape, "Tensor"),
                        LAMBDA e : IF e[1] = 1 THEN e[2] ELSE e[3])

================================================================================
