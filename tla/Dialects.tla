------------------------------- MODULE Dialects -------------------------------
(***************************************************************************)
(* The MLIR operations that lowering emits, as functions of tensors: what  *)
(* each computes and what its verifier asks.  They are external to the     *)
(* repository and modelled as far as knok-compile uses them.               *)
(*                                                                         *)
(* An element is an integer.  Integers wrap at IntBits bits; the finite    *)
(* floats are the field of FieldSize elements, as many above 0 as below, in *)
(* which addition, products and quotients are exact, with one infinity at  *)
(* each end; the functions of the math dialect are arbitrary but different.*)
(* A Value says whether it is a scalar or a tensor and whether every       *)
(* operation it was computed with passes its verifier.                     *)
(***************************************************************************)
EXTENDS ShapeRules

FieldSize == 31
FieldMax == 15
FieldMin == -FieldMax
NegativeInfinity == FieldMin - 1
PositiveInfinity == FieldMax + 1
IntBits == 8
IntMin == -(2^(IntBits - 1))
IntMax == 2^(IntBits - 1) - 1

\* What an uninitialized element of a tensor.empty reads as: no element.
Undefined == 1000

(***************************************************************************)
(* arith and math.                                                         *)
(***************************************************************************)
Wrap(n) == ((n - IntMin) % 2^IntBits) + IntMin
Field(n) == ((n - FieldMin) % FieldSize) + FieldMin
Infinite == {NegativeInfinity, PositiveInfinity}

\* Quotients: of the field, and truncated; a division by zero is left at zero.
Inverses == [b \in 1..FieldSize - 1 |-> CHOOSE q \in 1..FieldSize - 1 : (q * b) % FieldSize = 1]
FieldQuotient(a, b) == IF b % FieldSize = 0 THEN 0 ELSE Field(a * Inverses[b % FieldSize])
Magnitude(n) == IF n < 0 THEN -n ELSE n
Truncated(a, b) ==
    IF b = 0 THEN 0
    ELSE LET q == Magnitude(a) \div Magnitude(b) IN IF (a < 0) = (b < 0) THEN q ELSE -q
Lesser(a, b) == IF a < b THEN a ELSE b
Greater(a, b) == IF a < b THEN b ELSE a

scalar_op(name, a, b) ==
    CASE name = "arith.addf" -> Field(a + b)
      [] name = "arith.subf" -> Field(a - b)
      [] name = "arith.mulf" -> Field(a * b)
      [] name = "arith.divf" -> FieldQuotient(a, b)
      [] name = "math.powf" -> Field(a * a + 5 * b + 3 * a * b + 1)
      [] name = "arith.addi" -> Wrap(a + b)
      [] name = "arith.subi" -> Wrap(a - b)
      [] name = "arith.muli" -> Wrap(a * b)
      [] name = "arith.divsi" -> Wrap(Truncated(a, b))
      [] name \in {"arith.maximumf", "arith.maxsi", "arith.ori"} -> Greater(a, b)
      [] name \in {"arith.minimumf", "arith.minsi", "arith.andi"} -> Lesser(a, b)
      [] name = "arith.xori" -> (a + b) % 2

\* A predicate of cmpf or cmpi holds (1) or not (0).
compare(predicate, a, b) ==
    LET holds == CASE predicate \in {"ogt", "sgt", "ugt"} -> a > b
                   [] predicate \in {"oge", "sge"} -> a >= b
                   [] predicate \in {"olt", "slt", "ult"} -> a < b
                   [] predicate \in {"ole", "sle"} -> a <= b
                   [] predicate \in {"oeq", "eq"} -> a = b
                   [] predicate \in {"une", "ne"} -> a # b
                   [] predicate = "uno" -> FALSE
    IN IF holds THEN 1 ELSE 0

\* One polynomial for each function of the math dialect.
MathFunctions == [exp |-> 2, log |-> 3, sin |-> 5, cos |-> 7, tan |-> 11, tanh |-> 13, sqrt |-> 17,
                  expm1 |-> 19, log1p |-> 23, ceil |-> 29, floor |-> 0, roundeven |-> 6]
math_op(name, a) ==
    CASE name = "absi" -> Wrap(Magnitude(a))
      [] name = "absf" -> Magnitude(a)
      [] OTHER -> Field(MathFunctions[name] * a * a + 3 * a + MathFunctions[name])

(***************************************************************************)
(* Values and their elements.                                              *)
(***************************************************************************)
\* Every index of a shape, and its position in row-major order.
Indices(shape) ==
    FoldLeft(LAMBDA prefixes, dim : {Append(p, i) : p \in prefixes, i \in 0..dim - 1},
             {<< >>}, shape)
Position(shape, index) ==
    FoldLeft(LAMBDA n, d : n * shape[d] + index[d], 0, [d \in DOMAIN shape |-> d])
IndexAt(shape, position) ==
    [d \in DOMAIN shape |->
        (position \div Product(SubSeq(shape, d + 1, Len(shape)))) % shape[d]]

Value(ty, kind, at, ok) == [ty |-> ty, kind |-> kind, at |-> at, ok |-> ok]
Tensor(ty, ok, At(_)) == Value(ty, "Tensor", [i \in Indices(ty.shape) |-> At(i)], ok)
ScalarOf(elem, element, ok) == Value(Type(elem, << >>), "Scalar", << >> :> element, ok)
IsTensor(v) == v.kind = "Tensor"
IsScalar(v) == v.kind = "Scalar"
Element(v) == v.at[<< >>]

\* An operation of arith or math on operands of one kind and one shape.
elementwise(operands, ty, kind, Body(_)) ==
    LET fits == \A k \in DOMAIN operands : operands[k].ty.shape = ty.shape
        ok == fits /\ \A k \in DOMAIN operands : operands[k].ok /\ operands[k].kind = kind
    IN Value(ty, kind,
             [i \in Indices(ty.shape) |->
                 IF fits THEN Body([k \in DOMAIN operands |-> operands[k].at[i]]) ELSE Undefined],
             ok)

(***************************************************************************)
(* tensor.                                                                 *)
(***************************************************************************)
tensor_empty(ty) == Tensor(ty, TRUE, LAMBDA i : Undefined)

\* tensor.from_elements, or a linalg.generic that copies one scalar.
linalg_fill(scalar, ty) ==
    Tensor(ty, scalar.ok /\ IsScalar(scalar), LAMBDA i : Element(scalar))

tensor_extract(input, index) ==
    ScalarOf(input.ty.elem, input.at[index], input.ok /\ IsTensor(input))

tensor_extract_slice(input, ty, starts) ==
    LET fits == /\ Rank(ty) = Rank(input.ty)
                /\ \A d \in DOMAIN starts : starts[d] + ty.shape[d] <= input.ty.shape[d]
    IN Tensor(ty, input.ok /\ IsTensor(input) /\ fits,
              LAMBDA i : IF fits THEN input.at[[d \in DOMAIN i |-> i[d] + starts[d]]] ELSE Undefined)

\* Whether an index lies in the box of a shape put at the offsets.
InBox(i, offsets, shape) == \A d \in DOMAIN i : i[d] - offsets[d] \in 0..shape[d] - 1
Relative(i, offsets) == [d \in DOMAIN i |-> i[d] - offsets[d]]

tensor_insert_slice(source, dest, offsets) ==
    Tensor(dest.ty,
           /\ source.ok /\ dest.ok /\ IsTensor(source) /\ IsTensor(dest)
           /\ \A d \in DOMAIN offsets : offsets[d] + source.ty.shape[d] <= dest.ty.shape[d],
           LAMBDA i : IF InBox(i, offsets, source.ty.shape)
                      THEN source.at[Relative(i, offsets)] ELSE dest.at[i])

tensor_pad(input, ty, lows, highs, pad) ==
    Tensor(ty,
           /\ input.ok /\ IsTensor(input) /\ IsScalar(pad)
           /\ \A d \in DOMAIN lows : lows[d] + input.ty.shape[d] + highs[d] = ty.shape[d],
           LAMBDA i : IF InBox(i, lows, input.ty.shape)
                      THEN input.at[Relative(i, lows)] ELSE Element(pad))

\* A reassociation: groups of axes, in order and without a gap, whose sizes
\* multiply to the sizes of the collapsed shape.
Reassociates(groups, expanded, collapsed) ==
    /\ Len(groups) = Len(collapsed)
    /\ FlattenSeq(groups) = Ascending(Len(expanded))
    /\ \A g \in DOMAIN groups : groups[g] # << >> /\ Product(Permuted(expanded, groups[g])) = collapsed[g]

\* The same elements in row-major order, of tensor.expand_shape and collapse_shape.
Reassociated(input, ty, ok) ==
    Tensor(ty, input.ok /\ IsTensor(input) /\ ok,
           LAMBDA i : IF element_count(ty) = element_count(input.ty)
                      THEN input.at[IndexAt(input.ty.shape, Position(ty.shape, i))] ELSE Undefined)
tensor_expand_shape(input, ty, groups) ==
    Reassociated(input, ty, Reassociates(groups, ty.shape, input.ty.shape))
tensor_collapse_shape(input, ty, groups) ==
    Reassociated(input, ty, Reassociates(groups, input.ty.shape, ty.shape))

(***************************************************************************)
(* linalg.  An indexing map gives for each axis of an operand the loop that*)
(* runs over it, or Zero for the constant index 0.                         *)
(***************************************************************************)
Zero == -1
MapIndex(map, loop) == [d \in DOMAIN map |-> IF map[d] = Zero THEN 0 ELSE loop[map[d] + 1]]
Maps(map, shape, loops) ==
    /\ Len(map) = Len(shape)
    /\ \A d \in DOMAIN map : IF map[d] = Zero THEN shape[d] > 0 ELSE shape[d] = loops[map[d] + 1]

linalg_transpose(input, ty, axes) ==
    LET fits == IsPermutation(axes, Rank(input.ty)) /\ ty.shape = Permuted(input.ty.shape, axes)
        place(axis) == CHOOSE d \in DOMAIN axes : axes[d] = axis
    IN Tensor(ty, input.ok /\ IsTensor(input) /\ fits,
              LAMBDA i : IF fits THEN input.at[[d \in DOMAIN i |-> i[place(d - 1)]]] ELSE Undefined)

\* The dimensions are those of the result that the input does not have.
linalg_broadcast(input, ty, dimensions) ==
    LET kept == SelectSeq(Ascending(Rank(ty)), LAMBDA axis : axis \notin ToSet(dimensions))
        fits == Permuted(ty.shape, kept) = input.ty.shape
    IN Tensor(ty, input.ok /\ IsTensor(input) /\ fits,
              LAMBDA i : IF fits THEN input.at[Permuted(i, kept)] ELSE Undefined)

\* A generic without a reduction: the body applied to the operands' elements.
linalg_map(operands, maps, ty, Body(_)) ==
    LET fits == \A k \in DOMAIN operands : Maps(maps[k], operands[k].ty.shape, ty.shape)
    IN Tensor(ty,
              fits /\ \A k \in DOMAIN operands : operands[k].ok /\ IsTensor(operands[k]),
              LAMBDA i : IF fits THEN Body([k \in DOMAIN operands |-> operands[k].at[MapIndex(maps[k], i)]])
                                 ELSE Undefined)

\* A generic whose loops after the result's are reductions: Step folds the
\* elements, in row-major order of those loops, into the initial one.
linalg_reduce(operands, maps, ty, reduced, initial, Step(_, _)) ==
    LET loops == ty.shape \o reduced
        fits == \A k \in DOMAIN operands : Maps(maps[k], operands[k].ty.shape, loops)
        elements(i) ==
            [n \in 1..Product(reduced) |->
                [k \in DOMAIN operands |->
                    operands[k].at[MapIndex(maps[k], i \o IndexAt(reduced, n - 1))]]]
    IN Tensor(ty,
              fits /\ \A k \in DOMAIN operands : operands[k].ok /\ IsTensor(operands[k]),
              LAMBDA i : IF fits THEN FoldLeft(Step, initial, elements(i)) ELSE Undefined)

\* linalg.index as an operand: the position of a loop among the reduced ones.
linalg_index(reduced) ==
    Tensor(Type("i64", reduced), TRUE, LAMBDA i : Position(reduced, i))

\* linalg.conv_2d_nhwc_hwcf: a window over rows and columns, summed over channels.
linalg_conv_2d(input, kernel, ty, stride, dilation, Step(_, _)) ==
    LET k == kernel.ty.shape
        at(i, w) == <<i[1], i[2] * stride[1] + w[1] * dilation[1],
                      i[3] * stride[2] + w[2] * dilation[2], w[3]>>
        fits == /\ Rank(input.ty) = 4 /\ Len(k) = 4 /\ Rank(ty) = 4
                /\ input.ty.shape[1] = ty.shape[1] /\ input.ty.shape[4] = k[3] /\ ty.shape[4] = k[4]
                /\ \A d \in 1..2 :
                     (ty.shape[d + 1] - 1) * stride[d] + (k[d] - 1) * dilation[d] < input.ty.shape[d + 1]
        elements(i) == [n \in 1..k[1] * k[2] * k[3] |->
            LET w == IndexAt(SubSeq(k, 1, 3), n - 1)
            IN <<input.at[at(i, w)], kernel.at[w \o <<i[4]>>]>>]
    IN Tensor(ty, input.ok /\ kernel.ok /\ IsTensor(input) /\ IsTensor(kernel) /\ fits,
              LAMBDA i : IF fits THEN FoldLeft(Step, 0, elements(i)) ELSE Undefined)

===============================================================================
