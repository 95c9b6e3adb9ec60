------------------------------ MODULE ShapeRules ------------------------------
(***************************************************************************)
(* The rules of knok-core (ops/) that give the types of a call's results.  *)
(*                                                                         *)
(* A Result is a set: the empty set is the error, {ty} is Ok(ty).  A rule  *)
(* that can refuse for several reasons refuses all the same; which message *)
(* it gives is left out.  Axes and dimensions are counted from 0 as in the *)
(* code; an AxisSpec or an optional axis is a sequence, empty for "all" or *)
(* for "the default".                                                      *)
(***************************************************************************)
EXTENDS Integers, SequencesExt

Floats == {"f32", "f64", "f16", "bf16"}
Numbers == Floats \cup {"i32", "i64"}
Elements == Numbers \cup {"bool"}

\* TensorType; its rank; one of its dimensions; its element_count.  SubSeq is
\* the whole shape, worked out once by TLC.
Type(elem, shape) == [elem |-> elem, shape |-> SubSeq(shape, 1, Len(shape))]
Rank(ty) == Len(ty.shape)
Dim(ty, axis) == ty.shape[axis + 1]
Product(dims) ==
    LET product[n \in 0..Len(dims)] == IF n = 0 THEN 1 ELSE product[n - 1] * dims[n]
    IN product[Len(dims)]
element_count(ty) == Product(ty.shape)

\* Ok(result) when the rule accepts.
Ok(accepts, result) == IF accepts THEN {result} ELSE {}

\* expect_axis; the shape without one axis, with one more, with another size.
HasAxis(ty, axis) == axis < Rank(ty)
WithoutAxis(shape, axis) == RemoveAt(shape, axis + 1)
WithAxis(shape, axis, size) == InsertAt(shape, axis + 1, size)
Resized(shape, axis, size) == ReplaceAt(shape, axis + 1, size)

\* dim_from_trailing of every axis: a shape of the given rank, aligned at its end.
Aligned(shape, rank) ==
    [d \in 1..rank |-> IF d <= rank - Len(shape) THEN 1 ELSE shape[d - (rank - Len(shape))]]

MaxRank(lhs, rhs) == IF Len(lhs) > Len(rhs) THEN Len(lhs) ELSE Len(rhs)

\* broadcast_shape_slices: the shape two shapes stretch to.
broadcast_shape(lhs, rhs) ==
    LET rank == MaxRank(lhs, rhs)
        l == Aligned(lhs, rank)
        r == Aligned(rhs, rank)
    IN Ok(\A d \in 1..rank : l[d] = r[d] \/ l[d] = 1 \/ r[d] = 1,
          [d \in 1..rank |-> IF l[d] = 1 THEN r[d] ELSE l[d]])

\* A result of the elements "elem" in the shape two types stretch to.
Stretched(elem, lhs, rhs) ==
    {Type(elem, shape) : shape \in broadcast_shape(lhs.shape, rhs.shape)}

(***************************************************************************)
(* Elementwise calls.                                                      *)
(***************************************************************************)
NumericUnary == {"Neg", "Abs", "Reciprocal", "Square"}
FloatUnary == {"Ceil", "Cos", "Exp", "Exp2", "ExpM1", "Floor", "Log", "Log1P", "Log2",
               "Log10", "Relu", "Rint", "Round", "Sigmoid", "Sin", "Sqrt", "Tan", "Tanh"}
Copies == {"Detach", "OnesLike", "ZerosLike"}
Unary == NumericUnary \cup FloatUnary \cup Copies \cup {"IsNan", "LogicalNot"}

unary_result(op, ty) ==
    CASE op \in NumericUnary -> Ok(ty.elem \in Numbers, ty)
      [] op \in FloatUnary -> Ok(ty.elem \in Floats, ty)
      [] op = "IsNan" -> Ok(ty.elem \in Floats, Type("bool", ty.shape))
      [] op = "LogicalNot" -> Ok(ty.elem = "bool", ty)
      [] op \in Copies -> {ty}

Arithmetic == {"Add", "Sub", "Mul", "Div", "Minimum", "Maximum"}
Ordering == {"Greater", "GreaterEqual", "Less", "LessEqual"}
Equality == {"Equal", "NotEqual"}
Logical == {"LogicalAnd", "LogicalOr", "LogicalXor"}
Binary == Arithmetic \cup Ordering \cup Equality \cup Logical \cup {"Pow"}

\* The elements each kind of binary call takes, and those it gives.
binary_result(op, lhs, rhs) ==
    LET operands == CASE op \in Arithmetic \cup Ordering -> Numbers
                      [] op = "Pow" -> Floats
                      [] op \in Equality -> Elements
                      [] op \in Logical -> {"bool"}
        elem == IF op \in Arithmetic \cup {"Pow"} THEN lhs.elem ELSE "bool"
    IN IF lhs.elem \in operands /\ lhs.elem = rhs.elem
       THEN Stretched(elem, lhs, rhs) ELSE {}

clip_result(value, min, max) ==
    UNION {binary_result("Minimum", ty, max) : ty \in binary_result("Minimum", value, min)}

where_result(condition, lhs, rhs) ==
    IF condition.elem = "bool" /\ lhs.elem = rhs.elem
    THEN UNION {Stretched(lhs.elem, condition, ty) : ty \in Stretched(lhs.elem, lhs, rhs)}
    ELSE {}

\* validate_static_creation_target.
Creations == {"Arange", "Linspace", "Eye"}
IsVector(ty) == ty.elem \in Numbers /\ Rank(ty) = 1
IsSquare(ty) == Rank(ty) = 2 /\ ty.shape[1] = ty.shape[2]
creation_result(c) == Ok(IF c.op = "Eye" THEN IsSquare(c.target) ELSE IsVector(c.target), c.target)

full_like_result(input, fill) == Ok(Rank(fill) = 0 /\ input.elem = fill.elem, input)

(***************************************************************************)
(* Reductions over all axes (an empty AxisSpec) or over one.               *)
(***************************************************************************)
reduction_shape(shape, axis) == IF axis = << >> THEN << >> ELSE WithoutAxis(shape, axis[1])
InRank(ty, axis) == axis = << >> \/ HasAxis(ty, axis[1])

\* expect_non_empty_reduction.
NonEmpty(ty, axis) ==
    IF axis = << >> THEN element_count(ty) # 0 ELSE Dim(ty, axis[1]) # 0

\* The elements a reduction takes; whether it needs one; the elements it gives.
Reduces == [All |-> {"bool"}, Any |-> {"bool"}, Sum |-> Numbers, Prod |-> Numbers,
            Ptp |-> Numbers, Mean |-> Floats, Std |-> Floats, Var |-> Floats,
            Max |-> Elements, Min |-> Elements, Argmax |-> Elements, Argmin |-> Elements]
TakesEmpty == {"All", "Any", "Sum", "Prod"}
Positions == {"Argmax", "Argmin"}

reduction_result(op, ty, axis) ==
    IF /\ ty.elem \in Reduces[op]
       /\ InRank(ty, axis)
       /\ op \in TakesEmpty \/ NonEmpty(ty, axis)
    THEN {Type(IF op \in Positions THEN "i64" ELSE ty.elem, reduction_shape(ty.shape, axis))}
    ELSE {}

softmax_result(ty, axis) ==
    Ok(ty.elem \in Floats /\ Rank(ty) > 0 /\ InRank(ty, axis) /\ NonEmpty(ty, axis), ty)

(***************************************************************************)
(* Moving axes.                                                            *)
(***************************************************************************)
IsPermutation(axes, rank) ==
    Len(axes) = rank /\ ToSet(axes) = 0..rank - 1

Permuted(shape, axes) == [d \in DOMAIN axes |-> shape[axes[d] + 1]]
Ascending(rank) == [d \in 1..rank |-> d - 1]

\* swap and remove/insert on 0..rank, of swapaxes and of moveaxis_permutation.
SwappedAxes(rank, axis0, axis1) ==
    [d \in 1..rank |-> CASE d = axis0 + 1 -> axis1
                         [] d = axis1 + 1 /\ axis0 # axis1 -> axis0
                         [] OTHER -> d - 1]
MovedAxes(rank, source, destination) ==
    InsertAt(RemoveAt(Ascending(rank), source + 1), destination + 1, source)

permute_dims_result(ty, axes) ==
    Ok(IsPermutation(axes, Rank(ty)), Type(ty.elem, Permuted(ty.shape, axes)))

transpose_result(ty, axes) ==
    IF axes = << >> THEN {Type(ty.elem, Reverse(ty.shape))} ELSE permute_dims_result(ty, axes)

validate_permute(ty, target, axes) ==
    Ok(/\ IsPermutation(axes, Rank(ty))
       /\ target = Type(ty.elem, Permuted(ty.shape, axes)), target)

swapaxes_result(ty, axis0, axis1) ==
    IF HasAxis(ty, axis0) /\ HasAxis(ty, axis1)
    THEN permute_dims_result(ty, SwappedAxes(Rank(ty), axis0, axis1)) ELSE {}

moveaxis_result(ty, source, destination) ==
    IF HasAxis(ty, source) /\ HasAxis(ty, destination)
    THEN permute_dims_result(ty, MovedAxes(Rank(ty), source, destination)) ELSE {}

(***************************************************************************)
(* Changing the shape.                                                     *)
(***************************************************************************)
WithoutSingletons(shape) == SelectSeq(shape, LAMBDA dim : dim # 1)

reshape_result(ty, target) ==
    Ok(ty.elem = target.elem /\ element_count(ty) = element_count(target), target)

\* Only that the two shapes have a common one: not that it is the target.
broadcast_result(ty, target) ==
    Ok(ty.elem = target.elem /\ broadcast_shape(ty.shape, target.shape) # {}, target)

validate_squeeze(ty, target) ==
    Ok(ty.elem = target.elem /\ WithoutSingletons(ty.shape) = target.shape, target)

validate_unsqueeze(ty, target) ==
    LET input == IF ty.shape = <<1>> THEN << >> ELSE ty.shape
    IN Ok(ty.elem = target.elem /\ WithoutSingletons(target.shape) \in {ty.shape, input}, target)

validate_slice(ty, target, starts) ==
    Ok(/\ ty.elem = target.elem
       /\ Rank(ty) = Rank(target) /\ Len(starts) = Rank(ty)
       /\ \A d \in DOMAIN starts : starts[d] + target.shape[d] <= ty.shape[d], target)

validate_pad(ty, target, lows) ==
    Ok(/\ ty.elem = target.elem
       /\ Rank(ty) = Rank(target) /\ Len(lows) = Rank(ty)
       /\ \A d \in DOMAIN lows : ty.shape[d] + lows[d] <= target.shape[d], target)

flip_result(ty, axes) ==
    Ok(\A i \in DOMAIN axes : HasAxis(ty, axes[i]) /\ \A j \in DOMAIN axes : axes[i] = axes[j] => i = j,
       ty)

roll_result(ty, axis) == Ok(HasAxis(ty, axis), ty)

concat_result(lhs, rhs, axis) ==
    IF /\ lhs.elem = rhs.elem /\ Rank(lhs) = Rank(rhs) /\ HasAxis(lhs, axis)
       /\ WithoutAxis(lhs.shape, axis) = WithoutAxis(rhs.shape, axis)
    THEN {Type(lhs.elem, Resized(lhs.shape, axis, Dim(lhs, axis) + Dim(rhs, axis)))}
    ELSE {}

stack_result(lhs, rhs, axis) ==
    IF lhs = rhs /\ axis <= Rank(lhs) THEN {Type(lhs.elem, WithAxis(lhs.shape, axis, 2))} ELSE {}

tile_result(ty, multiples) ==
    IF Len(multiples) = Rank(ty)
    THEN {Type(ty.elem, [d \in DOMAIN multiples |-> ty.shape[d] * multiples[d]])} ELSE {}

repeat_result(ty, axis, count) ==
    IF HasAxis(ty, axis) THEN {Type(ty.elem, Resized(ty.shape, axis, Dim(ty, axis) * count))} ELSE {}

\* The one rule with several results.
split_results(ty, axis, sections) ==
    IF HasAxis(ty, axis) /\ FoldLeft(+, 0, sections) = Dim(ty, axis)
    THEN {[i \in DOMAIN sections |-> Type(ty.elem, Resized(ty.shape, axis, sections[i]))]} ELSE {}

(***************************************************************************)
(* Taking elements by position.                                            *)
(***************************************************************************)
IndexElements == {"i32", "i64"}

take_result(ty, axis, index) ==
    IF HasAxis(ty, axis) /\ index < Dim(ty, axis)
    THEN {Type(ty.elem, WithoutAxis(ty.shape, axis))} ELSE {}

\* Input prefix, index shape, input suffix.
gather_shape(shape, indices, axis) ==
    SubSeq(shape, 1, axis) \o indices \o SubSeq(shape, axis + 2, Len(shape))

gather_result(ty, indices, target, axis) ==
    Ok(/\ HasAxis(ty, axis) /\ indices.elem \in IndexElements
       /\ target = Type(ty.elem, gather_shape(ty.shape, indices.shape, axis)), target)

take_along_axis_result(ty, indices, axis) ==
    IF /\ HasAxis(ty, axis) /\ indices.elem \in IndexElements /\ Rank(ty) = Rank(indices)
       /\ WithoutAxis(ty.shape, axis) = WithoutAxis(indices.shape, axis)
    THEN {Type(ty.elem, indices.shape)} ELSE {}

(***************************************************************************)
(* Contractions.                                                           *)
(***************************************************************************)
MAX_TENSOR_RANK == 6
SameNumbers(lhs, rhs) == lhs.elem = rhs.elem /\ lhs.elem \in Numbers

Batch(shape) == SubSeq(shape, 1, Len(shape) - 2)
\* The dimensions a matmul operand brings to the result: a vector brings none.
Rows(shape) == IF Len(shape) = 1 THEN << >> ELSE <<shape[Len(shape) - 1]>>
Columns(shape) == IF Len(shape) = 1 THEN << >> ELSE <<shape[Len(shape)]>>
LhsInner(shape) == shape[Len(shape)]
RhsInner(shape) == IF Len(shape) = 1 THEN shape[1] ELSE shape[Len(shape) - 1]

matmul_shape(lhs, rhs) ==
    {batch \o Rows(lhs) \o Columns(rhs) : batch \in broadcast_shape(Batch(lhs), Batch(rhs))}

matmul_result(lhs, rhs) ==
    IF /\ SameNumbers(lhs, rhs)
       /\ Rank(lhs) \in 1..MAX_TENSOR_RANK /\ Rank(rhs) \in 1..MAX_TENSOR_RANK
       /\ LhsInner(lhs.shape) = RhsInner(rhs.shape)
    THEN {Type(lhs.elem, shape) : shape \in {s \in matmul_shape(lhs.shape, rhs.shape) :
                                               Len(s) <= MAX_TENSOR_RANK}}
    ELSE {}

vecdot_axis(ty, axis) == IF axis = << >> THEN Rank(ty) - 1 ELSE axis[1]
vecdot_result(lhs, rhs, axis) ==
    IF /\ SameNumbers(lhs, rhs) /\ Rank(lhs) > 0 /\ lhs.shape = rhs.shape
       /\ HasAxis(lhs, vecdot_axis(lhs, axis))
    THEN {Type(lhs.elem, WithoutAxis(lhs.shape, vecdot_axis(lhs, axis)))} ELSE {}

inner_result(lhs, rhs) ==
    CASE ~SameNumbers(lhs, rhs) -> {}
      [] SameNumbers(lhs, rhs) /\ Rank(lhs) = 0 -> {rhs}
      [] SameNumbers(lhs, rhs) /\ Rank(lhs) > 0 /\ Rank(rhs) = 0 -> {lhs}
      [] OTHER -> LET shape == Front(lhs.shape) \o Front(rhs.shape)
                  IN Ok(Last(lhs.shape) = Last(rhs.shape) /\ Len(shape) <= MAX_TENSOR_RANK,
                        Type(lhs.elem, shape))

dot_result(lhs, rhs) ==
    IF Rank(lhs) = 1 /\ Rank(rhs) = 1 THEN inner_result(lhs, rhs) ELSE {}

outer_result(lhs, rhs) ==
    Ok(SameNumbers(lhs, rhs), Type(lhs.elem, <<element_count(lhs), element_count(rhs)>>))

\* default_axis_pair, and remove_axes_shape.
axis_pair(ty, axes) == IF axes = << >> THEN <<Rank(ty) - 2, Rank(ty) - 1>> ELSE axes
IsDiagonal(ty, pair) ==
    /\ Rank(ty) >= 2 /\ HasAxis(ty, pair[1]) /\ HasAxis(ty, pair[2]) /\ pair[1] # pair[2]
    /\ Dim(ty, pair[1]) = Dim(ty, pair[2])
WithoutAxes(shape, pair) ==
    LET kept == SelectSeq(Ascending(Len(shape)), LAMBDA axis : axis \notin ToSet(pair))
    IN Permuted(shape, kept)

diagonal_result(ty, axes) ==
    LET pair == axis_pair(ty, axes)
    IN IF IsDiagonal(ty, pair)
       THEN {Type(ty.elem, Append(WithoutAxes(ty.shape, pair), Dim(ty, pair[1])))} ELSE {}

trace_result(ty, axes) ==
    LET pair == axis_pair(ty, axes)
    IN IF ty.elem \in Numbers /\ IsDiagonal(ty, pair)
       THEN {Type(ty.elem, WithoutAxes(ty.shape, pair))} ELSE {}

(***************************************************************************)
(* Windows: NHWC input, [top, bottom, left, right] padding.                *)
(***************************************************************************)
effective(kernel, dilation) == (kernel - 1) * dilation + 1
window_count(padded, kernel, stride, dilation) ==
    (padded - effective(kernel, dilation)) \div stride + 1

\* The input's height and width after padding.
padded_size(ty, options) ==
    <<Dim(ty, 1) + options.padding[1] + options.padding[2],
      Dim(ty, 2) + options.padding[3] + options.padding[4]>>

WindowFits(ty, kernel, options) ==
    /\ \A d \in 1..2 : kernel[d] > 0 /\ options.stride[d] > 0 /\ options.dilation[d] > 0
    /\ \A d \in 1..2 : effective(kernel[d], options.dilation[d]) <= padded_size(ty, options)[d]

window_shape(ty, kernel, options, channels) ==
    LET count(d) == window_count(padded_size(ty, options)[d], kernel[d],
                                 options.stride[d], options.dilation[d])
    IN <<Dim(ty, 0), count(1), count(2), channels>>

conv2d_result(ty, kernel, options) ==
    IF /\ Rank(ty) = 4 /\ Rank(kernel) = 4 /\ SameNumbers(ty, kernel)
       /\ options.groups > 0
       /\ Product(kernel.shape) # 0 /\ Dim(ty, 3) # 0
       /\ Dim(ty, 3) % options.groups = 0 /\ Dim(kernel, 3) % options.groups = 0
       /\ Dim(kernel, 2) = Dim(ty, 3) \div options.groups
       /\ WindowFits(ty, SubSeq(kernel.shape, 1, 2), options)
    THEN {Type(ty.elem, window_shape(ty, SubSeq(kernel.shape, 1, 2), options, Dim(kernel, 3)))}
    ELSE {}

pool2d_result(ty, options) ==
    IF /\ Rank(ty) = 4 /\ ty.elem \in Numbers
       /\ Dim(ty, 0) # 0 /\ Dim(ty, 3) # 0
       /\ WindowFits(ty, options.kernel, options)
    THEN {Type(ty.elem, window_shape(ty, options.kernel, options, Dim(ty, 3)))}
    ELSE {}

(***************************************************************************)
(* infer_call_results: the sequence of result types of a call.             *)
(***************************************************************************)
ArityOne == Unary \cup DOMAIN Reduces \cup
    {"Softmax", "Transpose", "PermuteDims", "Permute", "SwapAxes", "MoveAxis", "Reshape",
     "Broadcast", "Squeeze", "Unsqueeze", "Slice", "Pad", "Flip", "Roll", "Tile", "Repeat",
     "Split", "Take", "Diagonal", "Trace", "MaxPool2d", "AvgPool2d"}
ArityThree == {"Clip", "Where"}
Arity(op) ==
    CASE op \in Creations -> 0
      [] op \in ArityOne -> 1
      [] op \in ArityThree -> 3
      [] OTHER -> 2

infer_shape_change(c, ty) ==
    CASE c.op = "Transpose" -> transpose_result(ty, c.axes)
      [] c.op = "PermuteDims" -> permute_dims_result(ty, c.axes)
      [] c.op = "Permute" -> validate_permute(ty, c.target, c.axes)
      [] c.op = "SwapAxes" -> swapaxes_result(ty, c.axis0, c.axis1)
      [] c.op = "MoveAxis" -> moveaxis_result(ty, c.source, c.destination)
      [] c.op = "Reshape" -> reshape_result(ty, c.target)
      [] c.op = "Broadcast" -> broadcast_result(ty, c.target)
      [] c.op = "Squeeze" -> validate_squeeze(ty, c.target)
      [] c.op = "Unsqueeze" -> validate_unsqueeze(ty, c.target)
      [] c.op = "Slice" -> validate_slice(ty, c.target, c.starts)
      [] c.op = "Pad" -> validate_pad(ty, c.target, c.lows)
      [] c.op = "Flip" -> flip_result(ty, c.axes)
      [] c.op = "Roll" -> roll_result(ty, c.axis)
      [] c.op = "Tile" -> tile_result(ty, c.multiples)
      [] c.op = "Repeat" -> repeat_result(ty, c.axis, c.count)
      [] c.op = "Take" -> take_result(ty, c.axis, c.index)
      [] c.op = "Diagonal" -> diagonal_result(ty, c.axes)
      [] c.op = "Trace" -> trace_result(ty, c.axes)
      [] c.op = "MaxPool2d" -> pool2d_result(ty, c)
      [] c.op = "AvgPool2d" -> IF ty.elem \in Floats THEN pool2d_result(ty, c) ELSE {}

infer_of_two(c, lhs, rhs) ==
    CASE c.op \in Binary -> binary_result(c.op, lhs, rhs)
      [] c.op = "FullLike" -> full_like_result(lhs, rhs)
      [] c.op = "Concat" -> concat_result(lhs, rhs, c.axis)
      [] c.op = "Stack" -> stack_result(lhs, rhs, c.axis)
      [] c.op = "Gather" -> gather_result(lhs, rhs, c.target, c.axis)
      [] c.op = "TakeAlongAxis" -> take_along_axis_result(lhs, rhs, c.axis)
      [] c.op = "Matmul" -> matmul_result(lhs, rhs)
      [] c.op = "Dot" -> dot_result(lhs, rhs)
      [] c.op = "Vecdot" -> vecdot_result(lhs, rhs, c.axes)
      [] c.op = "Inner" -> inner_result(lhs, rhs)
      [] c.op = "Outer" -> outer_result(lhs, rhs)
      [] c.op = "Conv2d" -> conv2d_result(lhs, rhs, c)

infer_call_result(c, args) ==
    CASE Len(args) # Arity(c.op) -> {}
      [] Len(args) = 0 /\ c.op \in Creations -> creation_result(c)
      [] Len(args) = Arity(c.op) /\ c.op \in Unary -> unary_result(c.op, args[1])
      [] Len(args) = Arity(c.op) /\ c.op \in DOMAIN Reduces -> reduction_result(c.op, args[1], c.over)
      [] Len(args) = Arity(c.op) /\ c.op = "Softmax" -> softmax_result(args[1], c.over)
      [] Len(args) = Arity(c.op) /\ c.op = "Clip" -> clip_result(args[1], args[2], args[3])
      [] Len(args) = Arity(c.op) /\ c.op = "Where" -> where_result(args[1], args[2], args[3])
      [] Len(args) = Arity(c.op) /\ Len(args) = 2 -> infer_of_two(c, args[1], args[2])
      [] OTHER -> infer_shape_change(c, args[1])

infer_call_results(c, args) ==
    IF c.op = "Split"
    THEN IF Len(args) = 1 THEN split_results(args[1], c.axis, c.sections) ELSE {}
    ELSE {<<ty>> : ty \in infer_call_result(c, args)}

===============================================================================
