-------------------------------- MODULE Kernels --------------------------------
(***************************************************************************)
(* lower_call of knok-compile (lowering/lowerer.rs): which kernel lowers   *)
(* each call, with which operations and constants.                         *)
(***************************************************************************)
EXTENDS Contractions

\* The elements that stand for the natural logarithms of 2 and of 10.
Ln2 == 4
Ln10 == 9

MathNames == [Ceil |-> "ceil", Cos |-> "cos", Exp |-> "exp", ExpM1 |-> "expm1", Floor |-> "floor",
              Log |-> "log", Log1P |-> "log1p", Rint |-> "roundeven", Round |-> "roundeven",
              Sin |-> "sin", Sqrt |-> "sqrt", Tan |-> "tan", Tanh |-> "tanh"]

\* Calls that are one binary operation: which, and on what.
AsBinary(op, v) ==
    CASE op = "Neg" -> <<"Sub", zero_like(v.ty), v>>
      [] op = "Reciprocal" -> <<"Div", one_like(v.ty), v>>
      [] op = "Square" -> <<"Mul", v, v>>
      [] op = "Exp2" -> <<"Mul", v, constant(Ln2, v.ty.elem)>>
      [] op = "Log2" -> <<"Div", emit_unary("log", v), constant(Ln2, v.ty.elem)>>
      [] op = "Log10" -> <<"Div", emit_unary("log", v), constant(Ln10, v.ty.elem)>>
      [] op = "Relu" -> <<"Maximum", zero_like(v.ty), v>>
emit_as_binary(b) == binary_value(b[1], b[2], b[3])

lower_unary(op, v) ==
    CASE op \in DOMAIN MathNames -> emit_unary(MathNames[op], v)
      [] op = "Abs" -> emit_unary(IF IsFloat(v.ty.elem) THEN "absf" ELSE "absi", v)
      [] op \in {"Neg", "Reciprocal", "Square", "Log2", "Log10", "Relu"} -> emit_as_binary(AsBinary(op, v))
      [] op = "Exp2" -> emit_unary("exp", emit_as_binary(AsBinary(op, v)))
      [] op = "Sigmoid" -> sigmoid(v)
      [] op = "IsNan" -> isnan(v)
      [] op = "LogicalNot" -> logical_not(v)
      [] op = "Detach" -> v
      [] op = "OnesLike" -> one_like(v.ty)
      [] op = "ZerosLike" -> zero_like(v.ty)

Connectives == [LogicalAnd |-> "arith.andi", LogicalOr |-> "arith.ori", LogicalXor |-> "arith.xori"]

lower_binary(op, lhs, rhs) ==
    CASE op \in DOMAIN Operations -> binary_value(op, lhs, rhs)
      [] op = "Pow" -> emit_binary("math.powf", lhs, rhs)
      [] op \in DOMAIN Predicates -> comparison(op, lhs, rhs)
      [] op \in DOMAIN Connectives -> logical_binary(Connectives[op], lhs, rhs)

\* Mutant: an empty interval clamps to its upper end.
clip_LowFirst(v, low, high) == minimum(maximum(v, low), high)

clip(v, low, high) == maximum(minimum(v, high), low)

lower_reduction(op, v, axis) ==
    CASE op = "Sum" -> sum(v, axis)
      [] op = "Prod" -> prod(v, axis)
      [] op = "All" -> all(v, axis)
      [] op = "Any" -> any(v, axis)
      [] op = "Max" -> max(v, axis)
      [] op = "Min" -> min(v, axis)
      [] op = "Mean" -> mean(v, axis)
      [] op = "Var" -> var(v, axis)
      [] op = "Std" -> std(v, axis)
      [] op = "Ptp" -> ptp(v, axis)
      [] op = "Argmax" -> arg_extreme("Max", v, axis)
      [] op = "Argmin" -> arg_extreme("Min", v, axis)

lower_move(c, v) ==
    CASE c.op = "Transpose" -> transpose(v, c.axes)
      [] c.op = "PermuteDims" -> permute_dims(v, c.axes)
      [] c.op = "Permute" -> permute(v, c.target, c.axes)
      [] c.op = "SwapAxes" -> swapaxes(v, c.axis0, c.axis1)
      [] c.op = "MoveAxis" -> moveaxis(v, c.source, c.destination)
      [] c.op \in {"Reshape", "Squeeze", "Unsqueeze"} -> reshape(v, c.target)
      [] c.op = "Broadcast" -> broadcast(v, c.target)
      [] c.op = "Slice" -> slice(v, c.target, c.starts)
      [] c.op = "Pad" -> pad(v, c.target, c.lows)
      [] c.op = "Flip" -> flip(v, c.axes)
      [] c.op = "Roll" -> roll(v, c.axis, c.shift)
      [] c.op = "Tile" -> tile(v, c.multiples)
      [] c.op = "Repeat" -> repeat(v, c.axis, c.count)
      [] c.op = "Take" -> take(v, c.axis, c.index)
      [] c.op = "Diagonal" -> diagonal(v, c.axes)
      [] c.op = "Trace" -> trace(v, c.axes)
      [] c.op = "MaxPool2d" -> max_pool2d(v, c)
      [] c.op = "AvgPool2d" -> avg_pool2d(v, c)

\* The type checker has found that there are literals.
lower_creation(c) == dense_constant(c.target, CHOOSE literals \in static_literals(c) : TRUE)

lower_of_two(c, lhs, rhs) ==
    CASE c.op \in Binary -> lower_binary(c.op, lhs, rhs)
      [] c.op = "FullLike" -> splat(rhs, lhs.ty)
      [] c.op = "Concat" -> concat(lhs, rhs, c.axis)
      [] c.op = "Stack" -> stack(lhs, rhs, c.axis)
      [] c.op = "Gather" -> gather(lhs, rhs, c.axis, c.target)
      [] c.op = "TakeAlongAxis" -> take_along_axis(lhs, rhs, c.axis)
      [] c.op = "Matmul" -> matmul(lhs, rhs)
      [] c.op \in {"Dot", "Inner"} -> inner(lhs, rhs)
      [] c.op = "Vecdot" -> vecdot(lhs, rhs, c.axes)
      [] c.op = "Outer" -> outer(lhs, rhs)
      [] c.op = "Conv2d" -> conv2d(lhs, rhs, c)

\* The call of an accepted program: the type checker has counted its arguments.
lower_call(c, args) ==
    CASE c.op \in Creations -> lower_creation(c)
      [] c.op \in Unary -> lower_unary(c.op, args[1])
      [] c.op \in DOMAIN Reduces -> lower_reduction(c.op, args[1], c.over)
      [] c.op = "Softmax" -> softmax(args[1], c.over)
      [] c.op = "Clip" -> clip(args[1], args[2], args[3])
      [] c.op = "Where" -> where_select(args[1], args[2], args[3])
      [] Arity(c.op) = 2 -> lower_of_two(c, args[1], args[2])
      [] OTHER -> lower_move(c, args[1])

lower_call_values(c, args) ==
    IF c.op = "Split" THEN split(args[1], c.axis, c.sections) ELSE <<lower_call(c, args)>>

\* output_value: what a graph returns is a tensor of the type its signature says.
output_value(v, output) ==
    CASE v.ty # output -> Refused(output)
      [] v.ty = output /\ IsTensor(v) -> v
      [] v.ty = output /\ IsScalar(v) -> IF Rank(output) = 0 THEN splat(v, output) ELSE Refused(output)

================================================================================
