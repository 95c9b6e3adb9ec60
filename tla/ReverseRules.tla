----------------------------- MODULE ReverseRules -----------------------------
(***************************************************************************)
(* The reverse rules of knok-core (autograd/reverse.rs and the helpers of  *)
(* autograd/mod.rs): the expressions that a node of a flattened graph adds *)
(* to the gradients of its arguments.                                      *)
(*                                                                         *)
(* A node is a name bound to a variable, a literal or a call of variables  *)
(* and literals.  A rule gives its contributions as a sequence of pairs, a *)
(* place among the arguments and an expression, or no such sequence.       *)
(***************************************************************************)
EXTENDS TypeCheck, Kernels

(***************************************************************************)
(* Expressions.                                                            *)
(***************************************************************************)
OpOf(op) == [op |-> op]
call1(op, e) == Call(OpOf(op), <<e>>)
binary(op, lhs, rhs) == Call(OpOf(op), <<lhs, rhs>>)
neg(e) == call1("Neg", e)
zeros_like(e) == call1("ZerosLike", e)
ones_like(e) == call1("OnesLike", e)
scalar(value, elem) == Const(Literal(elem, value))
select(condition, lhs, rhs) == Call(OpOf("Where"), <<condition, lhs, rhs>>)
reduced_over(op, axis, e) == Call([op |-> op, over |-> axis], <<e>>)
sum_axis(axis, e) == reduced_over("Sum", <<axis>>, e)
to_shape(ty, e) == Call([op |-> "Reshape", target |-> ty], <<e>>)
broadcast_to(ty, e) == Call([op |-> "Broadcast", target |-> ty], <<e>>)
slice_of(ty, starts, e) == Call([op |-> "Slice", target |-> ty, starts |-> starts], <<e>>)
pad_to(ty, lows, e) == Call([op |-> "Pad", target |-> ty, lows |-> lows], <<e>>)
reshape_if_needed(e, source, target) == IF source = target THEN e ELSE to_shape(target, e)
broadcast_if_needed(e, source, target) == IF source = target THEN e ELSE broadcast_to(target, e)
OffsetAt(rank, axis, offset) == [d \in 1..rank |-> IF d = axis + 1 THEN offset ELSE 0]

mask_grad(condition, grad) == select(condition, grad, zeros_like(grad))

\* push_sum, concat_all.
sum_of(terms) == FoldLeft(LAMBDA total, term : binary("Add", total, term), Head(terms), Tail(terms))
sum_or_zeros(terms, e) == IF terms = << >> THEN zeros_like(e) ELSE sum_of(terms)
concat_all(pieces, axis) ==
    FoldLeft(LAMBDA joined, piece : Call([op |-> "Concat", axis |-> axis], <<joined, piece>>),
             Head(pieces), Tail(pieces))

(***************************************************************************)
(* Reductions and broadcasts.                                              *)
(***************************************************************************)
\* A reduced value in the shape of the reduction's input.
expand_reduction_grad(grad, ty, input, axis) ==
    LET kept == IF axis = << >> THEN ty ELSE Type(ty.elem, WithAxis(ty.shape, axis[1], 1))
        expanded == IF axis = << >> THEN grad ELSE to_shape(kept, grad)
    IN broadcast_if_needed(expanded, kept, input)

\* Mutant: stretched dimensions are not summed, only missing axes.
unbroadcast_Prefix(grad, source, target) ==
    {reshape_if_needed(FoldLeft(LAMBDA e, axis : sum_axis(0, e), grad,
                                Ascending(Rank(source) - Rank(target))),
                       Type(source.elem, SubSeq(source.shape, Rank(source) - Rank(target) + 1, Rank(source))),
                       target)}

\* Sums over the axes that the target was stretched along: leading axes first,
\* then each dimension of 1, which is put back.
unbroadcast(grad, source, target) ==
    LET extra == Rank(source) - Rank(target)
        prefixed == FoldLeft(LAMBDA e, axis : sum_axis(0, e), grad, Ascending(extra))
        aligned == Type(source.elem, SubSeq(source.shape, extra + 1, Rank(source)))
        Step(state, axis) ==
            IF Dim(target, axis) = 1 /\ Dim(state.ty, axis) # 1
            THEN LET ty == Type(state.ty.elem, Resized(state.ty.shape, axis, 1))
                 IN [e |-> to_shape(ty, sum_axis(axis, state.e)), ty |-> ty]
            ELSE state
        final == FoldLeft(Step, [e |-> prefixed, ty |-> aligned], Ascending(Rank(target)))
    IN IF extra >= 0 THEN Ok(final.ty = target, final.e) ELSE {}

\* The contributions of gradients in the node's shape to arguments of other shapes.
Unbroadcast(terms, ty, tys) ==
    FoldLeft(LAMBDA results, term :
                 UNION {{Append(r, <<term[1], e>>) : e \in unbroadcast(term[2], ty, tys[term[1]])} :
                           r \in results},
             {<< >>}, terms)

(***************************************************************************)
(* Elementwise calls.                                                      *)
(***************************************************************************)
\* The slope of a unary call at x, where its value is y.
Slope(op, x, y, elem) ==
    CASE op = "Abs" -> LET zero == zeros_like(x)
                           one == ones_like(x)
                       IN select(binary("Greater", x, zero), one,
                                 select(binary("Less", x, zero), neg(one), zero))
      [] op = "Exp" -> y
      [] op = "Exp2" -> binary("Mul", scalar(Ln2, elem), y)
      [] op = "ExpM1" -> binary("Add", y, scalar(1, elem))
      [] op = "Sin" -> call1("Cos", x)
      [] op = "Cos" -> neg(call1("Sin", x))
      [] op = "Tan" -> binary("Add", ones_like(y), call1("Square", y))
      [] op = "Tanh" -> binary("Sub", ones_like(y), call1("Square", y))
      [] op = "Sigmoid" -> binary("Mul", y, binary("Sub", ones_like(y), y))
      [] op = "Square" -> binary("Mul", scalar(2, elem), x)
      [] op = "Reciprocal" -> neg(call1("Square", y))
Slopes == {"Abs", "Exp", "Exp2", "ExpM1", "Sin", "Cos", "Tan", "Tanh", "Sigmoid", "Square", "Reciprocal"}

\* What the gradient is divided by instead.
Divisor(op, x, y, elem) ==
    CASE op = "Log" -> x
      [] op = "Log1P" -> binary("Add", x, scalar(1, elem))
      [] op = "Log2" -> binary("Mul", x, scalar(Ln2, elem))
      [] op = "Log10" -> binary("Mul", x, scalar(Ln10, elem))
      [] op = "Sqrt" -> binary("Mul", scalar(2, elem), y)
Divisors == {"Log", "Log1P", "Log2", "Log10", "Sqrt"}

reverse_unary(op, x, y, elem, grad) ==
    CASE op = "Neg" -> neg(grad)
      [] op = "Relu" -> mask_grad(binary("Greater", x, zeros_like(x)), grad)
      [] op \in Slopes -> binary("Mul", grad, Slope(op, x, y, elem))
      [] op \in Divisors -> binary("Div", grad, Divisor(op, x, y, elem))

\* reverse_binary, reverse_pow and reverse_minimum_maximum, before unbroadcasting.
binary_grads(op, l, r, y, elem, grad) ==
    CASE op = "Add" -> <<grad, grad>>
      [] op = "Sub" -> <<grad, neg(grad)>>
      [] op = "Mul" -> <<binary("Mul", grad, r), binary("Mul", grad, l)>>
      [] op = "Div" -> <<binary("Div", grad, r),
                         neg(binary("Div", binary("Mul", grad, l), call1("Square", r)))>>
      [] op = "Pow" -> <<binary("Mul", grad, binary("Mul", r, binary("Pow", l, binary("Sub", r, scalar(1, elem))))),
                         binary("Mul", grad, binary("Mul", y, call1("Log", l)))>>
      [] op = "Maximum" -> <<mask_grad(binary("GreaterEqual", l, r), grad), mask_grad(binary("Greater", r, l), grad)>>
      [] op = "Minimum" -> <<mask_grad(binary("LessEqual", l, r), grad), mask_grad(binary("Less", r, l), grad)>>

reverse_binary(op, args, tys, y, ty, grad) ==
    LET grads == binary_grads(op, args[1], args[2], y, ty.elem, grad)
    IN Unbroadcast(<< <<1, grads[1]>>, <<2, grads[2]>> >>, ty, tys)

reverse_clip(args, tys, ty, grad) ==
    LET inside == binary("LogicalAnd", binary("GreaterEqual", args[1], args[2]),
                         binary("LessEqual", args[1], args[3]))
    IN Unbroadcast(<< <<1, mask_grad(inside, grad)>>,
                      <<2, mask_grad(binary("Less", args[1], args[2]), grad)>>,
                      <<3, mask_grad(binary("Greater", args[1], args[3]), grad)>> >>, ty, tys)

reverse_where(args, tys, ty, grad) ==
    Unbroadcast(<< <<2, mask_grad(args[1], grad)>>,
                   <<3, select(args[1], zeros_like(grad), grad)>> >>, ty, tys)

(***************************************************************************)
(* Reductions.                                                             *)
(***************************************************************************)
\* What an element of the input adds to the reduction, as a factor or a mask of
\* the gradient; Expanded gives reduced values the shape of the input.
reverse_reduction(c, x, input, y, ty, grad) ==
    LET Expanded(e) == expand_reduction_grad(e, ty, input, c.over)
        count == scalar(reduction_count(input, c.over), ty.elem)
        deviation == binary("Sub", x, Expanded(reduced_over("Mean", c.over, x)))
        Selected(e) == binary("Equal", x, Expanded(e))
    IN CASE c.op = "Sum" -> Expanded(grad)
         [] c.op = "Mean" -> Expanded(binary("Div", grad, count))
         [] c.op = "Prod" -> binary("Mul", Expanded(grad), binary("Div", Expanded(y), x))
         [] c.op \in {"Max", "Min"} -> mask_grad(Selected(y), Expanded(grad))
         [] c.op = "Var" -> binary("Mul", Expanded(grad),
                                   binary("Div", binary("Mul", scalar(2, ty.elem), deviation), count))
         [] c.op = "Std" -> binary("Mul", Expanded(grad),
                                   binary("Div", deviation, binary("Mul", count, Expanded(y))))
         [] c.op = "Ptp" -> binary("Add", mask_grad(Selected(reduced_over("Max", c.over, x)), Expanded(grad)),
                                   mask_grad(Selected(reduced_over("Min", c.over, x)), neg(Expanded(grad))))

\* The spread of a single value has no gradient.
Spreads == {"Var", "Std", "Ptp"}
HasSpread(c, input) == ~(c.op \in Spreads /\ Rank(input) = 0 /\ c.over = << >>)

reverse_softmax(input, y, axis, grad) ==
    LET reduced == Type(input.elem, reduction_shape(input.shape, axis))
        summed == reduced_over("Sum", axis, binary("Mul", grad, y))
    IN binary("Mul", y, binary("Sub", grad, expand_reduction_grad(summed, reduced, input, axis)))

================================================================================
