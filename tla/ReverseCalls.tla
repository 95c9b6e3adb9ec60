----------------------------- MODULE ReverseCalls -----------------------------
(***************************************************************************)
(* The reverse rules of calls that move, pick, contract or scan elements,  *)
(* and reverse_call, which chooses the rule of a call.                     *)
(***************************************************************************)
EXTENDS ReverseRules

(***************************************************************************)
(* Moves.                                                                  *)
(***************************************************************************)
\* Mutant: the permutation itself.
inverse_permutation_Same(axes) == axes

inverse_permutation(axes) ==
    [d \in DOMAIN axes |-> (CHOOSE k \in DOMAIN axes : axes[k] = d - 1) - 1]
default_axes(input, axes) == IF axes = << >> THEN Reverse(Ascending(Rank(input))) ELSE axes

reverse_tile(multiples, x, input, ty, grad) ==
    LET Folded(state, axis) ==
            LET piece == Type(ty.elem, Resized(state.ty.shape, axis, Dim(input, axis)))
                Copy(n) == slice_of(piece, OffsetAt(Rank(input), axis, (n - 1) * Dim(input, axis)), state.e)
            IN IF multiples[axis + 1] <= 1 THEN state
               ELSE [e |-> sum_of([n \in 1..multiples[axis + 1] |-> Copy(n)]), ty |-> piece]
    IN IF 0 \in ToSet(multiples) THEN zeros_like(x)
       ELSE FoldLeft(Folded, [e |-> grad, ty |-> ty], Reverse(Ascending(Rank(input)))).e

\* The copies of an element on an axis of their own: there may be no room for it.
reverse_repeat(c, x, input, grad) ==
    LET shape == WithAxis(input.shape, c.axis + 1, c.count)
    IN CASE c.count = 0 \/ Dim(input, c.axis) = 0 -> {zeros_like(x)}
         [] c.count = 1 /\ Dim(input, c.axis) # 0 -> {grad}
         [] OTHER -> Ok(Len(shape) <= MAX_TENSOR_RANK,
                        sum_axis(c.axis + 1, to_shape(Type(input.elem, shape), grad)))

reverse_roll(c, input, grad) ==
    LET dim == Dim(input, c.axis)
        back == IF dim = 0 THEN 0 ELSE (dim - (c.shift % dim)) % dim
    IN Call([c EXCEPT !.shift = back], <<grad>>)

reverse_take(c, input, grad) ==
    pad_to(input, OffsetAt(Rank(input), c.axis, c.index),
           to_shape(Type(input.elem, Resized(input.shape, c.axis, 1)), grad))

reverse_move(c, x, input, ty, grad) ==
    CASE c.op \in {"Reshape", "Squeeze", "Unsqueeze"} -> {to_shape(input, grad)}
      [] c.op = "Broadcast" -> unbroadcast(grad, ty, input)
      [] c.op = "Pad" -> {slice_of(input, c.lows, grad)}
      [] c.op = "Slice" -> {pad_to(input, c.starts, grad)}
      [] c.op = "Take" -> {reverse_take(c, input, grad)}
      [] c.op = "Tile" -> {reverse_tile(c.multiples, x, input, ty, grad)}
      [] c.op = "Repeat" -> reverse_repeat(c, x, input, grad)
      [] c.op = "Roll" -> {reverse_roll(c, input, grad)}
      [] c.op = "Transpose" ->
           {Call([c EXCEPT !.axes = inverse_permutation(default_axes(input, c.axes))], <<grad>>)}
      [] c.op \in {"PermuteDims", "Permute"} ->
           {Call([op |-> "PermuteDims", axes |-> inverse_permutation(c.axes)], <<grad>>)}
      [] c.op = "MoveAxis" -> {Call([c EXCEPT !.source = c.destination, !.destination = c.source], <<grad>>)}
      [] c.op \in {"SwapAxes", "Flip"} -> {Call(c, <<grad>>)}
Moved == {"Reshape", "Squeeze", "Unsqueeze", "Broadcast", "Pad", "Slice", "Take", "Tile", "Repeat", "Roll",
          "Transpose", "PermuteDims", "Permute", "MoveAxis", "SwapAxes", "Flip"}

reverse_concat(axis, tys, grad) ==
    << <<1, slice_of(tys[1], OffsetAt(Rank(tys[1]), axis, 0), grad)>>,
       <<2, slice_of(tys[2], OffsetAt(Rank(tys[2]), axis, Dim(tys[1], axis)), grad)>> >>
reverse_stack(axis, grad) ==
    [k \in 1..2 |-> <<k, Call([op |-> "Take", axis |-> axis, index |-> k - 1], <<grad>>)>>]

\* The gradient on the diagonal of the last two axes, put back where they were.
reverse_diagonal(c, input, grad) ==
    LET pair == axis_pair(input, c.axes)
        rows == Dim(input, pair[1])
        compact == Type(input.elem, WithoutAxes(input.shape, pair) \o <<rows, rows>>)
        column == IF c.op = "Trace" THEN <<1, 1>> ELSE <<rows, 1>>
        stretched == broadcast_to(compact, to_shape(Type(input.elem, WithoutAxes(input.shape, pair) \o column), grad))
        eye == broadcast_to(compact, Call([op |-> "Eye", target |-> Type(input.elem, <<rows, rows>>)], << >>))
        others == SelectSeq(Ascending(Rank(input)), LAMBDA axis : axis \notin ToSet(pair))
        axes == [d \in 1..Rank(input) |->
                    CASE d - 1 = pair[1] -> Len(others)
                      [] d - 1 = pair[2] -> Len(others) + 1
                      [] OTHER -> (CHOOSE k \in DOMAIN others : others[k] = d - 1) - 1]
    IN Call([op |-> "PermuteDims", axes |-> axes], <<binary("Mul", stretched, eye)>>)

(***************************************************************************)
(* Positions read from indices, which may count from the end.              *)
(***************************************************************************)
index_condition(condition, indices, ty, axis) ==
    LET mask == Type("bool", [d \in 1..Rank(ty) |->
                                 IF d - axis \in DOMAIN indices.shape THEN indices.shape[d - axis] ELSE 1])
        aligned == reshape_if_needed(condition, Type("bool", indices.shape), mask)
    IN IF indices.shape = ty.shape THEN condition
       ELSE broadcast_if_needed(aligned, mask, Type("bool", ty.shape))

\* For each position of the axis, the gradients of the elements read from it.
indexed_axis_grad(c, args, tys, ty, reduce_axes, grad) ==
    LET input == tys[1]
        size == Dim(input, c.axis)
        Is(index) == binary("Equal", args[2], scalar(index, tys[2].elem))
        Piece(index) ==
            LET condition == index_condition(binary("LogicalOr", Is(index), Is(index - size)), tys[2], ty, c.axis)
                summed == FoldLeft(LAMBDA e, axis : sum_axis(axis, e), mask_grad(condition, grad),
                                   Reverse(reduce_axes))
            IN to_shape(Type(input.elem, Resized(input.shape, c.axis, 1)), summed)
    IN IF size = 0 THEN zeros_like(args[1])
       ELSE concat_all([n \in 1..size |-> Piece(n - 1)], c.axis)

\* One index for each line along the axis: compare it with every position.
take_along_axis_unit_grad(c, args, tys, ty, grad) ==
    LET input == tys[1]
        elem == tys[2].elem
        size == Dim(input, c.axis)
        full == Type(elem, input.shape)
        counted == select(binary("Less", args[2], scalar(0, elem)),
                          binary("Add", args[2], scalar(size, elem)), args[2])
        positions == Call([op |-> "Arange", target |-> Type(elem, <<size>>),
                           params |-> <<Literal(elem, 0), Literal(elem, size)>>], << >>)
        grid == Type(elem, [d \in 1..Rank(input) |-> IF d = c.axis + 1 THEN size ELSE 1])
        condition == binary("Equal",
                            broadcast_if_needed(reshape_if_needed(positions, Type(elem, <<size>>), grid), grid, full),
                            broadcast_if_needed(counted, tys[2], full))
    IN mask_grad(condition, broadcast_if_needed(grad, ty, input))

reverse_gather(c, args, tys, ty, grad) ==
    CASE c.op = "Gather" ->
           indexed_axis_grad(c, args, tys, ty, [k \in 1..Rank(tys[2]) |-> c.axis + k - 1], grad)
      [] c.op = "TakeAlongAxis" /\ Dim(tys[2], c.axis) = 1 -> take_along_axis_unit_grad(c, args, tys, ty, grad)
      [] OTHER -> indexed_axis_grad(c, args, tys, ty, <<c.axis>>, grad)

(***************************************************************************)
(* Contractions.                                                           *)
(***************************************************************************)
Pair(lhs, rhs) == << <<1, lhs>>, <<2, rhs>> >>

\* MatmulGradSpec: vector operands are promoted to matrices.
promoted_lhs(ty) == IF Rank(ty) = 1 THEN Type(ty.elem, <<1>> \o ty.shape) ELSE ty
promoted_rhs(ty) == IF Rank(ty) = 1 THEN Type(ty.elem, ty.shape \o <<1>>) ELSE ty
matmul_type(lhs, rhs) == CHOOSE ty \in matmul_result(lhs, rhs) : TRUE
swap_last_two_type(ty) == Type(ty.elem, Batch(ty.shape) \o <<Last(ty.shape), ty.shape[Rank(ty) - 1]>>)
swap_last_two(e, ty) ==
    Call([op |-> "SwapAxes", axis0 |-> Rank(ty) - 2, axis1 |-> Rank(ty) - 1], <<e>>)

\* Mutant: the gradient of a vector keeps the axis it was promoted with.
demoted_Last(e, ty, axis, vector) == {[e |-> e, ty |-> ty]}

\* The gradient of a promoted vector loses the axis again.
demoted(e, ty, axis, vector) ==
    LET removed == Type(ty.elem, WithoutAxis(ty.shape, axis))
    IN IF vector THEN Ok(Dim(ty, axis) = 1, [e |-> to_shape(removed, e), ty |-> removed])
       ELSE {[e |-> e, ty |-> ty]}

reverse_matmul(args, tys, ty, grad) ==
    LET lhs == promoted_lhs(tys[1])
        rhs == promoted_rhs(tys[2])
        product == matmul_type(lhs, rhs)
        g == reshape_if_needed(grad, ty, product)
        l == swap_last_two(reshape_if_needed(args[1], tys[1], lhs), lhs)
        r == swap_last_two(reshape_if_needed(args[2], tys[2], rhs), rhs)
        lgrad == matmul_type(product, swap_last_two_type(rhs))
        rgrad == matmul_type(swap_last_two_type(lhs), product)
        Reduced(e, full, axis, target) ==
            UNION {unbroadcast(d.e, d.ty, target) : d \in demoted(e, full, axis, Rank(target) = 1)}
    IN {Pair(pair[1], pair[2]) :
           pair \in Reduced(binary("Matmul", g, r), lgrad, Rank(lgrad) - 2, tys[1])
                   \X Reduced(binary("Matmul", l, g), rgrad, Rank(rgrad) - 1, tys[2])}

reverse_vecdot(c, args, tys, ty, grad) ==
    LET g == expand_reduction_grad(grad, ty, tys[1], <<vecdot_axis(tys[1], c.axes)>>)
    IN Pair(binary("Mul", g, args[2]), binary("Mul", g, args[1]))

\* As a product of matrices of rows.
reverse_inner_matrices(args, tys, ty, grad) ==
    LET elem == ty.elem
        k == Last(tys[1].shape)
        rows == [n \in 1..2 |-> Product(Front(tys[n].shape))]
        Matrix(n) == to_shape(Type(elem, <<rows[n], k>>), args[n])
        g == reshape_if_needed(grad, ty, Type(elem, rows))
    IN Pair(to_shape(tys[1], binary("Matmul", g, Matrix(2))),
            to_shape(tys[2], binary("Matmul", Call([op |-> "Transpose", axes |-> << >>], <<g>>), Matrix(1))))

reverse_inner(args, tys, ty, grad) ==
    IF Rank(tys[1]) = 0 \/ Rank(tys[2]) = 0
    THEN Unbroadcast(Pair(binary("Mul", grad, args[2]), binary("Mul", grad, args[1])), ty, tys)
    ELSE {reverse_inner_matrices(args, tys, ty, grad)}

reverse_outer(args, tys, ty, grad) ==
    LET row == to_shape(Type(ty.elem, <<1, element_count(tys[1])>>), args[1])
        column == to_shape(Type(ty.elem, <<element_count(tys[2]), 1>>), args[2])
    IN Pair(to_shape(tys[1], binary("Matmul", grad, column)), to_shape(tys[2], binary("Matmul", row, grad)))

(***************************************************************************)
(* Windows: each output position and each kernel position is written out.  *)
(***************************************************************************)
\* Every position of a grid, in the order of the loops.
Grid(shape) == [n \in 1..Product(shape) |-> IndexAt(shape, n - 1)]

\* pool_input_position, conv_input_position: where a kernel position of an output
\* position reads the input, if not in the padding.
input_position(o, out, k) ==
    <<out[1] * o.stride[1] + k[1] * o.dilation[1] - o.padding[1],
      out[2] * o.stride[2] + k[2] * o.dilation[2] - o.padding[3]>>
OnImage(at, input) == at[1] \in 0..Dim(input, 1) - 1 /\ at[2] \in 0..Dim(input, 2) - 1

\* Two nested loops.
Loops(outside, inside) ==
    [n \in 1..Len(outside) * Len(inside) |->
        <<outside[((n - 1) \div Len(inside)) + 1], inside[((n - 1) % Len(inside)) + 1]>>]

pool_unit(e, ty, at) == slice_of(Type(ty.elem, <<Dim(ty, 0), 1, 1, Dim(ty, 3)>>), <<0, at[1], at[2], 0>>, e)

reverse_pool2d(c, x, input, y, ty, grad) ==
    LET reads == SelectSeq(Loops(Grid(SubSeq(ty.shape, 2, 3)), Grid(c.kernel)),
                           LAMBDA read : OnImage(input_position(c, read[1], read[2]), input))
        Share(at, out) ==
            IF c.op = "AvgPool2d"
            THEN binary("Div", pool_unit(grad, ty, out), scalar(Product(c.kernel), ty.elem))
            ELSE mask_grad(binary("Equal", pool_unit(x, input, at), pool_unit(y, ty, out)), pool_unit(grad, ty, out))
        Part(n) == LET at == input_position(c, reads[n][1], reads[n][2])
                   IN pad_to(input, <<0, at[1], at[2], 0>>, Share(at, reads[n][1]))
    IN sum_or_zeros([n \in DOMAIN reads |-> Part(n)], x)

\* Mutant: the input channel of a group is counted from the first group.
conv_channel_Ungrouped(group, channel, per_group) == channel

conv_channel(group, channel, per_group) == group * per_group + channel

\* One input channel of a group at a read of the image: its part of the gradient
\* of the input, or of the kernel.
conv_pieces(c, args, tys, ty, grad, group, channel, out, k) ==
    LET inputs == Dim(tys[1], 3) \div c.groups
        outputs == Dim(tys[2], 3) \div c.groups
        at == input_position(c, out, k)
        unit == Type(ty.elem, <<Dim(tys[1], 0), 1, 1, 1>>)
        lows == <<0, at[1], at[2], conv_channel(group, channel, inputs)>>
        block == slice_of(Type(ty.elem, <<Dim(ty, 0), 1, 1, outputs>>), <<0, out[1], out[2], group * outputs>>, grad)
        weights == Type(ty.elem, <<1, 1, 1, outputs>>)
        starts == <<k[1], k[2], channel, group * outputs>>
        summed == FoldLeft(LAMBDA e, axis : sum_axis(axis, e),
                           binary("Mul", slice_of(unit, lows, args[1]), block), <<2, 1, 0>>)
    IN Pair(pad_to(tys[1], lows, to_shape(unit, sum_axis(3, binary("Mul", block, slice_of(weights, starts, args[2]))))),
            pad_to(tys[2], starts, to_shape(weights, summed)))

reverse_conv2d(c, args, tys, ty, grad) ==
    LET reads == SelectSeq(Loops(Grid(SubSeq(tys[2].shape, 1, 2)), Grid(SubSeq(ty.shape, 2, 3))),
                           LAMBDA read : OnImage(input_position(c, read[2], read[1]), tys[1]))
        inputs == Dim(tys[1], 3) \div c.groups
        loops == Grid(<<c.groups, Len(reads), inputs>>)
        pieces == [n \in DOMAIN loops |->
                      LET read == reads[loops[n][2] + 1]
                      IN conv_pieces(c, args, tys, ty, grad, loops[n][1], loops[n][3], read[2], read[1])]
        Sum(k) == sum_or_zeros([n \in DOMAIN pieces |-> pieces[n][k][2]], args[k])
    IN Pair(Sum(1), Sum(2))

(***************************************************************************)
(* reverse_call.                                                           *)
(***************************************************************************)
Rounding == {"Ceil", "Floor", "Rint", "Round"}

call_stops_gradient(c, ty) ==
    ty.elem \notin Floats \/ c.op \in Rounding \cup Creations \cup {"Detach", "OnesLike", "ZerosLike"}

\* Rules with one contribution, to the first argument.
reverse_of_first(c, args, tys, y, ty, grad) ==
    CASE c.op \in Unary -> {reverse_unary(c.op, args[1], y, ty.elem, grad)}
      [] c.op \in DOMAIN Reduces -> {reverse_reduction(c, args[1], tys[1], y, ty, grad)}
      [] c.op = "Softmax" -> {reverse_softmax(tys[1], y, c.over, grad)}
      [] c.op \in Moved -> reverse_move(c, args[1], tys[1], ty, grad)
      [] c.op \in {"Trace", "Diagonal"} -> {reverse_diagonal(c, tys[1], grad)}
      [] c.op \in {"Gather", "TakeAlongAxis"} -> {reverse_gather(c, args, tys, ty, grad)}
      [] c.op \in {"AvgPool2d", "MaxPool2d"} -> {reverse_pool2d(c, args[1], tys[1], y, ty, grad)}

reverse_of_several(c, args, tys, y, ty, grad) ==
    CASE c.op \in Binary -> reverse_binary(c.op, args, tys, y, ty, grad)
      [] c.op = "Clip" -> reverse_clip(args, tys, ty, grad)
      [] c.op = "Where" -> reverse_where(args, tys, ty, grad)
      [] c.op = "FullLike" -> Unbroadcast(<< <<2, grad>> >>, ty, tys)
      [] c.op = "Concat" -> {reverse_concat(c.axis, tys, grad)}
      [] c.op = "Stack" -> {reverse_stack(c.axis, grad)}
      [] c.op = "Matmul" -> reverse_matmul(args, tys, ty, grad)
      [] c.op = "Dot" -> {Pair(binary("Mul", grad, args[2]), binary("Mul", grad, args[1]))}
      [] c.op = "Vecdot" -> {reverse_vecdot(c, args, tys, ty, grad)}
      [] c.op = "Inner" -> reverse_inner(args, tys, ty, grad)
      [] c.op = "Outer" -> {reverse_outer(args, tys, ty, grad)}
      [] c.op = "Conv2d" -> {reverse_conv2d(c, args, tys, ty, grad)}

Several == Binary \cup {"Clip", "Where", "FullLike", "Concat", "Stack", "Matmul", "Dot", "Vecdot", "Inner",
                       "Outer", "Conv2d"}

reverse_call(c, args, tys, y, ty, grad) ==
    CASE call_stops_gradient(c, ty) -> {<< >>}
      [] ~call_stops_gradient(c, ty) /\ c.op \in DOMAIN Reduces /\ ~HasSpread(c, tys[1]) -> {<< >>}
      [] ~call_stops_gradient(c, ty) /\ c.op \in Several -> reverse_of_several(c, args, tys, y, ty, grad)
      [] OTHER -> {<< <<1, e>> >> : e \in reverse_of_first(c, args, tys, y, ty, grad)}

================================================================================
