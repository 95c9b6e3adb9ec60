------------------------------ MODULE Contractions -----------------------------
(***************************************************************************)
(* The calls that sum products or windows of elements (lowering/matmul.rs, *)
(* linalg.rs, conv.rs and pool.rs).                                        *)
(***************************************************************************)
EXTENDS Reductions

add_op(elem) == IF IsFloat(elem) THEN "arith.addf" ELSE "arith.addi"
mul_op(elem) == IF IsFloat(elem) THEN "arith.mulf" ELSE "arith.muli"

\* The body of a contraction: acc + lhs * rhs.
multiply_add(elem, acc, lhs, rhs) ==
    scalar_op(add_op(elem), acc, scalar_op(mul_op(elem), lhs, rhs))

\* The one reduction loop comes after those of the result.
emit_two_input_reduction(lhs, rhs, ty, lhs_indices, rhs_indices, count) ==
    linalg_reduce(<<coerce_to_kind(lhs, lhs.ty, "Tensor"), coerce_to_kind(rhs, rhs.ty, "Tensor")>>,
                  <<lhs_indices, rhs_indices>>, ty, <<count>>, 0,
                  LAMBDA acc, e : multiply_add(ty.elem, acc, e[1], e[2]))

(***************************************************************************)
(* matmul.rs.                                                              *)
(***************************************************************************)
\* batch_indices: a batch axis of size 1 that is stretched is read at 0.
batch_indices(input_batch, output_batch) ==
    LET padding == Len(output_batch) - Len(input_batch)
    IN [d \in DOMAIN input_batch |->
          IF input_batch[d] = 1 /\ output_batch[padding + d] # 1 THEN Zero ELSE padding + d - 1]

\* MatmulSpec: which loops run over the axes of each operand.
lhs_indices(lhs, batch, reduction) ==
    IF Len(lhs) = 1 THEN <<reduction>>
    ELSE batch_indices(Batch(lhs), batch) \o <<Len(batch), reduction>>
rhs_indices(lhs, rhs, batch, reduction) ==
    IF Len(rhs) = 1 THEN <<reduction>>
    ELSE batch_indices(Batch(rhs), batch) \o <<reduction, Len(batch) + (IF Len(lhs) = 1 THEN 0 ELSE 1)>>

generic_matmul(lhs, rhs) ==
    LET l == lhs.ty.shape
        r == rhs.ty.shape
        batch == CHOOSE b \in broadcast_shape(Batch(l), Batch(r)) : TRUE
        shape == batch \o Rows(l) \o Columns(r)
    IN IF LhsInner(l) # RhsInner(r) THEN Refused(lhs.ty)
       ELSE emit_two_input_reduction(lhs, rhs, Type(lhs.ty.elem, shape),
                lhs_indices(l, batch, Len(shape)), rhs_indices(l, r, batch, Len(shape)), LhsInner(l))

\* linalg.matmul and linalg.batch_matmul.
batch_matmul(lhs, rhs) ==
    emit_two_input_reduction(lhs, rhs,
        Type(lhs.ty.elem, <<lhs.ty.shape[1], lhs.ty.shape[2], rhs.ty.shape[3]>>),
        <<0, 1, 3>>, <<0, 3, 2>>, lhs.ty.shape[3])

\* Mutant: operands of rank 3 are multiplied as batches, stretched or not.
matmul_AnyBatch(lhs, rhs) ==
    IF Rank(lhs.ty) = 3 /\ Rank(rhs.ty) = 3 THEN batch_matmul(lhs, rhs) ELSE generic_matmul(lhs, rhs)

matmul(lhs, rhs) ==
    CASE Rank(lhs.ty) = 3 /\ Rank(rhs.ty) = 3 /\ Dim(lhs.ty, 0) = Dim(rhs.ty, 0) ->
           batch_matmul(lhs, rhs)
      [] Rank(lhs.ty) = 2 /\ Rank(rhs.ty) = 2 ->
           emit_two_input_reduction(lhs, rhs, Type(lhs.ty.elem, <<lhs.ty.shape[1], rhs.ty.shape[2]>>),
                                    <<0, 2>>, <<2, 1>>, lhs.ty.shape[2])
      [] OTHER -> generic_matmul(lhs, rhs)

(***************************************************************************)
(* linalg.rs.                                                              *)
(***************************************************************************)
\* Mutant: the loops are those of the last axis whatever axis is summed.
vecdot_LastAxis(lhs, rhs, axes) ==
    LET axis == vecdot_axis(lhs.ty, axes)
        indices == Ascending(Rank(lhs.ty))
    IN emit_two_input_reduction(lhs, rhs, Type(lhs.ty.elem, WithoutAxis(lhs.ty.shape, axis)),
                                indices, indices, Dim(lhs.ty, axis))

vecdot(lhs, rhs, axes) ==
    LET axis == vecdot_axis(lhs.ty, axes)
        indices == reduction_map(Rank(lhs.ty), <<axis>>)
    IN emit_two_input_reduction(lhs, rhs, Type(lhs.ty.elem, WithoutAxis(lhs.ty.shape, axis)),
                                indices, indices, Dim(lhs.ty, axis))

inner(lhs, rhs) ==
    LET rows == Rank(lhs.ty) - 1
        columns == Rank(rhs.ty) - 1
        output == rows + columns
    IN IF Rank(lhs.ty) = 0 \/ Rank(rhs.ty) = 0 THEN binary_value("Mul", lhs, rhs)
       ELSE emit_two_input_reduction(lhs, rhs,
                Type(lhs.ty.elem, Front(lhs.ty.shape) \o Front(rhs.ty.shape)),
                Append(Ascending(rows), output),
                Append([d \in 1..columns |-> rows + d - 1], output), Last(lhs.ty.shape))

flattened(v) == reshape(v, Type(v.ty.elem, <<element_count(v.ty)>>))

outer(lhs, rhs) ==
    linalg_map(<<flattened(lhs), flattened(rhs)>>, <<<<0>>, <<1>>>>,
               Type(lhs.ty.elem, <<element_count(lhs.ty), element_count(rhs.ty)>>),
               LAMBDA e : scalar_op(mul_op(lhs.ty.elem), e[1], e[2]))

\* The loops over the input's axes when the pair shares the loop "shared".
pair_indices(rank, pair, shared) ==
    [d \in 1..rank |-> IF d - 1 \in ToSet(pair) THEN shared
                       ELSE Cardinality({a \in 0..d - 2 : a \notin ToSet(pair)})]

trace(v, axes) ==
    LET pair == axis_pair(v.ty, axes)
        ty == Type(v.ty.elem, WithoutAxes(v.ty.shape, pair))
    IN linalg_reduce(<<v>>, <<pair_indices(Rank(v.ty), pair, Rank(ty))>>, ty, <<Dim(v.ty, pair[1])>>, 0,
                     LAMBDA acc, e : scalar_op(add_op(ty.elem), acc, e[1]))

diagonal(v, axes) ==
    LET pair == axis_pair(v.ty, axes)
        ty == Type(v.ty.elem, Append(WithoutAxes(v.ty.shape, pair), Dim(v.ty, pair[1])))
    IN linalg_map(<<v>>, <<pair_indices(Rank(v.ty), pair, Rank(ty) - 1)>>, ty, LAMBDA e : e[1])

(***************************************************************************)
(* conv.rs and pool.rs.                                                    *)
(***************************************************************************)
\* Mutant: the four paddings are taken as rows before, columns before, rows after.
pad_window_input_Interleaved(v, options, element) ==
    LET p == options.padding
        shape == <<Dim(v.ty, 0), Dim(v.ty, 1) + p[1] + p[2], Dim(v.ty, 2) + p[3] + p[4], Dim(v.ty, 3)>>
    IN IF p = <<0, 0, 0, 0>> THEN v
       ELSE tensor_pad(v, Type(v.ty.elem, shape), <<0, p[1], p[2], 0>>, <<0, p[3], p[4], 0>>,
                       constant(element, v.ty.elem))

\* pad_conv2d_input and pad_pool2d_input.
pad_window_input(v, options, element) ==
    LET p == options.padding
        shape == <<Dim(v.ty, 0), Dim(v.ty, 1) + p[1] + p[2], Dim(v.ty, 2) + p[3] + p[4], Dim(v.ty, 3)>>
    IN IF p = <<0, 0, 0, 0>> THEN v
       ELSE tensor_pad(v, Type(v.ty.elem, shape), <<0, p[1], p[3], 0>>, <<0, p[2], p[4], 0>>,
                       constant(element, v.ty.elem))

\* The shape of the windows over an input that is padded already.
padded_window_ty(v, kernel, options, channels) ==
    LET count(d) == window_count(Dim(v.ty, d), kernel[d], options.stride[d], options.dilation[d])
    IN Type(v.ty.elem, <<Dim(v.ty, 0), count(1), count(2), channels>>)

conv2d_direct(v, kernel, options) ==
    linalg_conv_2d(v, kernel, padded_window_ty(v, kernel.ty.shape, options, Dim(kernel.ty, 3)),
                   options.stride, options.dilation,
                   LAMBDA acc, e : multiply_add(v.ty.elem, acc, e[1], e[2]))

\* Each group convolves its channels; the results are joined along the channels.
grouped_conv2d(v, kernel, options) ==
    LET inputs == Dim(v.ty, 3) \div options.groups
        outputs == Dim(kernel.ty, 3) \div options.groups
        group(g) == conv2d_direct(Section(v, 3, (g - 1) * inputs, inputs),
                                  Section(kernel, 3, (g - 1) * outputs, outputs), options)
    IN FoldLeft(LAMBDA output, g : concat(output, group(g), 3),
                group(1), [n \in 1..options.groups - 1 |-> n + 1])

conv2d(v, kernel, options) ==
    LET padded == pad_window_input(v, options, 0)
    IN IF options.groups > 1 THEN grouped_conv2d(padded, kernel, options)
       ELSE conv2d_direct(padded, kernel, options)

\* build_pool2d_body: the kernel is unrolled inside one generic over the result.
emit_pool2d_generic(v, ty, options, seed, name) ==
    LET position(i, h, w) == <<i[1], i[2] * options.stride[1] + h * options.dilation[1],
                               i[3] * options.stride[2] + w * options.dilation[2], i[4]>>
        width == options.kernel[2]
        read(i) == [n \in 1..options.kernel[1] * width |->
                       position(i, (n - 1) \div width, (n - 1) % width)]
        inside(i) == \A n \in DOMAIN read(i) : read(i)[n] \in DOMAIN v.at
        acc(i) == FoldLeft(LAMBDA a, p : scalar_op(name, a, v.at[p]), seed, read(i))
    IN Tensor(ty, v.ok /\ IsTensor(v), LAMBDA i : IF inside(i) THEN acc(i) ELSE Undefined)

\* Mutant: the padding of integers is zero.
max_pool_padding_Zero(elem) == IF IsFloat(elem) THEN NegativeInfinity ELSE 0

max_pool_padding(elem) == IF IsFloat(elem) THEN NegativeInfinity ELSE IntMin

max_pool2d(v, options) ==
    LET seed == max_pool_padding(v.ty.elem)
        padded == pad_window_input(v, options, seed)
    IN emit_pool2d_generic(padded, padded_window_ty(padded, options.kernel, options, Dim(v.ty, 3)),
           options, seed, IF IsFloat(v.ty.elem) THEN "arith.maximumf" ELSE "arith.maxsi")

\* The sum of the window, padding included, over the size of the kernel.
avg_pool2d(v, options) ==
    LET padded == pad_window_input(v, options, 0)
        ty == padded_window_ty(padded, options.kernel, options, Dim(v.ty, 3))
        summed == emit_pool2d_generic(padded, ty, options, 0, add_op(v.ty.elem))
    IN Tensor(ty, summed.ok,
              LAMBDA i : FieldQuotient(summed.at[i], options.kernel[1] * options.kernel[2]))

================================================================================
