------------------------------- MODULE TensorOps -------------------------------
(***************************************************************************)
(* The calls that move elements (lowering/tensor_ops.rs): the operations   *)
(* emitted for the lowered arguments, and so the type, the kind and the    *)
(* elements of the result.                                                 *)
(***************************************************************************)
EXTENDS Emit

permute(v, ty, axes) ==
    IF axes = Ascending(Len(axes)) THEN v ELSE linalg_transpose(v, ty, axes)
permute_dims(v, axes) == permute(v, Type(v.ty.elem, Permuted(v.ty.shape, axes)), axes)
swapaxes(v, axis0, axis1) == permute_dims(v, SwappedAxes(Rank(v.ty), axis0, axis1))
moveaxis(v, source, destination) == permute_dims(v, MovedAxes(Rank(v.ty), source, destination))
transpose(v, axes) ==
    IF Rank(v.ty) <= 1 THEN v
    ELSE permute_dims(v, IF axes = << >> THEN Reverse(Ascending(Rank(v.ty))) ELSE axes)

reassociation_for_rank(rank) == <<Ascending(rank)>>

\* Through rank 1, or through a scalar when either side has rank 0.
reshape(v, ty) ==
    LET flat == IF Rank(v.ty) = 1 THEN v
                ELSE tensor_collapse_shape(v, Type(v.ty.elem, <<element_count(v.ty)>>),
                                           reassociation_for_rank(Rank(v.ty)))
    IN CASE v.ty = ty -> v
         [] v.ty # ty /\ (Rank(ty) = 0 \/ Rank(v.ty) = 0) -> splat(v, ty)
         [] OTHER -> IF Rank(ty) = 1 THEN flat
                     ELSE tensor_expand_shape(flat, ty, reassociation_for_rank(Rank(ty)))

slice(v, ty, starts) == tensor_extract_slice(v, ty, starts)

\* The slice of some positions of one axis.
Section(v, axis, start, size) ==
    slice(v, Type(v.ty.elem, Resized(v.ty.shape, axis, size)),
          [d \in 1..Rank(v.ty) |-> IF d = axis + 1 THEN start ELSE 0])

\* The sum of the first n numbers.
Before(numbers, n) == FoldLeft(+, 0, SubSeq(numbers, 1, n))

\* Mutant: empty sections give no value.
split_SkipsEmpty(v, axis, sections) ==
    LET kept == SelectSeq([n \in DOMAIN sections |-> n], LAMBDA n : sections[n] > 0)
    IN [k \in DOMAIN kept |-> Section(v, axis, Before(sections, kept[k] - 1), sections[kept[k]])]

split(v, axis, sections) ==
    [n \in DOMAIN sections |-> Section(v, axis, Before(sections, n - 1), sections[n])]

concat_many(values, axis) ==
    LET dims == [n \in DOMAIN values |-> Dim(values[n].ty, axis)]
        ty == Type(values[1].ty.elem, Resized(values[1].ty.shape, axis, Before(dims, Len(dims))))
        offsets(n) == [d \in 1..Rank(ty) |-> IF d = axis + 1 THEN Before(dims, n - 1) ELSE 0]
    IN FoldLeft(LAMBDA acc, n : tensor_insert_slice(values[n], acc, offsets(n)),
                tensor_empty(ty), [n \in DOMAIN values |-> n])

concat(lhs, rhs, axis) == concat_many(<<lhs, rhs>>, axis)

\* An axis of size 1 before an axis joins its group, at the end the last group.
expand_reassociation_for_inserted_axis(rank, axis) ==
    IF rank = 0 THEN <<<<axis>>>>
    ELSE [g \in 1..rank |-> CASE g = axis + 1 \/ (g = rank /\ axis = rank) -> <<g - 1, g>>
                              [] g <= axis /\ ~(g = rank /\ axis = rank) -> <<g - 1>>
                              [] g > axis + 1 -> <<g>>]

stack(lhs, rhs, axis) ==
    LET unit(v) == tensor_expand_shape(v, Type(v.ty.elem, WithAxis(v.ty.shape, axis, 1)),
                                       expand_reassociation_for_inserted_axis(Rank(v.ty), axis))
    IN concat(unit(lhs), unit(rhs), axis)

\* Mutant: a removed axis always joins the group after it.
collapse_reassociation_for_removed_axis_After(rank, axis) ==
    IF rank <= 1 THEN reassociation_for_rank(rank)
    ELSE [g \in 1..rank - 1 |-> CASE g < axis + 1 -> <<g - 1>>
                                  [] g = axis + 1 -> <<g - 1, g>>
                                  [] g > axis + 1 -> <<g>>]

\* A removed axis joins the group before it, the first one the group after it.
collapse_reassociation_for_removed_axis(rank, axis) ==
    IF rank <= 1 THEN reassociation_for_rank(rank)
    ELSE LET joined == IF axis = 0 THEN 1 ELSE axis
         IN [g \in 1..rank - 1 |-> CASE g < joined -> <<g - 1>>
                                     [] g = joined -> <<g - 1, g>>
                                     [] g > joined -> <<g>>]

take(v, axis, index) ==
    LET sliced == Section(v, axis, index, 1)
        ty == Type(v.ty.elem, WithoutAxis(sliced.ty.shape, axis))
    IN IF Rank(ty) = 0 THEN reshape(sliced, ty)
       ELSE tensor_collapse_shape(sliced, ty, collapse_reassociation_for_removed_axis(Rank(v.ty), axis))

\* Mutant: negative indices are not counted from the end.
normalize_index_AsIs(index, dim) == index

\* normalize_index_in_block: the index, counted from the end when negative.
normalize_index(index, dim) == IF index < 0 THEN index + dim ELSE index

\* Mutant: scalar indices are not made a tensor.
gather_with_maps_ScalarIndex(v, indices, ty, index_axes, input_axes, dim) ==
    LET index(i) == normalize_index(indices.at[MapIndex(index_axes, i)], dim)
        place(i) == [d \in DOMAIN input_axes |->
                        IF input_axes[d] = Zero THEN index(i) ELSE i[input_axes[d] + 1]]
    IN Tensor(ty, v.ok /\ indices.ok /\ IsTensor(v) /\ IsTensor(indices),
              LAMBDA i : IF index(i) \in 0..dim - 1 THEN v.at[place(i)] ELSE Undefined)

\* Which loop runs over each axis of a gathered input; Zero is the index read.  An
\* index outside the axis fails the body's cf.assert and leaves no element.
gather_with_maps(v, indices, ty, index_axes, input_axes, dim) ==
    LET read == coerce_to_kind(indices, indices.ty, "Tensor")
        index(i) == normalize_index(read.at[MapIndex(index_axes, i)], dim)
        place(i) == [d \in DOMAIN input_axes |->
                        IF input_axes[d] = Zero THEN index(i) ELSE i[input_axes[d] + 1]]
    IN Tensor(ty, v.ok /\ read.ok /\ IsTensor(v) /\ IsTensor(read) /\ Maps(index_axes, read.ty.shape, ty.shape),
              LAMBDA i : IF index(i) \in 0..dim - 1 THEN v.at[place(i)] ELSE Undefined)

\* Mutant: the indices are read by the first loops, wherever the axis is.
gather_FirstLoops(v, indices, axis, ty) ==
    LET rank == Rank(indices.ty)
    IN gather_with_maps(v, indices, ty, Ascending(rank),
           [d \in 1..Rank(v.ty) |-> CASE d - 1 < axis -> d - 1
                                      [] d - 1 = axis -> Zero
                                      [] d - 1 > axis -> d - 1 + rank - 1], Dim(v.ty, axis))

gather(v, indices, axis, ty) ==
    LET rank == Rank(indices.ty)
    IN gather_with_maps(v, indices, ty, [d \in 1..rank |-> axis + d - 1],
           [d \in 1..Rank(v.ty) |-> CASE d - 1 < axis -> d - 1
                                      [] d - 1 = axis -> Zero
                                      [] d - 1 > axis -> d - 1 + rank - 1], Dim(v.ty, axis))

take_along_axis(v, indices, axis) ==
    gather_with_maps(v, indices, Type(v.ty.elem, indices.ty.shape), Ascending(Rank(indices.ty)),
        [d \in 1..Rank(v.ty) |-> IF d - 1 = axis THEN Zero ELSE d - 1], Dim(v.ty, axis))

Repeated(v, count) == [n \in 1..count |-> v]

tile(v, multiples) ==
    IF \E d \in DOMAIN multiples : multiples[d] = 0
    THEN tensor_empty(Type(v.ty.elem, [d \in DOMAIN multiples |-> v.ty.shape[d] * multiples[d]]))
    ELSE FoldLeft(LAMBDA value, axis :
                      IF multiples[axis + 1] <= 1 THEN value
                      ELSE concat_many(Repeated(value, multiples[axis + 1]), axis),
                  v, Ascending(Rank(v.ty)))

\* The sections of size 1 of an axis, in the order of the positions given.
Units(v, axis, positions) == [n \in DOMAIN positions |-> Section(v, axis, positions[n], 1)]

repeat(v, axis, count) ==
    LET units == Units(v, axis, Ascending(Dim(v.ty, axis)))
    IN CASE count = 0 \/ Dim(v.ty, axis) = 0 ->
              tensor_empty(Type(v.ty.elem, Resized(v.ty.shape, axis, Dim(v.ty, axis) * count)))
         [] count = 1 /\ Dim(v.ty, axis) # 0 -> v
         [] OTHER -> concat_many([n \in DOMAIN units |-> concat_many(Repeated(units[n], count), axis)], axis)

flip(v, axes) ==
    FoldLeft(LAMBDA value, axis :
                 IF Dim(value.ty, axis) <= 1 THEN value
                 ELSE concat_many(Units(value, axis, Reverse(Ascending(Dim(value.ty, axis)))), axis),
             v, IF axes = << >> THEN Ascending(Rank(v.ty)) ELSE axes)

\* Mutant: elements move towards the front.
roll_Backwards(v, axis, shift) ==
    LET dim == Dim(v.ty, axis)
        offset == shift % dim
    IN IF dim <= 1 THEN v
       ELSE IF offset = 0 THEN v
       ELSE concat(Section(v, axis, offset, dim - offset), Section(v, axis, 0, offset), axis)

roll(v, axis, shift) ==
    LET dim == Dim(v.ty, axis)
        offset == shift % dim
    IN IF dim <= 1 THEN v
       ELSE IF offset = 0 THEN v
       ELSE concat(Section(v, axis, dim - offset, offset), Section(v, axis, 0, dim - offset), axis)

pad(v, ty, lows) ==
    LET highs == [d \in DOMAIN lows |-> ty.shape[d] - v.ty.shape[d] - lows[d]]
    IN IF \A d \in DOMAIN lows : lows[d] = 0 /\ highs[d] = 0 THEN v
       ELSE tensor_pad(v, ty, lows, highs, constant(0, ty.elem))

================================================================================
