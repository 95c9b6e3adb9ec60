------------------------------- MODULE Meanings --------------------------------
(***************************************************************************)
(* What each call means: the element of its result at an index, given by   *)
(* the elements of its arguments, with the semantics of docs/semantics.md  *)
(* (NumPy's broadcasting, axes counted from 0, row-major order).  Nothing  *)
(* here says how a call is computed: no slices, no reassociations, no      *)
(* indexing maps, no scalar kinds.  The meaning of a tensor is its type    *)
(* and the element at each index.                                          *)
(***************************************************************************)
EXTENDS Kernels

Meaning(ty, at) == [ty |-> ty, at |-> at]
Read(t, i) == IF i \in DOMAIN t.at THEN t.at[i] ELSE Undefined

(***************************************************************************)
(* Numbers.                                                                *)
(***************************************************************************)
Number(elem, n) == IF elem \in Floats THEN Field(n) ELSE Wrap(n)
Quotient(elem, a, b) == IF elem \in Floats THEN FieldQuotient(a, b) ELSE Wrap(Truncated(a, b))
Truth(holds) == IF holds THEN 1 ELSE 0
Total(elem, numbers) == Number(elem, FoldLeft(+, 0, numbers))
Greatest(numbers) == CHOOSE a \in ToSet(numbers) : \A b \in ToSet(numbers) : b <= a
Least(numbers) == CHOOSE a \in ToSet(numbers) : \A b \in ToSet(numbers) : a <= b
Negated(elem, a) == Number(elem, -a)

UnaryMeaning(op, elem, a) ==
    CASE op \in DOMAIN MathNames -> math_op(MathNames[op], a)
      [] op = "Abs" -> Number(elem, Magnitude(a))
      [] op = "Neg" -> Negated(elem, a)
      [] op = "Reciprocal" -> Quotient(elem, 1, a)
      [] op = "Square" -> Number(elem, a * a)
      [] op = "Exp2" -> math_op("exp", Number(elem, a * Ln2))
      [] op = "Log2" -> Quotient(elem, math_op("log", a), Ln2)
      [] op = "Log10" -> Quotient(elem, math_op("log", a), Ln10)
      [] op = "Relu" -> Greatest(<<0, a>>)
      [] op = "Sigmoid" -> Quotient(elem, 1, Number(elem, 1 + math_op("exp", Negated(elem, a))))
      [] op = "IsNan" -> 0
      [] op = "LogicalNot" -> 1 - a
      [] op = "Detach" -> a
      [] op = "OnesLike" -> 1
      [] op = "ZerosLike" -> 0

BinaryMeaning(op, elem, a, b) ==
    CASE op = "Add" -> Number(elem, a + b)
      [] op = "Sub" -> Number(elem, a - b)
      [] op = "Mul" -> Number(elem, a * b)
      [] op = "Div" -> Quotient(elem, a, b)
      [] op = "Pow" -> scalar_op("math.powf", a, b)
      [] op = "Minimum" -> Least(<<a, b>>)
      [] op = "Maximum" -> Greatest(<<a, b>>)
      [] op = "Greater" -> Truth(a > b)
      [] op = "GreaterEqual" -> Truth(a >= b)
      [] op = "Less" -> Truth(a < b)
      [] op = "LessEqual" -> Truth(a <= b)
      [] op = "Equal" -> Truth(a = b)
      [] op = "NotEqual" -> Truth(a # b)
      [] op = "LogicalAnd" -> Truth(a = 1 /\ b = 1)
      [] op = "LogicalOr" -> Truth(a = 1 \/ b = 1)
      [] op = "LogicalXor" -> Truth(a # b)

\* An empty interval clamps to its lower end.
Clamped(a, low, high) == IF a > high /\ high > low THEN high ELSE IF a < low \/ high <= low THEN low ELSE a

(***************************************************************************)
(* Broadcasting and reductions.                                            *)
(***************************************************************************)
\* The element that a tensor shows at an index of a shape it stretches to:
\* shapes are aligned at their ends, and a dimension of 1 is the same everywhere.
Shown(t, i) ==
    LET missing == Rank(t.ty) - Len(i)
    IN Read(t, [d \in DOMAIN t.ty.shape |-> CASE t.ty.shape[d] = 1 -> 0
                                             [] t.ty.shape[d] # 1 /\ d <= missing -> Undefined
                                             [] OTHER -> i[d - missing]])

\* The elements of t that are reduced into the one at index i.
Cells(t, axis, i) ==
    [n \in 1..Product(IF axis = << >> THEN t.ty.shape ELSE <<Dim(t.ty, axis[1])>>) |->
        Read(t, IF axis = << >> THEN IndexAt(t.ty.shape, n - 1) ELSE InsertAt(i, axis[1] + 1, n - 1))]

Average(elem, numbers) == Quotient(elem, Total(elem, numbers), Len(numbers))
Variance(elem, numbers) ==
    LET average == Average(elem, numbers)
    IN Average(elem, [n \in DOMAIN numbers |-> (numbers[n] - average) * (numbers[n] - average)])
FirstOf(numbers, number) ==
    CHOOSE n \in DOMAIN numbers : numbers[n] = number /\ \A m \in 1..n - 1 : numbers[m] # number

ReductionMeaning(op, elem, cells) ==
    CASE op = "Sum" -> Total(elem, cells)
      [] op = "Prod" -> FoldLeft(LAMBDA a, b : Number(elem, a * b), 1, cells)
      [] op = "All" -> Truth(\A n \in DOMAIN cells : cells[n] = 1)
      [] op = "Any" -> Truth(\E n \in DOMAIN cells : cells[n] = 1)
      [] op = "Max" -> Greatest(cells)
      [] op = "Min" -> Least(cells)
      [] op = "Ptp" -> Number(elem, Greatest(cells) - Least(cells))
      [] op = "Mean" -> Average(elem, cells)
      [] op = "Var" -> Variance(elem, cells)
      [] op = "Std" -> math_op("sqrt", Variance(elem, cells))
      [] op = "Argmax" -> FirstOf(cells, Greatest(cells)) - 1
      [] op = "Argmin" -> FirstOf(cells, Least(cells)) - 1

\* Each element over the sum of those it is normalized with.
SoftmaxMeaning(t, axis, i) ==
    LET elem == t.ty.elem
        cells == Cells(t, axis, IF axis = << >> THEN << >> ELSE RemoveAt(i, axis[1] + 1))
        Weight(a) == math_op("exp", Number(elem, a - Greatest(cells)))
    IN Quotient(elem, Weight(Read(t, i)), Total(elem, [n \in DOMAIN cells |-> Weight(cells[n])]))

(***************************************************************************)
(* Which element of the argument moves to an index of the result.          *)
(***************************************************************************)
Unpermuted(i, axes) == [k \in DOMAIN i |-> i[CHOOSE d \in DOMAIN axes : axes[d] = k - 1]]
Replaced(i, axis, n) == [d \in DOMAIN i |-> IF d = axis + 1 THEN n ELSE i[d]]

SourceIndex(c, t, ty, i) ==
    LET rank == Rank(t.ty)
    IN CASE c.op = "Transpose" -> IF c.axes = << >> THEN Reverse(i) ELSE Unpermuted(i, c.axes)
         [] c.op \in {"Permute", "PermuteDims"} -> Unpermuted(i, c.axes)
         [] c.op = "SwapAxes" -> Replaced(Replaced(i, c.axis0, i[c.axis1 + 1]), c.axis1, i[c.axis0 + 1])
         [] c.op = "MoveAxis" ->
              InsertAt(RemoveAt(i, c.destination + 1), c.source + 1, i[c.destination + 1])
         [] c.op \in {"Reshape", "Squeeze", "Unsqueeze"} -> IndexAt(t.ty.shape, Position(ty.shape, i))
         [] c.op = "Slice" -> [d \in DOMAIN i |-> i[d] + c.starts[d]]
         [] c.op = "Flip" ->
              [d \in DOMAIN i |-> IF c.axes = << >> \/ d - 1 \in ToSet(c.axes)
                                  THEN t.ty.shape[d] - 1 - i[d] ELSE i[d]]
         [] c.op = "Roll" -> Replaced(i, c.axis, (i[c.axis + 1] - c.shift) % Dim(t.ty, c.axis))
         [] c.op = "Tile" -> [d \in DOMAIN i |-> i[d] % t.ty.shape[d]]
         [] c.op = "Repeat" -> Replaced(i, c.axis, i[c.axis + 1] \div c.count)
         [] c.op = "Take" -> InsertAt(i, c.axis + 1, c.index)
         [] c.op = "Diagonal" ->
              LET pair == axis_pair(t.ty, c.axes)
              IN [k \in 1..rank |-> IF k - 1 \in ToSet(pair) THEN Last(i)
                                    ELSE i[k - Cardinality({a \in ToSet(pair) : a < k - 1})]]

Moves == {"Transpose", "Permute", "PermuteDims", "SwapAxes", "MoveAxis", "Reshape", "Squeeze",
          "Unsqueeze", "Slice", "Flip", "Roll", "Tile", "Repeat", "Take", "Diagonal"}

\* An index counted from the end when it is negative.
Counted(n, dim) == IF n < 0 THEN n + dim ELSE n
GatherIndex(c, t, indices, i) ==
    LET rank == Rank(indices.ty)
        n == Counted(Read(indices, SubSeq(i, c.axis + 1, c.axis + rank)), Dim(t.ty, c.axis))
    IN SubSeq(i, 1, c.axis) \o <<n>> \o SubSeq(i, c.axis + rank + 1, Len(i))

ConcatMeaning(l, r, axis, i) ==
    LET n == Dim(l.ty, axis)
    IN IF i[axis + 1] < n THEN Read(l, i) ELSE Read(r, Replaced(i, axis, i[axis + 1] - n))

(***************************************************************************)
(* Sums of products, and windows.                                          *)
(***************************************************************************)
\* A vector is a row on the left of a product, a column on its right.
MatmulMeaning(l, r, i) ==
    LET lshape == l.ty.shape
        rshape == r.ty.shape
        row == IF Len(lshape) = 1 THEN << >> ELSE <<i[Len(i) - Len(Columns(rshape))]>>
        column == IF Len(rshape) = 1 THEN << >> ELSE <<Last(i)>>
        batch == SubSeq(i, 1, Len(i) - Len(row) - Len(column))
    IN Total(l.ty.elem, [k \in 1..LhsInner(lshape) |->
           Shown(l, batch \o row \o <<k - 1>>)
           * Shown(r, batch \o <<k - 1>> \o column)])

InnerMeaning(l, r, i) ==
    LET rows == Rank(l.ty) - 1
    IN IF Rank(l.ty) = 0 \/ Rank(r.ty) = 0 THEN Number(l.ty.elem, Shown(l, i) * Shown(r, i))
       ELSE Total(l.ty.elem, [k \in 1..Last(l.ty.shape) |->
                Read(l, Append(SubSeq(i, 1, rows), k - 1))
                * Read(r, Append(SubSeq(i, rows + 1, Len(i)), k - 1))])

VecdotMeaning(l, r, axes, i) ==
    LET axis == vecdot_axis(l.ty, axes)
        lhs == Cells(l, <<axis>>, i)
        rhs == Cells(r, <<axis>>, i)
    IN Total(l.ty.elem, [n \in DOMAIN lhs |-> lhs[n] * rhs[n]])

TraceMeaning(t, axes, i) ==
    LET c == [op |-> "Diagonal", axes |-> axes]
    IN Total(t.ty.elem, [n \in 1..Dim(t.ty, axis_pair(t.ty, axes)[1]) |->
                            Read(t, SourceIndex(c, t, t.ty, Append(i, n - 1)))])

\* The element of an NHWC image under position (h, w) of the window of index i;
\* "outside" is what lies around the image.
Under(t, o, i, h, w, channel, outside) ==
    LET row == i[2] * o.stride[1] + h * o.dilation[1] - o.padding[1]
        column == i[3] * o.stride[2] + w * o.dilation[2] - o.padding[3]
    IN IF row \in 0..Dim(t.ty, 1) - 1 /\ column \in 0..Dim(t.ty, 2) - 1
       THEN Read(t, <<i[1], row, column, channel>>) ELSE outside

ConvMeaning(t, kernel, o, i) ==
    LET k == kernel.ty.shape
        group == i[4] \div (k[4] \div o.groups)
        product(p) == Under(t, o, i, p[1], p[2], group * k[3] + p[3], 0) * Read(kernel, p \o <<i[4]>>)
        window == SubSeq(k, 1, 3)
    IN Total(t.ty.elem, [n \in 1..Product(window) |-> product(IndexAt(window, n - 1))])

Window(t, o, i, outside) ==
    [n \in 1..Product(o.kernel) |->
        LET p == IndexAt(o.kernel, n - 1) IN Under(t, o, i, p[1], p[2], i[4], outside)]

(***************************************************************************)
(* The meaning of a call.                                                  *)
(***************************************************************************)
ElementOfOne(c, t, ty, i) ==
    CASE c.op \in Unary -> UnaryMeaning(c.op, t.ty.elem, Read(t, i))
      [] c.op \in DOMAIN Reduces -> ReductionMeaning(c.op, t.ty.elem, Cells(t, c.over, i))
      [] c.op = "Softmax" -> SoftmaxMeaning(t, c.over, i)
      [] c.op \in Moves -> Read(t, SourceIndex(c, t, ty, i))
      [] c.op = "Broadcast" -> Shown(t, i)
      [] c.op = "Pad" -> LET j == [d \in DOMAIN i |-> i[d] - c.lows[d]]
                         IN IF j \in DOMAIN t.at THEN t.at[j] ELSE 0
      [] c.op = "Trace" -> TraceMeaning(t, c.axes, i)
      [] c.op = "MaxPool2d" ->
           Greatest(Window(t, c, i, IF t.ty.elem \in Floats THEN NegativeInfinity ELSE IntMin))
      [] c.op = "AvgPool2d" -> Average(t.ty.elem, Window(t, c, i, 0))

ElementOfTwo(c, l, r, i) ==
    CASE c.op \in Binary -> BinaryMeaning(c.op, l.ty.elem, Shown(l, i), Shown(r, i))
      [] c.op = "FullLike" -> Read(r, << >>)
      [] c.op = "Concat" -> ConcatMeaning(l, r, c.axis, i)
      [] c.op = "Stack" -> Read(IF i[c.axis + 1] = 0 THEN l ELSE r, RemoveAt(i, c.axis + 1))
      [] c.op = "Gather" -> Read(l, GatherIndex(c, l, r, i))
      [] c.op = "TakeAlongAxis" -> Read(l, Replaced(i, c.axis, Counted(Read(r, i), Dim(l.ty, c.axis))))
      [] c.op = "Matmul" -> MatmulMeaning(l, r, i)
      [] c.op \in {"Dot", "Inner"} -> InnerMeaning(l, r, i)
      [] c.op = "Vecdot" -> VecdotMeaning(l, r, c.axes, i)
      [] c.op = "Outer" -> Number(l.ty.elem, Read(l, IndexAt(l.ty.shape, i[1]))
                                             * Read(r, IndexAt(r.ty.shape, i[2])))
      [] c.op = "Conv2d" -> ConvMeaning(l, r, c, i)

ElementOfThree(c, args, i) ==
    LET e == [k \in 1..3 |-> Shown(args[k], i)]
    IN IF c.op = "Clip" THEN Clamped(e[1], e[2], e[3]) ELSE IF e[1] = 1 THEN e[2] ELSE e[3]

\* From the start by steps, as long as the stop is not reached: no element of a
\* range that is longer or shorter.
ArangeMeaning(c, n, length) ==
    LET b == arange_bounds(c.params)
        InRange(a) == IF b[3] > 0 THEN a < b[2] ELSE a > b[2]
    IN IF InRange(b[1] + (length - 1) * b[3]) /\ ~InRange(b[1] + length * b[3])
       THEN Number(c.target.elem, b[1] + n * b[3]) ELSE Undefined

\* From the first parameter to the second in equal steps.
LinspaceMeaning(c, n, length) ==
    LET a == c.params[1].value
        b == c.params[2].value
    IN IF n = 0 THEN Number(c.target.elem, a)
       ELSE Quotient(c.target.elem, (length - 1 - n) * a + n * b, length - 1)

ElementOfNone(c, ty, i) ==
    CASE c.op = "Arange" -> ArangeMeaning(c, i[1], ty.shape[1])
      [] c.op = "Linspace" -> LinspaceMeaning(c, i[1], ty.shape[1])
      [] c.op = "Eye" -> Truth(i[1] = i[2])

ElementOf(c, args, ty, i) ==
    CASE Len(args) = 0 -> ElementOfNone(c, ty, i)
      [] Len(args) = 1 -> ElementOfOne(c, args[1], ty, i)
      [] Len(args) = 2 -> ElementOfTwo(c, args[1], args[2], i)
      [] Len(args) = 3 -> ElementOfThree(c, args, i)

SectionMeaning(c, t, ty, offset) ==
    Meaning(ty, [i \in Indices(ty.shape) |-> Read(t, Replaced(i, c.axis, i[c.axis + 1] + offset))])

\* The meanings of the results, whose types the type checker has inferred.
Meant(c, args, types) ==
    IF c.op = "Split"
    THEN [n \in DOMAIN types |-> SectionMeaning(c, args[1], types[n], Before(c.sections, n - 1))]
    ELSE <<Meaning(types[1], [i \in Indices(types[1].shape) |-> ElementOf(c, args, types[1], i)])>>

================================================================================
