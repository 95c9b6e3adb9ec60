--------------------------------- MODULE MCOps ---------------------------------
(***************************************************************************)
(* Inputs and calls for OpProgram, one family of kernels for each run.     *)
(* Tensors have a few elements, all different where the family moves or    *)
(* orders them; shapes have unit dimensions in every position, rank 0      *)
(* comes as a tensor (a graph's input) and as a scalar (a constant).       *)
(***************************************************************************)
EXTENDS OpProgram

\* A graph's input: element n of its shape in row-major order is At(n).
Input(elem, shape, At(_)) == Tensor(Type(elem, shape), TRUE, LAMBDA i : At(Position(shape, i)))
Floating(shape, seed) == Input("f32", shape, LAMBDA n : Field(7 * n + seed))
Signed(shape, seed) == Input("i32", shape, LAMBDA n : 37 * n - seed)
Logic(shape) == Input("bool", shape, LAMBDA n : n % 2)
Scalar(elem, element) == constant(element, elem)

Op(op) == [op |-> op]
Over(op, axis) == [op |-> op, over |-> axis]
To(op, ty) == [op |-> op, target |-> ty]
Along(op, axis) == [op |-> op, axis |-> axis]
By(op, axes) == [op |-> op, axes |-> axes]
F(shape) == Type("f32", shape)

\* Elementwise calls on operands that stretch each other.
ElementwiseInputs ==
    <<Floating(<<2, 3>>, 1), Floating(<<2, 1>>, 2), Floating(<<1, 3>>, 17), Floating(<<1, 1>>, 5),
      Floating(<<3>>, 11), Floating(<< >>, 23), Scalar("f32", 3),
      Signed(<<2, 1>>, 3), Signed(<<3>>, 100), Scalar("i32", -128),
      Logic(<<2, 1>>), Logic(<<3>>), Scalar("bool", 1)>>
ElementwiseCalls ==
    {Op(op) : op \in Elementwise} \cup
    {To("Broadcast", F(shape)) : shape \in {<<2, 3>>, <<2, 2, 3>>, <<3, 1>>, <<3, 3>>, <<1>>, << >>}}

\* Chains of calls on values of rank 0, in both kinds, and on one element.
ScalarInputs == <<Floating(<< >>, 6), Scalar("f32", 3), Floating(<<1>>, 8), Scalar("bool", 1)>>
ScalarCalls ==
    {Op(op) : op \in {"ZerosLike", "Neg", "Exp", "IsNan", "Detach", "Add", "Maximum", "Less", "Where",
                      "FullLike", "Inner", "Outer"}} \cup
    {Over(op, << >>) : op \in {"Sum", "Mean", "Var", "Ptp", "Argmax", "Max"}} \cup
    {To("Reshape", F(shape)) : shape \in {<< >>, <<1>>, <<1, 1>>}} \cup
    {To("Broadcast", F(shape)) : shape \in {<< >>, <<2>>}} \cup
    {Along("Stack", 0), [op |-> "Take", axis |-> 0, index |-> 0],
     [op |-> "Slice", target |-> F(<< >>), starts |-> << >>], By("Flip", << >>)}

\* The smallest numbers, one of them not finite.
ExtremeInputs == <<Input("f32", <<2>>, LAMBDA n : NegativeInfinity + n), Input("f32", <<2>>, LAMBDA n : FieldMax + n)>>
ExtremeCalls == {Over(op, << >>) : op \in {"Argmax", "Argmin"}}

\* Chains of moves, so that the second works on what the first has moved.
MoveInputs == <<Floating(<<2, 3>>, 1), Floating(<<3, 1>>, 2), Signed(<<2, 2>>, 5),
                Input("i64", <<2>>, LAMBDA n : 2 * n - 3)>>
Axes == 0..2
MoveCalls ==
    {By("Transpose", axes) : axes \in {<< >>, <<1, 0>>, <<1, 2, 0>>}} \cup
    {By("PermuteDims", axes) : axes \in {<<1, 0>>, <<2, 0, 1>>, <<0, 1>>}} \cup
    {[op |-> "Permute", target |-> F(<<3, 2>>), axes |-> <<1, 0>>],
     [op |-> "SwapAxes", axis0 |-> 0, axis1 |-> 2], [op |-> "SwapAxes", axis0 |-> 1, axis1 |-> 0],
     [op |-> "MoveAxis", source |-> 0, destination |-> 2],
     [op |-> "MoveAxis", source |-> 2, destination |-> 0],
     [op |-> "MoveAxis", source |-> 1, destination |-> 1]} \cup
    {To("Reshape", F(shape)) : shape \in {<<6>>, <<3, 2>>, <<1, 2, 3>>, <<2, 3>>}} \cup
    {To("Squeeze", F(<<3>>)), To("Unsqueeze", F(<<1, 3>>)),
     To("Broadcast", F(<<3, 2>>)), To("Broadcast", F(<<2, 1, 3>>)), To("Broadcast", F(<<1>>)),
     [op |-> "Slice", target |-> F(<<1, 2>>), starts |-> <<1, 1>>],
     [op |-> "Slice", target |-> F(<<2>>), starts |-> <<1>>],
     [op |-> "Pad", target |-> F(<<3, 4>>), lows |-> <<0, 1>>],
     [op |-> "Pad", target |-> F(<<3, 3>>), lows |-> <<1, 0>>]} \cup
    {By("Flip", axes) : axes \in {<< >>, <<1>>, <<1, 0>>}} \cup
    {[op |-> "Roll", axis |-> axis, shift |-> shift] : axis \in {0, 1}, shift \in {0, 1, 3, 5}} \cup
    {[op |-> "Tile", multiples |-> multiples] : multiples \in {<<2, 1>>, <<1, 2>>, <<2, 2>>, <<0, 2>>}} \cup
    {[op |-> "Repeat", axis |-> axis, count |-> count] : axis \in {0, 1}, count \in {0, 1, 2}} \cup
    {[op |-> "Take", axis |-> axis, index |-> index] : axis \in Axes, index \in {0, 1}} \cup
    {Along(op, axis) : op \in {"Concat", "Stack"}, axis \in Axes} \cup
    {[op |-> "Split", axis |-> 0, sections |-> <<1, 1>>],
     [op |-> "Split", axis |-> 1, sections |-> <<1, 0, 2>>]} \cup
    {By("Diagonal", << >>), By("Diagonal", <<2, 0>>)}

\* Indices of every rank, of both widths, within the axis and outside it.
GatherInputs ==
    <<Floating(<<2, 3>>, 1), Floating(<<3>>, 2), Signed(<<2, 2>>, 5),
      Input("i32", <<2>>, LAMBDA n : 2 - 4 * n), Input("i64", <<2, 2>>, LAMBDA n : n - 2),
      Input("i64", <<1, 3>>, LAMBDA n : n - 1), Input("i32", <<2, 1>>, LAMBDA n : 2 - 5 * n),
      Input("f32", <<3, 0>>, LAMBDA n : 0), Input("i32", << >>, LAMBDA n : -1), Scalar("i32", -3), Scalar("i64", 2)>>
GatherCalls ==
    {Along("TakeAlongAxis", axis) : axis \in {0, 1}} \cup
    {[op |-> "Gather", axis |-> axis, target |-> Type(elem, shape)] :
        axis \in {0, 1}, elem \in {"f32", "i32"},
        shape \in {<< >>, <<2>>, <<3>>, <<2, 2>>, <<2, 3>>, <<2, 1>>, <<1, 3>>, <<2, 2, 3>>, <<1, 3, 3>>,
                   <<2, 2, 2>>, <<2, 1, 3>>, <<2, 0>>, <<3, 2>>}} \cup
    {By("Transpose", << >>), Op("Neg"), Op("Add")}

\* Reductions of every axis of a rank, of both signs, and of their results.
ReductionInputs ==
    <<Floating(<<2, 3>>, 1), Floating(<<2, 1, 2>>, 3), Floating(<<1>>, 9), Floating(<< >>, 4),
      Signed(<<3, 2>>, 90), Logic(<<2, 3>>), Input("bool", <<2>>, LAMBDA n : 1),
      Input("f32", <<0, 2>>, LAMBDA n : 0), Input("f32", <<2, 2>>, LAMBDA n : 4)>>
ReductionCalls ==
    {Over(op, axis) : op \in Reducing, axis \in {<< >>, <<0>>, <<1>>, <<2>>}} \cup
    {Op("Sub"), By("Transpose", << >>)}

\* Tensors known at build time: empty, of one element, downwards, with a step that
\* leaves a rest, of integers at the edge of their range, with parameters of
\* another kind, and of another length than the target's.
CreationInputs == <<Floating(<<2, 2>>, 1), Signed(<<2>>, 3)>>
Params(elem, values) == [k \in DOMAIN values |-> Literal(elem, values[k])]
CreationCalls ==
    {[op |-> "Arange", target |-> Type(elem, <<length>>), params |-> Params(param, values)] :
        elem \in {"f32", "i64"}, param \in {"f32", "i32"}, length \in {0, 1, 2, 3},
        values \in {<<3>>, <<1, 3>>, <<0, 5, 2>>, <<5, 0, -3>>, <<0, 3, 0>>, <<2, 1, 1>>, <<126, 129>>}} \cup
    {[op |-> "Linspace", target |-> Type(elem, <<length>>), params |-> Params(elem, values)] :
        elem \in {"f32", "i64"}, length \in {0, 1, 2, 3},
        values \in {<<1, 5>>, <<3, -4>>, <<2, 2>>, <<100, 200>>}} \cup
    {To("Eye", Type(elem, shape)) : elem \in {"f32", "bool"}, shape \in {<<2, 2>>, <<1, 1>>, <<0, 0>>, <<2, 3>>}} \cup
    {Op("Add"), Op("Matmul"), Over("Sum", << >>)}

\* Products with vectors, stretched batches, unit and empty inner dimensions.
ContractionInputs ==
    <<Floating(<<2, 3>>, 1), Floating(<<3, 2>>, 5), Floating(<<3>>, 7), Floating(<<2, 1, 3>>, 4),
      Floating(<<1, 3, 2>>, 9), Floating(<<2, 3, 2>>, 3), Floating(<< >>, 8), Scalar("f32", 5),
      Signed(<<2, 2>>, 40), Input("f32", <<0>>, LAMBDA n : 0)>>
ContractionCalls ==
    {Op(op) : op \in {"Matmul", "Dot", "Inner", "Outer"}} \cup
    {By("Vecdot", axes) : axes \in {<< >>, <<0>>, <<1>>}} \cup
    {By(op, axes) : op \in {"Trace", "Diagonal"}, axes \in {<< >>, <<1, 0>>, <<0, 2>>, <<2, 0>>, <<1, 2>>}}

\* Windows with padding on one side, strides, dilations and groups.
WindowInputs ==
    <<Floating(<<1, 3, 2, 2>>, 1), Floating(<<1, 2, 3, 1>>, 2), Signed(<<1, 2, 2, 1>>, 50),
      Floating(<<2, 1, 2, 2>>, 3), Floating(<<1, 2, 1, 2>>, 4), Floating(<<2, 2, 1, 1>>, 6),
      Signed(<<1, 2, 1, 1>>, 7)>>
Options == [padding : {<<0, 0, 0, 0>>, <<1, 0, 1, 1>>, <<0, 1, 1, 0>>},
            stride : {<<1, 1>>, <<2, 1>>, <<1, 2>>}, dilation : {<<1, 1>>, <<2, 1>>, <<1, 2>>}]
WindowCalls ==
    UNION {{[op |-> "Conv2d", padding |-> o.padding, stride |-> o.stride,
             dilation |-> o.dilation, groups |-> groups] : groups \in {1, 2}} \cup
           {[op |-> op, padding |-> o.padding, stride |-> o.stride,
             dilation |-> o.dilation, kernel |-> kernel] : op \in {"MaxPool2d", "AvgPool2d"}, kernel \in {<<2, 1>>, <<1, 2>>}} :
           o \in Options}

(***************************************************************************)
(* The families of the runs.                                               *)
(***************************************************************************)
Family(inputs, calls, results) == [inputs |-> inputs, calls |-> calls, results |-> results]

AllFamilies ==
    [elementwise |-> Family(ElementwiseInputs, ElementwiseCalls, 1),
     scalar |-> Family(ScalarInputs, ScalarCalls, 3),
     move |-> Family(MoveInputs, MoveCalls, 2),
     gather |-> Family(GatherInputs, GatherCalls, 2),
     reduction |-> Family(ReductionInputs, ReductionCalls, 2),
     creation |-> Family(CreationInputs, CreationCalls, 2),
     contraction |-> Family(ContractionInputs, ContractionCalls, 2),
     window |-> Family(WindowInputs, WindowCalls, 1)]
ExtremeFamily == [extreme |-> Family(ExtremeInputs, ExtremeCalls, 1)]
================================================================================
