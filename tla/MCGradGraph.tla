------------------------------ MODULE MCGradGraph ------------------------------
(***************************************************************************)
(* Programs for GradGraph: graph functions of each family of calls, traced *)
(* in every way, and graphs of graph calls.  Elements are numbers of a     *)
(* field, all different unless a tie is the point, and not zero where the  *)
(* call divides by them.                                                   *)
(***************************************************************************)
EXTENDS GradGraph

\* An input and its elements in row-major order.
Given(name, elem, shape, values) ==
    [input |-> InputOf(name, Type(elem, shape)),
     at |-> [i \in Indices(shape) |-> values[Position(shape, i) + 1]]]
InputsOf(given) == [k \in DOMAIN given |-> given[k].input]
AtOf(given) == [k \in DOMAIN given |-> given[k].at]
X(name, shape, values) == Given(name, "f32", shape, values)

F(shape) == Type("f32", shape)
Over(op, axis) == [op |-> op, over |-> axis]
To(op, ty) == [op |-> op, target |-> ty]
Along(op, axis) == [op |-> op, axis |-> axis]
By(op, axes) == [op |-> op, axes |-> axes]
Three == Literal("f32", 3)

Function1(given, calls, literals, results, ids, returns) ==
    [calls |-> calls, literals |-> literals, results |-> results, returns |-> returns,
     inputs |-> InputsOf(given), elements |-> AtOf(given), first_ids |-> ids]
Losses(given, calls, results) == Function1(given, calls, << >>, results, {1}, {"loss"})

Elementwise ==
    Losses(<<X("x", <<3>>, <<3, -2, 0>>)>>,
           {OpOf(op) : op \in (FloatUnary \cup NumericUnary \cup Copies)}, 1)

Arithmetics ==
    Function1(<<X("x", <<2, 3>>, <<1, 4, -3, 2, 5, 7>>), X("y", <<3>>, <<1, 6, 8>>), X("z", <<2, 1>>, <<-3, 9>>)>>,
              {OpOf(op) : op \in Arithmetic \cup {"Pow"}}, <<Three>>, 1, {1}, {"loss"})

Selections ==
    Losses(<<X("x", <<2>>, <<1, -4>>), X("y", <<2, 1>>, <<6, 2>>), X("s", << >>, <<5>>),
             Given("p", "bool", <<2>>, <<1, 0>>)>>,
           {OpOf("Where"), OpOf("FullLike")}, 1)

\* With ties for each extremum.
Reductions1 ==
    Losses(<<X("x", <<2, 3>>, <<2, 5, 5, 2, -7, 2>>), X("s", << >>, <<4>>)>>,
           {Over(op, axis) : op \in {"Sum", "Prod", "Mean", "Std", "Var", "Max", "Min", "Ptp", "Softmax"},
                             axis \in {<< >>, <<0>>, <<1>>}}, 1)

Moves1 ==
    Losses(<<X("x", <<2, 3>>, <<1, 2, 3, 4, 5, 6>>), X("y", <<1, 3>>, <<7, 8, 9>>), X("v", <<1>>, <<10>>)>>,
           {By("Transpose", axes) : axes \in {<< >>, <<1, 0>>}} \cup
           {By("PermuteDims", <<1, 0>>), [op |-> "Permute", target |-> F(<<3, 2>>), axes |-> <<1, 0>>],
            [op |-> "SwapAxes", axis0 |-> 0, axis1 |-> 1], [op |-> "MoveAxis", source |-> 0, destination |-> 1],
            To("Reshape", F(<<3, 2>>)), To("Squeeze", F(<<3>>)), To("Unsqueeze", F(<<1, 2, 3>>)),
            To("Broadcast", F(<<2, 2, 3>>)), To("Broadcast", F(<<2, 3>>)),
            [op |-> "Slice", target |-> F(<<1, 2>>), starts |-> <<1, 1>>],
            [op |-> "Pad", target |-> F(<<3, 5>>), lows |-> <<0, 1>>],
            By("Flip", << >>), By("Flip", <<1>>),
            [op |-> "Roll", axis |-> 1, shift |-> 4], [op |-> "Roll", axis |-> 0, shift |-> 0],
            [op |-> "Tile", multiples |-> <<2, 2>>], [op |-> "Tile", multiples |-> <<1, 0>>],
            [op |-> "Repeat", axis |-> 1, count |-> 2], [op |-> "Repeat", axis |-> 0, count |-> 0],
            [op |-> "Repeat", axis |-> 0, count |-> 1], [op |-> "Take", axis |-> 1, index |-> 2],
            Along("Concat", 0), Along("Concat", 1), Along("Stack", 0), Along("Stack", 1)}, 1)

\* Moves of what other moves have permuted, and sections that are used or not.
Chains ==
    Losses(<<X("x", <<2, 3, 2>>, [n \in 1..12 |-> n])>>,
           {By("Transpose", <<1, 2, 0>>), By("PermuteDims", <<2, 0, 1>>),
            [op |-> "MoveAxis", source |-> 2, destination |-> 0],
            [op |-> "Split", axis |-> 0, sections |-> <<1, 0, 1>>], OpOf("Mul"), By("Diagonal", <<2, 0>>)}, 2)

Gathers1 ==
    Losses(<<X("x", <<2, 3>>, <<1, 2, 3, 4, 5, 6>>), Given("i", "i32", <<2>>, <<1, -2>>),
             Given("j", "i64", <<2, 3>>, <<1, -1, 0, 0, 1, 1>>), Given("k", "i32", <<2, 1>>, <<-1, 1>>)>>,
           {Along("TakeAlongAxis", axis) : axis \in {0, 1}} \cup
           {[op |-> "Gather", axis |-> 0, target |-> F(<<2, 3>>)], [op |-> "Gather", axis |-> 1, target |-> F(<<2, 2>>)],
            [op |-> "Gather", axis |-> 0, target |-> F(<<2, 1, 3>>)]}, 1)

Contractions1 ==
    Losses(<<X("a", <<2, 3>>, <<1, 2, 3, 4, 5, 6>>), X("b", <<2, 3, 2>>, [n \in 1..12 |-> 3 * n % 17]),
             X("v", <<3>>, <<7, -8, 9>>), X("s", << >>, <<5>>)>>,
           {OpOf(op) : op \in {"Matmul", "Dot", "Inner"}} \cup
           {By("Vecdot", axes) : axes \in {<< >>, <<0>>}} \cup
           {By(op, axes) : op \in {"Trace", "Diagonal"}, axes \in {<<0, 2>>, <<2, 0>>}}, 1)

Outers == Losses(<<X("a", <<2, 1>>, <<3, 4>>), X("v", <<2>>, <<7, -8>>), X("s", << >>, <<5>>)>>, {OpOf("Outer")}, 1)

Options(padding, stride, dilation) == [padding |-> padding, stride |-> stride, dilation |-> dilation]
Conv(groups, o) ==
    [op |-> "Conv2d", padding |-> o.padding, stride |-> o.stride, dilation |-> o.dilation, groups |-> groups]
Pool(op, kernel, o) ==
    [op |-> op, padding |-> o.padding, stride |-> o.stride, dilation |-> o.dilation, kernel |-> kernel]
Windows ==
    Losses(<<X("image", <<1, 2, 2, 2>>, <<1, 4, 1, 3, 5, 4, 5, 2>>), X("taps", <<2, 1, 1, 2>>, <<3, -1, 2, 7>>),
             X("deep", <<1, 2, 2, 1>>, <<2, 9, 8, 6>>)>>,
           {Conv(2, Options(<<1, 0, 0, 0>>, <<1, 1>>, <<1, 1>>)), Conv(1, Options(<<0, 0, 1, 1>>, <<1, 2>>, <<1, 1>>))} \cup
           {Pool(op, <<2, 2>>, Options(<<0, 1, 1, 0>>, <<1, 1>>, <<1, 1>>)) : op \in {"MaxPool2d", "AvgPool2d"}}, 1)

\* Shared handles of inputs whose names are those that are generated, and
\* losses that are one or are not.
Shared ==
    Function1(<<X("__knok_node_7", << >>, <<3>>), X("__knok_autograd_1", <<2>>, <<4, 5>>),
                X("__knok_autograd_value", << >>, <<6>>)>>,
              {OpOf("Mul"), OpOf("Detach"), OpOf("Greater"), Over("Sum", << >>)}, << >>, 2, {6, 7}, {"loss", "last"})

\* As deep as a tensor can be.
Deep ==
    Losses(<<X("x", <<1, 1, 1, 1, 1, 2>>, <<3, 4>>)>>,
           {[op |-> "Repeat", axis |-> 5, count |-> count] : count \in {1, 2}} \cup {OpOf("Detach")}, 2)

TracedPrograms ==
    [elementwise |-> Elementwise, arithmetic |-> Arithmetics, selection |-> Selections, reduction |-> Reductions1,
     moves |-> Moves1, chains |-> Chains, gathers |-> Gathers1, contraction |-> Contractions1, outer |-> Outers,
     windows |-> Windows, shared |-> Shared, deep |-> Deep]

(***************************************************************************)
(* Graphs of graph calls.                                                  *)
(***************************************************************************)
V(name) == Var(name)
SumOf(e) == reduced_over("Sum", << >>, e)
MulOf(l, r) == Call(OpOf("Mul"), <<l, r>>)
Def(name, given, outputs, lets, body) == FullGraph(name, InputsOf(given), outputs, lets, body)
Program(given, outputs, lets, body, graphs, signatures) ==
    [elements |-> AtOf(given), graphs |-> graphs, signatures |-> signatures,
     graph |-> Def("loss", given, outputs, lets, body)]

Two == X("x", <<2>>, <<3, 5>>)
Other == X("y", <<2>>, <<7, 11>>)
Vector == F(<<2>>)
Scalar == F(<< >>)

\* layer(x, y) = x * x + y, with a let of its own.
Layer ==
    Def("layer", <<Two, Other>>, <<Vector>>, <<Let(<<"t">>, MulOf(V("x"), V("x")))>>, <<binary("Add", V("t"), V("y"))>>)
\* outer(y) = layer(y, layer'(y)), halves(x) = the two elements of x.
Halves ==
    Def("halves", <<Two>>, <<F(<<1>>), F(<<1>>)>>,
        <<Let(<<"l", "r">>, Call([op |-> "Split", axis |-> 0, sections |-> <<1, 1>>], <<V("x")>>))>>, <<V("r"), V("l")>>)
Calls(name, callee) == Def(name, <<Two>>, <<Vector>>, << >>, <<GraphCall(callee, <<V("x")>>)>>)

Clipped(low, high) ==
    Program(<<X("x", <<5>>, <<-6, 1, 2, 4, 9>>), X("low", << >>, <<low>>), X("high", <<5>>, [n \in 1..5 |-> high])>>,
            <<Scalar>>, << >>,
            <<SumOf(MulOf(Call(OpOf("Clip"), <<V("x"), V("low"), V("high")>>), V("x")))>>, EmptyMap, EmptyMap)

ManyInputs(n) ==
    LET name(k) == "x" \o ToString(k)
    IN Program([k \in 1..n |-> X(name(k), << >>, <<k>>)], <<Scalar>>, << >>,
               <<IF n = 0 THEN Const(Three) ELSE MulOf(V(name(1)), V(name(n)))>>, EmptyMap, EmptyMap)

DeclaredPrograms ==
    [clip |-> Clipped(1, 4),
     eleven |-> ManyInputs(11), twelve |-> ManyInputs(12), none |-> ManyInputs(0),
     unused |-> Program(<<Two, Other>>, <<Scalar>>, << >>, <<SumOf(V("x"))>>, EmptyMap, EmptyMap),
     pair |-> Program(<<Two>>, <<Scalar, Scalar>>, << >>, <<SumOf(V("x")), SumOf(V("x"))>>, EmptyMap, EmptyMap),
     \* The caller's x and y are the callee's y and x, and its t is another.
     swapped |-> Program(<<Two, Other>>, <<Scalar>>, <<Let(<<"t">>, neg(V("x")))>>,
                         <<SumOf(MulOf(GraphCall("layer", <<V("y"), V("t")>>), V("x")))>>, [layer |-> Layer], EmptyMap),
     twice |-> Program(<<Two>>, <<Scalar>>,
                       <<Let(<<"a">>, GraphCall("layer", <<V("x"), V("x")>>)),
                         Let(<<"b">>, GraphCall("layer", <<V("a"), V("x")>>))>>,
                       <<SumOf(V("b"))>>, [layer |-> Layer], EmptyMap),
     \* A call in the arguments of another, of other graphs.
     within |-> Program(<<Two>>, <<Scalar>>, << >>,
                        <<SumOf(GraphCall("layer", <<GraphCall("wrap", <<V("x")>>), V("x")>>))>>,
                        [wrap |-> Def("wrap", <<Other>>, <<Vector>>, << >>, <<MulOf(V("y"), V("y"))>>), layer |-> Layer],
                        EmptyMap),
     indirect |-> Program(<<Two>>, <<Scalar>>, << >>, <<SumOf(GraphCall("wrap", <<V("x")>>))>>,
                          [wrap |-> Def("wrap", <<Other>>, <<Vector>>, << >>,
                                        <<GraphCall("layer", <<V("y"), V("y")>>)>>), layer |-> Layer], EmptyMap),
     halves |-> Program(<<Two>>, <<Scalar>>, <<Let(<<"p", "q">>, GraphCall("halves", <<V("x")>>))>>,
                        <<SumOf(MulOf(V("p"), MulOf(V("q"), V("q"))))>>, [halves |-> Halves], EmptyMap),
     recursive |-> Program(<<Two>>, <<Scalar>>, << >>, <<SumOf(GraphCall("f", <<V("x")>>))>>,
                           [f |-> Calls("f", "g"), g |-> Calls("g", "f")], EmptyMap),
     unknown |-> Program(<<Two>>, <<Scalar>>, << >>, <<SumOf(GraphCall("f", <<V("x")>>))>>, EmptyMap,
                         [f |-> Signature(Calls("f", "g"))])]

\* layer(layer(x, x), x): a graph applied to a result of its own, not recursive.
NestedTraced == << >>
NestedDeclared ==
    [nested |-> Program(<<Two>>, <<Scalar>>, << >>,
                        <<SumOf(GraphCall("layer", <<GraphCall("layer", <<V("x"), V("x")>>), V("x")>>))>>,
                        [layer |-> Layer], EmptyMap)]
================================================================================
