------------------------------ MODULE Derivatives ------------------------------
(***************************************************************************)
(* What an expression means, and how its value changes with the inputs:    *)
(* the total derivative of each call, by calculus and by the edge cases of *)
(* docs/semantics.md, for one direction of change after another.  Nothing  *)
(* here says how a gradient is computed.                                   *)
(*                                                                         *)
(* A Dual is a value and its tangents, the derivative of each element for  *)
(* each direction.  The sine and the others are arbitrary functions of the *)
(* field; their derivatives are those of calculus in terms of them.        *)
(***************************************************************************)
EXTENDS Meanings, TypeCheck

Dual(value, tangents) == [value |-> value, tangents |-> tangents]
Map(ty, At(_)) == Meaning(ty, [i \in Indices(ty.shape) |-> At(i)])
ZeroOf(ty) == Map(ty, LAMBDA i : 0)
Plus(s, t) == Map(s.ty, LAMBDA i : Number(s.ty.elem, s.at[i] + t.at[i]))
ZerosOf(types) == [n \in DOMAIN types |-> ZeroOf(types[n])]
PlusEach(ss, ts) == [n \in DOMAIN ss |-> Plus(ss[n], ts[n])]

(***************************************************************************)
(* Elementwise calls, at one element: x and its derivative d, the value y. *)
(***************************************************************************)
\* The function of an expression's operation at one element.
At(op, x) == UnaryMeaning(op, "f32", x)
Over2(a, b) == FieldQuotient(a, b)

SlopeAt(op, x, y) ==
    CASE op = "Neg" -> -1
      [] op = "Abs" -> IF x > 0 THEN 1 ELSE IF x < 0 THEN -1 ELSE 0
      [] op = "Relu" -> IF x > 0 THEN 1 ELSE 0
      [] op = "Exp" -> y
      [] op = "Exp2" -> y * Ln2
      [] op = "ExpM1" -> y + 1
      [] op = "Sin" -> At("Cos", x)
      [] op = "Cos" -> -At("Sin", x)
      [] op = "Tan" -> 1 + y * y
      [] op = "Tanh" -> 1 - y * y
      [] op = "Sigmoid" -> Field(y * (1 - y))
      [] op = "Square" -> 2 * x
      [] op = "Sqrt" -> Over2(1, 2 * y)
      [] op = "Reciprocal" -> Over2(-1, x * x)
      [] op = "Log" -> Over2(1, x)
      [] op = "Log1P" -> Over2(1, 1 + x)
      [] op = "Log2" -> Over2(1, x * Ln2)
      [] op = "Log10" -> Over2(1, x * Ln10)

\* The partial derivatives of a binary call; an extremum ties to the left.
PartialsAt(op, a, b, y) ==
    CASE op = "Add" -> <<1, 1>>
      [] op = "Sub" -> <<1, -1>>
      [] op = "Mul" -> <<b, a>>
      [] op = "Div" -> <<Over2(1, b), -Over2(a, b * b)>>
      [] op = "Pow" -> <<Field(b * BinaryMeaning("Pow", "f32", a, Field(b - 1))), Field(y * At("Log", a))>>
      [] op = "Maximum" -> IF b > a THEN <<0, 1>> ELSE <<1, 0>>
      [] op = "Minimum" -> IF b < a THEN <<0, 1>> ELSE <<1, 0>>
      [] op = "FullLike" -> <<0, 1>>

\* Of the value and the bounds, the bounds in order.
ClipPartialsAt(a, low, high) ==
    CASE a < low -> <<0, 1, 0>>
      [] a > high -> <<0, 0, 1>>
      [] OTHER -> <<1, 0, 0>>

\* The sum of partial derivatives times the derivatives of the operands.
Chain(partials, ds) == Field(FoldLeft(LAMBDA n, k : n + partials[k] * ds[k], 0, [k \in DOMAIN ds |-> k]))
ShownAt(tensors, i) == [k \in DOMAIN tensors |-> Shown(tensors[k], i)]

ElementwiseTangent(c, args, ds, y) ==
    LET Partials(e, i) == CASE c.op \in Unary -> <<SlopeAt(c.op, e[1], y.at[i])>>
                            [] c.op = "Clip" -> ClipPartialsAt(e[1], e[2], e[3])
                            [] OTHER -> PartialsAt(c.op, e[1], e[2], y.at[i])
    IN Map(y.ty, LAMBDA i : Chain(Partials(ShownAt(args, i), i), ShownAt(ds, i)))

(***************************************************************************)
(* Reductions, at one element: the cells it reduces and their derivatives. *)
(***************************************************************************)
Without(cells, n) == FoldLeft(LAMBDA a, b : Field(a * b), 1, RemoveAt(cells, n))
Deviations(cells) == [n \in DOMAIN cells |-> Field(cells[n] - Average("f32", cells))]
Selected(cells, a) == [n \in DOMAIN cells |-> Truth(cells[n] = a)]

\* How the reduction y changes with each cell; an extremum changes with every
\* cell that is selected.
CellPartials(op, cells, y) ==
    LET n == Len(cells)
        deviations == Deviations(cells)
    IN CASE op = "Prod" -> [k \in 1..n |-> Without(cells, k)]
         [] op \in {"Max", "Min"} -> Selected(cells, y)
         [] op = "Ptp" -> [k \in 1..n |-> Selected(cells, Greatest(cells))[k] - Selected(cells, Least(cells))[k]]
         [] op = "Var" -> [k \in 1..n |-> FieldQuotient(2 * deviations[k], n)]
         [] op = "Std" -> [k \in 1..n |-> FieldQuotient(deviations[k], n * y)]

ReductionTangent(c, t, d, y) ==
    Map(y.ty, LAMBDA i : Chain(CellPartials(c.op, Cells(t, c.over, i), y.at[i]), Cells(d, c.over, i)))

\* Each element changes with its own derivative less the mean they weigh.
SoftmaxTangent(c, d, y) ==
    LET Line(t, i) == Cells(t, c.over, IF c.over = << >> THEN << >> ELSE RemoveAt(i, c.over[1] + 1))
    IN Map(y.ty, LAMBDA i : Field(y.at[i] * (d.at[i] - Chain(Line(y, i), Line(d, i)))))

MaxPoolTangent(c, t, d, y) ==
    Map(y.ty, LAMBDA i : Chain(Selected(Window(t, c, i, NegativeInfinity), y.at[i]), Window(d, c, i, 0)))

(***************************************************************************)
(* Calls that are linear in their arguments, or in each of two.            *)
(***************************************************************************)
Constant == {"Ceil", "Floor", "Rint", "Round", "Detach", "OnesLike", "ZerosLike"} \cup Creations
Linear == Moves \cup {"Sum", "Mean", "Broadcast", "Pad", "Trace", "AvgPool2d", "Concat", "Stack", "Split", "Where", "Gather", "TakeAlongAxis"}
Bilinear == {"Matmul", "Dot", "Inner", "Vecdot", "Outer", "Conv2d"}
\* The arguments that only choose.
Chooses(op) == CASE op = "Where" -> {1}
                 [] op \in {"Gather", "TakeAlongAxis"} -> {2}
                 [] OTHER -> {}

\* The sets of arguments that the results are linear in.
LinearIn(op, args) ==
    IF op \in Bilinear THEN <<{1}, {2}>> ELSE <<DOMAIN args \ Chooses(op)>>
Bound1(args, ds, places) == [k \in DOMAIN args |-> IF k \in places THEN ds[k] ELSE args[k]]
LinearTangents(c, args, ds, types) ==
    FoldLeft(LAMBDA sums, places : PlusEach(sums, Meant(c, Bound1(args, ds, places), types)),
             ZerosOf(types), LinearIn(c.op, args))

\* The tangents of the results of a call for one direction, by its values and
\* results and the tangents of its arguments.
Tangents(c, args, ds, ys, types) ==
    CASE c.op \in Constant \/ types[1].elem \notin Floats -> ZerosOf(types)
      [] c.op \in Linear \cup Bilinear /\ types[1].elem \in Floats -> LinearTangents(c, args, ds, types)
      [] c.op = "Softmax" -> <<SoftmaxTangent(c, ds[1], ys[1])>>
      [] c.op = "MaxPool2d" /\ types[1].elem \in Floats -> <<MaxPoolTangent(c, args[1], ds[1], ys[1])>>
      [] c.op \in {"Prod", "Max", "Min", "Ptp", "Var", "Std"} /\ types[1].elem \in Floats ->
           <<ReductionTangent(c, args[1], ds[1], ys[1])>>
      [] OTHER -> <<ElementwiseTangent(c, args, ds, ys[1])>>

\* The results of a call of duals, with a number of directions.
CallDuals(c, args, directions) ==
    LET values == [k \in DOMAIN args |-> args[k].value]
        types == CHOOSE tys \in infer_call_results(c, [k \in DOMAIN args |-> values[k].ty]) : TRUE
        ys == Meant(c, values, types)
        ds == [e \in 1..directions |->
                  Tangents(c, values, [k \in DOMAIN args |-> args[k].tangents[e]], ys, types)]
    IN [n \in DOMAIN ys |-> Dual(ys[n], [e \in 1..directions |-> ds[e][n]])]

(***************************************************************************)
(* Expressions and graphs.                                                 *)
(***************************************************************************)
ConstDual(literal, directions) ==
    LET ty == Type(literal.elem, << >>)
    IN Dual(Map(ty, LAMBDA i : literal.value), [e \in 1..directions |-> ZeroOf(ty)])

RECURSIVE Evaluated(_, _, _, _)

\* The only result of each expression.
EvaluatedEach(exprs, env, graphs, directions) ==
    FoldLeft(LAMBDA known, e : Append(known, Evaluated(e, env, graphs, directions)[1]), << >>, exprs)

\* The values of names after some lets.
Bound(lets, env, graphs, directions) ==
    FoldLeft(LAMBDA known, binding :
                 push_bindings(known, binding.names, Evaluated(binding.value, known, graphs, directions)),
             env, lets)

\* The results of a graph, called by a name that stands for it.
CalledDuals(graph, args, graphs, directions) ==
    LET inputs == push_bindings(EmptyMap, [k \in DOMAIN graph.inputs |-> graph.inputs[k].name], args)
    IN EvaluatedEach(graph.body, Bound(graph.lets, inputs, graphs, directions), graphs, directions)

Evaluated(e, env, graphs, directions) ==
    CASE e.kind = "Var" -> <<env[e.name]>>
      [] e.kind = "Const" -> <<ConstDual(e.value, directions)>>
      [] e.kind = "Node" -> Evaluated(e.value, env, graphs, directions)
      [] e.kind = "TupleGet" -> <<Evaluated(e.value, env, graphs, directions)[e.index + 1]>>
      [] e.kind = "Call" -> CallDuals(e.op, EvaluatedEach(e.args, env, graphs, directions), directions)
      [] e.kind = "Graph" ->
           CalledDuals(graphs[e.name], EvaluatedEach(e.args, env, graphs, directions), graphs, directions)

(***************************************************************************)
(* One direction for each element of each floating-point input.            *)
(***************************************************************************)
FloatInputs(inputs) == SelectSeq(inputs, LAMBDA input : input.ty.elem \in Floats)
Coordinates(input) ==
    [n \in 1..element_count(input.ty) |-> [name |-> input.name, at |-> IndexAt(input.ty.shape, n - 1)]]
Directions(inputs) ==
    FlattenSeq([k \in DOMAIN FloatInputs(inputs) |-> Coordinates(FloatInputs(inputs)[k])])
Unit(input, direction) ==
    Map(input.ty, LAMBDA i : Truth(input.name = direction.name /\ i = direction.at))

\* The inputs by name, with the elements that they have.
InputDuals(inputs, elements, directions) ==
    push_bindings(EmptyMap, [k \in DOMAIN inputs |-> inputs[k].name],
                  [k \in DOMAIN inputs |->
                      Dual(Meaning(inputs[k].ty, elements[k]),
                           [e \in DOMAIN directions |-> Unit(inputs[k], directions[e])])])
================================================================================
