------------------------------- MODULE GradGraph -------------------------------
(***************************************************************************)
(* From handles to gradients: a graph function is traced, its graph is     *)
(* normalized and type checked, flattened, reversed node by node, and its  *)
(* value-and-gradient graph is lowered and run.                            *)
(*                                                                         *)
(* The steps are those of knok-build's trace/ and of knok-core's autograd/.*)
(* Beside them, "duals" and "loss" hold what the flattened nodes and the   *)
(* traced expression mean and how they change with each input.             *)
(***************************************************************************)
EXTENDS Autograd, Trace, Derivatives

CONSTANTS
    Traced,     \* graph functions, by name: their inputs and the elements of
                \* each, the calls and literals they use, how many, the node
                \* identifiers they may start from, and what they may return
    Declared    \* graphs of graph calls, by name: a graph, the elements of its
                \* inputs, the registered graphs and signatures it may call

ASSUME ProgramsAssumption ==
    /\ \A f \in DOMAIN Traced :
         DOMAIN Traced[f] = {"inputs", "elements", "calls", "literals", "results", "first_ids", "returns"}
    /\ \A f \in DOMAIN Declared : DOMAIN Declared[f] = {"graph", "elements", "graphs", "signatures"}

VARIABLES
    program,    \* whether the program is traced or declared, and its name
    phase,      \* how far its gradient graph is
    handles,    \* the handles of a traced program with their types
    next_id,    \* the next node identifier
    registry,   \* the typed graphs that a graph may call
    graph,      \* the typed graph; in the end the value-and-gradient graph
    builder,    \* the ValueAndGradBuilder
    todo,       \* how many lets are flattened, or how many nodes are to be reversed
    loss,       \* the meaning of the loss
    duals,      \* the meanings of the inputs and of the flattened nodes
    returned    \* what the value-and-gradient graph returns

vars == <<program, phase, handles, next_id, registry, graph, builder, todo, loss, duals, returned>>

EmptyGraph == FullGraph("", << >>, << >>, << >>, << >>)
NoDual == Dual(ZeroOf(Type("f32", << >>)), << >>)

Source(kind, name) == [kind |-> kind, name |-> name]
ProgramInputs(p) == IF p.kind = "traced" THEN Traced[p.name].inputs ELSE Declared[p.name].graph.inputs
ElementsOf(p) == IF p.kind = "traced" THEN Traced[p.name].elements ELSE Declared[p.name].elements

InputHandles(inputs) == [k \in DOMAIN inputs |-> Value1(input_handle(inputs[k].name), inputs[k].ty)]

Init ==
    /\ \/ /\ \E f \in DOMAIN Traced :
               /\ program = Source("traced", f)
               /\ handles = InputHandles(Traced[f].inputs)
               /\ next_id \in Traced[f].first_ids
          /\ phase = "tracing"
       \/ /\ \E f \in DOMAIN Declared : program = Source("declared", f)
          /\ phase = "declared" /\ handles = << >> /\ next_id = 0
    /\ registry = EmptyMap /\ graph = EmptyGraph /\ builder = new_builder(EmptyGraph) /\ todo = 0
    /\ loss = NoDual /\ duals = EmptyMap /\ returned = << >>

(***************************************************************************)
(* Tracing.                                                                *)
(***************************************************************************)
Function == Traced[program.name]
Newest == Len(handles)
NumCalls == Newest - Len(Function.inputs)

\* What a call may be of: handles and, after the first place, literals.
Operands == handles \o [k \in DOMAIN Function.literals |->
                           Value1(Const(Function.literals[k]), Type(Function.literals[k].elem, << >>))]
Places(arity) ==
    {p \in [1..arity -> DOMAIN Operands] :
        /\ arity > 0 => p[1] <= Newest
        /\ NumCalls > 0 /\ arity > 0 => Newest \in ToSet(p)}

\* Every call has results of known types, and a node of its own.
TraceCall ==
    /\ phase = "tracing" /\ NumCalls < Function.results
    /\ \E c \in {of \in Function.calls : of.op # "Split"} : \E p \in Places(Arity(c.op)) :
         LET args == [k \in DOMAIN p |-> Operands[p[k]]]
         IN /\ validate_static_creation_call(c)
            /\ \E types \in infer_call_results(c, TypesIn(args)) :
                 handles' = Append(handles, Value1(node_expr(next_id, c, ExprsIn(args)), types[1]))
    /\ next_id' = next_id + 1
    /\ UNCHANGED <<program, phase, registry, graph, builder, todo, loss, duals, returned>>

TraceSplit ==
    /\ phase = "tracing" /\ NumCalls < Function.results
    /\ \E c \in {of \in Function.calls : of.op = "Split"} :
         \E types \in infer_call_results(c, <<handles[Newest].ty>>) :
           LET tuple == split_handles(next_id, c, handles[Newest].expr)
           IN handles' = handles \o [n \in DOMAIN types |-> Value1(tuple[n], types[n])]
    /\ next_id' = next_id + 1
    /\ UNCHANGED <<program, phase, registry, graph, builder, todo, loss, duals, returned>>

\* A rank-0 loss that weighs the elements of a handle 1, 2, 3 and so on.
WeightedLoss(handle, id) ==
    LET n == element_count(handle.ty)
        elem == handle.ty.elem
        range == [op |-> "Arange", target |-> Type(elem, <<n>>),
                  params |-> <<Literal(elem, 1), Literal(elem, n + 1)>>]
        weights == node_expr(id + 1, [op |-> "Reshape", target |-> handle.ty], <<node_expr(id, range, << >>)>>)
        product == node_expr(id + 2, OpOf("Mul"), <<handle.expr, weights>>)
    IN Value1(node_expr(id + 3, [op |-> "Sum", over |-> << >>], <<product>>), Type(elem, << >>))

\* The graph function returns: a graph that is not well-typed is an error.
Return(value) ==
    LET finished == finish(program.name, Function.inputs, <<value.expr>>, <<value.ty>>)
    IN /\ phase' = IF finished = {} THEN "untyped" ELSE "typed"
       /\ graph' \in (IF finished = {} THEN {EmptyGraph} ELSE finished)
       /\ handles' = Append(handles, value)

FinishWithLoss ==
    /\ phase = "tracing" /\ NumCalls > 0 /\ "loss" \in Function.returns
    /\ handles[Newest].ty.elem \in Floats
    /\ Return(WeightedLoss(handles[Newest], next_id))
    /\ next_id' = next_id + 4
    /\ UNCHANGED <<program, registry, builder, todo, loss, duals, returned>>

FinishWithLast ==
    /\ phase = "tracing" /\ NumCalls > 0 /\ "last" \in Function.returns
    /\ Return(handles[Newest])
    /\ UNCHANGED <<program, next_id, registry, builder, todo, loss, duals, returned>>

(***************************************************************************)
(* Registered graphs.                                                      *)
(***************************************************************************)
Site0 == Declared[program.name]
Signatures ==
    [name \in DOMAIN Site0.graphs \cup DOMAIN Site0.signatures |->
        IF name \in DOMAIN Site0.graphs THEN Signature(Site0.graphs[name]) ELSE Site0.signatures[name]]

CheckDeclared ==
    /\ phase = "declared"
    /\ graph' \in type_check(Site0.graph, Signatures)
    /\ registry' = [name \in DOMAIN Site0.graphs |->
                       CHOOSE g \in type_check(Site0.graphs[name], Signatures) : TRUE]
    /\ phase' = "typed"
    /\ UNCHANGED <<program, handles, next_id, builder, todo, loss, duals, returned>>

(***************************************************************************)
(* value_and_grad_graph_with_registry.                                     *)
(***************************************************************************)
Refuse == phase' = "refused" /\ UNCHANGED <<program, handles, next_id, registry, graph, builder, todo, loss, duals, returned>>

NewBuilder ==
    /\ phase = "typed"
    /\ IF Accepts(graph)
       THEN /\ builder' = new_builder(graph)
            /\ phase' = "flattening"
            /\ UNCHANGED <<program, handles, next_id, registry, graph, todo, loss, duals, returned>>
       ELSE Refuse

FlattenLet ==
    /\ phase = "flattening" /\ todo < Len(graph.lets)
    /\ LET results == flatten_typed_let(graph.lets[todo + 1], builder, registry)
       IN IF results = {} THEN Refuse
          ELSE /\ builder' \in results
               /\ todo' = todo + 1
               /\ UNCHANGED <<program, phase, handles, next_id, registry, graph, loss, duals, returned>>

\* The program as it is before anything is rewritten, and what its loss means.
Original ==
    IF program.kind = "traced" THEN FullGraph("", Function.inputs, << >>, << >>, <<handles[Newest].expr>>)
    ELSE Site0.graph
Callable == IF program.kind = "traced" THEN EmptyMap ELSE Site0.graphs
LossMeaning(inputs, directions) ==
    CalledDuals(Original, [k \in DOMAIN Original.inputs |-> inputs[Original.inputs[k].name]], Callable, directions)[1]

FlattenBody ==
    /\ phase = "flattening" /\ todo = Len(graph.lets)
    /\ LET results == flatten_body(graph, builder, registry)
           directions == Directions(graph.inputs)
           inputs == InputDuals(graph.inputs, ElementsOf(program), directions)
       IN IF results = {} THEN Refuse
          ELSE /\ builder' \in results
               /\ phase' = "reversing"
               /\ todo' = Len(builder'.forward_nodes)
               /\ loss' = LossMeaning(inputs, Len(directions))
               /\ duals' = Bound(builder'.lets, inputs, EmptyMap, Len(directions))
               /\ UNCHANGED <<program, handles, next_id, registry, graph, returned>>

ReverseNode ==
    /\ phase = "reversing" /\ todo > 0
    /\ LET results == reversed(builder, builder.forward_nodes[todo])
       IN IF results = {} THEN Refuse
          ELSE /\ builder' \in results
               /\ todo' = todo - 1
               /\ UNCHANGED <<program, phase, handles, next_id, registry, graph, loss, duals, returned>>

FinishGradients ==
    /\ phase = "reversing" /\ todo = 0
    /\ LET results == value_and_grad_graph(builder, graph)
       IN IF results = {} THEN Refuse
          ELSE /\ graph' \in results
               /\ phase' = "done"
               /\ UNCHANGED <<program, handles, next_id, registry, builder, todo, loss, duals, returned>>

(***************************************************************************)
(* Lowering: the graph's expressions have no nodes and no graph calls left. *)
(***************************************************************************)
RECURSIVE Run(_, _)
RunEach(exprs, env) == FoldLeft(LAMBDA values, e : Append(values, Run(e, env)), << >>, exprs)

\* The lowered value of an expression.
Run(e, env) ==
    CASE e.kind = "Var" -> env[e.name]
      [] e.kind = "Const" -> constant(e.value.value, e.value.elem)
      [] e.kind = "Call" -> lower_call_values(e.op, RunEach(e.args, env))[1]

RunLets(lets, inputs) ==
    FoldLeft(LAMBDA env, binding : MapInsert(env, binding.names[1], Run(binding.value, env)), inputs, lets)

InputValues ==
    push_bindings(EmptyMap, [k \in DOMAIN graph.inputs |-> graph.inputs[k].name],
                  [k \in DOMAIN graph.inputs |->
                      Value(graph.inputs[k].ty, "Tensor", ElementsOf(program)[k], TRUE)])

RunGraph ==
    /\ phase = "done"
    /\ phase' = "ran"
    /\ \E env \in {RunLets(graph.lets, InputValues)} :
         returned' = [k \in DOMAIN graph.body |-> output_value(env[graph.body[k].name], graph.outputs[k])]
    /\ UNCHANGED <<program, handles, next_id, registry, graph, builder, todo, loss, duals>>

Next ==
    \/ TraceCall
    \/ TraceSplit
    \/ FinishWithLoss
    \/ FinishWithLast
    \/ CheckDeclared
    \/ NewBuilder
    \/ FlattenLet
    \/ FlattenBody
    \/ ReverseNode
    \/ FinishGradients
    \/ RunGraph

Spec == Init /\ [][Next]_vars
--------------------------------------------------------------------------------
BoundNames(lets) == FlattenSeq([k \in DOMAIN lets |-> lets[k].names])
InputNames(g) == {g.inputs[k].name : k \in DOMAIN g.inputs}

\* The builder's tables agree with the lets it has made: each name has a type
\* once it is bound, gradients are kept for floating-point names alone, and none
\* for a node that is reversed already, where it would be lost.
TypeOK ==
    /\ phase \in {"tracing", "declared", "untyped", "typed", "flattening", "reversing", "done", "ran", "refused"}
    /\ todo \in Nat /\ next_id \in Nat
    /\ phase \in {"flattening", "reversing"} =>
         /\ DOMAIN builder.env = InputNames(graph) \cup ToSet(BoundNames(builder.lets))
         /\ \A name \in DOMAIN builder.grads : name \in DOMAIN builder.env /\ builder.env[name].elem \in Floats
    /\ phase = "reversing" =>
         \A k \in todo + 1..Len(builder.forward_nodes) : builder.forward_nodes[k].name \notin DOMAIN builder.grads

\* Every node of an expression, by identifier.
RECURSIVE NodeIds(_)
NodeIds(e) ==
    CASE e.kind \in {"Var", "Const"} -> {}
      [] e.kind = "Node" -> {e.node_id} \cup NodeIds(e.value)
      [] e.kind = "TupleGet" -> NodeIds(e.value)
      [] e.kind \in {"Call", "Graph"} -> UNION {NodeIds(e.args[k]) : k \in DOMAIN e.args}

\* Tracing always finishes as a graph (trace/normalize.rs): each traced call is
\* bound by one let, however often its handle is used, and a let's name is
\* neither an input's nor another let's.
TracedCallsAreBoundOnce ==
    /\ phase # "untyped"
    /\ phase = "typed" /\ program.kind = "traced" =>
         LET names == BoundNames(graph.lets)
         IN /\ Len(names) = Cardinality(NodeIds(handles[Newest].expr))
            /\ IsInjective(names) /\ ToSet(names) \cap InputNames(graph) = {}

\* The generated graph binds each name once too, and none that is an input's,
\* whatever names the inputs and the lets of the graph have.
GradientNamesAreFresh ==
    phase = "done" =>
        LET names == BoundNames(graph.lets)
        IN IsInjective(names) /\ ToSet(names) \cap InputNames(graph) = {}

\* Normalizing, inlining and flattening keep the meaning of the loss, and with
\* it how the loss changes with each input.
FlatteningKeepsTheMeaning ==
    phase = "reversing" => duals[Last(builder.forward_nodes).name] = loss

(***************************************************************************)
(* Gradients.                                                              *)
(***************************************************************************)
TypesOfExpr(e) == {t.tys : t \in type_value_outputs(e, builder.env, EmptyMap, Checker("", EmptyMap))}
ValueOf(e) == Evaluated(e, duals, EmptyMap, 0)[1].value

\* The sum over all elements of one tensor times another.
Paired(s, t) ==
    FoldLeft(LAMBDA n, k : n + s.at[IndexAt(s.ty.shape, k - 1)] * t.at[IndexAt(s.ty.shape, k - 1)],
             0, [k \in 1..element_count(s.ty) |-> k])

\* How the loss changes in a direction, by the pending gradients alone.
PendingChange(direction) ==
    Field(FoldSet(LAMBDA name, n : n + Paired(ValueOf(builder.grads[name]), duals[name].tangents[direction]),
                  0, DOMAIN builder.grads))

\* Whatever nodes are reversed so far, the pending gradients have the types of
\* what they are gradients of, and together they account for every change of
\* the loss: no node has lost a contribution and none has given one twice.
PendingGradientsAddUp ==
    phase = "reversing" =>
        /\ \A name \in DOMAIN builder.grads : TypesOfExpr(builder.grads[name]) = {<<builder.env[name]>>}
        /\ \A direction \in DOMAIN loss.tangents : PendingChange(direction) = loss.tangents[direction].at[<< >>]

Derivative(direction) == loss.tangents[direction].at[<< >>]

\* The generated graph lowers, and returns the loss and the derivative of the
\* loss with respect to every element of every floating-point input, in order.
ValueAndGradientsAreRight ==
    phase = "ran" =>
        LET directions == Directions(graph.inputs)
            inputs == FloatInputs(graph.inputs)
        IN /\ Len(returned) = 1 + Len(inputs)
           /\ \A k \in DOMAIN returned : returned[k].ok
           /\ returned[1].at = loss.value.at
           /\ \A d \in DOMAIN directions : \E k \in DOMAIN inputs :
                /\ inputs[k].name = directions[d].name
                /\ returned[k + 1].at[directions[d].at] = Derivative(d)

(***************************************************************************)
(* Refusals.                                                               *)
(***************************************************************************)
RECURSIVE Callees(_)
Callees(e) ==
    CASE e.kind \in {"Var", "Const"} -> {}
      [] e.kind \in {"Node", "TupleGet"} -> Callees(e.value)
      [] e.kind = "Call" -> UNION {Callees(e.args[k]) : k \in DOMAIN e.args}
      [] e.kind = "Graph" -> {e.name} \cup UNION {Callees(e.args[k]) : k \in DOMAIN e.args}

CalleesOf(g) ==
    UNION {Callees(g.lets[k].value) : k \in DOMAIN g.lets} \cup UNION {Callees(g.body[k]) : k \in DOMAIN g.body}

\* All graphs that are called from some.
Reached(names) ==
    FoldLeft(LAMBDA set, n : set \cup UNION {CalleesOf(registry[name]) : name \in set \cap DOMAIN registry},
             names, [n \in 1..Cardinality(DOMAIN registry) + 1 |-> n])
Recursive(name) == name \in DOMAIN registry /\ name \in Reached(CalleesOf(registry[name]))

CallsAreUnsupported ==
    \E name \in Reached(CalleesOf(graph)) : name \notin DOMAIN registry \/ Recursive(name)

\* A repeat whose gradient needs a rank above that of Tensor6.
RepeatIsTooDeep ==
    /\ todo \in DOMAIN builder.forward_nodes
    /\ LET node == builder.forward_nodes[todo]
       IN /\ node.expr.kind = "Call" /\ node.expr.op.op = "Repeat" /\ node.name \in DOMAIN builder.grads
          /\ Rank(node.ty) = 6 /\ node.expr.op.count > 1

HasScalarLoss ==
    Len(graph.outputs) = 1 /\ graph.outputs[1].shape = << >> /\ graph.outputs[1].elem \in Floats
CountsInputs == Len(FloatInputs(graph.inputs)) \in 1..11

\* What the docs say has gradients: a graph with one rank-0 floating-point loss
\* and at most eleven floating-point inputs, whose graph calls are all registered
\* (docs/semantics.md:62-63 and autograd/mod.rs:31-32: they are inlined before
\* differentiation) and not recursive; every differentiable call has its rule,
\* but for a repeat that needs a rank above six.  Such a graph is flattened and
\* reversed to the end, any other is refused.
RefusedExactlyWhenUnsupported ==
    /\ phase = "refused" => ~HasScalarLoss \/ ~CountsInputs \/ CallsAreUnsupported \/ RepeatIsTooDeep
    /\ phase = "reversing" => HasScalarLoss /\ CountsInputs /\ ~CallsAreUnsupported
================================================================================
