-------------------------------- MODULE Autograd --------------------------------
(***************************************************************************)
(* ValueAndGradBuilder of knok-core (autograd/mod.rs): a graph of one loss *)
(* is flattened into nodes, each a call of names and literals, and the     *)
(* nodes are reversed from the last to the first.                          *)
(*                                                                         *)
(* A builder is a record with the fields of the code; the values that an   *)
(* expression flattens to are a sequence of expressions with their types.  *)
(* As elsewhere a Result is a set, empty for an error.                     *)
(***************************************************************************)
EXTENDS ReverseCalls

MAX_VALUE_AND_GRAD_OUTPUTS == 12

differentiable_inputs(graph) == SelectSeq(graph.inputs, LAMBDA input : input.ty.elem \in Floats)

\* Mutant: twelve gradients and the loss are thirteen outputs.
Accepts_Twelve(graph) ==
    /\ Len(graph.outputs) = 1
    /\ Rank(graph.outputs[1]) = 0 /\ graph.outputs[1].elem \in Floats
    /\ Len(differentiable_inputs(graph)) \in 1..MAX_VALUE_AND_GRAD_OUTPUTS

\* The checks of ValueAndGradBuilder::new.
Accepts(graph) ==
    /\ Len(graph.outputs) = 1
    /\ Rank(graph.outputs[1]) = 0 /\ graph.outputs[1].elem \in Floats
    /\ Len(differentiable_inputs(graph)) \in 1..MAX_VALUE_AND_GRAD_OUTPUTS - 1

declared_names(graph) ==
    {graph.inputs[k].name : k \in DOMAIN graph.inputs} \cup
    UNION {ToSet(graph.lets[k].names) : k \in DOMAIN graph.lets}

\* Mutant: the name of the loss may be one of the graph's.
value_name_Plain(graph) == "__knok_autograd_value"

value_name(graph) == unique_name("__knok_autograd_value", declared_names(graph))

new_builder(graph) ==
    [env |-> InputTypes(graph.inputs), lets |-> << >>, forward_nodes |-> << >>,
     used_names |-> declared_names(graph) \cup {value_name(graph)}, next_name |-> 0, grads |-> EmptyMap]

(***************************************************************************)
(* Binding.                                                                *)
(***************************************************************************)
auto_name(n) == "__knok_autograd_" \o ToString(n)

\* Mutant: the next number is not looked up among the names of the graph.
next_auto_name_Unchecked(builder) == builder.next_name

next_auto_name(builder) ==
    CHOOSE n \in builder.next_name..builder.next_name + Cardinality(builder.used_names) :
        /\ auto_name(n) \notin builder.used_names
        /\ \A m \in builder.next_name..n - 1 : auto_name(m) \in builder.used_names

bind_named(builder, name, expr, ty) ==
    [builder EXCEPT !.lets = Append(@, Let(<<name>>, expr)), !.env = MapInsert(@, name, ty)]

bind_forward_node(builder, name, expr, ty) ==
    [bind_named(builder, name, expr, ty) EXCEPT
        !.forward_nodes = Append(@, [name |-> name, expr |-> expr, ty |-> ty])]

\* The builder after it has taken the number n for a name.
after_name(builder, n) ==
    [builder EXCEPT !.next_name = n + 1, !.used_names = @ \cup {auto_name(n)}]

Value1(expr, ty) == [expr |-> expr, ty |-> ty]
Flat(builder, values) == [builder |-> builder, values |-> values]

bind_forward_auto(builder, expr, ty) ==
    LET n == next_auto_name(builder)
    IN Flat(bind_forward_node(after_name(builder, n), auto_name(n), expr, ty), <<Value1(Var(auto_name(n)), ty)>>)

bind_auto(builder, expr, ty) ==
    LET n == next_auto_name(builder)
    IN Flat(bind_named(after_name(builder, n), auto_name(n), expr, ty), <<Value1(Var(auto_name(n)), ty)>>)

\* Each of the expressions bound in turn.
bind_each(builder, exprs, types) ==
    FoldLeft(LAMBDA flat, k :
                 LET bound == bind_forward_auto(flat.builder, exprs[k], types[k])
                 IN Flat(bound.builder, flat.values \o bound.values),
             Flat(builder, << >>), [k \in DOMAIN exprs |-> k])

(***************************************************************************)
(* Flattening.  A site is the graphs that may be called and those that are *)
(* being inlined; a scope is the values of an inlined graph's names.       *)
(***************************************************************************)
Site(graphs, inline_stack) == [graphs |-> graphs, inline_stack |-> inline_stack]
TypesIn(values) == [k \in DOMAIN values |-> values[k].ty]
ExprsIn(values) == [k \in DOMAIN values |-> values[k].expr]

\* Mutant: the names of the caller hide those of an inlined graph.
flatten_var_Captured(name, scope, builder) ==
    IF name \in DOMAIN builder.env THEN {Value1(Var(name), builder.env[name])}
    ELSE Ok(name \in DOMAIN scope, scope[name])

flatten_var(name, scope, builder) ==
    IF name \in DOMAIN scope THEN {scope[name]}
    ELSE Ok(name \in DOMAIN builder.env, Value1(Var(name), builder.env[name]))

RECURSIVE flatten_expr_outputs(_, _, _, _)

flatten_expr(expr, scope, builder, site) ==
    {f \in flatten_expr_outputs(expr, scope, builder, site) : Len(f.values) = 1}

flatten_exprs(exprs, scope, builder, site) ==
    FoldLeft(LAMBDA results, expr :
                 UNION {{Flat(f.builder, r.values \o f.values) : f \in flatten_expr(expr, scope, r.builder, site)} :
                           r \in results},
             {Flat(builder, << >>)}, exprs)

\* Split becomes a slice for each section.
split_slices(c, input, types) ==
    LET offsets == [n \in DOMAIN types |-> FoldLeft(+, 0, SubSeq(c.sections, 1, n - 1))]
    IN [n \in DOMAIN types |-> slice_of(types[n], OffsetAt(Rank(input.ty), c.axis, offsets[n]), input.expr)]

flatten_call(c, args, scope, builder, site) ==
    UNION {{bind_each(f.builder,
                      IF c.op = "Split" THEN split_slices(c, f.values[1], types) ELSE <<Call(c, ExprsIn(f.values))>>,
                      types) :
               types \in infer_call_results(c, TypesIn(f.values))} :
              f \in flatten_exprs(args, scope, builder, site)}

\* One let of an inlined graph: its names join the scope.
flatten_inner_let(binding, scope, builder, site) ==
    {[builder |-> f.builder, scope |-> push_bindings(scope, binding.names, f.values)] :
        f \in {g \in flatten_expr_outputs(binding.value, scope, builder, site) :
                  TypesIn(g.values) = binding.tys}}

inlined(graph, args, builder, site) ==
    LET start == [builder |-> builder,
                  scope |-> push_bindings(EmptyMap, [k \in DOMAIN graph.inputs |-> graph.inputs[k].name], args)]
        bound == FoldLeft(LAMBDA states, binding :
                              UNION {flatten_inner_let(binding, s.scope, s.builder, site) : s \in states},
                          {start}, graph.lets)
    IN UNION {{f \in flatten_exprs(graph.body, s.scope, s.builder, site) : TypesIn(f.values) = graph.outputs} :
                 s \in bound}

\* A call of a graph is its body, unless the graph is being inlined already.
flatten_graph_outputs(name, args, scope, builder, site) ==
    IF name \in DOMAIN site.graphs /\ name \notin ToSet(site.inline_stack)
    THEN LET within == Site(site.graphs, Append(site.inline_stack, name))
         IN UNION {inlined(site.graphs[name], f.values, f.builder, within) :
                      f \in {g \in flatten_exprs(args, scope, builder, within) :
                                TypesIn(g.values) = Signature(site.graphs[name]).inputs}}
    ELSE {}

\* The expression at a place of a tuple.
flatten_tuple_get(expr, scope, builder, site) ==
    {Flat(f.builder, <<f.values[expr.index + 1]>>) :
        f \in {g \in flatten_expr_outputs(expr.value, scope, builder, site) : expr.index < Len(g.values)}}

flatten_expr_outputs(expr, scope, builder, site) ==
    CASE expr.kind = "Var" -> {Flat(builder, <<v>>) : v \in flatten_var(expr.name, scope, builder)}
      [] expr.kind = "Const" -> {Flat(builder, <<Value1(expr, Type(expr.value.elem, << >>))>>)}
      [] expr.kind = "Node" -> flatten_expr_outputs(expr.value, scope, builder, site)
      [] expr.kind = "TupleGet" -> flatten_tuple_get(expr, scope, builder, site)
      [] expr.kind = "Graph" -> flatten_graph_outputs(expr.name, expr.args, scope, builder, site)
      [] expr.kind = "Call" -> flatten_call(expr.op, expr.args, scope, builder, site)

flatten_typed_let(binding, builder, graphs) ==
    {FoldLeft(LAMBDA b, k : bind_forward_node(b, binding.names[k], f.values[k].expr, f.values[k].ty),
              f.builder, [k \in DOMAIN binding.names |-> k]) :
        f \in {g \in flatten_expr_outputs(binding.value, EmptyMap, builder, Site(graphs, << >>)) :
                  TypesIn(g.values) = binding.tys}}

\* The loss is bound too, and its gradient is one.
flatten_body(graph, builder, graphs) ==
    LET name == value_name(graph)
    IN {[bind_forward_node(f.builder, name, f.values[1].expr, f.values[1].ty) EXCEPT
            !.grads = MapInsert(@, name, scalar(1, f.values[1].ty.elem))] :
           f \in {g \in flatten_expr(graph.body[1], EmptyMap, builder, Site(graphs, << >>)) :
                     TypesIn(g.values) = graph.outputs}}

(***************************************************************************)
(* Reversing.                                                              *)
(***************************************************************************)
expr_ty(expr, env) == IF expr.kind = "Var" THEN env[expr.name] ELSE Type(expr.value.elem, << >>)

\* Mutant: a second gradient replaces the first.
add_grad_Last(builder, name, grad) == [builder EXCEPT !.grads = MapInsert(@, name, grad)]

add_grad(builder, name, grad) ==
    [builder EXCEPT !.grads = MapInsert(@, name, IF name \in DOMAIN @ THEN binary("Add", @[name], grad) ELSE grad)]

\* Only floating-point names have gradients.
add_grad_to_expr(builder, expr, grad) ==
    IF expr.kind = "Var" /\ expr_ty(expr, builder.env).elem \in Floats
    THEN add_grad(builder, expr.name, grad) ELSE builder

reverse_node(builder, node, grad) ==
    IF node.expr.kind \in {"Var", "Const"} THEN {add_grad_to_expr(builder, node.expr, grad)}
    ELSE LET args == node.expr.args
             tys == [k \in DOMAIN args |-> expr_ty(args[k], builder.env)]
         IN {FoldLeft(LAMBDA b, term : add_grad_to_expr(b, args[term[1]], term[2]), builder, terms) :
                terms \in reverse_call(node.expr.op, args, tys, Var(node.name), node.ty, grad)}

\* Mutant: the node keeps the gradient that it gives to its arguments.
reversed_Keeping(builder, node) ==
    IF node.name \notin DOMAIN builder.grads THEN {builder}
    ELSE reverse_node(builder, node, builder.grads[node.name])

\* A node without a gradient is passed over; one with a gradient gives it up.
reversed(builder, node) ==
    IF node.name \notin DOMAIN builder.grads THEN {builder}
    ELSE reverse_node([builder EXCEPT !.grads = MapRemove(@, node.name)], node, builder.grads[node.name])

(***************************************************************************)
(* The value-and-gradient graph.                                           *)
(***************************************************************************)
\* Mutant: the gradients come out in the opposite order of the inputs.
gradient_output_for_input_Reversed(flat, input) ==
    LET grads == flat.builder.grads
        bound == bind_auto([flat.builder EXCEPT !.grads = MapRemove(@, input.name)],
                           IF input.name \in DOMAIN grads THEN grads[input.name] ELSE zeros_like(Var(input.name)),
                           input.ty)
    IN Flat(bound.builder, bound.values \o flat.values)

gradient_output_for_input(flat, input) ==
    LET grads == flat.builder.grads
        bound == bind_auto([flat.builder EXCEPT !.grads = MapRemove(@, input.name)],
                           IF input.name \in DOMAIN grads THEN grads[input.name] ELSE zeros_like(Var(input.name)),
                           input.ty)
    IN Flat(bound.builder, flat.values \o bound.values)

gradient_outputs(builder, graph) ==
    FoldLeft(gradient_output_for_input, Flat(builder, << >>), differentiable_inputs(graph))

value_and_grad_graph(builder, graph) ==
    LET flat == gradient_outputs(builder, graph)
    IN type_check(FullGraph(graph.name \o "_value_and_grad", graph.inputs,
                            graph.outputs \o TypesIn(flat.values), flat.builder.lets,
                            <<Var(value_name(graph))>> \o ExprsIn(flat.values)),
                  EmptyMap)
================================================================================
