------------------------------- MODULE TypeCheck -------------------------------
(***************************************************************************)
(* The type checker of knok-core (typecheck.rs): the types of the values   *)
(* of a graph, with the node types it remembers on the way.                *)
(*                                                                         *)
(* A graph is a record; its expressions are those of GraphIR, where a Call *)
(* carries a call of ShapeRules and a Const a Literal.  As in ShapeRules a *)
(* Result is a set, empty for an error.  Typing an expression results in   *)
(* its types and the node types known after it.                            *)
(***************************************************************************)
EXTENDS GraphIR, StaticCreation, FiniteSets

\* Input, and Graph with its types; once typed, its lets have types too.
InputOf(name, ty) == [name |-> name, ty |-> ty]
FullGraph(name, inputs, outputs, lets, body) ==
    [name |-> name, inputs |-> inputs, outputs |-> outputs, lets |-> lets, body |-> body]
TypedLet(binding, tys) == [names |-> binding.names, value |-> binding.value, tys |-> tys]

\* GraphSignature: the types that a graph takes and gives.
Signature(graph) == [inputs |-> [k \in DOMAIN graph.inputs |-> graph.inputs[k].ty], outputs |-> graph.outputs]

(***************************************************************************)
(* Generated names: a base, or the base with the least free suffix.        *)
(***************************************************************************)
Suffixed(base, n) == IF n = 0 THEN base ELSE base \o "_" \o ToString(n)
unique_name(base, used) ==
    LET least == CHOOSE n \in 0..Cardinality(used) :
                     Suffixed(base, n) \notin used /\ \A m \in 0..n - 1 : Suffixed(base, m) \in used
    IN Suffixed(base, least)

Typed(tys, nodes) == [tys |-> tys, nodes |-> nodes]

\* TypeEnv: a name means its last binding.
push_bindings(env, names, values) ==
    FoldLeft(LAMBDA map, k : MapInsert(map, names[k], values[k]), env, [k \in DOMAIN names |-> k])
InputTypes(inputs) ==
    push_bindings(EmptyMap, [k \in DOMAIN inputs |-> inputs[k].name], [k \in DOMAIN inputs |-> inputs[k].ty])

\* A checker: the name of its graph and the signatures it may call.
Checker(graph, signatures) == [graph |-> graph, signatures |-> signatures]

RECURSIVE type_value_outputs(_, _, _, _)

\* type_tensor_expr: an expression that has to have one value.
type_tensor_expr(expr, env, nodes, checker) ==
    {t \in type_value_outputs(expr, env, nodes, checker) : Len(t.tys) = 1}

type_args(args, env, nodes, checker) ==
    FoldLeft(LAMBDA results, arg :
                 UNION {{Typed(r.tys \o t.tys, t.nodes) : t \in type_tensor_expr(arg, env, r.nodes, checker)} :
                           r \in results},
             {Typed(<< >>, nodes)}, args)

\* A node is typed when it is met first; its identifier stands for one payload.
type_node_outputs(expr, env, nodes, checker) ==
    IF expr.node_id \in DOMAIN nodes
    THEN Ok(nodes[expr.node_id].value = expr.value, Typed(nodes[expr.node_id].tys, nodes))
    ELSE {Typed(t.tys, MapInsert(t.nodes, expr.node_id, [value |-> expr.value, tys |-> t.tys])) :
             t \in {u \in type_value_outputs(expr.value, env, nodes, checker) :
                       expr.node_id \notin DOMAIN u.nodes}}

type_graph_call_outputs(expr, env, nodes, checker) ==
    IF expr.name # checker.graph /\ expr.name \in DOMAIN checker.signatures
    THEN {Typed(checker.signatures[expr.name].outputs, t.nodes) :
             t \in {u \in type_args(expr.args, env, nodes, checker) :
                       u.tys = checker.signatures[expr.name].inputs}}
    ELSE {}

type_call_outputs(expr, env, nodes, checker) ==
    IF validate_static_creation_call(expr.op)
    THEN UNION {{Typed(tys, t.nodes) : tys \in infer_call_results(expr.op, t.tys)} :
                   t \in type_args(expr.args, env, nodes, checker)}
    ELSE {}

type_value_outputs(expr, env, nodes, checker) ==
    CASE expr.kind = "Var" -> IF expr.name \in DOMAIN env THEN {Typed(<<env[expr.name]>>, nodes)} ELSE {}
      [] expr.kind = "Const" -> {Typed(<<Type(expr.value.elem, << >>)>>, nodes)}
      [] expr.kind = "Node" -> type_node_outputs(expr, env, nodes, checker)
      [] expr.kind = "TupleGet" ->
           {Typed(<<t.tys[expr.index + 1]>>, t.nodes) :
               t \in {u \in type_value_outputs(expr.value, env, nodes, checker) : expr.index < Len(u.tys)}}
      [] expr.kind = "Graph" -> type_graph_call_outputs(expr, env, nodes, checker)
      [] expr.kind = "Call" -> type_call_outputs(expr, env, nodes, checker)

\* One let: its names take the types of its value.
type_let(binding, state, checker) ==
    {[env |-> push_bindings(state.env, binding.names, t.tys), nodes |-> t.nodes,
      lets |-> Append(state.lets, TypedLet(binding, t.tys))] :
        t \in {u \in type_value_outputs(binding.value, state.env, state.nodes, checker) :
                  Len(u.tys) = Len(binding.names)}}

type_check(graph, signatures) ==
    LET checker == Checker(graph.name, signatures)
        start == [env |-> InputTypes(graph.inputs), nodes |-> EmptyMap, lets |-> << >>]
        bound == FoldLeft(LAMBDA states, binding : UNION {type_let(binding, s, checker) : s \in states},
                          {start}, graph.lets)
    IN {FullGraph(graph.name, graph.inputs, graph.outputs, s.lets, graph.body) :
           s \in {b \in bound : \E t \in type_args(graph.body, b.env, b.nodes, checker) :
                                   t.tys = graph.outputs}}

================================================================================
