--------------------------------- MODULE Trace ---------------------------------
(***************************************************************************)
(* Tracing of graph functions (knok-build, trace/): the expressions that   *)
(* handles stand for, and the graph they finish as.                        *)
(*                                                                         *)
(* A handle is an expression.  Every traced call is a Node of its own, so  *)
(* that a handle used twice is computed once; the projections of a split   *)
(* share a tuple.  Finishing binds each node by a let of its own.          *)
(***************************************************************************)
EXTENDS TypeCheck

\* TraceContext::input, ScalarLiteral::const_expr, and the calls.
input_handle(name) == Var(name)
const_expr(elem, value) == Const(Literal(elem, value))
node_expr(node_id, c, args) == Node(node_id, Call(c, args))

\* split: one projection for each section, of a call that is not a node.
split_handles(tuple_id, c, arg) ==
    [n \in DOMAIN c.sections |-> TupleGet(tuple_id, Call(c, <<arg>>), n - 1)]

RECURSIVE collect_nodes(_, _)

collect_all(exprs, found) ==
    FoldLeft(LAMBDA results, expr : UNION {collect_nodes(expr, f) : f \in results}, {found}, exprs)

\* Mutant: the nodes below a node are found after it.
collect_nodes_Preorder(expr, found) ==
    CASE expr.kind \in {"Var", "Const"} -> {found}
      [] expr.kind \in {"Call", "Graph"} -> collect_all(expr.args, found)
      [] expr.kind = "TupleGet" -> collect_nodes(expr.value, found)
      [] expr.kind = "Node" -> IF \E k \in DOMAIN found : found[k].node_id = expr.node_id THEN {found}
                               ELSE collect_nodes(expr.value, Append(found, [node_id |-> expr.node_id, value |-> expr.value]))

\* The nodes of an expression after those found before, arguments first, each
\* identifier once: it stands for one payload.
collect_nodes(expr, found) ==
    CASE expr.kind \in {"Var", "Const"} -> {found}
      [] expr.kind \in {"Call", "Graph"} -> collect_all(expr.args, found)
      [] expr.kind = "TupleGet" -> collect_nodes(expr.value, found)
      [] expr.kind = "Node" ->
           LET same == {k \in DOMAIN found : found[k].node_id = expr.node_id}
           IN IF same # {} THEN Ok(\A k \in same : found[k].value = expr.value, found)
              ELSE {Append(f, [node_id |-> expr.node_id, value |-> expr.value]) :
                       f \in collect_nodes(expr.value, found)}

\* Every node by the name it is bound to.
RECURSIVE rewrite_node_refs(_, _)
rewrite_node_refs(expr, names) ==
    CASE expr.kind \in {"Var", "Const"} -> expr
      [] expr.kind \in {"Call", "Graph"} ->
           [expr EXCEPT !.args = [k \in DOMAIN expr.args |-> rewrite_node_refs(expr.args[k], names)]]
      [] expr.kind = "TupleGet" -> [expr EXCEPT !.value = rewrite_node_refs(expr.value, names)]
      [] expr.kind = "Node" -> Var(names[expr.node_id])

node_name(node_id) == "__knok_node_" \o ToString(node_id)

\* Mutant: a generated name may be that of an input.
unique_node_name_Plain(node_id, reserved) == node_name(node_id)

unique_node_name(node_id, reserved) == unique_name(node_name(node_id), reserved)

node_names(found, reserved) ==
    FoldLeft(LAMBDA names, node :
                 MapInsert(names, node.node_id,
                           unique_node_name(node.node_id, reserved \cup {names[id] : id \in DOMAIN names})),
             EmptyMap, found)

let_bind_nodes(body, reserved) ==
    {LET names == node_names(found, reserved)
     IN [lets |-> [k \in DOMAIN found |->
                      Let(<<names[found[k].node_id]>>, rewrite_node_refs(found[k].value, names))],
         body |-> [k \in DOMAIN body |-> rewrite_node_refs(body[k], names)]] :
        found \in collect_all(body, << >>)}

\* TraceContext::finish, with the types of the returned handles.
finish(name, inputs, body, outputs) ==
    UNION {type_check(FullGraph(name, inputs, outputs, bound.lets, bound.body), EmptyMap) :
              bound \in let_bind_nodes(body, {inputs[k].name : k \in DOMAIN inputs})}

================================================================================
