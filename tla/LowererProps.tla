----------------------------- MODULE LowererProps -----------------------------
(***************************************************************************)
(* What lowering must achieve, against a reading of the graph that has no  *)
(* caches, no shared scope of names and no stack: the meaning of an        *)
(* expression under the names of its own graph.                            *)
(*                                                                         *)
(* The meaning is defined by recursion on expressions and calls.  Here it  *)
(* is a constant operator and its defining equations, MeaningRules, so     *)
(* that proofs can use them; MCLowerer defines it by them.                 *)
(***************************************************************************)
EXTENDS Lowerer

CONSTANTS
    Parts, Depth,             \* the subexpressions of each expression, and its depth
    Failed,
    MeaningOf(_, _, _, _),    \* the values of an expression, or Failed
    EnvAfter(_, _, _, _, _),  \* the names of a graph after some of its lets, or Failed
    PlacesOf(_, _, _)         \* the places where an expression needs an operation

\* The expressions that another is made of.
Children(e) == IF e.kind \in {"Call", "Graph"} THEN ToSet(e.args)
               ELSE IF e.kind \in {"Node", "TupleGet"} THEN {e.value} ELSE {}

\* Expressions are trees.
ASSUME ExprsAssumption ==
    /\ Parts \in [Exprs -> SUBSET Exprs] /\ Depth \in [Exprs -> Nat]
    /\ \A e \in Exprs :
         /\ e.kind \in {"Var", "Const", "Call", "Graph", "Node", "TupleGet"}
         /\ e \in Parts[e] /\ Children(e) \subseteq Parts[e]
         /\ \A x \in Parts[e] : x = e \/ \E y \in Children(e) : x \in Parts[y]
         /\ \A x \in Parts[e] : Parts[x] \subseteq Parts[e]
         /\ \A x \in Children(e) : Depth[x] < Depth[e]

VarsOf(e) == {x.name : x \in {y \in Parts[e] : y.kind = "Var"}}
SharedIn(e) == {x \in Parts[e] : x.kind \in {"Node", "TupleGet"}}
PartsOf(g) == UNION ({Parts[g.lets[i].value] : i \in DOMAIN g.lets}
                     \cup {Parts[g.body[i]] : i \in DOMAIN g.body})
NamesBefore(g, i) == ToSet(g.inputs) \cup UNION {ToSet(g.lets[j].names) : j \in 1..i - 1}

\* A graph uses its own names only, and those that are bound before
\* (infer_expr of typecheck.rs refuses an unknown name).
IsScoped(g) ==
    /\ \A i \in DOMAIN g.lets : VarsOf(g.lets[i].value) \subseteq NamesBefore(g, i)
    /\ \A i \in DOMAIN g.body : VarsOf(g.body[i]) \subseteq NamesBefore(g, Len(g.lets) + 1)

\* An identifier stands for one node or tuple of a graph, and the names in it
\* are not bound again once it has been used.
IsShared(g) ==
    /\ \A x, y \in PartsOf(g) :
         /\ x.kind = "Node" /\ y.kind = "Node" /\ x.node_id = y.node_id => x.value = y.value
         /\ x.kind = "TupleGet" /\ y.kind = "TupleGet" /\ x.tuple_id = y.tuple_id => x.value = y.value
    /\ \A j \in DOMAIN g.lets : \A i \in 1..j :
         \A x \in SharedIn(g.lets[i].value) : VarsOf(x.value) \cap ToSet(g.lets[j].names) = {}

\* Type checking has passed every graph that is called.
ASSUME GraphsAssumption ==
    \A p \in Programs :
        /\ IsShared(p.graph)
        /\ \A name \in DOMAIN p.graphs \ {p.graph.name} :
             IsScoped(p.graphs[name]) /\ IsShared(p.graphs[name])

\* The value of an expression that must have one, or Failed.
One(vals) == IF vals = Failed THEN Failed
             ELSE IF Len(vals) = 1 THEN vals[1] ELSE Failed

AllOrFailed(vals) == IF \E i \in DOMAIN vals : vals[i] = Failed THEN Failed ELSE vals

\* The values that a list of expressions has, one each.
ValuesOf(exprs, env, registry, path) ==
    AllOrFailed([i \in DOMAIN exprs |-> One(MeaningOf(exprs[i], env, registry, path))])

\* The names after a binding.
Binding(env, l, registry, path) ==
    IF env = Failed THEN Failed
    ELSE LET vals == MeaningOf(l.value, env, registry, path)
         IN  IF vals = Failed THEN Failed
             ELSE IF Len(vals) = Len(l.names) THEN Bound(env, l.names, vals).map ELSE Failed

\* The outputs of a graph applied to args.
MeaningOfGraph(g, args, registry, path) ==
    LET env == EnvAfter(g, args, registry, path, Len(g.lets))
    IN  IF Len(args) # Len(g.inputs) \/ env = Failed THEN Failed
        ELSE ValuesOf(g.body, env, registry, path)

\* The values of an expression: env gives the names their values, registry the
\* graphs, path the graphs being called.
MeaningStep(expr, env, registry, path) ==
    LET Args == ValuesOf(expr.args, env, registry, path)
        Tuple == MeaningOf(expr.value, env, registry, path)
    IN  CASE expr.kind = "Var" ->
               IF expr.name \in DOMAIN env THEN <<env[expr.name]>> ELSE Failed
          [] expr.kind = "Const" -> <<Term(expr.value, << >>, 1)>>
          [] expr.kind = "Node" -> Tuple
          [] expr.kind = "TupleGet" ->
               IF Tuple = Failed THEN Failed
               ELSE IF expr.index \in DOMAIN Tuple THEN <<Tuple[expr.index]>> ELSE Failed
          [] expr.kind = "Call" ->
               IF Args = Failed \/ expr.op \in Unsupported THEN Failed
               ELSE [r \in 1..Results[expr.op] |-> Term(expr.op, Args, r)]
          [] expr.kind = "Graph" ->
               IF Args = Failed \/ Contains(path, expr.name) \/ expr.name \notin DOMAIN registry
               THEN Failed
               ELSE MeaningOfGraph(registry[expr.name], Args, registry, Append(path, expr.name))

\* The names of a graph applied to args, after its first n lets.
EnvStep(g, args, registry, path, n) ==
    IF n = 0 THEN Bound(EmptyMap, g.inputs, args).map
    ELSE Binding(EnvAfter(g, args, registry, path, n - 1), g.lets[n], registry, path)

MeaningRules ==
    \A registry, path :
        /\ \A expr \in Exprs : \A env :
             MeaningOf(expr, env, registry, path) = MeaningStep(expr, env, registry, path)
        /\ \A g, args : \A n \in Nat :
             EnvAfter(g, args, registry, path, n) = EnvStep(g, args, registry, path, n)

Meaning(g, registry) ==
    MeaningOfGraph(g, [i \in DOMAIN g.inputs |-> BlockArgument(i)], registry, <<g.name>>)

(***************************************************************************)
(* The function returned computes what the graph means, names being those  *)
(* of the graph they are written in; and lowering gives up only on a graph *)
(* that means nothing (a recursive call, an unknown name or graph, lists   *)
(* of different lengths, an operation without a lowering).                 *)
(***************************************************************************)
LoweringKeepsTheMeaning ==
    /\ status = "done" => results = <<<<Meaning(graph, graphs)>>>>
    /\ status = "failed" => Meaning(graph, graphs) = Failed

(***************************************************************************)
(* Sharing: the places at which a graph needs an operation.  A place is a  *)
(* path of numbers; everything below a node or a tuple is at the place of  *)
(* its identifier, wherever it is written, and what a graph that is called *)
(* needs is at a place of that graph, in the place of the call.            *)
(***************************************************************************)
SharedPlace(x) == IF x.kind = "Node" THEN <<2, x.node_id>> ELSE <<3, x.tuple_id>>
SharedPlaces(e) == {SharedPlace(x) : x \in SharedIn(e)}

PlacesOfGraph(g, registry) ==
    UNION ({PlacesOf(g.lets[i].value, <<5, i>>, registry) : i \in DOMAIN g.lets}
           \cup {PlacesOf(g.body[i], <<6, i>>, registry) : i \in DOMAIN g.body})

PlacesOfCall(name, here, registry) ==
    {here \o <<4, place>> : place \in PlacesOfGraph(registry[name], registry)}

PlacesStep(expr, here, registry) ==
    LET Args == UNION {PlacesOf(expr.args[i], here \o <<1, i>>, registry) : i \in DOMAIN expr.args}
    IN  CASE expr.kind = "Var" -> {}
          [] expr.kind = "Const" -> {here}
          [] expr.kind \in {"Node", "TupleGet"} ->
               PlacesOf(expr.value, SharedPlace(expr), registry)
          [] expr.kind = "Call" -> Args \cup {here}
          [] expr.kind = "Graph" -> Args \cup PlacesOfCall(expr.name, here, registry)

PlacesRules ==
    \A registry, here : \A expr \in Exprs :
        PlacesOf(expr, here, registry) = PlacesStep(expr, here, registry)

\* A let looks through a node and does not keep it, so the node is used there
\* only; a tuple is no node (let_bind_nodes leaves no nodes in a graph).
IsPlain(g) ==
    /\ \A x \in PartsOf(g) : x.kind = "TupleGet" => x.value.kind # "Node"
    /\ \A i \in DOMAIN g.lets :
         LET x == g.lets[i].value
         IN  x.kind = "Node" =>
               /\ x.value.kind # "Node"
               /\ \A j \in DOMAIN g.lets \ {i} : SharedPlace(x) \notin SharedPlaces(g.lets[j].value)
               /\ \A j \in DOMAIN g.body : SharedPlace(x) \notin SharedPlaces(g.body[j])

ASSUME PlainAssumption ==
    \A p \in Programs :
        IsPlain(p.graph) /\ \A name \in DOMAIN p.graphs : IsPlain(p.graphs[name])

\* A node or a tuple that is used in many places is emitted once in each call
\* of its graph, and nothing else is emitted twice or left out
\* (docs/lowering.md:39, "tuple projection reuse for multi-output graph ops").
SharedWorkIsEmittedOnce ==
    status = "done" => Len(block) = Cardinality(PlacesOfGraph(graph, graphs))

\* However lowering ends, the lowerer has left every graph it entered, and
\* only the names of the graph itself are bound.
ScopesAreRestored ==
    status \in {"done", "failed"} =>
        /\ call_stack = <<graph.name>>
        /\ tuple_scope_stack = <<0>>
        /\ overwritten = <<<< >>>>
        /\ DOMAIN values \subseteq NamesBefore(graph, Len(graph.lets) + 1)
==============================================================================
