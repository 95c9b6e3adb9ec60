------------------------------- MODULE Lowerer -------------------------------
(***************************************************************************)
(* The lowerer of knok-compile (lowering/lowerer.rs): one walk over a typed *)
(* graph that emits operations into a block, inlines calls of other graphs *)
(* and caches the values of shared nodes and tuples.                       *)
(*                                                                         *)
(* The code is recursive; here its stack is explicit.  Each graph being    *)
(* lowered (the graph itself, and one for each inlined call, innermost     *)
(* last) has its steps still to do, "todo", with the next one first, and   *)
(* what its finished steps returned, "results", the latest first and each  *)
(* a list of values.  "overwritten" is the local of inline_graph_values.   *)
(* Everything else is a field of Lowerer.                                  *)
(***************************************************************************)
EXTENDS GraphIR, SequencesExt

CONSTANTS
    Programs,     \* records with the graph to lower and the registry "graphs"
    Exprs,        \* the expressions of the programs and their subexpressions
    Results,      \* how many values each operation produces
    Unsupported   \* operations that lowering refuses

IsGraph(g) ==
    /\ g.inputs \in Seq(ToSet(g.inputs))
    /\ g.lets \in Seq(ToSet(g.lets))
    /\ \A i \in DOMAIN g.lets : LET l == g.lets[i]
                              IN  l.value \in Exprs /\ l.names \in Seq(ToSet(l.names))
    /\ g.body \in Seq(Exprs)

\* Subexpressions are expressions, and lists of them are lists.
ASSUME ProgramsAssumption ==
    /\ \A e \in Exprs :
         /\ e.kind \in {"Call", "Graph"} => e.args \in Seq(Exprs)
         /\ e.kind \in {"Node", "TupleGet"} => e.value \in Exprs
         /\ e.kind = "Call" => Results[e.op] \in Nat
    /\ \A p \in Programs :
         /\ IsGraph(p.graph)
         /\ \A name \in DOMAIN p.graphs : IsGraph(p.graphs[name])

VARIABLES
    status,             \* "idle", "lowering", "failing", "failed" or "done"
    graph, graphs,
    call_stack, tuple_scope_stack, next_tuple_scope,
    values, node_values, tuple_values,
    overwritten,
    block,              \* the operations emitted, each with its operands
    todo, results

scopes == <<call_stack, tuple_scope_stack, next_tuple_scope>>
caches == <<node_values, tuple_values>>
lowererVars == <<status, graph, graphs, scopes, values, caches, overwritten, block,
                 todo, results>>

------------------------------------------------------------------------------
(* Steps *)

LowerExpr(expr) == [step |-> "lower_expr", expr |-> expr]
LowerLetValues(expr) == [step |-> "lower_let_values", expr |-> expr]
Steps(exprs) == [i \in DOMAIN exprs |-> LowerExpr(exprs[i])]

\* The let bindings of a graph, then its outputs.
GraphSteps(g) ==
    [i \in DOMAIN g.lets |-> [step |-> "let", binding |-> g.lets[i]]] \o Steps(g.body)

\* The arguments of a call from left to right, then the call itself.
CallSteps(call) ==
    Append(Steps(call.args),
        IF call.kind = "Graph"
        THEN [step |-> "inline_graph", name |-> call.name, count |-> Len(call.args)]
        ELSE [step |-> "emit", op |-> call.op, count |-> Len(call.args)])

Todo == Last(todo)
Top == Head(Todo)
At(step) == /\ status = "lowering"
            /\ Todo # << >>
            /\ Top.step = step
AtExpr(kinds) == At("lower_expr") /\ Top.expr.kind \in kinds

\* The step at the top is replaced by others, or is done.
Continue(steps) == todo' = [todo EXCEPT ![Len(todo)] = steps \o Tail(@)]
StepDone == todo' = [todo EXCEPT ![Len(todo)] = Tail(@)]

\* A step consumes the latest n results, which have one value each, in the
\* order they were made, and returns values of its own.
Latest(n) == [i \in 1..n |-> Last(results)[n + 1 - i][1]]
Without(n) == SubSeq(Last(results), n + 1, Len(Last(results)))
Return(n, vals) ==
    /\ StepDone
    /\ results' = [results EXCEPT ![Len(results)] = <<vals>> \o Without(n)]

Result == Head(Last(results))
current_tuple_scope == Last(tuple_scope_stack)

------------------------------------------------------------------------------
(* Names *)

\* What restore_values needs to know of a name about to be overwritten.
OldValue(map, name) ==
    [name |-> name, old |-> IF name \in DOMAIN map THEN <<map[name]>> ELSE << >>]

\* A map after the first n of a list of bindings: a name has the value it was
\* bound to last.
LastAt(names, n, name) ==
    CHOOSE i \in 1..n : names[i] = name /\ \A j \in i + 1..n : names[j] # name

BoundFirst(map, names, vals, n) ==
    LET bound == {names[i] : i \in 1..n}
    IN  [name \in DOMAIN map \cup bound |->
            IF name \in bound THEN vals[LastAt(names, n, name)] ELSE map[name]]

\* Names bound one after another, and what each of them overwrote.
Bound(map, names, vals) ==
    [map |-> BoundFirst(map, names, vals, Len(names)),
     old |-> [i \in DOMAIN names |-> OldValue(BoundFirst(map, names, vals, i - 1), names[i])]]

OldNames(old) == {old[i].name : i \in DOMAIN old}

\* Each name is again what it was before the overwriting at[name].
PutBack(map, old, at) ==
    LET new == {name \in OldNames(old) : old[at[name]].old = << >>}
    IN  [name \in (DOMAIN map \cup OldNames(old)) \ new |->
            IF name \in OldNames(old) THEN old[at[name]].old[1] ELSE map[name]]

\* The overwriting of each name that came first.
Earliest(old) ==
    [name \in OldNames(old) |->
        CHOOSE i \in DOMAIN old : /\ old[i].name = name
                                  /\ \A j \in DOMAIN old : old[j].name = name => i <= j]

\* Mutant: oldest first, so that a name overwritten twice keeps the inlined value.
restore_values_Forward(map, old) ==
    PutBack(map, old, [name \in OldNames(old) |->
        CHOOSE i \in DOMAIN old : /\ old[i].name = name
                                  /\ \A j \in DOMAIN old : old[j].name = name => j <= i])

\* The latest overwriting is undone first, so the earliest one has the last word.
restore_values(map, old) == PutBack(map, old, Earliest(old))

OtherScopes(map, scope) == {key \in DOMAIN map : key[1] # scope}
Retain(map, keys) == [key \in keys |-> map[key]]

------------------------------------------------------------------------------
(* Start and end *)

Init ==
    /\ status = "idle"
    /\ graph = EmptyMap /\ graphs = EmptyMap
    /\ call_stack = << >> /\ tuple_scope_stack = << >> /\ next_tuple_scope = 0
    /\ values = EmptyMap /\ node_values = EmptyMap /\ tuple_values = EmptyMap
    /\ overwritten = << >> /\ block = << >> /\ todo = << >> /\ results = << >>

\* Lowerer::new, and the beginning of lower().
New(g, registry) ==
    /\ status = "idle"
    /\ status' = "lowering"
    /\ graph' = g /\ graphs' = registry
    /\ call_stack' = <<g.name>>
    /\ tuple_scope_stack' = <<0>>
    /\ next_tuple_scope' = 1
    /\ values' = Bound(EmptyMap, g.inputs,
                       [i \in DOMAIN g.inputs |-> BlockArgument(i)]).map
    /\ overwritten' = <<<< >>>>
    /\ todo' = <<GraphSteps(g)>>
    /\ results' = <<<< >>>>
    /\ UNCHANGED <<caches, block>>

\* The values of the body, when every step of a graph is done.
Outputs == Latest(Len(Last(results)))

ReturnOutputs ==
    /\ status = "lowering"
    /\ Len(todo) = 1 /\ Todo = << >>
    /\ status' = "done"
    /\ results' = <<<<Outputs>>>>
    /\ UNCHANGED <<graph, graphs, scopes, values, caches, overwritten, block, todo>>

------------------------------------------------------------------------------
(* Expressions *)

\* What the lowering of an expression leaves alone.
Unscoped == UNCHANGED <<status, graph, graphs, scopes, values, overwritten>>

LowerVar ==
    /\ AtExpr({"Var"})
    /\ Top.expr.name \in DOMAIN values
    /\ Return(0, <<values[Top.expr.name]>>)
    /\ UNCHANGED <<caches, block>> /\ Unscoped

LowerConst ==
    /\ AtExpr({"Const"})
    /\ block' = Append(block, Call(Top.expr.value, << >>))
    /\ Return(0, <<Term(Top.expr.value, << >>, 1)>>)
    /\ UNCHANGED caches /\ Unscoped

\* A call where a tensor is expected: it must turn out to have one value.
LowerCall ==
    /\ AtExpr({"Call", "Graph"})
    /\ Continue(Append(CallSteps(Top.expr), [step |-> "single"]))
    /\ UNCHANGED <<caches, block, results>> /\ Unscoped

CheckSingle ==
    /\ At("single")
    /\ Len(Result) = 1
    /\ StepDone
    /\ UNCHANGED <<caches, block, results>> /\ Unscoped

\* Mutant: the caches are keyed by the node alone.
scoped_key_NoScope(id) == <<0, id>>

scoped_key(id) == <<current_tuple_scope, id>>

LowerNode ==
    /\ AtExpr({"Node"})
    /\ LET key == scoped_key(Top.expr.node_id) IN
         IF key \in DOMAIN node_values
         THEN Return(0, <<node_values[key]>>)
         ELSE /\ Continue(<<LowerExpr(Top.expr.value), [step |-> "keep_node", key |-> key]>>)
              /\ UNCHANGED results
    /\ UNCHANGED <<caches, block>> /\ Unscoped

KeepNode ==
    /\ At("keep_node")
    /\ node_values' = MapInsert(node_values, Top.key, Result[1])
    /\ StepDone
    /\ UNCHANGED <<tuple_values, block, results>> /\ Unscoped

LowerTupleGet ==
    /\ AtExpr({"TupleGet"})
    /\ LET key == scoped_key(Top.expr.tuple_id) IN
         IF key \in DOMAIN tuple_values
         THEN /\ Top.expr.index \in DOMAIN tuple_values[key]
              /\ Return(0, <<tuple_values[key][Top.expr.index]>>)
         ELSE /\ Continue(<<LowerLetValues(Top.expr.value),
                            [step |-> "keep_tuple", key |-> key, index |-> Top.expr.index]>>)
              /\ UNCHANGED results
    /\ UNCHANGED <<caches, block>> /\ Unscoped

\* Mutant: the projection is returned and the tuple is forgotten.
KeepTuple_NotKept ==
    /\ At("keep_tuple")
    /\ Top.index \in DOMAIN Result
    /\ Return(1, <<Result[Top.index]>>)
    /\ UNCHANGED <<caches, block>> /\ Unscoped

KeepTuple ==
    /\ At("keep_tuple")
    /\ Top.index \in DOMAIN Result
    /\ tuple_values' = MapInsert(tuple_values, Top.key, Result)
    /\ Return(1, <<Result[Top.index]>>)
    /\ UNCHANGED <<node_values, block>> /\ Unscoped

\* Where a let or a tuple may have many values; a node is looked through.
LowerLetOrTuple ==
    /\ At("lower_let_values")
    /\ Continue(CASE Top.expr.kind = "Node" -> <<LowerLetValues(Top.expr.value)>>
                  [] Top.expr.kind \in {"Call", "Graph"} -> CallSteps(Top.expr)
                  [] OTHER -> <<LowerExpr(Top.expr)>>)
    /\ UNCHANGED <<caches, block, results>> /\ Unscoped

\* The operation of a call, with its arguments lowered.
Emit ==
    /\ At("emit")
    /\ Top.op \notin Unsupported
    /\ LET args == Latest(Top.count) IN
         /\ block' = Append(block, Call(Top.op, args))
         /\ Return(Top.count, [r \in 1..Results[Top.op] |-> Term(Top.op, args, r)])
    /\ UNCHANGED caches /\ Unscoped

------------------------------------------------------------------------------
(* Bindings and inlined graphs *)

LowerLet ==
    /\ At("let")
    /\ Continue(<<LowerLetValues(Top.binding.value),
                  [step |-> "bind_values", names |-> Top.binding.names]>>)
    /\ UNCHANGED <<caches, block, results>> /\ Unscoped

\* Only an inlined graph remembers what its bindings overwrite.
BindValues ==
    /\ At("bind_values")
    /\ Len(Top.names) = Len(Result)
    /\ LET bound == Bound(values, Top.names, Result) IN
         /\ values' = bound.map
         /\ overwritten' = IF Len(overwritten) = 1 THEN overwritten
                           ELSE [overwritten EXCEPT ![Len(overwritten)] = @ \o bound.old]
    /\ StepDone
    /\ results' = [results EXCEPT ![Len(results)] = Without(1)]
    /\ UNCHANGED <<status, graph, graphs, scopes, caches, block>>

\* Mutant: only the caller itself is refused, not the callers before it.
MayInline_CallerOnly(name, count) ==
    /\ name # Last(call_stack)
    /\ name \in DOMAIN graphs
    /\ Len(graphs[name].inputs) = count

\* What inline_graph_values checks before it enters the graph.
MayInline(name, count) ==
    /\ ~Contains(call_stack, name)
    /\ name \in DOMAIN graphs
    /\ Len(graphs[name].inputs) = count

\* The caller's step waits for the values of the inlined graph.
EnterGraph ==
    /\ At("inline_graph")
    /\ MayInline(Top.name, Top.count)
    /\ LET callee == graphs[Top.name]
           bound == Bound(values, callee.inputs, Latest(Top.count)) IN
         /\ call_stack' = Append(call_stack, Top.name)
         /\ tuple_scope_stack' = Append(tuple_scope_stack, next_tuple_scope)
         /\ next_tuple_scope' = next_tuple_scope + 1
         /\ values' = bound.map
         /\ overwritten' = Append(overwritten, bound.old)
         /\ todo' = Append([todo EXCEPT ![Len(todo)] = Tail(@)], GraphSteps(callee))
         /\ results' = Append([results EXCEPT ![Len(results)] = Without(Top.count)], << >>)
    /\ UNCHANGED <<status, graph, graphs, caches, block>>

\* Mutant: cached values of the scope stay behind.
LeaveScope_KeepsValues ==
    /\ values' = restore_values(values, Last(overwritten))
    /\ overwritten' = Front(overwritten)
    /\ tuple_scope_stack' = Front(tuple_scope_stack)
    /\ call_stack' = Front(call_stack)
    /\ UNCHANGED <<next_tuple_scope, caches>>

\* restore_values and pop_inline_scope, after success and after an error.
LeaveScope ==
    /\ values' = restore_values(values, Last(overwritten))
    /\ overwritten' = Front(overwritten)
    /\ node_values' = Retain(node_values, OtherScopes(node_values, current_tuple_scope))
    /\ tuple_values' = Retain(tuple_values, OtherScopes(tuple_values, current_tuple_scope))
    /\ tuple_scope_stack' = Front(tuple_scope_stack)
    /\ call_stack' = Front(call_stack)
    /\ UNCHANGED next_tuple_scope

LeaveGraph ==
    /\ status = "lowering"
    /\ Len(todo) > 1 /\ Todo = << >>
    /\ LeaveScope
    /\ todo' = Front(todo)
    /\ results' = LET callers == Front(results) IN
                    [callers EXCEPT ![Len(callers)] = <<Outputs>> \o @]
    /\ UNCHANGED <<status, graph, graphs, block>>

------------------------------------------------------------------------------
(* Errors *)

\* The conditions under which the next step is an error.
StepFails ==
    \/ AtExpr({"Var"}) /\ Top.expr.name \notin DOMAIN values
    \/ /\ AtExpr({"TupleGet"})
       /\ LET key == scoped_key(Top.expr.tuple_id) IN
            /\ key \in DOMAIN tuple_values
            /\ Top.expr.index \notin DOMAIN tuple_values[key]
    \/ At("keep_tuple") /\ Top.index \notin DOMAIN Result
    \/ At("emit") /\ Top.op \in Unsupported
    \/ At("single") /\ Len(Result) # 1
    \/ At("bind_values") /\ Len(Top.names) # Len(Result)
    \/ At("inline_graph") /\ ~MayInline(Top.name, Top.count)

Fail ==
    /\ StepFails
    /\ status' = "failing"
    /\ UNCHANGED <<graph, graphs, scopes, values, caches, overwritten, block, todo, results>>

\* Mutant: an error returns from an inlined graph at once.
Unwind_Bare ==
    /\ status = "failing"
    /\ Len(todo) > 1
    /\ todo' = Front(todo)
    /\ results' = Front(results)
    /\ UNCHANGED <<status, graph, graphs, scopes, values, caches, overwritten, block>>

\* `?` gives up the steps of a graph, and an inlined graph tidies up.
Unwind ==
    /\ status = "failing"
    /\ Len(todo) > 1
    /\ LeaveScope
    /\ todo' = Front(todo)
    /\ results' = Front(results)
    /\ UNCHANGED <<status, graph, graphs, block>>

GiveUp ==
    /\ status = "failing"
    /\ Len(todo) = 1
    /\ status' = "failed"
    /\ UNCHANGED <<graph, graphs, scopes, values, caches, overwritten, block, todo, results>>

\* The lowerer is consumed; nothing more happens.
Finished == status \in {"done", "failed"} /\ UNCHANGED lowererVars

------------------------------------------------------------------------------

Lower == \/ LowerVar \/ LowerConst \/ LowerCall \/ CheckSingle \/ LowerNode \/ KeepNode
         \/ LowerTupleGet \/ KeepTuple \/ LowerLetOrTuple \/ Emit
         \/ LowerLet \/ BindValues \/ EnterGraph \/ LeaveGraph \/ ReturnOutputs
         \/ Fail \/ Unwind \/ GiveUp

Next == \/ status = "idle" /\ \E p \in Programs : New(p.graph, p.graphs)
        \/ Lower
        \/ Finished

Spec == Init /\ [][Next]_lowererVars

------------------------------------------------------------------------------
(* What a lowerer in progress looks like *)

\* The stacks of a lowerer move together, on errors too: a name, a scope and a
\* list of overwritten names for each graph that is being lowered
\* (push_inline_scope, pop_inline_scope, restore_values).
StacksAgree ==
    /\ Len(call_stack) = Len(todo)
    /\ Len(tuple_scope_stack) = Len(todo)
    /\ Len(overwritten) = Len(todo)

\* A graph is never inlined into itself, however long the way round is
\* (the search of call_stack in inline_graph_values).
CallsDoNotRecurse == IsInjective(call_stack)

\* A cached value belongs to a graph that is still being lowered: a scope is
\* not used again, and nothing of it is left once its call has returned.
CachedScopesAreLive ==
    /\ IsInjective(tuple_scope_stack)
    /\ \A i \in DOMAIN tuple_scope_stack : tuple_scope_stack[i] < next_tuple_scope
    /\ \A key \in DOMAIN node_values \cup DOMAIN tuple_values :
          key[1] \in ToSet(tuple_scope_stack)
==============================================================================
