------------------------------- MODULE GraphIR -------------------------------
(***************************************************************************)
(* The graph IR of knok-core (ast.rs): expressions, graphs and the values  *)
(* that lowering gives them.                                               *)
(*                                                                         *)
(* An expression is a record with its kind.  Unary and binary arithmetic   *)
(* and calls of an operation are all "Call"s: they differ in the MLIR they *)
(* emit and in nothing else.  Tensor types are left to the shape rules.    *)
(***************************************************************************)
EXTENDS Naturals, Sequences

\* Expr::Var: an input or a let-bound value.
Var(name) == [name |-> name, kind |-> "Var"]

\* Expr::Const: a scalar literal.
Const(value) == [kind |-> "Const", value |-> value]

\* Expr::Unary, Expr::Binary, and Expr::Call of a built-in operation.
Call(op, args) == [op |-> op, kind |-> "Call", args |-> args]

\* Expr::Call with CallOp::Graph.
GraphCall(name, args) == [name |-> name, kind |-> "Graph", args |-> args]

\* Expr::Node: a traced node, shared under its identifier.
Node(node_id, value) == [kind |-> "Node", value |-> value, node_id |-> node_id]

\* Expr::TupleGet: one output of a shared multi-output expression.
TupleGet(tuple_id, value, index) ==
    [index |-> index, kind |-> "TupleGet", value |-> value, tuple_id |-> tuple_id]

\* Let: the names bound by an expression.
Let(names, value) == [value |-> value, names |-> names]

\* Graph and TypedGraph, without the types.
Graph(name, inputs, lets, body) ==
    [name |-> name, inputs |-> inputs, lets |-> lets, body |-> body]

(***************************************************************************)
(* An SSA value of the emitted block is the term it computes: output "out" *)
(* of an operation applied to values.  A block argument is a term of its   *)
(* own.                                                                    *)
(***************************************************************************)
Term(op, args, out) == [op |-> op, args |-> args, out |-> out]
BlockArgument(index) == Term("block argument", << >>, index)

\* A BTreeMap is a function; insertion and removal of a key.
MapInsert(map, key, value) ==
    [k \in DOMAIN map \cup {key} |-> IF k = key THEN value ELSE map[k]]
MapRemove(map, key) == [k \in DOMAIN map \ {key} |-> map[k]]
EmptyMap == << >>

==============================================================================
