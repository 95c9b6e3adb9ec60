----------------------------- MODULE LowererProofs -----------------------------
(***************************************************************************)
(* Proofs about Lowerer, for any programs and operations: the stacks move  *)
(* together, calls do not recurse, and cached values belong to scopes that *)
(* are being lowered; and what is bound in an inlined graph is unbound     *)
(* again when it is left, on errors too.                                   *)
(***************************************************************************)
EXTENDS LowererProps, SequenceTheorems, WellFoundedInduction, TLAPS

(***************************************************************************)
(* The inductive invariant.  A cached value lands in the scope it was      *)
(* looked up in because the step that keeps it, keep_node or keep_tuple,   *)
(* is among the steps of the graph with that scope (ScopedSteps).          *)
(***************************************************************************)
IsSeq(s) == s \in Seq(ToSet(s))

\* A step at hand in the graph with this scope.
ScopedStep(s, scope) ==
    /\ s.step \in {"lower_expr", "lower_let_values"} => s.expr \in Exprs
    /\ s.step = "let" => s.binding.value \in Exprs
    /\ s.step \in {"keep_node", "keep_tuple"} => s.key[1] = scope

ScopedSteps(steps, scope) ==
    /\ IsSeq(steps)
    /\ \A i \in 1..Len(steps) : ScopedStep(steps[i], scope)

StackTypes ==
    /\ IsSeq(call_stack) /\ IsSeq(overwritten) /\ IsSeq(todo)
    /\ tuple_scope_stack \in Seq(Nat) /\ next_tuple_scope \in Nat
    /\ \A name \in DOMAIN graphs : IsGraph(graphs[name])
    /\ status = "idle" <=> Len(todo) = 0

LowererInv ==
    /\ StackTypes
    /\ StacksAgree
    /\ CallsDoNotRecurse
    /\ CachedScopesAreLive
    /\ \A k \in 1..Len(todo) : ScopedSteps(todo[k], tuple_scope_stack[k])
------------------------------------------------------------------------------
(* Sequences whose elements have no type *)

\* A sequence over any set is a sequence over its own elements.
LEMMA SeqIsSeq ==
    ASSUME NEW S, NEW s \in Seq(S)
    PROVE  IsSeq(s)
BY DEF IsSeq, ToSet

\* The shape of a sequence.
LEMMA SeqShape ==
    ASSUME NEW s, IsSeq(s)
    PROVE  Len(s) \in Nat /\ DOMAIN s = 1..Len(s) /\ (s = << >> <=> Len(s) = 0)
BY DEF IsSeq

\* Appending adds one element at the end.
LEMMA AppendIsSeq ==
    ASSUME NEW s, IsSeq(s), NEW e
    PROVE  /\ IsSeq(Append(s, e))
           /\ Len(Append(s, e)) = Len(s) + 1
           /\ \A i \in 1..Len(s) : Append(s, e)[i] = s[i]
           /\ Append(s, e)[Len(s) + 1] = e
<1> DEFINE S == ToSet(s) \cup {e}
<1>1. s \in Seq(S)
  BY SeqMonotonic DEF IsSeq
<1>2. e \in S
  OBVIOUS
<1> HIDE DEF S
<1>3. /\ Append(s, e) \in Seq(S)
      /\ Len(Append(s, e)) = Len(s) + 1
      /\ \A i \in 1..Len(s) : Append(s, e)[i] = s[i]
      /\ Append(s, e)[Len(s) + 1] = e
  BY <1>1, <1>2, AppendProperties
<1> QED
  BY <1>3, SeqIsSeq

\* Concatenation puts the first sequence before the second.
LEMMA ConcatIsSeq ==
    ASSUME NEW s, IsSeq(s), NEW t, IsSeq(t)
    PROVE  /\ IsSeq(s \o t)
           /\ Len(s \o t) = Len(s) + Len(t)
           /\ \A i \in 1..Len(s) + Len(t) :
                (s \o t)[i] = IF i <= Len(s) THEN s[i] ELSE t[i - Len(s)]
<1> DEFINE S == ToSet(s) \cup ToSet(t)
<1>1. s \in Seq(S) /\ t \in Seq(S)
  BY SeqMonotonic DEF IsSeq
<1> HIDE DEF S
<1>2. s \o t \in Seq(S)
  BY <1>1, ConcatProperties
<1> QED
  BY <1>1, <1>2, SeqIsSeq, ConcatProperties

\* Tail and Front drop one element.
LEMMA TailIsSeq ==
    ASSUME NEW s, IsSeq(s), s # << >>
    PROVE  /\ IsSeq(Tail(s))
           /\ Len(Tail(s)) = Len(s) - 1
           /\ \A i \in 1..Len(s) - 1 : Tail(s)[i] = s[i + 1]
           /\ Head(s) = s[1]
<1> DEFINE S == ToSet(s)
<1>1. s \in Seq(S)
  BY DEF IsSeq
<1> HIDE DEF S
<1>2. /\ Tail(s) \in Seq(S)
      /\ Len(Tail(s)) = Len(s) - 1
      /\ \A i \in 1..Len(Tail(s)) : Tail(s)[i] = s[i + 1]
  BY <1>1, HeadTailProperties
<1>3. IsSeq(Tail(s))
  BY <1>2, SeqIsSeq
<1> QED
  BY <1>1, <1>2, <1>3

\* Front drops the last element of a list.
LEMMA FrontIsSeq ==
    ASSUME NEW s, IsSeq(s), Len(s) > 0
    PROVE  /\ IsSeq(Front(s))
           /\ Len(Front(s)) = Len(s) - 1
           /\ \A i \in 1..Len(s) - 1 : Front(s)[i] = s[i]
<1> DEFINE S == ToSet(s)
           n == Len(s) - 1
<1>1. s \in Seq(S) /\ n \in Nat
  BY DEF IsSeq
<1> HIDE DEF S
<1>2. \A i \in 1..n : s[i] \in S
  BY <1>1
<1>3. /\ SubSeq(s, 1, n) \in Seq(S)
      /\ Len(SubSeq(s, 1, n)) = n
      /\ \A i \in 1..n : SubSeq(s, 1, n)[i] = s[i]
  <2> HIDE DEF n
  <2>1. /\ SubSeq(s, 1, n) \in Seq(S)
        /\ Len(SubSeq(s, 1, n)) = IF 1 <= n THEN n - 1 + 1 ELSE 0
        /\ \A i \in 1..n - 1 + 1 : SubSeq(s, 1, n)[i] = s[1 + i - 1]
    BY <1>1, <1>2, SubSeqProperties
  <2> QED
    BY <1>1, <2>1
<1>4. IsSeq(Front(s))
  BY <1>3, SeqIsSeq DEF Front
<1> QED
  BY <1>3, <1>4 DEF Front

\* Changing one element leaves the others.
LEMMA ExceptIsSeq ==
    ASSUME NEW s, IsSeq(s), NEW n \in 1..Len(s), NEW e, NEW t, t = [s EXCEPT ![n] = e]
    PROVE  /\ IsSeq(t) /\ Len(t) = Len(s)
           /\ \A i \in 1..Len(s) : t[i] = IF i = n THEN e ELSE s[i]
<1> DEFINE S == ToSet(s) \cup {e}
<1>1. s \in Seq(S)
  BY SeqMonotonic DEF IsSeq
<1>2. e \in S
  OBVIOUS
<1> HIDE DEF S
<1>3. /\ t \in Seq(S) /\ Len(t) = Len(s)
      /\ \A i \in 1..Len(s) : t[i] = IF i = n THEN e ELSE s[i]
  BY <1>1, <1>2, ExceptSeq
<1> QED
  BY <1>3, SeqIsSeq
------------------------------------------------------------------------------
(* The steps of expressions, calls and graphs belong to any scope *)

\* Lowering a list of expressions.
LEMMA StepsAreScoped ==
    ASSUME NEW exprs \in Seq(Exprs), NEW scope
    PROVE  ScopedSteps(Steps(exprs), scope)
<1> DEFINE S == {LowerExpr(e) : e \in Exprs}
<1>1. Steps(exprs) \in Seq(S) /\ Len(Steps(exprs)) = Len(exprs)
  BY DEF Steps
<1>2. IsSeq(Steps(exprs))
  <2> HIDE DEF S
  <2> QED
    BY <1>1, SeqIsSeq
<1>3. ASSUME NEW i \in 1..Len(Steps(exprs)) PROVE ScopedStep(Steps(exprs)[i], scope)
  <2>1. exprs[i] \in Exprs /\ Steps(exprs)[i] = LowerExpr(exprs[i])
    BY <1>1 DEF Steps
  <2> QED
    BY <2>1 DEF ScopedStep, LowerExpr
<1> QED
  BY <1>2, <1>3 DEF ScopedSteps

\* Doing one list of steps and then another.
LEMMA ConcatIsScoped ==
    ASSUME NEW s, NEW t, NEW scope, ScopedSteps(s, scope), ScopedSteps(t, scope)
    PROVE  ScopedSteps(s \o t, scope)
<1>1. IsSeq(s) /\ IsSeq(t)
  BY DEF ScopedSteps
<1>2. /\ IsSeq(s \o t)
      /\ Len(s \o t) = Len(s) + Len(t)
      /\ \A i \in 1..Len(s) + Len(t) :
           (s \o t)[i] = IF i <= Len(s) THEN s[i] ELSE t[i - Len(s)]
  BY <1>1, ConcatIsSeq
<1>3. Len(s) \in Nat /\ Len(t) \in Nat
  BY <1>1, SeqShape
<1>4. ASSUME NEW i \in 1..Len(s \o t) PROVE ScopedStep((s \o t)[i], scope)
  <2>1. CASE i <= Len(s)
    BY <1>2, <1>3, <2>1 DEF ScopedSteps
  <2>2. CASE ~(i <= Len(s))
    <3>1. i - Len(s) \in 1..Len(t)
      BY <1>2, <1>3, <2>2
    <3>2. (s \o t)[i] = t[i - Len(s)]
      BY <1>2, <1>3, <2>2
    <3> QED
      BY <3>1, <3>2 DEF ScopedSteps
  <2> QED
    BY <2>1, <2>2
<1> QED
  BY <1>2, <1>4 DEF ScopedSteps

\* One more step at the end.
LEMMA AppendIsScoped ==
    ASSUME NEW s, NEW e, NEW scope, ScopedSteps(s, scope), ScopedStep(e, scope)
    PROVE  ScopedSteps(Append(s, e), scope)
<1>1. IsSeq(s)
  BY DEF ScopedSteps
<1>2. /\ IsSeq(Append(s, e))
      /\ Len(Append(s, e)) = Len(s) + 1
      /\ \A i \in 1..Len(s) : Append(s, e)[i] = s[i]
      /\ Append(s, e)[Len(s) + 1] = e
  BY <1>1, AppendIsSeq
<1>3. Len(s) \in Nat
  BY <1>1, SeqShape
<1>4. \A i \in 1..Len(Append(s, e)) : i \in 1..Len(s) \/ i = Len(s) + 1
  BY <1>2, <1>3
<1> QED
  BY <1>2, <1>4 DEF ScopedSteps

\* A list of one step, and of two.
LEMMA OneStepIsScoped ==
    ASSUME NEW a, NEW scope, ScopedStep(a, scope)
    PROVE  ScopedSteps(<<a>>, scope)
<1>1. <<a>> \in Seq({a}) /\ Len(<<a>>) = 1 /\ <<a>>[1] = a
  OBVIOUS
<1>2. IsSeq(<<a>>)
  BY <1>1, SeqIsSeq
<1> QED
  BY <1>1, <1>2 DEF ScopedSteps

\* The same for two steps.
LEMMA TwoStepsAreScoped ==
    ASSUME NEW a, NEW b, NEW scope, ScopedStep(a, scope), ScopedStep(b, scope)
    PROVE  ScopedSteps(<<a, b>>, scope)
<1>1. /\ <<a, b>> \in Seq({a, b}) /\ Len(<<a, b>>) = 2
      /\ <<a, b>>[1] = a /\ <<a, b>>[2] = b
  OBVIOUS
<1>2. IsSeq(<<a, b>>)
  BY <1>1, SeqIsSeq
<1>3. 1..2 = {1, 2}
  OBVIOUS
<1> QED
  BY <1>1, <1>2, <1>3 DEF ScopedSteps

\* Lowering the arguments of a call, then the call.
LEMMA CallStepsAreScoped ==
    ASSUME NEW e \in Exprs, e.kind \in {"Call", "Graph"}, NEW scope
    PROVE  ScopedSteps(CallSteps(e), scope)
<1> DEFINE call == IF e.kind = "Graph"
                   THEN [step |-> "inline_graph", name |-> e.name, count |-> Len(e.args)]
                   ELSE [step |-> "emit", op |-> e.op, count |-> Len(e.args)]
<1>1. ScopedSteps(Steps(e.args), scope)
  BY ProgramsAssumption, StepsAreScoped
<1>2. ScopedStep(call, scope)
  BY DEF ScopedStep
<1> HIDE DEF call
<1>3. ScopedSteps(Append(Steps(e.args), call), scope)
  BY <1>1, <1>2, AppendIsScoped
<1> QED
  BY <1>3 DEF CallSteps, call

\* Lowering a graph.
LEMMA GraphStepsAreScoped ==
    ASSUME NEW g, IsGraph(g), NEW scope
    PROVE  ScopedSteps(GraphSteps(g), scope)
<1> DEFINE lets == [i \in DOMAIN g.lets |-> [step |-> "let", binding |-> g.lets[i]]]
           S == {[step |-> "let", binding |-> b] : b \in ToSet(g.lets)}
<1>1. lets \in Seq(S) /\ Len(lets) = Len(g.lets)
  BY DEF IsGraph, ToSet
<1>2. IsSeq(lets)
  <2> HIDE DEF S, lets
  <2> QED
    BY <1>1, SeqIsSeq
<1>3. ASSUME NEW i \in 1..Len(lets) PROVE ScopedStep(lets[i], scope)
  BY <1>1 DEF ScopedStep, IsGraph
<1> HIDE DEF lets
<1>4. ScopedSteps(lets, scope)
  BY <1>2, <1>3 DEF ScopedSteps
<1>5. ScopedSteps(Steps(g.body), scope)
  BY StepsAreScoped DEF IsGraph
<1> QED
  BY <1>4, <1>5, ConcatIsScoped DEF GraphSteps, lets
------------------------------------------------------------------------------
(* A step in the innermost graph *)

\* The step at hand and the ones after it belong to the innermost scope.
LEMMA TopIsScoped ==
    ASSUME LowererInv, status # "idle"
    PROVE  /\ Len(todo) \in Nat \ {0}
           /\ Todo = todo[Len(todo)]
           /\ current_tuple_scope = tuple_scope_stack[Len(todo)]
           /\ ScopedSteps(Todo, current_tuple_scope)
           /\ Todo # << >> => /\ ScopedStep(Top, current_tuple_scope)
                              /\ ScopedSteps(Tail(Todo), current_tuple_scope)
<1>1. /\ IsSeq(todo) /\ Len(todo) # 0 /\ Len(tuple_scope_stack) = Len(todo)
      /\ \A k \in 1..Len(todo) : ScopedSteps(todo[k], tuple_scope_stack[k])
  BY DEF LowererInv, StackTypes, StacksAgree
<1>2. Len(todo) \in Nat \ {0}
  BY <1>1, SeqShape
<1>3. /\ Todo = todo[Len(todo)]
      /\ current_tuple_scope = tuple_scope_stack[Len(todo)]
  BY <1>1 DEF Todo, current_tuple_scope, Last
<1>4. ScopedSteps(Todo, current_tuple_scope)
  BY <1>1, <1>2, <1>3
<1>5. ASSUME Todo # << >>
      PROVE  /\ ScopedStep(Top, current_tuple_scope)
             /\ ScopedSteps(Tail(Todo), current_tuple_scope)
  <2> HIDE DEF Todo, current_tuple_scope
  <2>1. IsSeq(Todo)
    BY <1>4 DEF ScopedSteps
  <2>2. /\ IsSeq(Tail(Todo)) /\ Len(Tail(Todo)) = Len(Todo) - 1
        /\ \A i \in 1..Len(Todo) - 1 : Tail(Todo)[i] = Todo[i + 1]
        /\ Head(Todo) = Todo[1]
    BY <1>5, <2>1, TailIsSeq
  <2>3. Len(Todo) \in Nat \ {0}
    BY <1>5, <2>1, SeqShape
  <2>4. ScopedStep(Todo[1], current_tuple_scope)
    BY <1>4, <2>3 DEF ScopedSteps
  <2>5. ASSUME NEW i \in 1..Len(Tail(Todo))
        PROVE  ScopedStep(Tail(Todo)[i], current_tuple_scope)
    <3>1. i + 1 \in 1..Len(Todo) /\ Tail(Todo)[i] = Todo[i + 1]
      BY <2>2, <2>3
    <3> QED
      BY <1>4, <3>1 DEF ScopedSteps
  <2> QED
    BY <2>2, <2>4, <2>5 DEF Top, ScopedSteps
<1> QED
  BY <1>2, <1>3, <1>4, <1>5

\* What replaces the steps of the innermost graph belongs to its scope too.
LEMMA ReplaceIsScoped ==
    ASSUME LowererInv, status = "lowering", NEW steps, NEW t,
           ScopedSteps(steps, current_tuple_scope), t = [todo EXCEPT ![Len(todo)] = steps]
    PROVE  /\ IsSeq(t) /\ Len(t) = Len(todo)
           /\ \A k \in 1..Len(t) : ScopedSteps(t[k], tuple_scope_stack[k])
<1>1. /\ IsSeq(todo)
      /\ \A k \in 1..Len(todo) : ScopedSteps(todo[k], tuple_scope_stack[k])
  BY DEF LowererInv, StackTypes
<1>2. /\ Len(todo) \in Nat \ {0}
      /\ current_tuple_scope = tuple_scope_stack[Len(todo)]
  BY TopIsScoped
<1> DEFINE n == Len(todo)
<1>3. n \in 1..Len(todo) /\ t = [todo EXCEPT ![n] = steps]
  BY <1>2
<1> HIDE DEF n
<1>4. IsSeq(t)
  BY <1>1, <1>3, ExceptIsSeq
<1>5. Len(t) = Len(todo)
  BY <1>1, <1>3, ExceptIsSeq
<1>6. \A k \in 1..Len(todo) : t[k] = IF k = n THEN steps ELSE todo[k]
  BY <1>1, <1>3, ExceptIsSeq
<1> QED
  BY <1>1, <1>2, <1>4, <1>5, <1>6 DEF n

\* Continue and StepDone are such replacements.
LEMMA ContinueIsScoped ==
    ASSUME LowererInv, status = "lowering", Todo # << >>, NEW steps,
           ScopedSteps(steps, current_tuple_scope), Continue(steps)
    PROVE  /\ IsSeq(todo') /\ Len(todo') = Len(todo)
           /\ \A k \in 1..Len(todo') : ScopedSteps(todo'[k], tuple_scope_stack[k])
<1>1. ScopedSteps(steps \o Tail(Todo), current_tuple_scope)
  BY TopIsScoped, ConcatIsScoped
<1>2. todo' = [todo EXCEPT ![Len(todo)] = steps \o Tail(Todo)]
  BY TopIsScoped DEF Continue
<1> QED
  BY <1>1, <1>2, ReplaceIsScoped

\* The same when the step at hand is done and none replaces it.
LEMMA StepDoneIsScoped ==
    ASSUME LowererInv, status = "lowering", Todo # << >>, StepDone
    PROVE  /\ IsSeq(todo') /\ Len(todo') = Len(todo)
           /\ \A k \in 1..Len(todo') : ScopedSteps(todo'[k], tuple_scope_stack[k])
<1>1. todo' = [todo EXCEPT ![Len(todo)] = Tail(Todo)]
  BY TopIsScoped DEF StepDone
<1> QED
  BY <1>1, TopIsScoped, ReplaceIsScoped

\* A step that enters and leaves no graph keeps the invariant if it treats the
\* steps, the list of overwritten names and the caches of its graph well.
LEMMA InnermostStep ==
    ASSUME LowererInv, UNCHANGED <<status, graphs, scopes>>,
           IsSeq(todo'), Len(todo') = Len(todo),
           \A k \in 1..Len(todo') : ScopedSteps(todo'[k], tuple_scope_stack[k]),
           IsSeq(overwritten'), Len(overwritten') = Len(overwritten),
           \A key \in DOMAIN node_values' \cup DOMAIN tuple_values' :
               \/ key \in DOMAIN node_values \cup DOMAIN tuple_values
               \/ status = "lowering" /\ key[1] = current_tuple_scope
    PROVE  LowererInv'
<1>1. /\ call_stack' = call_stack /\ tuple_scope_stack' = tuple_scope_stack
      /\ next_tuple_scope' = next_tuple_scope /\ graphs' = graphs /\ status' = status
  BY DEF scopes
<1>2. StackTypes'
  BY <1>1 DEF LowererInv, StackTypes
<1>3. StacksAgree'
  BY <1>1 DEF LowererInv, StacksAgree
<1>4. CallsDoNotRecurse'
  BY <1>1 DEF LowererInv, CallsDoNotRecurse
<1>5. status = "lowering" => current_tuple_scope \in ToSet(tuple_scope_stack)
  BY TopIsScoped DEF LowererInv, StackTypes, StacksAgree, ToSet
<1>6. CachedScopesAreLive'
  BY <1>1, <1>5 DEF LowererInv, CachedScopesAreLive
<1> QED
  BY <1>1, <1>2, <1>3, <1>4, <1>6 DEF LowererInv
------------------------------------------------------------------------------
(* Expressions and bindings *)

\* MapInsert adds one key.
LEMMA InsertKeys ==
    ASSUME NEW map, NEW key, NEW val
    PROVE  DOMAIN MapInsert(map, key, val) = DOMAIN map \cup {key}
BY DEF MapInsert

\* Steps that leave the stacks and the caches alone and end the step at hand or
\* replace it.
LEMMA PlainStep ==
    ASSUME LowererInv, status = "lowering", Todo # << >>,
           UNCHANGED caches, Unscoped,
           StepDone \/ \E steps : ScopedSteps(steps, current_tuple_scope) /\ Continue(steps)
    PROVE  LowererInv'
<1>1. /\ IsSeq(todo') /\ Len(todo') = Len(todo)
      /\ \A k \in 1..Len(todo') : ScopedSteps(todo'[k], tuple_scope_stack[k])
  BY StepDoneIsScoped, ContinueIsScoped
<1>2. /\ node_values' = node_values /\ tuple_values' = tuple_values
      /\ overwritten' = overwritten /\ IsSeq(overwritten)
      /\ UNCHANGED <<status, graphs, scopes>>
  BY DEF caches, Unscoped, LowererInv, StackTypes
<1> QED
  BY <1>1, <1>2, InnermostStep

\* Steps that keep a value under a key of the innermost scope.
LEMMA KeepingStep ==
    ASSUME LowererInv, status = "lowering", Todo # << >>, Unscoped, StepDone,
           NEW key, key[1] = current_tuple_scope,
           DOMAIN node_values' \cup DOMAIN tuple_values' =
               DOMAIN node_values \cup DOMAIN tuple_values \cup {key}
    PROVE  LowererInv'
<1>1. /\ IsSeq(todo') /\ Len(todo') = Len(todo)
      /\ \A k \in 1..Len(todo') : ScopedSteps(todo'[k], tuple_scope_stack[k])
  BY StepDoneIsScoped
<1>2. /\ overwritten' = overwritten /\ IsSeq(overwritten)
      /\ UNCHANGED <<status, graphs, scopes>>
  BY DEF Unscoped, LowererInv, StackTypes
<1> QED
  BY <1>1, <1>2, InnermostStep

\* The steps of lower_expr and of the calls it makes.
LEMMA ExprStep ==
    ASSUME LowererInv,
           LowerVar \/ LowerConst \/ LowerCall \/ CheckSingle \/ LowerNode \/ KeepNode
           \/ LowerTupleGet \/ KeepTuple \/ LowerLetOrTuple \/ Emit \/ LowerLet
    PROVE  LowererInv'
<1> DEFINE scope == current_tuple_scope
<1>1. CASE LowerVar \/ LowerConst \/ CheckSingle \/ Emit
  <2>1. status = "lowering" /\ Todo # << >> /\ StepDone /\ UNCHANGED caches /\ Unscoped
    BY <1>1 DEF LowerVar, LowerConst, CheckSingle, Emit, Return, At, AtExpr, caches
  <2> QED
    BY <2>1, PlainStep
<1>2. CASE LowerCall
  <2>1. /\ status = "lowering" /\ Todo # << >> /\ UNCHANGED caches /\ Unscoped
        /\ Top.step = "lower_expr" /\ Top.expr.kind \in {"Call", "Graph"}
        /\ Continue(Append(CallSteps(Top.expr), [step |-> "single"]))
    BY <1>2 DEF LowerCall, At, AtExpr, caches
  <2>2. Top.expr \in Exprs
    BY <2>1, TopIsScoped DEF ScopedStep
  <2>3. ScopedStep([step |-> "single"], scope)
    BY DEF ScopedStep
  <2>4. ScopedSteps(Append(CallSteps(Top.expr), [step |-> "single"]), scope)
    BY <2>1, <2>2, <2>3, CallStepsAreScoped, AppendIsScoped
  <2> QED
    BY <2>1, <2>4, PlainStep
<1>3. CASE LowerNode
  <2> DEFINE key == scoped_key(Top.expr.node_id)
             steps == <<LowerExpr(Top.expr.value), [step |-> "keep_node", key |-> key]>>
  <2>1. /\ status = "lowering" /\ Todo # << >> /\ UNCHANGED caches /\ Unscoped
        /\ Top.step = "lower_expr" /\ Top.expr.kind = "Node"
        /\ StepDone \/ Continue(steps)
    BY <1>3 DEF LowerNode, At, AtExpr, caches, Return
  <2>2. Top.expr.value \in Exprs
    BY <2>1, TopIsScoped, ProgramsAssumption DEF ScopedStep
  <2>3. ScopedStep(LowerExpr(Top.expr.value), scope)
    BY <2>2 DEF ScopedStep, LowerExpr
  <2>4. ScopedStep([step |-> "keep_node", key |-> key], scope)
    BY DEF ScopedStep, scoped_key
  <2>5. ScopedSteps(steps, scope)
    BY <2>3, <2>4, TwoStepsAreScoped
  <2> QED
    BY <2>1, <2>5, PlainStep
<1>4. CASE LowerTupleGet
  <2> DEFINE key == scoped_key(Top.expr.tuple_id)
             keep == [step |-> "keep_tuple", key |-> key, index |-> Top.expr.index]
             steps == <<LowerLetValues(Top.expr.value), keep>>
  <2>1. /\ status = "lowering" /\ Todo # << >> /\ UNCHANGED caches /\ Unscoped
        /\ Top.step = "lower_expr" /\ Top.expr.kind = "TupleGet"
        /\ StepDone \/ Continue(steps)
    BY <1>4 DEF LowerTupleGet, At, AtExpr, caches, Return
  <2>2. Top.expr.value \in Exprs
    BY <2>1, TopIsScoped, ProgramsAssumption DEF ScopedStep
  <2>3. ScopedStep(LowerLetValues(Top.expr.value), scope)
    BY <2>2 DEF ScopedStep, LowerLetValues
  <2>4. ScopedStep(keep, scope)
    BY DEF ScopedStep, scoped_key
  <2>5. ScopedSteps(steps, scope)
    BY <2>3, <2>4, TwoStepsAreScoped
  <2> QED
    BY <2>1, <2>5, PlainStep
<1>5. CASE LowerLetOrTuple
  <2>1. /\ status = "lowering" /\ Todo # << >> /\ UNCHANGED caches /\ Unscoped
        /\ Top.step = "lower_let_values"
    BY <1>5 DEF LowerLetOrTuple, At, caches
  <2>2. Top.expr \in Exprs
    BY <2>1, TopIsScoped DEF ScopedStep
  <2>3. CASE Top.expr.kind = "Node"
    <3>1. ScopedStep(LowerLetValues(Top.expr.value), scope)
      BY <2>2, <2>3, ProgramsAssumption DEF ScopedStep, LowerLetValues
    <3>2. Continue(<<LowerLetValues(Top.expr.value)>>)
      BY <1>5, <2>3 DEF LowerLetOrTuple
    <3> QED
      BY <2>1, <3>1, <3>2, OneStepIsScoped, PlainStep
  <2>4. CASE Top.expr.kind \in {"Call", "Graph"}
    <3>1. Continue(CallSteps(Top.expr))
      BY <1>5, <2>4 DEF LowerLetOrTuple
    <3> QED
      BY <2>1, <2>2, <2>4, <3>1, CallStepsAreScoped, PlainStep
  <2>5. CASE Top.expr.kind \notin {"Node", "Call", "Graph"}
    <3>1. ScopedStep(LowerExpr(Top.expr), scope)
      BY <2>2 DEF ScopedStep, LowerExpr
    <3>2. Continue(<<LowerExpr(Top.expr)>>)
      BY <1>5, <2>5 DEF LowerLetOrTuple
    <3> QED
      BY <2>1, <3>1, <3>2, OneStepIsScoped, PlainStep
  <2> QED
    BY <2>3, <2>4, <2>5
<1>6. CASE LowerLet
  <2> DEFINE bind == [step |-> "bind_values", names |-> Top.binding.names]
             steps == <<LowerLetValues(Top.binding.value), bind>>
  <2>1. /\ status = "lowering" /\ Todo # << >> /\ UNCHANGED caches /\ Unscoped
        /\ Top.step = "let" /\ Continue(steps)
    BY <1>6 DEF LowerLet, At, caches
  <2>2. Top.binding.value \in Exprs
    BY <2>1, TopIsScoped DEF ScopedStep
  <2>3. ScopedStep(LowerLetValues(Top.binding.value), scope)
    BY <2>2 DEF ScopedStep, LowerLetValues
  <2>4. ScopedStep(bind, scope)
    BY DEF ScopedStep
  <2>5. ScopedSteps(steps, scope)
    BY <2>3, <2>4, TwoStepsAreScoped
  <2> QED
    BY <2>1, <2>5, PlainStep
<1>7. CASE KeepNode
  <2>1. /\ status = "lowering" /\ Todo # << >> /\ Unscoped /\ StepDone
        /\ Top.step = "keep_node"
        /\ node_values' = MapInsert(node_values, Top.key, Result[1])
        /\ tuple_values' = tuple_values
    BY <1>7 DEF KeepNode, At
  <2>2. Top.key[1] = scope
    BY <2>1, TopIsScoped DEF ScopedStep
  <2>3. DOMAIN node_values' \cup DOMAIN tuple_values' =
            DOMAIN node_values \cup DOMAIN tuple_values \cup {Top.key}
    <3>1. DOMAIN node_values' = DOMAIN node_values \cup {Top.key}
      BY <2>1, InsertKeys, Zenon
    <3>2. DOMAIN tuple_values' = DOMAIN tuple_values
      BY <2>1
    <3> QED
      BY <3>1, <3>2
  <2> QED
    BY <2>1, <2>2, <2>3, KeepingStep
<1>8. CASE KeepTuple
  <2>1. /\ status = "lowering" /\ Todo # << >> /\ Unscoped /\ StepDone
        /\ Top.step = "keep_tuple"
        /\ tuple_values' = MapInsert(tuple_values, Top.key, Result)
        /\ node_values' = node_values
    BY <1>8 DEF KeepTuple, At, Return
  <2>2. Top.key[1] = scope
    BY <2>1, TopIsScoped DEF ScopedStep
  <2>3. DOMAIN node_values' \cup DOMAIN tuple_values' =
            DOMAIN node_values \cup DOMAIN tuple_values \cup {Top.key}
    <3>1. DOMAIN tuple_values' = DOMAIN tuple_values \cup {Top.key}
      BY <2>1, InsertKeys, Zenon
    <3>2. DOMAIN node_values' = DOMAIN node_values
      BY <2>1
    <3> QED
      BY <3>1, <3>2
  <2> QED
    BY <2>1, <2>2, <2>3, KeepingStep
<1> QED
  BY <1>1, <1>2, <1>3, <1>4, <1>5, <1>6, <1>7, <1>8

\* bind_values, in the graph itself and in an inlined one.
LEMMA BindStep ==
    ASSUME LowererInv, BindValues
    PROVE  LowererInv'
<1>1. /\ status = "lowering" /\ Todo # << >> /\ StepDone
      /\ UNCHANGED <<status, graphs, scopes, caches>>
  BY DEF BindValues, At
<1>2. /\ IsSeq(todo') /\ Len(todo') = Len(todo)
      /\ \A k \in 1..Len(todo') : ScopedSteps(todo'[k], tuple_scope_stack[k])
  BY <1>1, StepDoneIsScoped
<1>3. IsSeq(overwritten) /\ Len(overwritten) \in Nat \ {0}
  BY <1>1, TopIsScoped DEF LowererInv, StackTypes, StacksAgree
<1>4. IsSeq(overwritten') /\ Len(overwritten') = Len(overwritten)
  <2>1. CASE overwritten' = overwritten
    BY <1>3, <2>1
  <2>2. CASE Len(overwritten) # 1
    <3> DEFINE n == Len(overwritten)
               bound == Bound(values, Top.names, Result)
    <3>1. /\ overwritten' = [overwritten EXCEPT ![n] = @ \o bound.old]
          /\ n \in 1..Len(overwritten)
      BY <1>3, <2>2 DEF BindValues
    <3> HIDE DEF n, bound
    <3>2. overwritten' = [overwritten EXCEPT ![n] = overwritten[n] \o bound.old]
      BY <3>1
    <3>3. IsSeq(overwritten')
      BY <1>3, <3>1, <3>2, ExceptIsSeq
    <3>4. Len(overwritten') = Len(overwritten)
      BY <1>3, <3>1, <3>2, ExceptIsSeq
    <3> QED
      BY <3>3, <3>4
  <2> QED
    BY <2>1, <2>2 DEF BindValues
<1> QED
  BY <1>1, <1>2, <1>4, InnermostStep DEF caches
------------------------------------------------------------------------------
(* Entering and leaving a graph *)

\* EnterGraph pushes a name that is not on the stack and a scope that no cached
\* value has.
LEMMA EnterStep ==
    ASSUME LowererInv, EnterGraph
    PROVE  LowererInv'
<1> DEFINE callee == graphs[Top.name]
           callers == [todo EXCEPT ![Len(todo)] = Tail(@)]
           old == Bound(values, callee.inputs, Latest(Top.count)).old
<1>1. /\ status = "lowering" /\ status' = status /\ graphs' = graphs
      /\ Todo # << >> /\ MayInline(Top.name, Top.count)
      /\ call_stack' = Append(call_stack, Top.name)
      /\ tuple_scope_stack' = Append(tuple_scope_stack, next_tuple_scope)
      /\ next_tuple_scope' = next_tuple_scope + 1
      /\ overwritten' = Append(overwritten, old)
      /\ todo' = Append(callers, GraphSteps(callee))
      /\ UNCHANGED <<node_values, tuple_values>>
  BY DEF EnterGraph, At, caches
<1> HIDE DEF old
<1>2. /\ IsSeq(call_stack) /\ IsSeq(overwritten) /\ IsSeq(todo)
      /\ tuple_scope_stack \in Seq(Nat) /\ next_tuple_scope \in Nat
      /\ \A name \in DOMAIN graphs : IsGraph(graphs[name])
      /\ Len(call_stack) = Len(todo) /\ Len(tuple_scope_stack) = Len(todo)
      /\ Len(overwritten) = Len(todo)
  BY DEF LowererInv, StackTypes, StacksAgree
<1>3. Len(todo) \in Nat \ {0}
  BY <1>1, TopIsScoped
<1>4. /\ IsSeq(callers) /\ Len(callers) = Len(todo)
      /\ \A k \in 1..Len(callers) : ScopedSteps(callers[k], tuple_scope_stack[k])
  <2>1. callers = [todo EXCEPT ![Len(todo)] = Tail(Todo)]
    BY <1>1, TopIsScoped
  <2>2. ScopedSteps(Tail(Todo), current_tuple_scope)
    BY <1>1, TopIsScoped
  <2> HIDE DEF callers
  <2> QED
    BY <1>1, <2>1, <2>2, ReplaceIsScoped
<1>5. ScopedSteps(GraphSteps(callee), next_tuple_scope)
  BY <1>1, <1>2, GraphStepsAreScoped DEF MayInline
<1> DEFINE steps == GraphSteps(callee)
<1> HIDE DEF callers, steps
<1>6. /\ IsSeq(todo') /\ Len(todo') = Len(todo) + 1
      /\ \A k \in 1..Len(todo) : todo'[k] = callers[k]
      /\ todo'[Len(todo) + 1] = steps
  BY <1>1, <1>4, AppendIsSeq DEF steps
<1>7. /\ tuple_scope_stack' \in Seq(Nat) /\ Len(tuple_scope_stack') = Len(todo) + 1
      /\ \A k \in 1..Len(todo) : tuple_scope_stack'[k] = tuple_scope_stack[k]
      /\ tuple_scope_stack'[Len(todo) + 1] = next_tuple_scope
  BY <1>1, <1>2, AppendProperties
<1>8. /\ IsSeq(call_stack') /\ Len(call_stack') = Len(todo) + 1
      /\ \A k \in 1..Len(todo) : call_stack'[k] = call_stack[k]
      /\ call_stack'[Len(todo) + 1] = Top.name
  BY <1>1, <1>2, AppendIsSeq
<1>9. IsSeq(overwritten') /\ Len(overwritten') = Len(todo) + 1
  BY <1>1, <1>2, AppendIsSeq
<1>10. StackTypes'
  BY <1>1, <1>2, <1>3, <1>6, <1>7, <1>8, <1>9 DEF StackTypes
<1>11. StacksAgree'
  BY <1>6, <1>7, <1>8, <1>9 DEF StacksAgree
<1>12. CallsDoNotRecurse'
  <2>1. DOMAIN call_stack = 1..Len(todo) /\ DOMAIN call_stack' = 1..Len(todo) + 1
    BY <1>2, <1>3, <1>8, SeqShape
  <2>2. \A k \in 1..Len(todo) : call_stack[k] # Top.name
    BY <1>1, <1>2 DEF MayInline, Contains
  <2>3. \A i, j \in 1..Len(todo) : call_stack[i] = call_stack[j] => i = j
    BY <2>1 DEF LowererInv, CallsDoNotRecurse, IsInjective
  <2> QED
    BY <1>3, <1>8, <2>1, <2>2, <2>3 DEF CallsDoNotRecurse, IsInjective
<1>13. CachedScopesAreLive'
  <2>1. /\ DOMAIN tuple_scope_stack = 1..Len(todo)
        /\ DOMAIN tuple_scope_stack' = 1..Len(todo) + 1
    BY <1>2, <1>3, <1>7
  <2>2. /\ \A i, j \in 1..Len(todo) : tuple_scope_stack[i] = tuple_scope_stack[j] => i = j
        /\ \A i \in 1..Len(todo) : tuple_scope_stack[i] < next_tuple_scope
        /\ \A key \in DOMAIN node_values \cup DOMAIN tuple_values :
             \E i \in 1..Len(todo) : key[1] = tuple_scope_stack[i]
    BY <2>1 DEF LowererInv, CachedScopesAreLive, IsInjective, ToSet
  <2>3. \A i \in 1..Len(todo) : tuple_scope_stack[i] \in Nat
    BY <1>2, <2>1
  <2>4. IsInjective(tuple_scope_stack)'
    <3>1. \A i \in 1..Len(todo) : tuple_scope_stack'[i] < tuple_scope_stack'[Len(todo) + 1]
      BY <1>2, <1>3, <1>7, <2>2
    <3>2. \A i \in 1..Len(todo) : tuple_scope_stack'[i] = tuple_scope_stack[i]
      BY <1>2, <1>3, <1>7
    <3>3. /\ \A i \in 1..Len(todo) + 1 : i \in 1..Len(todo) \/ i = Len(todo) + 1
          /\ \A i \in 1..Len(todo) + 1 : tuple_scope_stack'[i] \in Nat
      BY <1>2, <1>3, <1>7, <2>3
    <3> QED
      BY <2>1, <2>2, <3>1, <3>2, <3>3 DEF IsInjective
  <2>5. \A i \in DOMAIN tuple_scope_stack' : tuple_scope_stack'[i] < next_tuple_scope'
    BY <1>1, <1>2, <1>3, <1>7, <2>1, <2>2, <2>3
  <2>6. \A key \in DOMAIN node_values' \cup DOMAIN tuple_values' :
           key[1] \in ToSet(tuple_scope_stack')
    BY <1>1, <1>3, <1>7, <2>1, <2>2 DEF ToSet
  <2> QED
    BY <2>4, <2>5, <2>6 DEF CachedScopesAreLive
<1>14. ASSUME NEW k \in 1..Len(todo') PROVE ScopedSteps(todo'[k], tuple_scope_stack'[k])
  <2>1. CASE k \in 1..Len(todo)
    BY <1>4, <1>6, <1>7, <2>1
  <2>2. CASE k = Len(todo) + 1
    BY <1>5, <1>6, <1>7, <2>2 DEF steps
  <2> QED
    BY <1>3, <1>6, <2>1, <2>2
<1> QED
  BY <1>10, <1>11, <1>12, <1>13, <1>14 DEF LowererInv

\* Retain and OtherScopes forget the values of one scope.
LEMMA RetainedKeys ==
    ASSUME NEW map, NEW scope
    PROVE  DOMAIN Retain(map, OtherScopes(map, scope)) = {key \in DOMAIN map : key[1] # scope}
BY DEF Retain, OtherScopes

\* LeaveScope pops the innermost name and scope, and forgets the values cached
\* in that scope and in no other.
LEMMA LeaveStep ==
    ASSUME LowererInv, status # "idle", Len(todo) > 1, LeaveScope, todo' = Front(todo),
           UNCHANGED <<status, graphs>>
    PROVE  LowererInv'
<1> DEFINE scope == current_tuple_scope
<1>1. /\ IsSeq(call_stack) /\ IsSeq(overwritten) /\ IsSeq(todo) /\ IsSeq(tuple_scope_stack)
      /\ tuple_scope_stack \in Seq(Nat) /\ next_tuple_scope \in Nat
      /\ \A name \in DOMAIN graphs : IsGraph(graphs[name])
      /\ Len(call_stack) = Len(todo) /\ Len(tuple_scope_stack) = Len(todo)
      /\ Len(overwritten) = Len(todo)
  BY SeqIsSeq DEF LowererInv, StackTypes, StacksAgree
<1> DEFINE depth == Len(todo) - 1
<1>2. depth \in Nat \ {0} /\ Len(todo) = depth + 1 /\ scope = tuple_scope_stack[depth + 1]
  BY TopIsScoped
<1>3. /\ call_stack' = Front(call_stack) /\ overwritten' = Front(overwritten)
      /\ tuple_scope_stack' = Front(tuple_scope_stack)
      /\ next_tuple_scope' = next_tuple_scope
      /\ DOMAIN node_values' = {key \in DOMAIN node_values : key[1] # scope}
      /\ DOMAIN tuple_values' = {key \in DOMAIN tuple_values : key[1] # scope}
  BY RetainedKeys DEF LeaveScope
<1> HIDE DEF scope, depth
<1> DEFINE Popped(s, t) == /\ IsSeq(t) /\ Len(t) = depth
                            /\ \A k \in 1..depth : t[k] = s[k]
<1>pop. ASSUME NEW s, IsSeq(s), Len(s) = depth + 1 PROVE Popped(s, Front(s))
  <2>1. Len(s) > 0 /\ Len(s) - 1 = depth
    BY <1>2, <1>pop
  <2> QED
    BY <1>pop, <2>1, FrontIsSeq
<1>4. Popped(call_stack, call_stack')
  BY <1>1, <1>2, <1>3, <1>pop
<1>5. Popped(tuple_scope_stack, tuple_scope_stack')
  BY <1>1, <1>2, <1>3, <1>pop
<1>6. Popped(todo, todo')
  BY <1>1, <1>2, <1>pop
<1>7. IsSeq(overwritten') /\ Len(overwritten') = depth
  BY <1>1, <1>2, <1>3, FrontIsSeq
<1>8. DOMAIN call_stack = 1..depth + 1 /\ DOMAIN call_stack' = 1..depth
  BY <1>1, <1>2, <1>4, SeqShape
<1>9. DOMAIN tuple_scope_stack = 1..depth + 1 /\ DOMAIN tuple_scope_stack' = 1..depth
  BY <1>1, <1>2, <1>5, SeqShape
<1>10. tuple_scope_stack' \in Seq(Nat)
  <2>1. \A k \in 1..depth : tuple_scope_stack'[k] \in Nat
    BY <1>1, <1>2, <1>5, <1>9
  <2> QED
    BY <1>2, <1>5, <1>9, <2>1 DEF IsSeq
<1>11. StackTypes'
  BY <1>1, <1>2, <1>3, <1>4, <1>6, <1>7, <1>10 DEF StackTypes
<1>12. StacksAgree'
  BY <1>4, <1>5, <1>6, <1>7 DEF StacksAgree
<1>13. CallsDoNotRecurse'
  <2>1. \A i, j \in 1..depth : call_stack[i] = call_stack[j] => i = j
    BY <1>2, <1>8 DEF LowererInv, CallsDoNotRecurse, IsInjective
  <2> QED
    BY <1>4, <1>8, <2>1 DEF CallsDoNotRecurse, IsInjective
<1>14. CachedScopesAreLive'
  <2>1. /\ \A i, j \in 1..depth + 1 : tuple_scope_stack[i] = tuple_scope_stack[j] => i = j
        /\ \A i \in 1..depth + 1 : tuple_scope_stack[i] < next_tuple_scope
        /\ \A key \in DOMAIN node_values \cup DOMAIN tuple_values :
             \E i \in 1..depth + 1 : key[1] = tuple_scope_stack[i]
    BY <1>9 DEF LowererInv, CachedScopesAreLive, IsInjective, ToSet
  <2>2. IsInjective(tuple_scope_stack)'
    BY <1>2, <1>5, <1>9, <2>1 DEF IsInjective
  <2>3. \A i \in DOMAIN tuple_scope_stack' : tuple_scope_stack'[i] < next_tuple_scope'
    BY <1>2, <1>3, <1>5, <1>9, <2>1
  <2>4. ASSUME NEW key \in DOMAIN node_values' \cup DOMAIN tuple_values'
        PROVE  key[1] \in ToSet(tuple_scope_stack')
    <3>1. key \in DOMAIN node_values \cup DOMAIN tuple_values /\ key[1] # scope
      BY <1>3
    <3>2. PICK i \in 1..depth + 1 : key[1] = tuple_scope_stack[i]
      BY <2>1, <3>1
    <3>3. i \in 1..depth
      BY <1>2, <3>1, <3>2
    <3> QED
      BY <1>5, <1>9, <3>2, <3>3 DEF ToSet
  <2> QED
    BY <2>2, <2>3, <2>4 DEF CachedScopesAreLive
<1>15. \A k \in 1..Len(todo') : ScopedSteps(todo'[k], tuple_scope_stack'[k])
  BY <1>2, <1>5, <1>6 DEF LowererInv
<1> QED
  BY <1>11, <1>12, <1>13, <1>14, <1>15 DEF LowererInv
------------------------------------------------------------------------------
(* The invariant *)

\* Lowerer::new starts with one graph, one name and one scope.
LEMMA NewStep ==
    ASSUME LowererInv, NEW p \in Programs, New(p.graph, p.graphs)
    PROVE  LowererInv'
<1> DEFINE steps == GraphSteps(p.graph)
<1>1. /\ status = "idle" /\ status' = "lowering" /\ graphs' = p.graphs
      /\ call_stack' = <<p.graph.name>> /\ tuple_scope_stack' = <<0>>
      /\ next_tuple_scope' = 1 /\ overwritten' = <<<< >>>> /\ todo' = <<steps>>
      /\ UNCHANGED <<node_values, tuple_values>>
  BY DEF New, caches
<1>2. IsGraph(p.graph) /\ \A name \in DOMAIN p.graphs : IsGraph(p.graphs[name])
  BY ProgramsAssumption
<1>3. ScopedSteps(steps, 0)
  BY <1>2, GraphStepsAreScoped
<1> HIDE DEF steps
<1>4. \A a : /\ IsSeq(<<a>>) /\ Len(<<a>>) = 1 /\ <<a>>[1] = a
             /\ \A i, j \in DOMAIN <<a>> : i = j
  <2> TAKE a
  <2>1. /\ <<a>> \in Seq({a}) /\ Len(<<a>>) = 1 /\ <<a>>[1] = a
        /\ \A i, j \in DOMAIN <<a>> : i = j
    OBVIOUS
  <2>2. IsSeq(<<a>>)
    BY <2>1, SeqIsSeq
  <2> QED
    BY <2>1, <2>2
<1>5. tuple_scope_stack' \in Seq(Nat)
  BY <1>1
<1>6. Len(todo) = 0 /\ Len(tuple_scope_stack) = 0 /\ tuple_scope_stack \in Seq(Nat)
  BY <1>1 DEF LowererInv, StackTypes, StacksAgree
<1>7. DOMAIN node_values = {} /\ DOMAIN tuple_values = {}
  <2>1. DOMAIN tuple_scope_stack = {}
    BY <1>6
  <2> QED
    BY <2>1 DEF LowererInv, CachedScopesAreLive, ToSet
<1>8. StackTypes'
  BY <1>1, <1>2, <1>4, <1>5 DEF StackTypes
<1>9. StacksAgree'
  BY <1>1, <1>4 DEF StacksAgree
<1>10. CallsDoNotRecurse'
  BY <1>1, <1>4 DEF CallsDoNotRecurse, IsInjective
<1>11. CachedScopesAreLive'
  BY <1>1, <1>4, <1>7 DEF CachedScopesAreLive, IsInjective
<1>12. \A k \in 1..Len(todo') : ScopedSteps(todo'[k], tuple_scope_stack'[k])
  <2>1. Len(todo') = 1 /\ todo'[1] = steps /\ tuple_scope_stack'[1] = 0
    BY <1>1, <1>4
  <2> QED
    BY <1>3, <2>1
<1> QED
  BY <1>8, <1>9, <1>10, <1>11, <1>12 DEF LowererInv

\* Nothing is being lowered at first.
LEMMA InitInvariant == Init => LowererInv
<1> SUFFICES ASSUME Init PROVE LowererInv
  OBVIOUS
<1>1. << >> \in Seq(Nat) /\ Len(<< >>) = 0 /\ DOMAIN << >> = {}
  OBVIOUS
<1>2. IsSeq(<< >>)
  BY <1>1, SeqIsSeq
<1>3. StackTypes
  BY <1>1, <1>2 DEF Init, StackTypes, EmptyMap
<1> QED
  BY <1>1, <1>3 DEF Init, LowererInv, StacksAgree, CallsDoNotRecurse, CachedScopesAreLive,
                    IsInjective, EmptyMap

\* Every step keeps the invariant.
LEMMA NextInvariant == LowererInv /\ [Next]_lowererVars => LowererInv'
<1> SUFFICES ASSUME LowererInv, [Next]_lowererVars PROVE LowererInv'
  OBVIOUS
<1>1. ASSUME NEW p \in Programs, New(p.graph, p.graphs) PROVE LowererInv'
  BY <1>1, NewStep
<1>2. CASE LowerVar \/ LowerConst \/ LowerCall \/ CheckSingle \/ LowerNode \/ KeepNode
           \/ LowerTupleGet \/ KeepTuple \/ LowerLetOrTuple \/ Emit \/ LowerLet
  BY <1>2, ExprStep
<1>3. CASE BindValues
  BY <1>3, BindStep
<1>4. CASE EnterGraph
  BY <1>4, EnterStep
<1>5. CASE LeaveGraph
  BY <1>5, LeaveStep DEF LeaveGraph
<1>6. CASE Unwind
  BY <1>6, LeaveStep DEF Unwind
<1>7. CASE ReturnOutputs \/ Fail \/ GiveUp
  <2>1. /\ status # "idle" /\ status' # "idle"
        /\ UNCHANGED <<graphs, scopes, caches, overwritten, todo>>
    BY <1>7 DEF ReturnOutputs, Fail, GiveUp, StepFails, At, AtExpr
  <2> QED
    BY <2>1 DEF LowererInv, StackTypes, StacksAgree, CallsDoNotRecurse, CachedScopesAreLive,
                scopes, caches
<1>8. CASE UNCHANGED lowererVars
  BY <1>8 DEF lowererVars, LowererInv, StackTypes, StacksAgree, CallsDoNotRecurse,
              CachedScopesAreLive, scopes, caches
<1>9. CASE Finished
  BY <1>8, <1>9 DEF Finished
<1> QED
  BY <1>1, <1>2, <1>3, <1>4, <1>5, <1>6, <1>7, <1>8, <1>9 DEF Next, Lower

\* LowererInv is an invariant of the lowerer, for any programs.
THEOREM LowererInvariant == Spec => []LowererInv
BY InitInvariant, NextInvariant, PTL DEF Spec

\* push_inline_scope, pop_inline_scope and restore_values keep the stacks in
\* step, on errors too, whatever the programs are.
THEOREM StacksAgreeAlways == Spec => []StacksAgree
<1>1. LowererInv => StacksAgree
  BY DEF LowererInv
<1> QED
  BY <1>1, LowererInvariant, PTL

\* inline_graph_values never enters a graph that is being lowered, at any
\* depth, so inlining ends for any finite registry.
THEOREM CallsNeverRecurse == Spec => []CallsDoNotRecurse
<1>1. LowererInv => CallsDoNotRecurse
  BY DEF LowererInv
<1> QED
  BY <1>1, LowererInvariant, PTL

\* A cached node or tuple is found only by the call of the graph that made it:
\* its scope is one of those being lowered, and no two of them are the same.
THEOREM CachedScopesAlwaysLive == Spec => []CachedScopesAreLive
<1>1. LowererInv => CachedScopesAreLive
  BY DEF LowererInv
<1> QED
  BY <1>1, LowererInvariant, PTL

------------------------------------------------------------------------------
(* Natural numbers *)

\* A set of natural numbers has a least element.
LEMMA LeastNatural ==
    ASSUME NEW S, S \subseteq Nat, S # {}
    PROVE  \E n \in S : \A m \in S : n <= m
<1>1. PICK n \in S : \A m \in S : ~(<<m, n>> \in OpToRel(<, Nat))
  BY NatLessThanWellFounded, WFMin
<1>2. ASSUME NEW m \in S PROVE n <= m
  <2>1. <<m, n>> \in Nat \X Nat /\ <<m, n>>[1] = m /\ <<m, n>>[2] = n
    OBVIOUS
  <2>2. ~(m < n)
    BY <1>1, <2>1 DEF OpToRel
  <2> QED
    BY <2>2
<1> QED
  BY <1>2

\* A set of positions has a greatest element.
LEMMA GreatestPosition ==
    ASSUME NEW n \in Nat, NEW S, S \subseteq 1..n, S # {}
    PROVE  \E i \in S : \A j \in S : j <= i
<1> DEFINE T == {k \in Nat : n - k \in S}
<1>1. T \subseteq Nat
  OBVIOUS
<1>2. T # {}
  <2>1. PICK i \in S : TRUE
    OBVIOUS
  <2>2. n - i \in T
    BY <2>1
  <2> QED
    BY <2>2
<1>3. \A j \in S : n - j \in T
  OBVIOUS
<1> HIDE DEF T
<1>4. PICK k \in T : \A m \in T : k <= m
  BY <1>1, <1>2, LeastNatural
<1>5. \A j \in S : k <= n - j
  BY <1>3, <1>4
<1> USE DEF T
<1>6. n - k \in S /\ \A j \in S : j <= n - k
  BY <1>4, <1>5
<1> QED
  BY <1>6

\* What holds of 0 and is passed on to the next number holds of every number.
LEMMA Induction ==
    ASSUME NEW S, 0 \in S, \A n \in Nat : n \in S => n + 1 \in S
    PROVE  Nat \subseteq S
<1> SUFFICES ASSUME Nat \ S # {} PROVE FALSE
  OBVIOUS
<1>1. PICK n \in Nat \ S : \A m \in Nat \ S : n <= m
  BY LeastNatural
<1>2. n # 0 /\ n - 1 \in Nat /\ n - 1 \in S
  BY <1>1
<1>3. (n - 1) + 1 \in S
  BY <1>2
<1> QED
  BY <1>1, <1>3

------------------------------------------------------------------------------
(* Binding names and restoring them *)

IsMap(m) == m = [name \in DOMAIN m |-> m[name]]

\* The first n of a list of names.
FirstNames(names, n) == {names[i] : i \in 1..n}

\* LastAt is the last of the first n places of a name.
LEMMA LastAtIs ==
    ASSUME NEW names, NEW n \in Nat, NEW name \in FirstNames(names, n)
    PROVE  /\ LastAt(names, n, name) \in 1..n
           /\ names[LastAt(names, n, name)] = name
           /\ \A j \in LastAt(names, n, name) + 1..n : names[j] # name
<1> DEFINE P(i) == names[i] = name /\ \A j \in i + 1..n : names[j] # name
<1>1. PICK i \in {k \in 1..n : names[k] = name} : \A j \in {k \in 1..n : names[k] = name} : j <= i
  <2>1. {k \in 1..n : names[k] = name} # {}
    BY DEF FirstNames
  <2> QED
    BY <2>1, GreatestPosition
<1>2. i \in 1..n /\ P(i)
  BY <1>1
<1>3. LastAt(names, n, name) = CHOOSE k \in 1..n : P(k)
  BY DEF LastAt
<1> HIDE DEF P
<1>4. LastAt(names, n, name) \in 1..n /\ P(LastAt(names, n, name))
  BY <1>2, <1>3
<1> QED
  BY <1>4 DEF P

\* A map after some bindings.
IsBoundFirst(new, map, names, vals, n) ==
    /\ DOMAIN new = DOMAIN map \cup FirstNames(names, n)
    /\ IsMap(new)
    /\ \A name \in DOMAIN map : name \notin FirstNames(names, n) => new[name] = map[name]
    /\ \A name \in FirstNames(names, n) : new[name] = vals[LastAt(names, n, name)]

\* BoundFirst, name by name.
LEMMA BoundFirstIs ==
    ASSUME NEW map, NEW names, NEW vals, NEW n
    PROVE  IsBoundFirst(BoundFirst(map, names, vals, n), map, names, vals, n)
<1> DEFINE new == BoundFirst(map, names, vals, n)
<1>1. new = [name \in DOMAIN map \cup FirstNames(names, n) |->
               IF name \in FirstNames(names, n) THEN vals[LastAt(names, n, name)] ELSE map[name]]
  BY DEF BoundFirst, FirstNames
<1> HIDE DEF new
<1>2. IsBoundFirst(new, map, names, vals, n)
  BY <1>1 DEF IsBoundFirst, IsMap
<1> QED
  BY <1>2 DEF new

\* Names bound one after another, and what is remembered of them.
LEMMA BoundIs ==
    ASSUME NEW map, NEW names, IsSeq(names), NEW vals
    PROVE  /\ Bound(map, names, vals).map = BoundFirst(map, names, vals, Len(names))
           /\ FirstNames(names, Len(names)) = ToSet(names)
           /\ IsSeq(Bound(map, names, vals).old) /\ Len(Bound(map, names, vals).old) = Len(names)
           /\ \A i \in 1..Len(names) :
                Bound(map, names, vals).old[i] = OldValue(BoundFirst(map, names, vals, i - 1), names[i])
<1> DEFINE n == Len(names)
           Old(i) == OldValue(BoundFirst(map, names, vals, i - 1), names[i])
           old == Bound(map, names, vals).old
<1>1. n \in Nat /\ DOMAIN names = 1..n
  BY SeqShape
<1>2. Bound(map, names, vals).map = BoundFirst(map, names, vals, n) /\ old = [i \in 1..n |-> Old(i)]
  BY <1>1 DEF Bound
<1>3. FirstNames(names, n) = ToSet(names)
  BY <1>1 DEF ToSet, FirstNames
<1> HIDE DEF Old, n, old
<1>4. old \in Seq({Old(i) : i \in 1..n}) /\ Len(old) = n
  BY <1>1, <1>2
<1>5. IsSeq(old)
  BY <1>4, SeqIsSeq
<1>6. \A i \in 1..n : old[i] = Old(i)
  BY <1>2
<1> QED
  BY <1>2, <1>3, <1>4, <1>5, <1>6 DEF n, Old, old

\* The map after all of them.
IsBound(new, map, names, vals) ==
    /\ DOMAIN new = DOMAIN map \cup ToSet(names)
    /\ IsMap(new)
    /\ \A name \in DOMAIN map : name \notin ToSet(names) => new[name] = map[name]
    /\ \A name \in ToSet(names) : new[name] = vals[LastAt(names, Len(names), name)]

\* The map of Bound, name by name.
LEMMA BoundMapIs ==
    ASSUME NEW map, NEW names, IsSeq(names), NEW vals
    PROVE  IsBound(Bound(map, names, vals).map, map, names, vals)
<1> DEFINE n == Len(names)
           new == Bound(map, names, vals).map
<1>1. new = BoundFirst(map, names, vals, n) /\ FirstNames(names, n) = ToSet(names)
  BY BoundIs
<1> HIDE DEF n, new
<1>2. IsBoundFirst(new, map, names, vals, n)
  BY <1>1, BoundFirstIs
<1>3. IsBound(new, map, names, vals)
  BY <1>1, <1>2 DEF IsBoundFirst, IsBound, n
<1> QED
  BY <1>3 DEF new

\* The earliest overwriting of a name.
First(old, name) ==
    CHOOSE i \in DOMAIN old : /\ old[i].name = name
                              /\ \A j \in DOMAIN old : old[j].name = name => i <= j

\* A name that was overwritten has an earliest overwriting.
LEMMA FirstIs ==
    ASSUME NEW old, IsSeq(old), NEW name \in OldNames(old)
    PROVE  /\ First(old, name) \in 1..Len(old)
           /\ old[First(old, name)].name = name
           /\ \A j \in 1..Len(old) : old[j].name = name => First(old, name) <= j
<1> DEFINE P(i) == old[i].name = name /\ \A j \in DOMAIN old : old[j].name = name => i <= j
           S == {j \in DOMAIN old : old[j].name = name}
<1>1. DOMAIN old = 1..Len(old) /\ Len(old) \in Nat
  BY SeqShape
<1>2. S \subseteq Nat /\ S # {}
  BY <1>1 DEF OldNames
<1>3. PICK i \in S : \A j \in S : i <= j
  BY <1>2, LeastNatural
<1>4. i \in DOMAIN old /\ P(i)
  BY <1>3
<1>5. First(old, name) = CHOOSE k \in DOMAIN old : P(k)
  BY DEF First
<1> HIDE DEF P
<1>6. First(old, name) \in DOMAIN old /\ P(First(old, name))
  BY <1>4, <1>5
<1> QED
  BY <1>1, <1>6 DEF P

\* Nothing comes before the earliest.
LEMMA FirstIsUnique ==
    ASSUME NEW old, IsSeq(old), NEW i \in 1..Len(old), NEW name, old[i].name = name,
           \A j \in 1..Len(old) : old[j].name = name => i <= j
    PROVE  First(old, name) = i
<1>1. DOMAIN old = 1..Len(old) /\ Len(old) \in Nat
  BY SeqShape
<1>2. name \in OldNames(old)
  BY <1>1 DEF OldNames
<1> QED
  BY <1>1, <1>2, FirstIs

\* The names that were bound to nothing before.
NewNames(old) == {name \in OldNames(old) : old[First(old, name)].old = << >>}

\* restore_values by names.
IsRestored(r, map, old) ==
    /\ IsMap(r)
    /\ DOMAIN r = (DOMAIN map \cup OldNames(old)) \ NewNames(old)
    /\ \A name \in OldNames(old) :
         name \notin NewNames(old) => r[name] = old[First(old, name)].old[1]
    /\ \A name \in DOMAIN map : name \notin OldNames(old) => r[name] = map[name]

\* restore_values, name by name.
LEMMA RestoreIs ==
    ASSUME NEW map, NEW old
    PROVE  IsRestored(restore_values(map, old), map, old)
<1> DEFINE at == [name \in OldNames(old) |-> First(old, name)]
           r == restore_values(map, old)
<1>1. r = PutBack(map, old, at)
  BY DEF restore_values, Earliest, First
<1>2. \A name \in OldNames(old) : at[name] = First(old, name)
  OBVIOUS
<1> HIDE DEF at
<1>3. {name \in OldNames(old) : old[at[name]].old = << >>} = NewNames(old)
  BY <1>2 DEF NewNames
<1>4. NewNames(old) \subseteq OldNames(old)
  BY DEF NewNames
<1>5. r = [name \in (DOMAIN map \cup OldNames(old)) \ NewNames(old) |->
            IF name \in OldNames(old) THEN old[at[name]].old[1] ELSE map[name]]
  BY <1>1, <1>3 DEF PutBack
<1> HIDE DEF r
<1>6. IsRestored(r, map, old)
  BY <1>2, <1>4, <1>5 DEF IsMap, IsRestored
<1> QED
  BY <1>6 DEF r

\* What a list of bindings overwrote puts the map back that they were made in.
LEMMA RestoreUndoes ==
    ASSUME NEW map, IsMap(map), NEW names, IsSeq(names), NEW vals, NEW new, NEW old,
           new = Bound(map, names, vals).map, old = Bound(map, names, vals).old
    PROVE  restore_values(new, old) = map
<1> DEFINE n == Len(names)
           r == restore_values(new, old)
           Before(i) == BoundFirst(map, names, vals, i - 1)
<1>1. n \in Nat /\ DOMAIN names = 1..n
  BY SeqShape
<1>2. /\ DOMAIN new = DOMAIN map \cup ToSet(names)
      /\ \A name \in DOMAIN map : name \notin ToSet(names) => new[name] = map[name]
  BY BoundMapIs DEF IsBound
<1>3. IsSeq(old) /\ Len(old) = n /\ \A i \in 1..n : old[i] = OldValue(Before(i), names[i])
  BY BoundIs
<1> HIDE DEF n, Before, r
<1>4. \A i \in 1..n : old[i].name = names[i]
  <2>1. \A map1, name1 : OldValue(map1, name1).name = name1
    BY DEF OldValue
  <2> QED
    BY <1>3, <2>1
<1>5. OldNames(old) = ToSet(names) /\ DOMAIN old = 1..n
  BY <1>1, <1>3, <1>4, SeqShape DEF OldNames, ToSet
<1>6. ASSUME NEW name \in ToSet(names)
      PROVE  old[First(old, name)].old = IF name \in DOMAIN map THEN <<map[name]>> ELSE << >>
  <2> DEFINE i == First(old, name)
             b == Before(i)
  <2>1. i \in 1..n /\ old[i].name = name /\ \A j \in 1..n : old[j].name = name => i <= j
    BY <1>3, <1>5, FirstIs
  <2> HIDE DEF i
  <2>2. \A j \in 1..n : names[j] = name => i <= j
    BY <1>4, <2>1
  <2>3. name \notin FirstNames(names, i - 1)
    BY <1>1, <2>1, <2>2 DEF FirstNames
  <2>4. IsBoundFirst(b, map, names, vals, i - 1)
    BY BoundFirstIs DEF Before
  <2> HIDE DEF b
  <2>5. old[i] = OldValue(b, name)
    BY <1>1, <1>3, <1>4, <2>1 DEF b
  <2>6. old[i].old = IF name \in DOMAIN b THEN <<b[name]>> ELSE << >>
    BY <2>5 DEF OldValue
  <2>7. /\ name \in DOMAIN b <=> name \in DOMAIN map
        /\ name \in DOMAIN map => b[name] = map[name]
    BY <2>3, <2>4 DEF IsBoundFirst
  <2> QED
    BY <2>6, <2>7 DEF i
<1>7. \A x : <<x>> # << >> /\ <<x>>[1] = x
  OBVIOUS
<1>8. /\ IsMap(r)
      /\ DOMAIN r = (DOMAIN new \cup ToSet(names)) \ NewNames(old)
      /\ \A name \in ToSet(names) :
           name \notin NewNames(old) => r[name] = old[First(old, name)].old[1]
      /\ \A name \in DOMAIN new : name \notin ToSet(names) => r[name] = new[name]
  <2>1. IsRestored(r, new, old)
    BY RestoreIs DEF r
  <2> QED
    BY <1>5, <2>1 DEF IsRestored
<1>9. \A name : name \in NewNames(old) <=> name \in ToSet(names) /\ name \notin DOMAIN map
  BY <1>5, <1>6, <1>7 DEF NewNames
<1>10. DOMAIN r = DOMAIN map
  BY <1>2, <1>8, <1>9
<1>11. ASSUME NEW name \in DOMAIN map PROVE r[name] = map[name]
  <2>1. CASE name \in ToSet(names)
    <3>1. old[First(old, name)].old = <<map[name]>>
      BY <1>6, <2>1
    <3>2. r[name] = old[First(old, name)].old[1]
      BY <1>8, <1>9, <2>1
    <3> QED
      BY <1>7, <3>1, <3>2
  <2>2. CASE name \notin ToSet(names)
    BY <1>2, <1>8, <2>2
  <2> QED
    BY <2>1, <2>2
<1>12. r = map
  BY <1>8, <1>10, <1>11 DEF IsMap
<1> QED
  BY <1>12 DEF r

\* Undoing a list of overwritings undoes its later part and then its earlier.
LEMMA RestoreConcat ==
    ASSUME NEW map, NEW s, IsSeq(s), NEW t, IsSeq(t)
    PROVE  restore_values(map, s \o t) = restore_values(restore_values(map, t), s)
<1> DEFINE u == s \o t
           whole == restore_values(map, u)
           later == restore_values(map, t)
           both == restore_values(later, s)
           m == Len(s)
           n == Len(t)
<1>1. /\ m \in Nat /\ n \in Nat /\ DOMAIN s = 1..m /\ DOMAIN t = 1..n
      /\ IsSeq(u) /\ Len(u) = m + n
      /\ \A i \in 1..m + n : u[i] = IF i <= m THEN s[i] ELSE t[i - m]
  BY SeqShape, ConcatIsSeq
<1>2. DOMAIN u = 1..m + n
  BY <1>1, SeqShape
<1> HIDE DEF u, m, n
<1>3. /\ \A i \in 1..m : i \in 1..m + n /\ u[i] = s[i]
      /\ \A i \in 1..n : m + i \in 1..m + n /\ u[m + i] = t[i]
  <2>1. ASSUME NEW i \in 1..n PROVE m + i \in 1..m + n /\ u[m + i] = t[i]
    <3>1. m + i \in 1..m + n /\ ~(m + i <= m) /\ (m + i) - m = i
      BY <1>1
    <3> DEFINE j == m + i
    <3> HIDE DEF j
    <3>2. u[j] = t[j - m]
      BY <1>1, <3>1 DEF j
    <3> QED
      BY <3>1, <3>2 DEF j
  <2>2. \A i \in 1..m : i \in 1..m + n /\ u[i] = s[i]
    BY <1>1
  <2> QED
    BY <2>1, <2>2
<1>4. ASSUME NEW i \in 1..m + n PROVE i \in 1..m \/ (i - m \in 1..n /\ i = m + (i - m))
  BY <1>1
<1>5. OldNames(u) = OldNames(s) \cup OldNames(t)
  <2>1. OldNames(s) \subseteq OldNames(u) /\ OldNames(t) \subseteq OldNames(u)
    BY <1>1, <1>2, <1>3 DEF OldNames
  <2>2. ASSUME NEW i \in 1..m + n PROVE u[i].name \in OldNames(s) \cup OldNames(t)
    <3>1. CASE i \in 1..m
      BY <1>1, <1>3, <3>1 DEF OldNames
    <3>2. CASE i - m \in 1..n /\ i = m + (i - m)
      <4>1. u[i] = t[i - m]
        BY <1>3, <3>2
      <4> QED
        BY <1>1, <3>2, <4>1 DEF OldNames
    <3> QED
      BY <1>4, <3>1, <3>2
  <2> QED
    BY <1>2, <2>1, <2>2 DEF OldNames
<1>6. ASSUME NEW name \in OldNames(s) PROVE u[First(u, name)] = s[First(s, name)]
  <2> DEFINE i == First(s, name)
  <2>1. i \in 1..m /\ s[i].name = name /\ \A j \in 1..m : s[j].name = name => i <= j
    BY FirstIs DEF m
  <2> HIDE DEF i
  <2>2. ASSUME NEW j \in 1..m + n, u[j].name = name PROVE i <= j
    <3>1. CASE j \in 1..m
      BY <1>3, <2>1, <2>2, <3>1
    <3>2. CASE j - m \in 1..n /\ j = m + (j - m)
      BY <1>1, <2>1, <3>2
    <3> QED
      BY <1>4, <3>1, <3>2
  <2>3. i \in 1..Len(u) /\ u[i] = s[i]
    BY <1>1, <1>3, <2>1
  <2>4. IsSeq(u) /\ u[i].name = name /\ \A j \in 1..Len(u) : u[j].name = name => i <= j
    BY <1>1, <2>1, <2>2, <2>3
  <2>5. First(u, name) = i
    BY <2>3, <2>4, FirstIsUnique
  <2> QED
    BY <2>3, <2>5 DEF i
<1>7. ASSUME NEW name \in OldNames(t) \ OldNames(s) PROVE u[First(u, name)] = t[First(t, name)]
  <2> DEFINE i == First(t, name)
  <2>1. i \in 1..n /\ t[i].name = name /\ \A j \in 1..n : t[j].name = name => i <= j
    BY FirstIs DEF n
  <2> HIDE DEF i
  <2>2. ASSUME NEW j \in 1..m + n, u[j].name = name PROVE m + i <= j
    <3>1. CASE j \in 1..m
      BY <1>1, <1>3, <2>2, <3>1 DEF OldNames
    <3>2. CASE j - m \in 1..n /\ j = m + (j - m)
      <4>1. t[j - m].name = name
        BY <1>3, <2>2, <3>2
      <4>2. i <= j - m
        BY <2>1, <3>2, <4>1
      <4> QED
        BY <1>1, <2>1, <4>2
    <3> QED
      BY <1>4, <3>1, <3>2
  <2> DEFINE k == m + i
  <2>3. k \in 1..m + n /\ u[k] = t[i]
    BY <1>3, <2>1
  <2>4. u[k].name = name /\ \A j \in 1..m + n : u[j].name = name => k <= j
    BY <2>1, <2>2, <2>3
  <2> HIDE DEF k
  <2>5. /\ IsSeq(u) /\ k \in 1..Len(u) /\ u[k].name = name
        /\ \A j \in 1..Len(u) : u[j].name = name => k <= j
    BY <1>1, <2>3, <2>4
  <2>6. First(u, name) = k
    BY <2>5, FirstIsUnique
  <2> QED
    BY <2>3, <2>6 DEF i
<1>8. IsRestored(whole, map, u) /\ IsRestored(later, map, t) /\ IsRestored(both, later, s)
  BY RestoreIs
<1> HIDE DEF whole, later, both
<1>9. NewNames(s) \subseteq OldNames(s) /\ NewNames(t) \subseteq OldNames(t)
  BY DEF NewNames
<1>10. \A name : name \in NewNames(u)
                   <=> name \in NewNames(s) \/ (name \in NewNames(t) /\ name \notin OldNames(s))
  BY <1>5, <1>6, <1>7 DEF NewNames
<1>11. DOMAIN whole = DOMAIN both
  BY <1>5, <1>8, <1>9, <1>10 DEF IsRestored
<1>12. ASSUME NEW name \in DOMAIN whole PROVE whole[name] = both[name]
  <2>1. CASE name \in OldNames(s)
    BY <1>5, <1>6, <1>8, <1>9, <1>10, <2>1 DEF IsRestored
  <2>2. CASE name \in OldNames(t) \ OldNames(s)
    BY <1>5, <1>7, <1>8, <1>9, <1>10, <2>2 DEF IsRestored
  <2>3. CASE name \notin OldNames(s) /\ name \notin OldNames(t)
    BY <1>5, <1>8, <1>9, <1>10, <2>3 DEF IsRestored
  <2> QED
    BY <2>1, <2>2, <2>3
<1>13. whole = both
  BY <1>8, <1>11, <1>12 DEF IsMap, IsRestored
<1> QED
  BY <1>13 DEF whole, both, later, u

------------------------------------------------------------------------------
(* The steps of a graph *)

\* What Continue and StepDone leave to do.
LEMMA ContinueIs ==
    ASSUME LowererInv, status = "lowering", Todo # << >>, NEW steps, IsSeq(steps),
           Continue(steps) \/ StepDone
    PROVE  /\ IsSeq(todo') /\ Len(todo') = Len(todo)
           /\ \A k \in 1..Len(todo) : k # Len(todo) => todo'[k] = todo[k]
           /\ ToSet(todo'[Len(todo)]) \subseteq ToSet(steps) \cup ToSet(todo[Len(todo)])
<1> DEFINE n == Len(todo)
<1>1. /\ n \in Nat \ {0} /\ Todo = todo[n] /\ IsSeq(todo)
      /\ IsSeq(Todo) /\ IsSeq(Tail(Todo)) /\ Tail(Todo) = Tail(todo[n])
  BY TopIsScoped DEF LowererInv, StackTypes, ScopedSteps
<1>2. ToSet(Tail(Todo)) \subseteq ToSet(Todo)
  <2>1. /\ Len(Tail(Todo)) = Len(Todo) - 1 /\ Len(Todo) \in Nat /\ DOMAIN Todo = 1..Len(Todo)
        /\ \A i \in 1..Len(Todo) - 1 : Tail(Todo)[i] = Todo[i + 1]
        /\ DOMAIN Tail(Todo) = 1..Len(Tail(Todo))
    BY <1>1, TailIsSeq, SeqShape
  <2> HIDE DEF Todo
  <2>2. \A i \in DOMAIN Tail(Todo) : i + 1 \in DOMAIN Todo /\ Tail(Todo)[i] = Todo[i + 1]
    BY <2>1
  <2> QED
    BY <2>2 DEF ToSet
<1>3. ToSet(steps \o Tail(Todo)) \subseteq ToSet(steps) \cup ToSet(Todo)
  <2> DEFINE both == steps \o Tail(Todo)
             s == Tail(Todo)
  <2>1. /\ IsSeq(both) /\ Len(both) = Len(steps) + Len(s)
        /\ \A i \in 1..Len(steps) + Len(s) :
             both[i] = IF i <= Len(steps) THEN steps[i] ELSE s[i - Len(steps)]
    BY <1>1, ConcatIsSeq
  <2>2. /\ Len(steps) \in Nat /\ Len(s) \in Nat /\ DOMAIN steps = 1..Len(steps)
        /\ DOMAIN s = 1..Len(s) /\ DOMAIN both = 1..Len(both)
    BY <1>1, <2>1, SeqShape
  <2> HIDE DEF both, s
  <2>3. ASSUME NEW i \in DOMAIN both PROVE both[i] \in ToSet(steps) \cup ToSet(s)
    <3>1. CASE i <= Len(steps)
      BY <2>1, <2>2, <3>1 DEF ToSet
    <3>2. CASE ~(i <= Len(steps))
      <4>1. i - Len(steps) \in DOMAIN s /\ both[i] = s[i - Len(steps)]
        BY <2>1, <2>2, <3>2
      <4> QED
        BY <4>1 DEF ToSet
    <3> QED
      BY <3>1, <3>2
  <2>4. ToSet(both) \subseteq ToSet(steps) \cup ToSet(s)
    BY <2>3 DEF ToSet
  <2> QED
    BY <1>2, <2>4 DEF both, s
<1>4. PICK t : /\ todo' = [todo EXCEPT ![n] = t]
               /\ t = Tail(Todo) \/ t = steps \o Tail(Todo)
  BY <1>1 DEF Continue, StepDone
<1> HIDE DEF n
<1>0. n \in 1..Len(todo)
  BY <1>1 DEF n
<1>5. /\ IsSeq(todo') /\ Len(todo') = Len(todo)
      /\ \A k \in 1..Len(todo) : todo'[k] = IF k = n THEN t ELSE todo[k]
  <2>1. IsSeq(todo')
    BY <1>0, <1>1, <1>4, ExceptIsSeq
  <2>2. Len(todo') = Len(todo)
    BY <1>0, <1>1, <1>4, ExceptIsSeq
  <2>3. \A k \in 1..Len(todo) : todo'[k] = IF k = n THEN t ELSE todo[k]
    BY <1>0, <1>1, <1>4, ExceptIsSeq
  <2> QED
    BY <2>1, <2>2, <2>3
<1>6. ToSet(t) \subseteq ToSet(steps) \cup ToSet(todo[n])
  BY <1>1, <1>2, <1>3, <1>4
<1>8. todo'[n] = t
  BY <1>0, <1>5
<1> HIDE DEF Todo
<1>9. ToSet(todo'[n]) \subseteq ToSet(steps) \cup ToSet(todo[n])
  BY <1>6, <1>8
<1>10. \A k \in 1..Len(todo) : k # n => todo'[k] = todo[k]
  BY <1>5
<1> QED
  BY <1>5, <1>9, <1>10 DEF n

\* The steps of a graph are its let bindings and the expressions of its body.
LEMMA GraphStepsAre ==
    ASSUME NEW g, IsGraph(g)
    PROVE  /\ IsSeq(GraphSteps(g)) /\ Len(GraphSteps(g)) = Len(g.lets) + Len(g.body)
           /\ Len(g.lets) \in Nat /\ Len(g.body) \in Nat
           /\ \A i \in 1..Len(g.lets) + Len(g.body) :
                GraphSteps(g)[i] = IF i <= Len(g.lets)
                                   THEN [step |-> "let", binding |-> g.lets[i]]
                                   ELSE LowerExpr(g.body[i - Len(g.lets)])
<1> DEFINE lets == [i \in DOMAIN g.lets |-> [step |-> "let", binding |-> g.lets[i]]]
           body == Steps(g.body)
           m == Len(g.lets)
           n == Len(g.body)
<1>1. /\ g.lets \in Seq(ToSet(g.lets)) /\ g.body \in Seq(Exprs)
      /\ m \in Nat /\ n \in Nat /\ DOMAIN g.lets = 1..m /\ DOMAIN g.body = 1..n
  BY DEF IsGraph
<1>2. lets \in Seq({lets[i] : i \in 1..m}) /\ Len(lets) = m
  BY <1>1
<1>3. body \in Seq({LowerExpr(e) : e \in Exprs}) /\ Len(body) = n
  BY <1>1 DEF Steps
<1>4. IsSeq(lets) /\ IsSeq(body)
  <2> HIDE DEF lets, body
  <2> QED
    BY <1>2, <1>3, SeqIsSeq
<1>5. /\ \A i \in 1..m : lets[i] = [step |-> "let", binding |-> g.lets[i]]
      /\ \A i \in 1..n : body[i] = LowerExpr(g.body[i])
  BY <1>1 DEF Steps
<1>6. GraphSteps(g) = lets \o body
  BY DEF GraphSteps
<1> HIDE DEF lets, body, m, n
<1>7. /\ IsSeq(lets \o body) /\ Len(lets \o body) = m + n
      /\ \A i \in 1..m + n : (lets \o body)[i] = IF i <= m THEN lets[i] ELSE body[i - m]
  BY <1>2, <1>3, <1>4, ConcatIsSeq
<1>8. ASSUME NEW i \in 1..m + n
      PROVE  GraphSteps(g)[i] = IF i <= m THEN [step |-> "let", binding |-> g.lets[i]]
                                ELSE LowerExpr(g.body[i - m])
  <2>1. CASE i <= m
    BY <1>1, <1>5, <1>6, <1>7, <2>1
  <2>2. CASE ~(i <= m)
    <3>1. i - m \in 1..n
      BY <1>1, <2>2
    <3> QED
      BY <1>5, <1>6, <1>7, <2>2, <3>1
  <2> QED
    BY <2>1, <2>2
<1>9. IsSeq(GraphSteps(g)) /\ Len(GraphSteps(g)) = m + n
  BY <1>6, <1>7
<1> QED
  BY <1>1, <1>8, <1>9 DEF m, n

\* The steps of a call are its arguments and the call itself.
LEMMA CallStepsAre ==
    ASSUME NEW e \in Exprs, e.kind \in {"Call", "Graph"}
    PROVE  /\ IsSeq(CallSteps(e)) /\ Len(CallSteps(e)) = Len(e.args) + 1 /\ Len(e.args) \in Nat
           /\ \A i \in 1..Len(e.args) : CallSteps(e)[i] = LowerExpr(e.args[i])
           /\ CallSteps(e)[Len(e.args) + 1] =
                IF e.kind = "Graph"
                THEN [step |-> "inline_graph", name |-> e.name, count |-> Len(e.args)]
                ELSE [step |-> "emit", op |-> e.op, count |-> Len(e.args)]
<1> DEFINE call == IF e.kind = "Graph"
                   THEN [step |-> "inline_graph", name |-> e.name, count |-> Len(e.args)]
                   ELSE [step |-> "emit", op |-> e.op, count |-> Len(e.args)]
           args == Steps(e.args)
<1>1. e.args \in Seq(Exprs)
  BY ProgramsAssumption
<1>2. args \in Seq({LowerExpr(x) : x \in Exprs}) /\ Len(args) = Len(e.args) /\ Len(e.args) \in Nat
  BY <1>1 DEF Steps
<1>3. \A i \in 1..Len(e.args) : args[i] = LowerExpr(e.args[i])
  BY <1>1 DEF Steps
<1>4. CallSteps(e) = Append(args, call)
  BY DEF CallSteps
<1> HIDE DEF args, call
<1>5. IsSeq(args)
  BY <1>2, SeqIsSeq
<1>6. /\ IsSeq(Append(args, call)) /\ Len(Append(args, call)) = Len(e.args) + 1
      /\ \A i \in 1..Len(e.args) : Append(args, call)[i] = args[i]
      /\ Append(args, call)[Len(e.args) + 1] = call
  BY <1>2, <1>5, AppendIsSeq
<1> QED
  BY <1>2, <1>3, <1>4, <1>6 DEF call

\* Steps that bind no names.
LEMMA CallBindsNothing ==
    ASSUME NEW e \in Exprs, e.kind \in {"Call", "Graph"}, NEW s \in ToSet(CallSteps(e))
    PROVE  s.step \notin {"let", "bind_values"}
<1> DEFINE n == Len(e.args)
           call == CallSteps(e)[n + 1]
<1>1. /\ IsSeq(CallSteps(e)) /\ Len(CallSteps(e)) = n + 1 /\ n \in Nat
      /\ \A i \in 1..n : CallSteps(e)[i] = LowerExpr(e.args[i])
  BY CallStepsAre
<1>0. call = IF e.kind = "Graph"
             THEN [step |-> "inline_graph", name |-> e.name, count |-> n]
             ELSE [step |-> "emit", op |-> e.op, count |-> n]
  BY CallStepsAre
<1> HIDE DEF n, call
<1>5. call.step \in {"inline_graph", "emit"}
  BY <1>0
<1>6. \A x : LowerExpr(x).step = "lower_expr"
  BY DEF LowerExpr
<1>2. PICK i \in 1..n + 1 : s = CallSteps(e)[i]
  BY <1>1, SeqShape DEF ToSet
<1>3. CASE i \in 1..n
  BY <1>1, <1>2, <1>3, <1>6
<1>4. CASE i = n + 1
  BY <1>2, <1>4, <1>5 DEF call
<1> QED
  BY <1>1, <1>3, <1>4

\* The steps of an expression bind no names, and those of a let binding its own.
BindsLike(s, top) ==
    s.step \in {"let", "bind_values"} =>
        /\ s.step = "bind_values"
        /\ top.step = "let" /\ s.names = top.binding.names

\* Lists of no step, of one and of two.
LEMMA NoStepBinds ==
    ASSUME NEW top
    PROVE  IsSeq(<< >>) /\ \A s \in ToSet(<< >>) : BindsLike(s, top)
<1>1. << >> \in Seq({}) /\ ToSet(<< >>) = {}
  BY DEF ToSet
<1> QED
  BY <1>1, SeqIsSeq

\* The same for one step.
LEMMA OneStepBinds ==
    ASSUME NEW top, NEW a, BindsLike(a, top)
    PROVE  IsSeq(<<a>>) /\ \A s \in ToSet(<<a>>) : BindsLike(s, top)
<1>1. <<a>> \in Seq({a}) /\ DOMAIN <<a>> = {1} /\ <<a>>[1] = a
  OBVIOUS
<1> QED
  BY <1>1, SeqIsSeq DEF ToSet

\* The same for two steps.
LEMMA TwoStepsBind ==
    ASSUME NEW top, NEW a, NEW b, BindsLike(a, top), BindsLike(b, top)
    PROVE  IsSeq(<<a, b>>) /\ \A s \in ToSet(<<a, b>>) : BindsLike(s, top)
<1>1. /\ <<a, b>> \in Seq({a, b}) /\ DOMAIN <<a, b>> = {1, 2}
      /\ <<a, b>>[1] = a /\ <<a, b>>[2] = b
  OBVIOUS
<1> QED
  BY <1>1, SeqIsSeq DEF ToSet

\* A step on an expression is replaced by steps that bind what it binds.
LEMMA ExprBinds ==
    ASSUME LowererInv,
           LowerVar \/ LowerConst \/ LowerCall \/ CheckSingle \/ LowerNode \/ KeepNode
           \/ LowerTupleGet \/ KeepTuple \/ LowerLetOrTuple \/ Emit \/ LowerLet
    PROVE  /\ status = "lowering" /\ Todo # << >> /\ Unscoped
           /\ \E steps : /\ IsSeq(steps) /\ (Continue(steps) \/ StepDone)
                         /\ \A s \in ToSet(steps) : BindsLike(s, Top)
<1> DEFINE Goal == \E steps : /\ IsSeq(steps) /\ (Continue(steps) \/ StepDone)
                              /\ \A s \in ToSet(steps) : BindsLike(s, Top)
<1>1. status = "lowering" /\ Todo # << >> /\ Unscoped
  BY DEF LowerVar, LowerConst, LowerCall, CheckSingle, LowerNode, KeepNode, LowerTupleGet,
         KeepTuple, LowerLetOrTuple, Emit, LowerLet, At, AtExpr
<1> SUFFICES Goal
  BY <1>1
<1>2. Top.step \in {"lower_expr", "lower_let_values"} => Top.expr \in Exprs
  BY <1>1, TopIsScoped DEF ScopedStep
<1>3. ASSUME StepDone PROVE Goal
  BY <1>3, NoStepBinds
<1>4. CASE LowerVar \/ LowerConst \/ CheckSingle \/ Emit \/ KeepNode \/ KeepTuple
  <2>1. StepDone
    BY <1>4 DEF LowerVar, LowerConst, CheckSingle, Emit, KeepNode, KeepTuple, Return
  <2> QED
    BY <1>3, <2>1
<1>5. CASE LowerCall
  <2> DEFINE single == [step |-> "single"]
             steps == Append(CallSteps(Top.expr), single)
  <2>1. Top.step = "lower_expr" /\ Top.expr.kind \in {"Call", "Graph"} /\ Continue(steps)
    BY <1>5 DEF LowerCall, AtExpr, At
  <2>2. Top.expr \in Exprs
    BY <1>2, <2>1
  <2> DEFINE calls == CallSteps(Top.expr)
  <2>3. IsSeq(calls) /\ \A s \in ToSet(calls) : s.step \notin {"let", "bind_values"}
    BY <2>1, <2>2, CallStepsAre, CallBindsNothing
  <2> HIDE DEF calls
  <2>4. /\ IsSeq(Append(calls, single)) /\ Len(Append(calls, single)) = Len(calls) + 1
        /\ \A i \in 1..Len(calls) : Append(calls, single)[i] = calls[i]
        /\ Append(calls, single)[Len(calls) + 1] = single
    BY <2>3, AppendIsSeq
  <2>5. Len(calls) \in Nat /\ DOMAIN calls = 1..Len(calls)
    BY <2>3, SeqShape
  <2>6. DOMAIN Append(calls, single) = 1..Len(calls) + 1
    BY <2>4, SeqShape
  <2>7. \A s \in ToSet(Append(calls, single)) : s \in ToSet(calls) \/ s = single
    BY <2>4, <2>5, <2>6 DEF ToSet
  <2>8. \A s \in ToSet(Append(calls, single)) : BindsLike(s, Top)
    BY <2>3, <2>7 DEF BindsLike
  <2> QED
    BY <2>1, <2>4, <2>8 DEF calls
<1>6. CASE LowerNode
  <2> DEFINE a == LowerExpr(Top.expr.value)
             b == [step |-> "keep_node", key |-> scoped_key(Top.expr.node_id)]
  <2>1. Continue(<<a, b>>) \/ StepDone
    BY <1>6 DEF LowerNode, Return
  <2>2. BindsLike(a, Top) /\ BindsLike(b, Top)
    BY DEF BindsLike, LowerExpr
  <2> HIDE DEF a, b
  <2> QED
    BY <1>3, <2>1, <2>2, TwoStepsBind
<1>7. CASE LowerTupleGet
  <2> DEFINE a == LowerLetValues(Top.expr.value)
             b == [step |-> "keep_tuple", key |-> scoped_key(Top.expr.tuple_id),
                   index |-> Top.expr.index]
  <2>1. Continue(<<a, b>>) \/ StepDone
    BY <1>7 DEF LowerTupleGet, Return
  <2>2. BindsLike(a, Top) /\ BindsLike(b, Top)
    BY DEF BindsLike, LowerLetValues
  <2> HIDE DEF a, b
  <2> QED
    BY <1>3, <2>1, <2>2, TwoStepsBind
<1>8. CASE LowerLetOrTuple
  <2>1. Top.expr \in Exprs
    BY <1>2, <1>8 DEF LowerLetOrTuple, At
  <2>2. CASE Top.expr.kind = "Node"
    <3>1. Continue(<<LowerLetValues(Top.expr.value)>>)
      BY <1>8, <2>2 DEF LowerLetOrTuple
    <3>2. BindsLike(LowerLetValues(Top.expr.value), Top)
      BY DEF BindsLike, LowerLetValues
    <3> QED
      BY <3>1, <3>2, OneStepBinds
  <2>3. CASE Top.expr.kind \in {"Call", "Graph"}
    <3>1. Continue(CallSteps(Top.expr))
      BY <1>8, <2>3 DEF LowerLetOrTuple
    <3> QED
      BY <2>1, <2>3, <3>1, CallStepsAre, CallBindsNothing DEF BindsLike
  <2>4. CASE Top.expr.kind \notin {"Node", "Call", "Graph"}
    <3>1. Continue(<<LowerExpr(Top.expr)>>)
      BY <1>8, <2>4 DEF LowerLetOrTuple
    <3>2. BindsLike(LowerExpr(Top.expr), Top)
      BY DEF BindsLike, LowerExpr
    <3> QED
      BY <3>1, <3>2, OneStepBinds
  <2> QED
    BY <2>2, <2>3, <2>4
<1>9. CASE LowerLet
  <2> DEFINE a == LowerLetValues(Top.binding.value)
             b == [step |-> "bind_values", names |-> Top.binding.names]
  <2>1. Continue(<<a, b>>) /\ Top.step = "let"
    BY <1>9 DEF LowerLet, At
  <2>2. BindsLike(a, Top) /\ BindsLike(b, Top)
    BY <2>1 DEF BindsLike, LowerLetValues
  <2> HIDE DEF a, b
  <2> QED
    BY <1>3, <2>1, <2>2, TwoStepsBind
<1> QED
  BY <1>1, <1>4, <1>5, <1>6, <1>7, <1>8, <1>9

------------------------------------------------------------------------------
(* The invariant *)

\* The names of each graph being lowered, V, as they are when its turn comes
\* again: leaving a graph restores the names of the one that called it.
Layers(V) ==
    /\ \A k \in 1..Len(todo) : IsMap(V[k])
    /\ values = V[Len(todo)]
    /\ \A k \in 2..Len(todo) :
         IsSeq(overwritten[k]) /\ restore_values(V[k], overwritten[k]) = V[k - 1]

OwnNames(g) == NamesBefore(g, Len(g.lets) + 1)

\* A step binds a list of names, and only these.
BindsAList(s) ==
    /\ s.step = "let" => IsSeq(s.binding.names)
    /\ s.step = "bind_values" => IsSeq(s.names)
BindsOnly(s, names) ==
    /\ s.step = "let" => ToSet(s.binding.names) \subseteq names
    /\ s.step = "bind_values" => ToSet(s.names) \subseteq names

\* Only the steps of the graph itself bind names that stay.
ScopesInv ==
    /\ status \in {"done", "failed"} => Len(todo) = 1
    /\ \A k \in 1..Len(todo) : \A s \in ToSet(todo[k]) : BindsAList(s)
    /\ status # "idle" =>
         /\ call_stack[1] = graph.name
         /\ tuple_scope_stack[1] = 0
         /\ overwritten[1] = << >>
         /\ \A s \in ToSet(todo[1]) : BindsOnly(s, OwnNames(graph))
         /\ \E V : Layers(V) /\ DOMAIN V[1] \subseteq OwnNames(graph)

\* The layers of a step that leaves the names alone.
LEMMA SameLayers ==
    ASSUME NEW V, Layers(V), UNCHANGED <<values, overwritten>>, Len(todo') = Len(todo)
    PROVE  Layers(V)'
BY DEF Layers

\* bind_values adds to the innermost layer and to what it will restore.
LEMMA BindLayers ==
    ASSUME LowererInv, BindValues, IsSeq(Top.names),
           NEW V, Layers(V),
           NEW W, \A k \in 1..Len(todo) : W[k] = IF k = Len(todo) THEN values' ELSE V[k]
    PROVE  Layers(W)'
<1> DEFINE n == Len(todo)
           names == Top.names
           bound == Bound(values, names, Result)
<1>1. /\ status = "lowering" /\ Todo # << >> /\ StepDone /\ values' = bound.map
      /\ overwritten' = IF Len(overwritten) = 1 THEN overwritten
                        ELSE [overwritten EXCEPT ![Len(overwritten)] = @ \o bound.old]
  BY DEF BindValues, At
<1>2. n \in Nat \ {0} /\ Len(todo') = n /\ IsSeq(overwritten) /\ Len(overwritten) = n
  BY <1>1, TopIsScoped, StepDoneIsScoped DEF LowererInv, StackTypes, StacksAgree
<1>3. IsMap(values) /\ values = V[n]
  BY <1>2 DEF Layers
<1>4. IsMap(bound.map)
  BY BoundMapIs DEF IsBound
<1>5. IsSeq(bound.old) /\ restore_values(bound.map, bound.old) = values
  BY <1>3, RestoreUndoes, BoundIs
<1>6. W[n] = bound.map /\ \A k \in 1..n : k # n => W[k] = V[k]
  BY <1>1, <1>2
<1> DEFINE old == bound.old
           map == bound.map
<1> HIDE DEF n, names, bound, old, map
<1>7. \A k \in 1..n : IsMap(W[k])
  BY <1>4, <1>6 DEF Layers, n
<1>8. ASSUME NEW k \in 2..n
      PROVE  IsSeq(overwritten'[k]) /\ restore_values(W[k], overwritten'[k]) = W[k - 1]
  <2>1. /\ IsSeq(overwritten[k]) /\ restore_values(V[k], overwritten[k]) = V[k - 1]
        /\ k - 1 \in 1..n /\ k - 1 # n /\ k \in 1..n /\ n # 1
    BY <1>2 DEF Layers, n
  <2>2. overwritten' = [overwritten EXCEPT ![n] = overwritten[n] \o old]
    BY <1>1, <1>2, <2>1 DEF old
  <2>3. DOMAIN overwritten = 1..n
    BY <1>2, SeqShape
  <2>4. CASE k # n
    BY <1>6, <2>1, <2>2, <2>3, <2>4
  <2>5. CASE k = n
    <3>1. overwritten'[k] = overwritten[k] \o old
      BY <2>1, <2>2, <2>3, <2>5
    <3>2. IsSeq(overwritten[k] \o old)
      BY <1>5, <2>1, ConcatIsSeq DEF old
    <3>3. restore_values(map, overwritten[k] \o old)
            = restore_values(restore_values(map, old), overwritten[k])
      BY <1>5, <2>1, RestoreConcat DEF old
    <3>4. restore_values(map, old) = V[k] /\ W[k] = map /\ W[k - 1] = V[k - 1]
      BY <1>3, <1>5, <1>6, <2>1, <2>5 DEF old, map
    <3> QED
      BY <2>1, <3>1, <3>2, <3>3, <3>4
  <2> QED
    BY <2>4, <2>5
<1>9. values' = W[n]
  BY <1>1, <1>6
<1> QED
  BY <1>2, <1>7, <1>8, <1>9 DEF Layers, n

\* Entering a graph adds a layer.
LEMMA EnterLayers ==
    ASSUME LowererInv, EnterGraph, NEW V, Layers(V),
           NEW W, \A k \in 1..Len(todo) : W[k] = V[k], W[Len(todo) + 1] = values'
    PROVE  Layers(W)'
<1> DEFINE n == Len(todo)
           names == graphs[Top.name].inputs
           bound == Bound(values, names, Latest(Top.count))
           old == bound.old
           map == bound.map
           callers == [todo EXCEPT ![n] = Tail(@)]
           steps == GraphSteps(graphs[Top.name])
<1>1. /\ status = "lowering" /\ Todo # << >> /\ values' = map
      /\ MayInline(Top.name, Top.count)
      /\ overwritten' = Append(overwritten, old)
      /\ todo' = Append(callers, steps)
  BY DEF EnterGraph, At
<1>2. /\ n \in Nat \ {0} /\ IsSeq(overwritten) /\ Len(overwritten) = n /\ IsSeq(todo)
  BY <1>1, TopIsScoped DEF LowererInv, StackTypes, StacksAgree
<1>3. IsSeq(names)
  BY <1>1 DEF MayInline, LowererInv, StackTypes, IsGraph, IsSeq
<1>4. IsMap(values) /\ values = V[n]
  BY <1>2 DEF Layers
<1>5. IsMap(map)
  BY <1>3, BoundMapIs DEF IsBound
<1>6. IsSeq(old) /\ restore_values(map, old) = values
  BY <1>3, <1>4, RestoreUndoes, BoundIs
<1> HIDE DEF n, names, bound, old, map, steps
<1>7. IsSeq(callers) /\ Len(callers) = n
  <2>1. callers = [todo EXCEPT ![n] = Tail(todo[n])] /\ n \in 1..Len(todo)
    BY <1>2 DEF n
  <2> HIDE DEF callers
  <2>2. IsSeq(callers)
    BY <1>2, <2>1, ExceptIsSeq
  <2>3. Len(callers) = Len(todo)
    BY <1>2, <2>1, ExceptIsSeq
  <2> QED
    BY <2>2, <2>3 DEF n
<1> HIDE DEF callers
<1>8. Len(todo') = n + 1
  BY <1>1, <1>7, AppendIsSeq
<1>9. overwritten'[n + 1] = old /\ \A k \in 1..n : overwritten'[k] = overwritten[k]
  BY <1>1, <1>2, AppendIsSeq
<1>10. W[n + 1] = map /\ \A k \in 1..n : W[k] = V[k]
  BY <1>1 DEF n
<1>11. \A k \in 1..n + 1 : k \in 1..n \/ k = n + 1
  BY <1>2
<1>12. \A k \in 1..n + 1 : IsMap(W[k])
  BY <1>5, <1>10, <1>11 DEF Layers, n
<1>13. ASSUME NEW k \in 2..n + 1
       PROVE  IsSeq(overwritten'[k]) /\ restore_values(W[k], overwritten'[k]) = W[k - 1]
  <2>1. k - 1 \in 1..n
    BY <1>2
  <2>2. CASE k \in 2..n
    BY <1>2, <1>9, <1>10, <2>1, <2>2 DEF Layers, n
  <2>3. CASE k = n + 1
    <3>1. k - 1 = n
      BY <1>2, <2>3
    <3> QED
      BY <1>4, <1>6, <1>9, <1>10, <2>1, <2>3, <3>1
  <2> QED
    BY <1>2, <2>2, <2>3
<1> QED
  BY <1>1, <1>8, <1>10, <1>12, <1>13 DEF Layers

\* Leaving a graph takes the innermost layer off.
LEMMA LeaveLayers ==
    ASSUME LowererInv, status # "idle", Len(todo) > 1, LeaveScope, todo' = Front(todo),
           NEW V, Layers(V)
    PROVE  Layers(V)' /\ Len(todo') = Len(todo) - 1
           /\ \A k \in 1..Len(todo) - 1 :
                todo'[k] = todo[k] /\ overwritten'[k] = overwritten[k]
                /\ call_stack'[k] = call_stack[k]
                /\ tuple_scope_stack'[k] = tuple_scope_stack[k]
<1> DEFINE n == Len(todo) - 1
<1>1. /\ IsSeq(overwritten) /\ IsSeq(todo) /\ IsSeq(call_stack) /\ IsSeq(tuple_scope_stack)
      /\ Len(overwritten) = Len(todo) /\ Len(call_stack) = Len(todo)
      /\ Len(tuple_scope_stack) = Len(todo)
  BY SeqIsSeq DEF LowererInv, StackTypes, StacksAgree
<1>2. n \in Nat \ {0} /\ Len(todo) = n + 1
  BY <1>1, SeqShape
<1>3. /\ values' = restore_values(values, Last(overwritten)) /\ overwritten' = Front(overwritten)
      /\ call_stack' = Front(call_stack) /\ tuple_scope_stack' = Front(tuple_scope_stack)
  BY DEF LeaveScope
<1>4. Last(overwritten) = overwritten[n + 1]
  BY <1>1, <1>2 DEF Last
<1> HIDE DEF n
<1>5. ASSUME NEW s, IsSeq(s), Len(s) = n + 1
      PROVE  Len(Front(s)) = n /\ \A k \in 1..n : Front(s)[k] = s[k]
  <2>1. Len(s) > 0 /\ Len(s) - 1 = n
    BY <1>2, <1>5
  <2> QED
    BY <1>5, <2>1, FrontIsSeq
<1>6. Len(todo') = n /\ \A k \in 1..n : todo'[k] = todo[k]
  BY <1>1, <1>2, <1>5
<1>7. \A k \in 1..n : /\ overwritten'[k] = overwritten[k]
                      /\ call_stack'[k] = call_stack[k]
                      /\ tuple_scope_stack'[k] = tuple_scope_stack[k]
  BY <1>1, <1>2, <1>3, <1>5
<1>8. /\ \A k \in 1..n + 1 : IsMap(V[k])
      /\ values = V[n + 1]
      /\ \A k \in 2..n + 1 :
           IsSeq(overwritten[k]) /\ restore_values(V[k], overwritten[k]) = V[k - 1]
  BY <1>2 DEF Layers
<1>9. values' = V[n]
  <2>1. n + 1 \in 2..n + 1 /\ (n + 1) - 1 = n
    BY <1>2
  <2> DEFINE m == n + 1
  <2>2. m \in 2..m /\ m - 1 = n
    BY <2>1
  <2>3. values' = restore_values(V[m], overwritten[m])
    BY <1>3, <1>4, <1>8
  <2> HIDE DEF m
  <2>4. \A k \in 2..m : restore_values(V[k], overwritten[k]) = V[k - 1]
    BY <1>8 DEF m
  <2> QED
    BY <2>2, <2>3, <2>4
<1>10. \A k \in 1..n : k \in 1..n + 1
  BY <1>2
<1>11. \A k \in 2..n : k \in 2..n + 1 /\ k \in 1..n
  BY <1>2
<1>12. Layers(V)'
  BY <1>6, <1>7, <1>8, <1>9, <1>10, <1>11 DEF Layers
<1> QED
  BY <1>6, <1>7, <1>12 DEF n

\* Lowerer::new starts with the layer of the graph itself.
LEMMA NewScopes ==
    ASSUME LowererInv, NEW p \in Programs, New(p.graph, p.graphs)
    PROVE  ScopesInv'
<1> DEFINE g == p.graph
           names == g.inputs
           vals == [i \in DOMAIN names |-> BlockArgument(i)]
           steps == GraphSteps(g)
<1>1. /\ status' = "lowering" /\ graph' = g
      /\ call_stack' = <<g.name>> /\ tuple_scope_stack' = <<0>> /\ overwritten' = <<<< >>>>
      /\ todo' = <<steps>> /\ values' = Bound(EmptyMap, names, vals).map
  BY DEF New
<1>2. IsGraph(g)
  BY ProgramsAssumption
<1>3. IsSeq(names)
  BY <1>2 DEF IsGraph, IsSeq
<1> HIDE DEF vals
<1>4. IsMap(values') /\ DOMAIN values' = DOMAIN EmptyMap \cup ToSet(names)
  <2>1. IsBound(values', EmptyMap, names, vals)
    BY <1>1, <1>3, BoundMapIs
  <2> QED
    BY <2>1 DEF IsBound
<1>5. DOMAIN values' \subseteq OwnNames(g)
  BY <1>4 DEF OwnNames, NamesBefore, EmptyMap
<1>6. ASSUME NEW s \in ToSet(steps) PROVE BindsAList(s) /\ BindsOnly(s, OwnNames(g))
  <2>1. /\ IsSeq(steps) /\ Len(steps) = Len(g.lets) + Len(g.body)
        /\ Len(g.lets) \in Nat /\ Len(g.body) \in Nat
        /\ \A i \in 1..Len(g.lets) + Len(g.body) :
             steps[i] = IF i <= Len(g.lets) THEN [step |-> "let", binding |-> g.lets[i]]
                        ELSE LowerExpr(g.body[i - Len(g.lets)])
    BY <1>2, GraphStepsAre
  <2>2. PICK i \in 1..Len(g.lets) + Len(g.body) : s = steps[i]
    BY <2>1, SeqShape DEF ToSet
  <2>3. CASE i <= Len(g.lets)
    <3>1. i \in 1..Len(g.lets) /\ i \in DOMAIN g.lets /\ i \in 1..(Len(g.lets) + 1) - 1
      BY <1>2, <2>1, <2>3 DEF IsGraph
    <3>2. s = [step |-> "let", binding |-> g.lets[i]]
      BY <2>1, <2>2, <2>3
    <3>3. IsSeq(g.lets[i].names)
      BY <1>2, <3>1 DEF IsGraph, IsSeq
    <3>4. ToSet(g.lets[i].names) \subseteq OwnNames(g)
      BY <3>1 DEF OwnNames, NamesBefore
    <3> QED
      BY <3>2, <3>3, <3>4 DEF BindsAList, BindsOnly
  <2>4. CASE ~(i <= Len(g.lets))
    <3>1. \A x : LowerExpr(x).step = "lower_expr"
      BY DEF LowerExpr
    <3>2. s.step = "lower_expr"
      BY <2>1, <2>2, <2>4, <3>1
    <3> QED
      BY <3>2 DEF BindsAList, BindsOnly
  <2> QED
    BY <2>3, <2>4
<1> HIDE DEF steps, g
<1>7. /\ Len(todo') = 1 /\ todo'[1] = steps /\ call_stack'[1] = g.name
      /\ tuple_scope_stack'[1] = 0 /\ overwritten'[1] = << >>
  BY <1>1
<1>8. PICK v : v = values'
  OBVIOUS
<1>9. PICK V : V = <<v>>
  OBVIOUS
<1>10. V[1] = v
  BY <1>9
<1>11. Layers(V)' /\ (DOMAIN V[1] \subseteq OwnNames(graph))'
  BY <1>1, <1>4, <1>5, <1>7, <1>8, <1>10 DEF Layers
<1>12. \A k \in 1..Len(todo') : todo'[k] = steps
  BY <1>7
<1> QED
  BY <1>1, <1>6, <1>7, <1>11, <1>12 DEF ScopesInv

\* Steps of the innermost graph that add none that binds other names.
LEMMA StepsBind ==
    ASSUME LowererInv, ScopesInv, status = "lowering", Todo # << >>, NEW steps, IsSeq(steps),
           Continue(steps) \/ StepDone, \A s \in ToSet(steps) : BindsLike(s, Top),
           graph' = graph
    PROVE  /\ Len(todo') = Len(todo) /\ Len(todo) \in Nat \ {0}
           /\ \A k \in 1..Len(todo') : \A s \in ToSet(todo'[k]) : BindsAList(s)
           /\ \A s \in ToSet(todo'[1]) : BindsOnly(s, OwnNames(graph'))
           /\ BindsAList(Top) /\ (Len(todo) = 1 => BindsOnly(Top, OwnNames(graph)))
<1> DEFINE n == Len(todo)
<1>1. n \in Nat \ {0} /\ Todo = todo[n] /\ IsSeq(Todo)
  BY TopIsScoped DEF ScopedSteps
<1>2. /\ Len(todo') = n
      /\ \A k \in 1..n : k # n => todo'[k] = todo[k]
      /\ ToSet(todo'[n]) \subseteq ToSet(steps) \cup ToSet(todo[n])
  BY ContinueIs
<1>3. Top \in ToSet(todo[n])
  BY <1>1, TailIsSeq, SeqShape DEF Top, ToSet
<1> HIDE DEF n
<1>4. /\ \A k \in 1..n : \A s \in ToSet(todo[k]) : BindsAList(s)
      /\ \A s \in ToSet(todo[1]) : BindsOnly(s, OwnNames(graph))
  BY DEF ScopesInv, n
<1>5. BindsAList(Top) /\ (n = 1 => BindsOnly(Top, OwnNames(graph)))
  BY <1>1, <1>3, <1>4
<1>6. \A s \in ToSet(steps) : BindsAList(s) /\ (n = 1 => BindsOnly(s, OwnNames(graph)))
  BY <1>5 DEF BindsLike, BindsAList, BindsOnly
<1>7. \A k \in 1..n : \A s \in ToSet(todo'[k]) : BindsAList(s)
  BY <1>1, <1>2, <1>4, <1>6
<1>8. \A s \in ToSet(todo'[1]) : BindsOnly(s, OwnNames(graph))
  BY <1>1, <1>2, <1>4, <1>6
<1> QED
  BY <1>1, <1>2, <1>5, <1>7, <1>8 DEF n

\* Expressions leave the names as they are.
LEMMA ExprScopes ==
    ASSUME LowererInv, ScopesInv,
           LowerVar \/ LowerConst \/ LowerCall \/ CheckSingle \/ LowerNode \/ KeepNode
           \/ LowerTupleGet \/ KeepTuple \/ LowerLetOrTuple \/ Emit \/ LowerLet
    PROVE  ScopesInv'
<1>1. PICK steps : /\ status = "lowering" /\ Todo # << >> /\ Unscoped /\ IsSeq(steps)
                   /\ Continue(steps) \/ StepDone
                   /\ \A s \in ToSet(steps) : BindsLike(s, Top)
  BY ExprBinds
<1>2. /\ status' = status /\ graph' = graph /\ call_stack' = call_stack
      /\ tuple_scope_stack' = tuple_scope_stack /\ overwritten' = overwritten
      /\ values' = values
  BY <1>1 DEF Unscoped, scopes
<1>3. /\ Len(todo') = Len(todo)
      /\ \A k \in 1..Len(todo') : \A s \in ToSet(todo'[k]) : BindsAList(s)
      /\ \A s \in ToSet(todo'[1]) : BindsOnly(s, OwnNames(graph'))
  BY <1>1, <1>2, StepsBind
<1>4. PICK V : Layers(V) /\ DOMAIN V[1] \subseteq OwnNames(graph)
  BY <1>1 DEF ScopesInv
<1>5. Layers(V)'
  BY <1>2, <1>3, <1>4, SameLayers
<1> QED
  BY <1>1, <1>2, <1>3, <1>4, <1>5 DEF ScopesInv

\* bind_values binds names of the graph itself, or names it will restore.
LEMMA BindScopes ==
    ASSUME LowererInv, ScopesInv, BindValues
    PROVE  ScopesInv'
<1> DEFINE n == Len(todo)
<1>1. /\ status = "lowering" /\ Todo # << >> /\ StepDone
      /\ status' = status /\ graph' = graph /\ call_stack' = call_stack
      /\ tuple_scope_stack' = tuple_scope_stack
      /\ values' = Bound(values, Top.names, Result).map /\ Top.step = "bind_values"
      /\ overwritten' = IF Len(overwritten) = 1 THEN overwritten
                        ELSE [overwritten EXCEPT ![Len(overwritten)] =
                                @ \o Bound(values, Top.names, Result).old]
  BY DEF BindValues, At, scopes
<1>2. /\ Len(todo') = n /\ n \in Nat \ {0}
      /\ \A k \in 1..Len(todo') : \A s \in ToSet(todo'[k]) : BindsAList(s)
      /\ \A s \in ToSet(todo'[1]) : BindsOnly(s, OwnNames(graph'))
      /\ BindsAList(Top) /\ (n = 1 => BindsOnly(Top, OwnNames(graph)))
  BY <1>1, NoStepBinds, StepsBind
<1>3. PICK V : Layers(V) /\ DOMAIN V[1] \subseteq OwnNames(graph)
  BY <1>1 DEF ScopesInv
<1>4. PICK v : v = values'
  OBVIOUS
<1>5. PICK W : W = [k \in 1..n |-> IF k = n THEN v ELSE V[k]]
  OBVIOUS
<1>6. \A k \in 1..n : W[k] = IF k = n THEN values' ELSE V[k]
  BY <1>4, <1>5
<1>7. IsSeq(Top.names)
  BY <1>1, <1>2 DEF BindsAList
<1>8. Layers(W)'
  BY <1>3, <1>6, <1>7, BindLayers
<1>9. DOMAIN W[1] \subseteq OwnNames(graph)
  <2>1. CASE n = 1
    <3>1. IsBound(v, values, Top.names, Result)
      BY <1>1, <1>4, <1>7, BoundMapIs
    <3>2. values = V[1] /\ W[1] = v
      BY <1>3, <1>4, <1>6, <2>1 DEF Layers
    <3>3. ToSet(Top.names) \subseteq OwnNames(graph)
      BY <1>1, <1>2, <2>1 DEF BindsOnly
    <3> QED
      BY <1>3, <3>1, <3>2, <3>3 DEF IsBound
  <2>2. CASE n # 1
    BY <1>2, <1>3, <1>6, <2>2
  <2> QED
    BY <2>1, <2>2
<1>10. overwritten'[1] = << >>
  <2>1. IsSeq(overwritten) /\ Len(overwritten) = n /\ overwritten[1] = << >>
    BY <1>1 DEF LowererInv, StackTypes, StacksAgree, ScopesInv
  <2>2. DOMAIN overwritten = 1..n
    BY <2>1, SeqShape
  <2> QED
    BY <1>1, <1>2, <2>1, <2>2
<1> QED
  BY <1>1, <1>2, <1>8, <1>9, <1>10 DEF ScopesInv

\* Entering a graph leaves the graph itself as it is.
LEMMA EnterScopes ==
    ASSUME LowererInv, ScopesInv, EnterGraph
    PROVE  ScopesInv'
<1> DEFINE n == Len(todo)
           callee == graphs[Top.name]
           old == Bound(values, callee.inputs, Latest(Top.count)).old
           callers == [todo EXCEPT ![n] = Tail(@)]
           steps == GraphSteps(callee)
<1>1. /\ status = "lowering" /\ Todo # << >> /\ status' = status /\ graph' = graph
      /\ MayInline(Top.name, Top.count)
      /\ overwritten' = Append(overwritten, old)
      /\ call_stack' = Append(call_stack, Top.name)
      /\ tuple_scope_stack' = Append(tuple_scope_stack, next_tuple_scope)
      /\ todo' = Append(callers, steps)
  BY DEF EnterGraph, At
<1> HIDE DEF old
<1>2. /\ n \in Nat \ {0} /\ IsSeq(todo) /\ Todo = todo[n] /\ IsSeq(Todo)
      /\ IsSeq(overwritten) /\ Len(overwritten) = n
      /\ IsSeq(call_stack) /\ Len(call_stack) = n
      /\ IsSeq(tuple_scope_stack) /\ Len(tuple_scope_stack) = n
      /\ IsGraph(callee)
  BY <1>1, TopIsScoped, SeqIsSeq DEF LowererInv, StackTypes, StacksAgree, ScopedSteps, MayInline
<1>3. /\ IsSeq(callers) /\ Len(callers) = n
      /\ \A k \in 1..n : callers[k] = IF k = n THEN Tail(Todo) ELSE todo[k]
  <2>1. callers = [todo EXCEPT ![n] = Tail(Todo)] /\ n \in 1..Len(todo)
    BY <1>2
  <2> HIDE DEF callers, Todo
  <2>2. IsSeq(callers)
    BY <1>2, <2>1, ExceptIsSeq
  <2>3. Len(callers) = Len(todo)
    BY <1>2, <2>1, ExceptIsSeq
  <2>4. \A k \in 1..Len(todo) : callers[k] = IF k = n THEN Tail(Todo) ELSE todo[k]
    BY <1>2, <2>1, ExceptIsSeq
  <2> QED
    BY <2>2, <2>3, <2>4
<1> HIDE DEF callers, callee
<1>4. /\ Len(todo') = n + 1 /\ todo'[n + 1] = steps
      /\ \A k \in 1..n : todo'[k] = callers[k]
  BY <1>1, <1>3, AppendIsSeq
<1>5. /\ overwritten'[1] = overwritten[1] /\ call_stack'[1] = call_stack[1]
      /\ tuple_scope_stack'[1] = tuple_scope_stack[1]
  <2>1. 1 \in 1..n
    BY <1>2
  <2> QED
    BY <1>1, <1>2, <2>1, AppendIsSeq
<1>6. ToSet(Tail(Todo)) \subseteq ToSet(Todo)
  <2>1. /\ Len(Tail(Todo)) = Len(Todo) - 1 /\ Len(Todo) \in Nat /\ DOMAIN Todo = 1..Len(Todo)
        /\ \A i \in 1..Len(Todo) - 1 : Tail(Todo)[i] = Todo[i + 1]
        /\ DOMAIN Tail(Todo) = 1..Len(Tail(Todo))
    BY <1>1, <1>2, TailIsSeq, SeqShape
  <2> HIDE DEF Todo
  <2>2. \A i \in DOMAIN Tail(Todo) : i + 1 \in DOMAIN Todo /\ Tail(Todo)[i] = Todo[i + 1]
    BY <2>1
  <2> QED
    BY <2>2 DEF ToSet
<1>7. \A k \in 1..n : ToSet(todo'[k]) \subseteq ToSet(todo[k])
  BY <1>2, <1>3, <1>4, <1>6
<1>8. ASSUME NEW s \in ToSet(steps) PROVE BindsAList(s)
  <2>1. /\ IsSeq(steps) /\ Len(steps) = Len(callee.lets) + Len(callee.body)
        /\ Len(callee.lets) \in Nat /\ Len(callee.body) \in Nat
        /\ \A i \in 1..Len(callee.lets) + Len(callee.body) :
             steps[i] = IF i <= Len(callee.lets)
                        THEN [step |-> "let", binding |-> callee.lets[i]]
                        ELSE LowerExpr(callee.body[i - Len(callee.lets)])
    BY <1>2, GraphStepsAre
  <2>2. PICK i \in 1..Len(callee.lets) + Len(callee.body) : s = steps[i]
    BY <2>1, SeqShape DEF ToSet
  <2>3. CASE i <= Len(callee.lets)
    <3>1. i \in DOMAIN callee.lets
      BY <1>2, <2>1, <2>3 DEF IsGraph
    <3>2. s = [step |-> "let", binding |-> callee.lets[i]]
      BY <2>1, <2>2, <2>3
    <3>3. IsSeq(callee.lets[i].names)
      BY <1>2, <3>1 DEF IsGraph, IsSeq
    <3> QED
      BY <3>2, <3>3 DEF BindsAList
  <2>4. CASE ~(i <= Len(callee.lets))
    <3>1. \A x : LowerExpr(x).step = "lower_expr"
      BY DEF LowerExpr
    <3>2. s.step = "lower_expr"
      BY <2>1, <2>2, <2>4, <3>1
    <3> QED
      BY <3>2 DEF BindsAList
  <2> QED
    BY <2>3, <2>4
<1> HIDE DEF steps
<1>9. ASSUME NEW k \in 1..n + 1, NEW s \in ToSet(todo'[k]) PROVE BindsAList(s)
  <2>1. CASE k \in 1..n
    BY <1>7, <1>9, <2>1 DEF ScopesInv
  <2>2. CASE k = n + 1
    BY <1>4, <1>8, <1>9, <2>2
  <2> QED
    BY <1>2, <2>1, <2>2
<1>10. PICK V : Layers(V) /\ DOMAIN V[1] \subseteq OwnNames(graph)
  BY <1>1 DEF ScopesInv
<1>11. PICK v : v = values'
  OBVIOUS
<1>12. PICK W : W = [k \in 1..n + 1 |-> IF k = n + 1 THEN v ELSE V[k]]
  OBVIOUS
<1>13. (\A k \in 1..n : W[k] = V[k]) /\ W[n + 1] = values'
  BY <1>2, <1>11, <1>12
<1>14. Layers(W)'
  BY <1>10, <1>13, EnterLayers
<1>15. 1 \in 1..n /\ W[1] = V[1]
  BY <1>2, <1>13
<1>16. \A s \in ToSet(todo'[1]) : BindsOnly(s, OwnNames(graph))
  BY <1>1, <1>7, <1>15 DEF ScopesInv
<1> QED
  BY <1>1, <1>4, <1>5, <1>9, <1>10, <1>14, <1>15, <1>16 DEF ScopesInv

\* Leaving a graph goes back to what the names were before.
LEMMA LeaveScopes ==
    ASSUME LowererInv, ScopesInv, status \in {"lowering", "failing"}, Len(todo) > 1,
           LeaveScope, todo' = Front(todo), UNCHANGED <<status, graph>>
    PROVE  ScopesInv'
<1> DEFINE n == Len(todo) - 1
<1>1. PICK V : Layers(V) /\ DOMAIN V[1] \subseteq OwnNames(graph)
  BY DEF ScopesInv
<1>2. /\ Layers(V)' /\ Len(todo') = n
      /\ \A k \in 1..n : /\ todo'[k] = todo[k] /\ overwritten'[k] = overwritten[k]
                         /\ call_stack'[k] = call_stack[k]
                         /\ tuple_scope_stack'[k] = tuple_scope_stack[k]
  BY <1>1, LeaveLayers
<1>3. Len(todo) \in Nat
  BY SeqShape DEF LowererInv, StackTypes
<1>4. 1 \in 1..n /\ \A k \in 1..n : k \in 1..Len(todo)
  BY <1>3
<1> HIDE DEF n
<1> QED
  BY <1>1, <1>2, <1>4 DEF ScopesInv

\* Every step keeps the names of the graphs apart.
LEMMA NextScopes == LowererInv /\ ScopesInv /\ [Next]_lowererVars => ScopesInv'
<1> SUFFICES ASSUME LowererInv, ScopesInv, [Next]_lowererVars PROVE ScopesInv'
  OBVIOUS
<1>1. ASSUME NEW p \in Programs, New(p.graph, p.graphs) PROVE ScopesInv'
  BY <1>1, NewScopes
<1>2. CASE LowerVar \/ LowerConst \/ LowerCall \/ CheckSingle \/ LowerNode \/ KeepNode
           \/ LowerTupleGet \/ KeepTuple \/ LowerLetOrTuple \/ Emit \/ LowerLet
  BY <1>2, ExprScopes
<1>3. CASE BindValues
  BY <1>3, BindScopes
<1>4. CASE EnterGraph
  BY <1>4, EnterScopes
<1>5. CASE LeaveGraph \/ Unwind
  BY <1>5, LeaveScopes DEF LeaveGraph, Unwind
<1>6. CASE ReturnOutputs \/ Fail \/ GiveUp \/ UNCHANGED lowererVars \/ Finished
  <2>1. /\ UNCHANGED <<graph, call_stack, tuple_scope_stack, overwritten, values, todo>>
        /\ status = "idle" <=> status' = "idle"
        /\ status' \in {"done", "failed"} => Len(todo) = 1
    BY <1>6 DEF ReturnOutputs, Fail, GiveUp, StepFails, At, AtExpr, Finished, lowererVars,
                scopes, ScopesInv
  <2> QED
    BY <2>1 DEF ScopesInv, Layers
<1> QED
  BY <1>1, <1>2, <1>3, <1>4, <1>5, <1>6 DEF Next, Lower

\* ScopesInv is an invariant of the lowerer.
THEOREM ScopesInvariant == Spec => [](LowererInv /\ ScopesInv)
<1>1. Init => LowererInv /\ ScopesInv
  BY InitInvariant DEF Init, ScopesInv
<1>2. LowererInv /\ ScopesInv /\ [Next]_lowererVars => (LowererInv /\ ScopesInv)'
  BY NextInvariant, NextScopes
<1> QED
  BY <1>1, <1>2, PTL DEF Spec

\* inline_graph_values leaves every graph it entered and undoes every binding
\* it made, on success and on error, whatever names the graphs share: when
\* lowering ends, only names of the graph itself are bound.
THEOREM ScopesAreAlwaysRestored == Spec => []ScopesAreRestored
<1>1. LowererInv /\ ScopesInv => ScopesAreRestored
  <2> SUFFICES ASSUME LowererInv, ScopesInv, status \in {"done", "failed"}
               PROVE  /\ call_stack = <<graph.name>> /\ tuple_scope_stack = <<0>>
                      /\ overwritten = <<<< >>>>
                      /\ DOMAIN values \subseteq OwnNames(graph)
    BY DEF ScopesAreRestored, OwnNames
  <2>1. /\ Len(todo) = 1 /\ call_stack[1] = graph.name /\ tuple_scope_stack[1] = 0
        /\ overwritten[1] = << >>
    BY DEF ScopesInv
  <2>2. /\ IsSeq(call_stack) /\ IsSeq(tuple_scope_stack) /\ IsSeq(overwritten)
        /\ Len(call_stack) = 1 /\ Len(tuple_scope_stack) = 1 /\ Len(overwritten) = 1
    BY <2>1, SeqIsSeq DEF LowererInv, StackTypes, StacksAgree
  <2>3. ASSUME NEW s, IsSeq(s), Len(s) = 1 PROVE s = <<s[1]>>
    BY <2>3 DEF IsSeq
  <2>4. PICK V : Layers(V) /\ DOMAIN V[1] \subseteq OwnNames(graph)
    BY DEF ScopesInv
  <2>5. values = V[1]
    BY <2>1, <2>4 DEF Layers
  <2> QED
    BY <2>1, <2>2, <2>3, <2>4, <2>5
<1> QED
  BY <1>1, ScopesInvariant, PTL
==============================================================================
