--------------------------- MODULE LowererRunsProofs ---------------------------
(***************************************************************************)
(* Lemmas about what the steps of a graph compute, for any programs and    *)
(* operations; LowererMeaningProofs uses them.                             *)
(*                                                                         *)
(* The steps that a graph has still to do are read twice.  The model does  *)
(* them one by one, replacing each by smaller ones.  Here each of them has *)
(* an effect of its own, from what the meaning of its expression is        *)
(* (Effect), and the steps of a graph run through these effects to what    *)
(* the graph means (Runs).                                                 *)
(***************************************************************************)
EXTENDS LowererProofs

(***************************************************************************)
(* The value Failed is no function: no list, no map and no term of values; *)
(* and the meaning of an expression is what its defining equations say.    *)
(***************************************************************************)
FailedIsNone == \A f : IsMap(f) => f # Failed
MeaningsAreDefined == FailedIsNone /\ MeaningRules

------------------------------------------------------------------------------
(* What the steps of a graph do *)

\* The results and the names of a graph at some step, or Failed.
Config(stack, env) == [stack |-> stack, env |-> env]

Push(x, stack) == <<x>> \o stack
Pushed(vals, c) == IF vals = Failed THEN Failed ELSE Config(Push(vals, c.stack), c.env)
Drop(s, n) == SubSeq(s, n + 1, Len(s))
Pop(n, c) == Config(Drop(c.stack, n), c.env)
Args(n, c) == [i \in 1..n |-> c.stack[n + 1 - i][1]]

Single(val) == IF val = Failed THEN Failed ELSE <<val>>

\* The value of a call of a graph.
CallMeaning(name, args, registry, path) ==
    IF Contains(path, name) \/ name \notin DOMAIN registry THEN Failed
    ELSE MeaningOfGraph(registry[name], args, registry, Append(path, name))

LiveEffect(s, c, registry, path) ==
    CASE s.step = "lower_expr" ->
           Pushed(Single(One(MeaningOf(s.expr, c.env, registry, path))), c)
      [] s.step = "lower_let_values" -> Pushed(MeaningOf(s.expr, c.env, registry, path), c)
      [] s.step = "single" -> IF Len(Head(c.stack)) = 1 THEN c ELSE Failed
      [] s.step = "keep_node" -> c
      [] s.step = "keep_tuple" ->
           IF s.index \in DOMAIN Head(c.stack)
           THEN Pushed(<<Head(c.stack)[s.index]>>, Pop(1, c)) ELSE Failed
      [] s.step = "emit" ->
           IF s.op \in Unsupported THEN Failed
           ELSE Pushed([r \in 1..Results[s.op] |-> Term(s.op, Args(s.count, c), r)],
                       Pop(s.count, c))
      [] s.step = "inline_graph" ->
           Pushed(CallMeaning(s.name, Args(s.count, c), registry, path), Pop(s.count, c))
      [] s.step = "let" ->
           LET env == Binding(c.env, s.binding, registry, path)
           IN  IF env = Failed THEN Failed ELSE Config(c.stack, env)
      [] s.step = "bind_values" ->
           IF Len(s.names) = Len(Head(c.stack))
           THEN Config(Pop(1, c).stack, Bound(c.env, s.names, Head(c.stack)).map)
           ELSE Failed

Effect(s, c, registry, path) ==
    IF c = Failed THEN Failed ELSE LiveEffect(s, c, registry, path)

\* What a graph returns at the end.
EndOf(c) == IF c = Failed THEN Failed ELSE Args(Len(c.stack), c)

\* The nodes and tuples that a step keeps.
Kept(g, s) == {x \in PartsOf(g) :
                 \/ s.step = "keep_node" /\ x.kind = "Node" /\ x.node_id = s.key[2]
                 \/ s.step = "keep_tuple" /\ x.kind = "TupleGet" /\ x.tuple_id = s.key[2]}

\* What a step can rely on.  The expression it lowers is one of the graph, and
\* the names in it are bound; a graph being lowered that is not a call has a
\* path of its own name alone, and may use names that are not.
ExprsIn(s) == IF s.step \in {"lower_expr", "lower_let_values"} THEN {s.expr}
              ELSE IF s.step = "let" THEN {s.binding.value} ELSE {}
CanLower(g, e, env, path) ==
    e \in PartsOf(g) /\ (Len(path) > 1 => VarsOf(e) \subseteq DOMAIN env)

\* A kept value is that of the node or the tuple.
CanKeep(s, x, c, registry, path) ==
    LET vals == MeaningOf(x.value, c.env, registry, path)
    IN  IF s.step = "keep_node" THEN One(vals) # Failed /\ Head(c.stack) = <<One(vals)>>
        ELSE vals # Failed /\ Head(c.stack) = vals

\* Lists of values, and names with values.
IsValues(vals) == IsSeq(vals) /\ \A i \in 1..Len(vals) : vals[i] # Failed
IsEnv(env) == IsMap(env) /\ \A name \in DOMAIN env : env[name] # Failed

Sound(g, s, c, registry, path) ==
    c # Failed =>
        /\ \A e \in ExprsIn(s) : CanLower(g, e, c.env, path)
        /\ \A x \in Kept(g, s) : CanKeep(s, x, c, registry, path)
        /\ s.step \in {"emit", "inline_graph"} =>
             s.count \in Nat /\ \A i \in 1..s.count : c.stack[i][1] # Failed
        /\ s.step = "bind_values" => IsValues(Head(c.stack))

\* The steps lead from c to d, each one being sound.
Chain(C, g, steps, registry, path) ==
    \A i \in 1..Len(steps) : /\ C[i] = Effect(steps[i], C[i - 1], registry, path)
                             /\ Sound(g, steps[i], C[i - 1], registry, path)
Runs(g, steps, c, d, registry, path) ==
    \E C : C[0] = c /\ C[Len(steps)] = d /\ Chain(C, g, steps, registry, path)

------------------------------------------------------------------------------
(* Running steps *)

\* No steps lead nowhere.
LEMMA RunsNone ==
    ASSUME NEW g, NEW c, NEW d, NEW registry, NEW path, Runs(g, << >>, c, d, registry, path)
    PROVE  d = c
<1>1. Len(<< >>) = 0
  OBVIOUS
<1> QED
  BY <1>1 DEF Runs

\* The first step and then the others.
LEMMA RunsFirst ==
    ASSUME NEW g, NEW steps, IsSeq(steps), steps # << >>, NEW c, NEW d, NEW registry, NEW path,
           Runs(g, steps, c, d, registry, path)
    PROVE  /\ Sound(g, Head(steps), c, registry, path)
           /\ Runs(g, Tail(steps), Effect(Head(steps), c, registry, path), d, registry, path)
<1> DEFINE n == Len(steps)
           rest == Tail(steps)
           first == Head(steps)
<1>1. /\ n \in Nat \ {0} /\ IsSeq(rest) /\ Len(rest) = n - 1 /\ first = steps[1]
      /\ \A i \in 1..n - 1 : rest[i] = steps[i + 1]
  BY TailIsSeq, SeqShape
<1> HIDE DEF n, rest, first
<1>2. PICK C : C[0] = c /\ C[n] = d /\ Chain(C, g, steps, registry, path)
  BY DEF Runs, n
<1>3. /\ C[1] = Effect(first, c, registry, path)
      /\ Sound(g, first, c, registry, path)
  <2>1. 1 \in 1..n /\ 1 - 1 = 0
    BY <1>1
  <2> QED
    BY <1>1, <1>2, <2>1 DEF Chain, n
<1>4. PICK D : D = [i \in 0..n - 1 |-> C[i + 1]]
  OBVIOUS
<1>5. D[0] = C[1] /\ D[n - 1] = d
  <2>1. 0 \in 0..n - 1 /\ n - 1 \in 0..n - 1 /\ (n - 1) + 1 = n /\ 0 + 1 = 1
    BY <1>1
  <2> DEFINE m == n - 1
  <2>2. m \in 0..n - 1 /\ D[m] = C[m + 1]
    BY <1>4, <2>1
  <2>3. D[0] = C[0 + 1]
    BY <1>4, <2>1
  <2> QED
    BY <1>2, <2>1, <2>2, <2>3
<1>6. ASSUME NEW i \in 1..n - 1
      PROVE  /\ D[i] = Effect(rest[i], D[i - 1], registry, path)
             /\ Sound(g, rest[i], D[i - 1], registry, path)
  <2> DEFINE j == i + 1
  <2>1. j \in 1..n /\ j - 1 = i /\ i \in 0..n - 1 /\ i - 1 \in 0..n - 1 /\ (i - 1) + 1 = i
    BY <1>1
  <2>2. D[i] = C[j] /\ D[i - 1] = C[i]
    <3> DEFINE k == i - 1
    <3>1. k \in 0..n - 1 /\ k + 1 = i
      BY <2>1
    <3>2. D[k] = C[k + 1]
      BY <1>4, <3>1
    <3>3. D[i] = C[i + 1]
      BY <1>4, <2>1
    <3> QED
      BY <3>1, <3>2, <3>3
  <2>3. rest[i] = steps[j]
    BY <1>1
  <2> HIDE DEF j
  <2>4. /\ C[j] = Effect(steps[j], C[j - 1], registry, path)
        /\ Sound(g, steps[j], C[j - 1], registry, path)
    BY <1>2, <2>1 DEF Chain, n
  <2> QED
    BY <2>1, <2>2, <2>3, <2>4
<1>7. Runs(g, rest, C[1], d, registry, path)
  BY <1>1, <1>5, <1>6 DEF Runs, Chain
<1> QED
  BY <1>3, <1>7 DEF first, rest

\* Some steps and then others.
LEMMA RunsBoth ==
    ASSUME NEW g, NEW s, IsSeq(s), NEW t, IsSeq(t), NEW c, NEW d, NEW e, NEW registry, NEW path,
           Runs(g, s, c, d, registry, path), Runs(g, t, d, e, registry, path)
    PROVE  Runs(g, s \o t, c, e, registry, path)
<1> DEFINE m == Len(s)
           n == Len(t)
           both == s \o t
<1>1. /\ m \in Nat /\ n \in Nat /\ Len(both) = m + n
      /\ \A i \in 1..m + n : both[i] = IF i <= m THEN s[i] ELSE t[i - m]
  BY ConcatIsSeq, SeqShape
<1> HIDE DEF m, n, both
<1>2. PICK C : C[0] = c /\ C[m] = d /\ Chain(C, g, s, registry, path)
  BY DEF Runs, m
<1>3. PICK D : D[0] = d /\ D[n] = e /\ Chain(D, g, t, registry, path)
  BY DEF Runs, n
<1>4. PICK B : B = [i \in 0..m + n |-> IF i <= m THEN C[i] ELSE D[i - m]]
  OBVIOUS
<1>5. /\ \A i \in 0..m : B[i] = C[i]
      /\ \A i \in m..m + n : B[i] = D[i - m]
  <2>1. \A i \in 0..m : B[i] = C[i]
    BY <1>1, <1>4
  <2>2. ASSUME NEW i \in m..m + n PROVE B[i] = D[i - m]
    <3>1. CASE i = m
      <4>1. i - m = 0
        BY <1>1, <3>1
      <4> QED
        BY <1>1, <1>2, <1>3, <2>1, <3>1, <4>1
    <3>2. CASE i # m
      BY <1>1, <1>4, <3>2
    <3> QED
      BY <3>1, <3>2
  <2> QED
    BY <2>1, <2>2
<1>6. B[0] = c /\ B[m + n] = e
  <2>1. 0 \in 0..m /\ m + n \in m..m + n /\ (m + n) - m = n
    BY <1>1
  <2> DEFINE k == m + n
  <2>2. B[k] = D[k - m]
    BY <1>5, <2>1
  <2> QED
    BY <1>2, <1>3, <1>5, <2>1, <2>2
<1>7. ASSUME NEW i \in 1..m + n
      PROVE  /\ B[i] = Effect(both[i], B[i - 1], registry, path)
             /\ Sound(g, both[i], B[i - 1], registry, path)
  <2>1. CASE i <= m
    <3>1. i \in 1..m /\ i \in 0..m /\ i - 1 \in 0..m
      BY <1>1, <2>1
    <3>2. B[i] = C[i] /\ B[i - 1] = C[i - 1] /\ both[i] = s[i]
      BY <1>1, <1>5, <2>1, <3>1
    <3> QED
      BY <1>2, <3>1, <3>2 DEF Chain, m
  <2>2. CASE ~(i <= m)
    <3> DEFINE j == i - m
    <3>1. j \in 1..n /\ i \in m..m + n /\ i - 1 \in m..m + n /\ (i - 1) - m = j - 1
      BY <1>1, <2>2
    <3>2. both[i] = t[j] /\ B[i] = D[j]
      BY <1>1, <1>5, <2>2, <3>1
    <3>3. B[i - 1] = D[(i - 1) - m]
      BY <1>5, <3>1
    <3> HIDE DEF j
    <3>4. B[i - 1] = D[j - 1]
      BY <3>1, <3>3
    <3> QED
      BY <1>3, <3>1, <3>2, <3>4 DEF Chain, n
  <2> QED
    BY <2>1, <2>2
<1>8. Runs(g, both, c, e, registry, path)
  BY <1>1, <1>6, <1>7 DEF Runs, Chain
<1> QED
  BY <1>8 DEF both

\* One step.
LEMMA RunsOne ==
    ASSUME NEW g, NEW s, NEW c, NEW registry, NEW path, Sound(g, s, c, registry, path)
    PROVE  Runs(g, <<s>>, c, Effect(s, c, registry, path), registry, path)
<1>1. PICK d : d = Effect(s, c, registry, path)
  OBVIOUS
<1>2. PICK C : C = [i \in 0..1 |-> IF i = 0 THEN c ELSE d]
  OBVIOUS
<1>3. C[0] = c /\ C[1] = d
  BY <1>2
<1>4. Len(<<s>>) = 1 /\ <<s>>[1] = s /\ 1..1 = {1} /\ 1 - 1 = 0
  OBVIOUS
<1>5. Chain(C, g, <<s>>, registry, path)
  BY <1>1, <1>3, <1>4 DEF Chain
<1> QED
  BY <1>1, <1>3, <1>4, <1>5 DEF Runs

\* After a failure nothing else happens.
LEMMA RunsFailed ==
    ASSUME NEW g, NEW steps, IsSeq(steps), NEW d, NEW registry, NEW path,
           Runs(g, steps, Failed, d, registry, path)
    PROVE  d = Failed
<1> DEFINE n == Len(steps)
<1>1. n \in Nat
  BY SeqShape
<1>2. PICK C : C[0] = Failed /\ C[n] = d /\ Chain(C, g, steps, registry, path)
  BY DEF Runs
<1> DEFINE S == {i \in Nat : i <= n => C[i] = Failed}
<1>3. 0 \in S
  BY <1>2
<1>4. ASSUME NEW i \in Nat, i \in S PROVE i + 1 \in S
  <2> SUFFICES ASSUME i + 1 <= n PROVE C[i + 1] = Failed
    BY <1>4
  <2> DEFINE j == i + 1
  <2>1. j \in 1..n /\ j - 1 = i /\ C[i] = Failed
    BY <1>1, <1>4
  <2> HIDE DEF j, S
  <2>2. C[j] = Effect(steps[j], C[j - 1], registry, path)
    BY <1>2, <2>1 DEF Chain
  <2> QED
    BY <2>1, <2>2 DEF Effect, j
<1> HIDE DEF S
<1>5. Nat \subseteq S
  BY <1>3, <1>4, Induction
<1> USE DEF S
<1> QED
  BY <1>1, <1>2, <1>5

\* Failing, nothing is done.
LEMMA RunsOnFailed ==
    ASSUME NEW g, NEW steps, IsSeq(steps), NEW registry, NEW path
    PROVE  Runs(g, steps, Failed, Failed, registry, path)
<1>1. Len(steps) \in Nat
  BY SeqShape
<1>2. PICK C : C = [i \in 0..Len(steps) |-> Failed]
  OBVIOUS
<1>3. \A i \in 0..Len(steps) : C[i] = Failed
  BY <1>2
<1>4. \A i \in 1..Len(steps) : i \in 0..Len(steps) /\ i - 1 \in 0..Len(steps)
  BY <1>1
<1>5. 0 \in 0..Len(steps) /\ Len(steps) \in 0..Len(steps)
  BY <1>1
<1>6. Chain(C, g, steps, registry, path)
  BY <1>3, <1>4 DEF Chain, Effect, Sound
<1> QED
  BY <1>3, <1>5, <1>6 DEF Runs

\* Most steps rely on their expressions at most.
LEMMA PlainSound ==
    ASSUME NEW g, NEW s, NEW c, NEW registry, NEW path,
           s.step \notin {"keep_node", "keep_tuple", "emit", "inline_graph", "bind_values"},
           \A e \in ExprsIn(s) : CanLower(g, e, c.env, path)
    PROVE  Sound(g, s, c, registry, path)
<1>1. Kept(g, s) = {}
  BY DEF Kept
<1> QED
  BY <1>1 DEF Sound

------------------------------------------------------------------------------
(* Stacks of results *)

\* Lists with the same elements are equal.
LEMMA SeqsEqual ==
    ASSUME NEW s, IsSeq(s), NEW t, IsSeq(t), Len(s) = Len(t), \A i \in 1..Len(s) : s[i] = t[i]
    PROVE  s = t
<1>1. DOMAIN s = DOMAIN t /\ DOMAIN s = 1..Len(s)
  BY SeqShape
<1>2. s = [i \in DOMAIN s |-> s[i]] /\ t = [i \in DOMAIN t |-> t[i]]
  BY DEF IsSeq
<1> QED
  BY <1>1, <1>2

\* A list given by its elements.
LEMMA ListIsSeq ==
    ASSUME NEW n \in Nat, NEW s, s = [i \in 1..n |-> s[i]]
    PROVE  IsSeq(s) /\ Len(s) = n
<1> DEFINE S == {s[i] : i \in 1..n}
<1>1. s \in [1..n -> S]
  OBVIOUS
<1> HIDE DEF S
<1>2. s \in Seq(S) /\ Len(s) = n
  BY <1>1
<1> QED
  BY <1>2, SeqIsSeq

\* One more result on top.
LEMMA PushIs ==
    ASSUME NEW x, NEW stack, IsSeq(stack)
    PROVE  /\ IsSeq(Push(x, stack)) /\ Len(Push(x, stack)) = Len(stack) + 1
           /\ Push(x, stack)[1] = x /\ Head(Push(x, stack)) = x
           /\ \A i \in 1..Len(stack) : Push(x, stack)[i + 1] = stack[i]
<1> DEFINE one == <<x>>
           both == one \o stack
           n == Len(stack)
<1>1. IsSeq(one) /\ Len(one) = 1 /\ one[1] = x
  <2>1. one \in Seq({x}) /\ Len(one) = 1 /\ one[1] = x
    OBVIOUS
  <2> QED
    BY <2>1, SeqIsSeq
<1> HIDE DEF one
<1>2. /\ IsSeq(both) /\ Len(both) = 1 + n
      /\ \A i \in 1..1 + n : both[i] = IF i <= 1 THEN one[i] ELSE stack[i - 1]
  <2>1. PICK o, b, k : o = one /\ b = one \o stack /\ k = Len(stack)
    OBVIOUS
  <2>2. one = o /\ both = b /\ n = k
    BY <2>1
  <2> HIDE DEF one, both, n
  <2>3. IsSeq(o) /\ Len(o) = 1 /\ k \in Nat /\ b = o \o stack
    BY <1>1, <2>1, <2>2, SeqShape
  <2>4. /\ IsSeq(b) /\ Len(b) = Len(o) + Len(stack)
        /\ \A i \in 1..Len(o) + Len(stack) :
             b[i] = IF i <= Len(o) THEN o[i] ELSE stack[i - Len(o)]
    BY <2>3, ConcatIsSeq
  <2>5. Len(o) = 1 /\ Len(stack) = k
    BY <2>1, <2>3
  <2>6. IsSeq(b) /\ Len(b) = 1 + k
    BY <2>4, <2>5
  <2>7. \A i \in 1..1 + k : b[i] = IF i <= 1 THEN o[i] ELSE stack[i - 1]
    BY <2>4, <2>5
  <2> QED
    BY <2>2, <2>6, <2>7
<1>3. n \in Nat
  BY SeqShape
<1> HIDE DEF n, both
<1>4. both[1] = x
  BY <1>1, <1>2, <1>3
<1>5. both # << >>
  BY <1>2, <1>3, SeqShape
<1>6. Head(both) = both[1]
  BY <1>2, <1>5, TailIsSeq
<1>7. ASSUME NEW i \in 1..n PROVE both[i + 1] = stack[i]
  <2> DEFINE j == i + 1
  <2>1. j \in 1..1 + n /\ ~(j <= 1) /\ j - 1 = i
    BY <1>3
  <2> HIDE DEF j
  <2>2. both[j] = stack[j - 1]
    BY <1>2, <2>1
  <2> QED
    BY <2>1, <2>2 DEF j
<1> QED
  BY <1>2, <1>3, <1>4, <1>6, <1>7 DEF Push, both, one, n

IsDropped(s, n, r) ==
    IsSeq(r) /\ Len(r) = Len(s) - n /\ \A i \in 1..Len(s) - n : r[i] = s[n + i]

\* The results below the latest n.
LEMMA DropIs ==
    ASSUME NEW s, IsSeq(s), NEW n \in Nat, n <= Len(s)
    PROVE  IsDropped(s, n, Drop(s, n))
<1> DEFINE S == ToSet(s)
           m == Len(s)
           r == SubSeq(s, n + 1, m)
<1>1. s \in Seq(S) /\ m \in Nat /\ n + 1 \in 1..m + 1
  BY SeqShape DEF IsSeq
<1> HIDE DEF S, m
<1>2. \A i \in n + 1..m : s[i] \in S
  <2>1. DOMAIN s = 1..m
    BY SeqShape DEF m
  <2> QED
    BY <1>1, <2>1 DEF S, ToSet
<1>3. /\ r \in Seq(S)
      /\ Len(r) = IF n + 1 <= m THEN m - (n + 1) + 1 ELSE 0
      /\ \A i \in 1..m - (n + 1) + 1 : r[i] = s[(n + 1) + i - 1]
  BY <1>1, <1>2, SubSeqProperties
<1> HIDE DEF r
<1>4. Len(r) = m - n
  BY <1>1, <1>3 DEF m
<1>5. ASSUME NEW i \in 1..m - n PROVE r[i] = s[n + i]
  <2>1. i \in 1..m - (n + 1) + 1 /\ (n + 1) + i - 1 = n + i
    BY <1>1
  <2> QED
    BY <1>3, <2>1
<1>6. IsSeq(r)
  BY <1>3, SeqIsSeq
<1>7. IsDropped(s, n, r)
  BY <1>4, <1>5, <1>6 DEF m, IsDropped
<1> QED
  BY <1>7 DEF r, m, Drop

\* There may be fewer than n.
LEMMA DropIsSeq ==
    ASSUME NEW s, IsSeq(s), NEW n \in Nat
    PROVE  IsSeq(Drop(s, n))
<1>1. CASE n <= Len(s)
  BY <1>1, DropIs DEF IsDropped
<1>2. CASE ~(n <= Len(s))
  <2>1. Len(s) \in Nat
    BY SeqShape
  <2>2. PICK S : S = ToSet(s)
    OBVIOUS
  <2>3. s \in Seq(S)
    BY <2>2 DEF IsSeq
  <2>4. PICK m : m = Len(s) /\ m \in Nat
    BY <2>1
  <2>5. n + 1 > m
    BY <1>2, <2>4
  <2>6. SubSeq(s, n + 1, m) = << >>
    BY <2>3, <2>4, <2>5
  <2>7. IsSeq(<< >>)
    BY NoStepBinds
  <2> QED
    BY <2>4, <2>6, <2>7 DEF Drop
<1> QED
  BY <1>1, <1>2

\* The first n of a list of values on top of a stack, each alone.
Stacked(vals, n, stack) ==
    [i \in 1..n + Len(stack) |-> IF i <= n THEN <<vals[n + 1 - i]>> ELSE stack[i - n]]

IsStacked(vals, n, stack, s) ==
    /\ IsSeq(s) /\ Len(s) = n + Len(stack)
    /\ \A i \in 1..n : s[i] = <<vals[n + 1 - i]>>
    /\ \A i \in 1..Len(stack) : s[n + i] = stack[i]

\* The list that Stacked makes.
LEMMA StackedIs ==
    ASSUME NEW vals, NEW n \in Nat, NEW stack, IsSeq(stack)
    PROVE  IsStacked(vals, n, stack, Stacked(vals, n, stack))
<1> DEFINE m == n + Len(stack)
           s == Stacked(vals, n, stack)
<1>1. m \in Nat /\ Len(stack) \in Nat
  BY SeqShape
<1>2. s = [i \in 1..m |-> IF i <= n THEN <<vals[n + 1 - i]>> ELSE stack[i - n]]
  BY DEF Stacked
<1> HIDE DEF s
<1>3. \A i \in 1..m : s[i] = IF i <= n THEN <<vals[n + 1 - i]>> ELSE stack[i - n]
  BY <1>2
<1>4. s = [i \in 1..m |-> s[i]]
  BY <1>2
<1>9. \A i \in 1..n : i \in 1..m /\ i <= n
  BY <1>1
<1> HIDE DEF m
<1>5. \A i \in 1..n : s[i] = <<vals[n + 1 - i]>>
  BY <1>3, <1>9
<1> USE DEF m
<1>6. ASSUME NEW i \in 1..Len(stack) PROVE s[n + i] = stack[i]
  <2> DEFINE j == n + i
  <2>1. j \in 1..m /\ ~(j <= n) /\ j - n = i
    BY <1>1
  <2> HIDE DEF j
  <2>2. s[j] = stack[j - n]
    BY <1>3, <2>1
  <2> QED
    BY <2>1, <2>2 DEF j
<1> HIDE DEF m
<1>7. IsSeq(s) /\ Len(s) = m
  BY <1>1, <1>4, ListIsSeq
<1>8. IsStacked(vals, n, stack, s)
  BY <1>5, <1>6, <1>7 DEF m, IsStacked
<1> QED
  BY <1>8 DEF s

\* No values leave the stack as it is, and each value is pushed.
LEMMA StackedNone ==
    ASSUME NEW vals, NEW stack, IsSeq(stack)
    PROVE  Stacked(vals, 0, stack) = stack
<1> DEFINE s == Stacked(vals, 0, stack)
<1>4. IsStacked(vals, 0, stack, s)
  BY StackedIs
<1> HIDE DEF s
<1>1. /\ IsSeq(s) /\ Len(s) = 0 + Len(stack)
      /\ \A i \in 1..Len(stack) : s[0 + i] = stack[i]
  BY <1>4 DEF IsStacked
<1>2. Len(stack) \in Nat
  BY SeqShape
<1>3. Len(s) = Len(stack) /\ \A i \in 1..Len(stack) : s[i] = stack[i]
  BY <1>1, <1>2
<1>5. s = stack
  BY <1>1, <1>3, SeqsEqual
<1> QED
  BY <1>5 DEF s

\* One value more is one push more.
LEMMA StackedNext ==
    ASSUME NEW vals, NEW n \in Nat, NEW stack, IsSeq(stack)
    PROVE  Push(<<vals[n + 1]>>, Stacked(vals, n, stack)) = Stacked(vals, n + 1, stack)
<1> DEFINE s == Stacked(vals, n, stack)
           t == Stacked(vals, n + 1, stack)
           p == Push(<<vals[n + 1]>>, s)
           k == Len(stack)
           m == n + 1
<1>7. IsStacked(vals, n, stack, s)
  BY StackedIs
<1>8. IsStacked(vals, m, stack, t)
  BY StackedIs
<1> HIDE DEF s, t
<1>1. /\ IsSeq(s) /\ Len(s) = n + k
      /\ \A i \in 1..n : s[i] = <<vals[n + 1 - i]>>
      /\ \A i \in 1..k : s[n + i] = stack[i]
  BY <1>7 DEF IsStacked
<1>2. /\ IsSeq(t) /\ Len(t) = m + k
      /\ \A i \in 1..m : t[i] = <<vals[m + 1 - i]>>
      /\ \A i \in 1..k : t[m + i] = stack[i]
  BY <1>8 DEF IsStacked
<1>3. k \in Nat
  BY SeqShape
<1> HIDE DEF k
<1>4. /\ IsSeq(p) /\ Len(p) = Len(s) + 1 /\ p[1] = <<vals[n + 1]>>
      /\ \A i \in 1..Len(s) : p[i + 1] = s[i]
  BY <1>1, PushIs
<1> HIDE DEF p
<1>5. Len(p) = Len(t)
  BY <1>1, <1>2, <1>3, <1>4
<1>6. ASSUME NEW i \in 1..Len(p) PROVE p[i] = t[i]
  <2>1. i \in 1..n + k + 1
    BY <1>1, <1>4
  <2>2. CASE i = 1
    <3>1. 1 \in 1..m /\ m + 1 - 1 = n + 1
      OBVIOUS
    <3> QED
      BY <1>2, <1>4, <2>2, <3>1
  <2>3. CASE i \in 2..m
    <3> DEFINE j == i - 1
    <3>1. j \in 1..n /\ j \in 1..Len(s) /\ j + 1 = i /\ i \in 1..m /\ n + 1 - j = m + 1 - i
      BY <1>1, <1>3, <2>3
    <3> HIDE DEF j, m
    <3>2. p[i] = <<vals[n + 1 - j]>>
      BY <1>1, <1>4, <3>1
    <3> QED
      BY <1>2, <3>1, <3>2
  <2>4. CASE i > m
    <3> DEFINE j == i - m
    <3>1. j \in 1..k /\ n + j \in 1..Len(s) /\ (n + j) + 1 = i /\ m + j = i
      BY <1>1, <1>3, <2>1, <2>4
    <3> DEFINE l == n + j
    <3>2. p[l + 1] = s[l]
      BY <1>4, <3>1
    <3>3. t[m + j] = stack[j] /\ s[n + j] = stack[j]
      BY <1>1, <1>2, <3>1
    <3> QED
      BY <3>1, <3>2, <3>3
  <2> QED
    BY <1>3, <2>1, <2>2, <2>3, <2>4
<1>9. p = t
  BY <1>2, <1>4, <1>5, <1>6, SeqsEqual
<1> QED
  BY <1>9 DEF p, s, t

\* A call finds its arguments and leaves what was below them.
HasArgs(c, vals, n, stack, env) ==
    Args(n, c) = [i \in 1..n |-> vals[i]] /\ Pop(n, c) = Config(stack, env)

\* Args and Pop of a stack with n values on it.
LEMMA StackedArgs ==
    ASSUME NEW vals, NEW n \in Nat, NEW stack, IsSeq(stack), NEW env
    PROVE  HasArgs(Config(Stacked(vals, n, stack), env), vals, n, stack, env)
<1> DEFINE s == Stacked(vals, n, stack)
           k == Len(stack)
           c == Config(s, env)
<1>10. IsStacked(vals, n, stack, s)
  BY StackedIs
<1> HIDE DEF s
<1>1. /\ IsSeq(s) /\ Len(s) = n + k
      /\ \A i \in 1..n : s[i] = <<vals[n + 1 - i]>>
      /\ \A i \in 1..k : s[n + i] = stack[i]
  BY <1>10 DEF IsStacked
<1>2. k \in Nat
  BY SeqShape
<1> HIDE DEF k
<1>3. c.stack = s /\ c.env = env
  BY DEF Config
<1> HIDE DEF c
<1>4. ASSUME NEW i \in 1..n PROVE s[n + 1 - i][1] = vals[i]
  <2> DEFINE j == n + 1 - i
  <2>1. j \in 1..n /\ n + 1 - j = i
    OBVIOUS
  <2> HIDE DEF j
  <2>2. s[j] = <<vals[i]>>
    BY <1>1, <2>1
  <2> QED
    BY <2>2 DEF j
<1>5. Args(n, c) = [i \in 1..n |-> vals[i]]
  BY <1>3, <1>4 DEF Args
<1> DEFINE r == Drop(s, n)
<1>6. n <= Len(s) /\ Len(s) - n = k
  BY <1>1, <1>2
<1>11. IsDropped(s, n, r)
  BY <1>1, <1>6, DropIs
<1> HIDE DEF r
<1>7. IsSeq(r) /\ Len(r) = k /\ \A i \in 1..k : r[i] = s[n + i]
  BY <1>6, <1>11 DEF IsDropped
<1>8. r = stack
  <2>1. Len(r) = Len(stack) /\ \A i \in 1..Len(r) : r[i] = stack[i]
    BY <1>1, <1>7 DEF k
  <2> QED
    BY <1>7, <2>1, SeqsEqual
<1>9. Pop(n, c) = Config(stack, env)
  BY <1>3, <1>8 DEF Pop, r
<1>12. HasArgs(c, vals, n, stack, env)
  BY <1>5, <1>9 DEF HasArgs
<1> QED
  BY <1>12 DEF c, s

------------------------------------------------------------------------------
(* Configurations and values *)

\* The parts of a configuration, and that it is not a failure.
LEMMA ConfigIs ==
    ASSUME FailedIsNone, NEW stack, NEW env
    PROVE  /\ Config(stack, env).stack = stack /\ Config(stack, env).env = env
           /\ Config(stack, env) # Failed
<1>1. Config(stack, env).stack = stack /\ Config(stack, env).env = env
  BY DEF Config
<1>2. PICK c : c = [stack |-> stack, env |-> env]
  OBVIOUS
<1>3. c = [x \in DOMAIN c |-> c[x]]
  BY <1>2
<1>4. c # Failed
  BY <1>3 DEF FailedIsNone, IsMap
<1> QED
  BY <1>1, <1>2, <1>4 DEF Config

\* A term is a value.
LEMMA TermIsValue ==
    ASSUME FailedIsNone, NEW op, NEW args, NEW out
    PROVE  Term(op, args, out) # Failed
<1>1. PICK c : c = [op |-> op, args |-> args, out |-> out]
  OBVIOUS
<1>2. c = [x \in DOMAIN c |-> c[x]]
  BY <1>1
<1> QED
  BY <1>1, <1>2 DEF FailedIsNone, IsMap, Term

\* A list is not a failure, nor is a list of one value.
LEMMA SeqIsNoFailure ==
    ASSUME FailedIsNone, NEW s, IsSeq(s)
    PROVE  s # Failed
<1>1. s = [x \in DOMAIN s |-> s[x]]
  BY DEF IsSeq
<1> QED
  BY <1>1 DEF FailedIsNone, IsMap

\* A list of one value holds this value.
LEMMA OneValue ==
    ASSUME FailedIsNone, NEW val
    PROVE  /\ IsSeq(<<val>>) /\ Len(<<val>>) = 1 /\ <<val>>[1] = val /\ Head(<<val>>) = val
           /\ <<val>> # Failed /\ One(<<val>>) = val
           /\ val # Failed => IsValues(<<val>>) /\ Single(val) = <<val>>
<1>1. <<val>> \in Seq({val}) /\ Len(<<val>>) = 1 /\ <<val>>[1] = val /\ Head(<<val>>) = val
  OBVIOUS
<1>2. IsSeq(<<val>>)
  BY <1>1, SeqIsSeq
<1>3. <<val>> # Failed
  BY <1>2, SeqIsNoFailure
<1>4. One(<<val>>) = val
  BY <1>1, <1>3 DEF One
<1>5. val # Failed => \A i \in 1..Len(<<val>>) : <<val>>[i] # Failed
  BY <1>1
<1> QED
  BY <1>1, <1>2, <1>3, <1>4, <1>5 DEF IsValues, Single

\* A list of values that has one is that value.
LEMMA OneOfValues ==
    ASSUME FailedIsNone, NEW vals, IsValues(vals)
    PROVE  /\ vals # Failed
           /\ Len(vals) # 1 => One(vals) = Failed
           /\ Len(vals) = 1 => One(vals) # Failed /\ vals = <<One(vals)>>
<1>1. IsSeq(vals) /\ vals # Failed
  BY SeqIsNoFailure DEF IsValues
<1>2. ASSUME Len(vals) = 1 PROVE One(vals) # Failed /\ vals = <<One(vals)>>
  <2>1. One(vals) = vals[1] /\ vals[1] # Failed
    BY <1>1, <1>2 DEF One, IsValues
  <2>2. vals = <<vals[1]>>
    BY <1>1, <1>2 DEF IsSeq
  <2> QED
    BY <2>1, <2>2
<1> QED
  BY <1>1, <1>2 DEF One

\* The first of a list, when there is one.
LEMMA ValuesListed ==
    ASSUME FailedIsNone, NEW n \in Nat, NEW vals, vals = [i \in 1..n |-> vals[i]],
           \A i \in 1..n : vals[i] # Failed
    PROVE  IsValues(vals) /\ Len(vals) = n
<1>1. IsSeq(vals) /\ Len(vals) = n
  BY ListIsSeq
<1> QED
  BY <1>1 DEF IsValues

\* The values of a list of expressions: each has one, or they have none.
IsValuesOf(vals, exprs, env, registry, path) ==
    \/ /\ vals = Failed
       /\ \E i \in 1..Len(exprs) : One(MeaningOf(exprs[i], env, registry, path)) = Failed
    \/ /\ vals # Failed /\ IsValues(vals) /\ Len(vals) = Len(exprs)
       /\ \A i \in 1..Len(exprs) : vals[i] = One(MeaningOf(exprs[i], env, registry, path))

\* ValuesOf, position by position.
LEMMA ValuesOfIs ==
    ASSUME FailedIsNone, NEW exprs, IsSeq(exprs), NEW env, NEW registry, NEW path
    PROVE  IsValuesOf(ValuesOf(exprs, env, registry, path), exprs, env, registry, path)
<1> DEFINE n == Len(exprs)
           Val(i) == One(MeaningOf(exprs[i], env, registry, path))
           vals == [i \in DOMAIN exprs |-> Val(i)]
<1>1. n \in Nat /\ DOMAIN exprs = 1..n
  BY SeqShape
<1>2. ValuesOf(exprs, env, registry, path) = AllOrFailed(vals)
  BY DEF ValuesOf
<1> HIDE DEF n, Val
<1>3. DOMAIN vals = 1..n /\ vals = [i \in 1..n |-> vals[i]] /\ \A i \in 1..n : vals[i] = Val(i)
  BY <1>1
<1> HIDE DEF vals
<1>4. CASE \E i \in 1..n : Val(i) = Failed
  <2>1. AllOrFailed(vals) = Failed
    BY <1>3, <1>4 DEF AllOrFailed
  <2> QED
    BY <1>2, <1>4, <2>1 DEF IsValuesOf, Val, n
<1>5. CASE ~ \E i \in 1..n : Val(i) = Failed
  <2>1. AllOrFailed(vals) = vals
    BY <1>3, <1>5 DEF AllOrFailed
  <2>2. IsValues(vals) /\ Len(vals) = n
    BY <1>1, <1>3, <1>5, ValuesListed
  <2>3. vals # Failed
    BY <2>2, SeqIsNoFailure DEF IsValues
  <2> QED
    BY <1>2, <1>3, <2>1, <2>2, <2>3 DEF IsValuesOf, Val, n
<1> QED
  BY <1>4, <1>5

------------------------------------------------------------------------------
(* The meaning of an expression *)

\* The defining equations, kind by kind.
IsMeaning(vals, e, env, registry, path) ==
    /\ e.kind = "Var" =>
         vals = IF e.name \in DOMAIN env THEN <<env[e.name]>> ELSE Failed
    /\ e.kind = "Const" => vals = <<Term(e.value, << >>, 1)>>
    /\ e.kind = "Node" => vals = MeaningOf(e.value, env, registry, path)
    /\ e.kind = "TupleGet" =>
         LET tuple == MeaningOf(e.value, env, registry, path)
         IN  vals = IF tuple # Failed /\ e.index \in DOMAIN tuple THEN <<tuple[e.index]>>
                    ELSE Failed
    /\ e.kind = "Call" =>
         LET args == ValuesOf(e.args, env, registry, path)
         IN  vals = IF args = Failed \/ e.op \in Unsupported THEN Failed
                    ELSE [r \in 1..Results[e.op] |-> Term(e.op, args, r)]
    /\ e.kind = "Graph" =>
         LET args == ValuesOf(e.args, env, registry, path)
         IN  vals = IF args = Failed THEN Failed ELSE CallMeaning(e.name, args, registry, path)

\* MeaningRules, kind by kind.
LEMMA MeaningIs ==
    ASSUME MeaningRules, NEW e \in Exprs, NEW env, NEW registry, NEW path
    PROVE  IsMeaning(MeaningOf(e, env, registry, path), e, env, registry, path)
<1> DEFINE args == ValuesOf(e.args, env, registry, path)
           tuple == MeaningOf(e.value, env, registry, path)
<1>1. PICK vals : vals = MeaningOf(e, env, registry, path)
  OBVIOUS
<1>2. vals = MeaningStep(e, env, registry, path)
  BY <1>1 DEF MeaningRules
<1>3. CASE e.kind = "Var"
  <2>1. vals = IF e.name \in DOMAIN env THEN <<env[e.name]>> ELSE Failed
    BY <1>2, <1>3 DEF MeaningStep
  <2> QED
    BY <1>1, <1>3, <2>1 DEF IsMeaning
<1>4. CASE e.kind = "Const"
  <2>1. vals = <<Term(e.value, << >>, 1)>>
    BY <1>2, <1>4 DEF MeaningStep
  <2> QED
    BY <1>1, <1>4, <2>1 DEF IsMeaning
<1>5. CASE e.kind = "Node"
  <2>1. vals = tuple
    BY <1>2, <1>5 DEF MeaningStep
  <2> QED
    BY <1>1, <1>5, <2>1 DEF IsMeaning
<1>6. CASE e.kind = "TupleGet"
  <2>1. vals = IF tuple = Failed THEN Failed
               ELSE IF e.index \in DOMAIN tuple THEN <<tuple[e.index]>> ELSE Failed
    BY <1>2, <1>6 DEF MeaningStep
  <2> QED
    BY <1>1, <1>6, <2>1 DEF IsMeaning
<1>7. CASE e.kind = "Call"
  <2>1. vals = IF args = Failed \/ e.op \in Unsupported THEN Failed
               ELSE [r \in 1..Results[e.op] |-> Term(e.op, args, r)]
    BY <1>2, <1>7 DEF MeaningStep
  <2> QED
    BY <1>1, <1>7, <2>1 DEF IsMeaning
<1>8. CASE e.kind = "Graph"
  <2>1. vals = IF args = Failed THEN Failed ELSE CallMeaning(e.name, args, registry, path)
    BY <1>2, <1>8 DEF MeaningStep, CallMeaning
  <2> QED
    BY <1>1, <1>8, <2>1 DEF IsMeaning
<1>9. e.kind \in {"Var", "Const", "Call", "Graph", "Node", "TupleGet"}
  BY ExprsAssumption
<1> QED
  BY <1>3, <1>4, <1>5, <1>6, <1>7, <1>8, <1>9

\* An expression contains its children, their parts and their names.
LEMMA ChildIsPart ==
    ASSUME NEW e \in Exprs, NEW x \in Children(e)
    PROVE  /\ x \in Exprs /\ x \in Parts[e] /\ Parts[x] \subseteq Parts[e] /\ e \in Parts[e]
           /\ Depth[x] \in Nat /\ Depth[e] \in Nat /\ Depth[x] < Depth[e]
           /\ VarsOf(x) \subseteq VarsOf(e) /\ SharedIn(x) \subseteq SharedIn(e)
<1>1. /\ Parts[e] \subseteq Exprs /\ x \in Parts[e] /\ Parts[x] \subseteq Parts[e]
      /\ e \in Parts[e]
  BY ExprsAssumption
<1>2. x \in Exprs
  BY <1>1
<1>3. Depth[x] \in Nat /\ Depth[e] \in Nat /\ Depth[x] < Depth[e]
  BY <1>2, ExprsAssumption
<1>4. VarsOf(x) \subseteq VarsOf(e) /\ SharedIn(x) \subseteq SharedIn(e)
  BY <1>1 DEF VarsOf, SharedIn
<1> QED
  BY <1>1, <1>2, <1>3, <1>4

\* The children of the kinds of expressions.
LEMMA ChildrenAre ==
    ASSUME NEW e \in Exprs
    PROVE  /\ e.kind \in {"Node", "TupleGet"} => e.value \in Children(e)
           /\ e.kind \in {"Call", "Graph"} =>
                IsSeq(e.args) /\ \A i \in 1..Len(e.args) : e.args[i] \in Children(e)
<1>1. ASSUME e.kind \in {"Call", "Graph"}
      PROVE  IsSeq(e.args) /\ \A i \in 1..Len(e.args) : e.args[i] \in Children(e)
  <2>1. e.args \in Seq(Exprs)
    BY <1>1, ProgramsAssumption
  <2>2. IsSeq(e.args)
    BY <2>1, SeqIsSeq
  <2>3. DOMAIN e.args = 1..Len(e.args)
    BY <2>2, SeqShape
  <2> QED
    BY <1>1, <2>2, <2>3 DEF Children, ToSet
<1> QED
  BY <1>1 DEF Children

\* Whatever holds of an expression when it holds of its children holds of all.
LEMMA ByDepth ==
    ASSUME NEW S \in SUBSET Exprs,
           \A e \in Exprs : Children(e) \cap Exprs \subseteq S => e \in S
    PROVE  Exprs \subseteq S
<1> DEFINE T == {n \in Nat : \A e \in Exprs : Depth[e] < n => e \in S}
<1>0. \A e \in Exprs : Depth[e] \in Nat
  BY ExprsAssumption
<1>1. 0 \in T
  BY <1>0
<1>2. ASSUME NEW n \in Nat, n \in T PROVE n + 1 \in T
  <2>1. ASSUME NEW e \in Exprs, Depth[e] < n + 1 PROVE e \in S
    <3>1. ASSUME NEW x \in Children(e) \cap Exprs PROVE x \in S
      <4>1. Depth[x] < Depth[e] /\ Depth[x] \in Nat /\ Depth[e] \in Nat
        BY ChildIsPart
      <4>2. Depth[x] < n
        BY <2>1, <4>1
      <4> QED
        BY <1>2, <4>2
    <3> QED
      BY <3>1
  <2> QED
    BY <2>1
<1> HIDE DEF T
<1>3. Nat \subseteq T
  BY <1>1, <1>2, Induction
<1>4. ASSUME NEW e \in Exprs PROVE e \in S
  <2> DEFINE n == Depth[e] + 1
  <2>1. n \in Nat /\ Depth[e] < n
    BY <1>0
  <2> HIDE DEF n
  <2>2. n \in T
    BY <1>3, <2>1
  <2> QED
    BY <2>1, <2>2 DEF T
<1> QED
  BY <1>4

\* The meaning of a graph or an expression is a list of values, or there is none.
LEMMA GraphMeaningIsAList ==
    ASSUME FailedIsNone, NEW g, IsGraph(g), NEW args, NEW registry, NEW path
    PROVE  MeaningOfGraph(g, args, registry, path) = Failed
           \/ IsValues(MeaningOfGraph(g, args, registry, path))
<1> DEFINE env == EnvAfter(g, args, registry, path, Len(g.lets))
           vals == ValuesOf(g.body, env, registry, path)
<1>1. IsSeq(g.body)
  BY SeqIsSeq DEF IsGraph
<1>2. IsValuesOf(vals, g.body, env, registry, path)
  BY <1>1, ValuesOfIs
<1> QED
  BY <1>2 DEF IsValuesOf, MeaningOfGraph

\* An expression means a list of values, or nothing.
LEMMA MeaningIsAList ==
    ASSUME MeaningsAreDefined, NEW env, IsEnv(env), NEW path, NEW e \in Exprs,
           NEW registry, \A name \in DOMAIN registry : IsGraph(registry[name])
    PROVE  MeaningOf(e, env, registry, path) = Failed
           \/ IsValues(MeaningOf(e, env, registry, path))
<1> DEFINE Vals(x) == MeaningOf(x, env, registry, path)
           Fine(x) == Vals(x) = Failed \/ IsValues(Vals(x))
           S == {x \in Exprs : Fine(x)}
<1>0. FailedIsNone /\ MeaningRules
  BY DEF MeaningsAreDefined
<1>1. ASSUME NEW x \in Exprs, Children(x) \cap Exprs \subseteq S PROVE Fine(x)
  <2>1. IsMeaning(Vals(x), x, env, registry, path)
    BY <1>0, MeaningIs
  <2>0. \A y \in Children(x) : Fine(y)
    BY <1>1, ChildIsPart
  <2> HIDE DEF Fine
  <2>2. CASE x.kind = "Var"
    <3>1. CASE x.name \in DOMAIN env
      <4>1. env[x.name] # Failed /\ Vals(x) = <<env[x.name]>>
        BY <2>1, <2>2, <3>1 DEF IsMeaning, IsEnv
      <4> QED
        BY <1>0, <4>1, OneValue DEF Fine
    <3> QED
      BY <2>1, <2>2, <3>1 DEF Fine, IsMeaning
  <2>3. CASE x.kind = "Const"
    <3>1. Vals(x) = <<Term(x.value, << >>, 1)>>
      BY <2>1, <2>3 DEF IsMeaning
    <3> QED
      BY <1>0, <3>1, OneValue, TermIsValue DEF Fine
  <2>4. CASE x.kind = "Node"
    <3>1. Vals(x) = Vals(x.value) /\ Fine(x.value)
      BY <2>0, <2>1, <2>4, ChildrenAre DEF IsMeaning
    <3> QED
      BY <3>1 DEF Fine
  <2>5. CASE x.kind = "TupleGet"
    <3>1. Fine(x.value)
      BY <2>0, <2>5, ChildrenAre
    <3>2. CASE Vals(x.value) # Failed /\ x.index \in DOMAIN Vals(x.value)
      <4>1. Vals(x) = <<Vals(x.value)[x.index]>>
        BY <2>1, <2>5, <3>2 DEF IsMeaning
      <4>2. Vals(x.value)[x.index] # Failed
        BY <3>1, <3>2, SeqShape DEF Fine, IsValues
      <4> QED
        BY <1>0, <4>1, <4>2, OneValue DEF Fine
    <3>3. CASE ~(Vals(x.value) # Failed /\ x.index \in DOMAIN Vals(x.value))
      BY <2>1, <2>5, <3>3 DEF Fine, IsMeaning
    <3> QED
      BY <3>2, <3>3
  <2>6. CASE x.kind = "Call"
    <3> DEFINE args == ValuesOf(x.args, env, registry, path)
               n == Results[x.op]
               list == [r \in 1..n |-> Term(x.op, args, r)]
    <3>1. Vals(x) = Failed \/ Vals(x) = list
      BY <2>1, <2>6 DEF IsMeaning
    <3>2. n \in Nat
      BY <2>6, ProgramsAssumption
    <3>3. \A r \in 1..n : Term(x.op, args, r) # Failed
      BY <1>0, TermIsValue
    <3> HIDE DEF args, n
    <3>4. list = [r \in 1..n |-> list[r]] /\ \A r \in 1..n : list[r] # Failed
      BY <3>3
    <3> HIDE DEF list
    <3>5. IsValues(list)
      BY <1>0, <3>2, <3>4, ValuesListed
    <3> QED
      BY <3>1, <3>5 DEF Fine
  <2>7. CASE x.kind = "Graph"
    <3> DEFINE args == ValuesOf(x.args, env, registry, path)
    <3>1. Vals(x) = Failed \/ Vals(x) = CallMeaning(x.name, args, registry, path)
      BY <2>1, <2>7 DEF IsMeaning
    <3> HIDE DEF args
    <3>2. CallMeaning(x.name, args, registry, path) = Failed
          \/ IsValues(CallMeaning(x.name, args, registry, path))
      BY <1>0, GraphMeaningIsAList DEF CallMeaning
    <3> QED
      BY <3>1, <3>2 DEF Fine
  <2> QED
    BY <2>2, <2>3, <2>4, <2>5, <2>6, <2>7, ExprsAssumption
<1>2. ASSUME NEW x \in Exprs, Children(x) \cap Exprs \subseteq S PROVE x \in S
  BY <1>1, <1>2
<1>3. S \in SUBSET Exprs
  OBVIOUS
<1> HIDE DEF S
<1>4. Exprs \subseteq S
  BY <1>2, <1>3, ByDepth
<1> HIDE DEF Fine
<1>5. Fine(e)
  BY <1>4 DEF S
<1> QED
  BY <1>5 DEF Fine

\* The meaning of an expression depends on the names in it only.
SameFor(names, env1, env2) ==
    \A name \in names : /\ name \in DOMAIN env1 <=> name \in DOMAIN env2
                        /\ name \in DOMAIN env1 => env1[name] = env2[name]

\* Maps that agree on the names of an expression give it one meaning.
LEMMA SameMeaning ==
    ASSUME MeaningRules, NEW env1, NEW env2, NEW registry, NEW path, NEW e \in Exprs,
           SameFor(VarsOf(e), env1, env2)
    PROVE  MeaningOf(e, env1, registry, path) = MeaningOf(e, env2, registry, path)
<1> DEFINE Same(x) == SameFor(VarsOf(x), env1, env2)
           One1(x) == MeaningOf(x, env1, registry, path)
           One2(x) == MeaningOf(x, env2, registry, path)
           Fine(x) == Same(x) => One1(x) = One2(x)
           S == {x \in Exprs : Fine(x)}
<1>1. ASSUME NEW x \in Exprs, \A y \in Children(x) : Fine(y)
      PROVE  Fine(x)
  <2> SUFFICES ASSUME Same(x) PROVE One1(x) = One2(x)
    OBVIOUS
  <2>1. /\ IsMeaning(One1(x), x, env1, registry, path)
        /\ IsMeaning(One2(x), x, env2, registry, path)
    BY MeaningIs
  <2>2. \A y \in Children(x) : Same(y)
    BY ChildIsPart DEF SameFor
  <2> HIDE DEF Same
  <2>3. \A y \in Children(x) : One1(y) = One2(y)
    BY <1>1, <2>2
  <2> HIDE DEF One1, One2
  <2>4. CASE x.kind = "Var"
    <3>1. x.name \in VarsOf(x)
      BY <2>4, ExprsAssumption DEF VarsOf
    <3>2. /\ x.name \in DOMAIN env1 <=> x.name \in DOMAIN env2
          /\ x.name \in DOMAIN env1 => env1[x.name] = env2[x.name]
      BY <3>1 DEF Same, SameFor
    <3> QED
      BY <2>1, <2>4, <3>2 DEF IsMeaning
  <2>5. CASE x.kind = "Const"
    BY <2>1, <2>5 DEF IsMeaning
  <2>6. CASE x.kind \in {"Node", "TupleGet"}
    <3>1. One1(x.value) = One2(x.value)
      BY <2>3, <2>6, ChildrenAre
    <3> QED
      BY <2>1, <2>6, <3>1 DEF IsMeaning, One1, One2
  <2>7. CASE x.kind \in {"Call", "Graph"}
    <3>1. IsSeq(x.args) /\ \A i \in 1..Len(x.args) : One1(x.args[i]) = One2(x.args[i])
      BY <2>3, <2>7, ChildrenAre
    <3>2. DOMAIN x.args = 1..Len(x.args)
      BY <3>1, SeqShape
    <3>3. [i \in DOMAIN x.args |-> One(One1(x.args[i]))] = [i \in DOMAIN x.args |-> One(One2(x.args[i]))]
      BY <3>1, <3>2
    <3>4. ValuesOf(x.args, env1, registry, path) = ValuesOf(x.args, env2, registry, path)
      BY <3>3 DEF ValuesOf, One1, One2
    <3>5. PICK args : args = ValuesOf(x.args, env1, registry, path)
      OBVIOUS
    <3>6. CASE x.kind = "Call"
      <4>1. PICK list : list = [r \in 1..Results[x.op] |-> Term(x.op, args, r)]
        OBVIOUS
      <4>2. /\ One1(x) = IF args = Failed \/ x.op \in Unsupported THEN Failed ELSE list
            /\ One2(x) = IF args = Failed \/ x.op \in Unsupported THEN Failed ELSE list
        BY <2>1, <3>4, <3>5, <3>6, <4>1 DEF IsMeaning
      <4> QED
        BY <4>2
    <3>7. CASE x.kind = "Graph"
      BY <2>1, <3>4, <3>5, <3>7 DEF IsMeaning
    <3> QED
      BY <2>7, <3>6, <3>7
  <2> QED
    BY <2>4, <2>5, <2>6, <2>7, ExprsAssumption
<1> HIDE DEF Fine
<1>2. ASSUME NEW x \in Exprs, Children(x) \cap Exprs \subseteq S PROVE x \in S
  <2>1. \A y \in Children(x) : y \in Exprs
    BY ChildIsPart
  <2> QED
    BY <1>1, <1>2, <2>1
<1>3. S \in SUBSET Exprs
  OBVIOUS
<1> HIDE DEF S
<1>4. Exprs \subseteq S
  BY <1>2, <1>3, ByDepth
<1>5. Fine(e)
  BY <1>4 DEF S
<1> QED
  BY <1>5 DEF Fine

------------------------------------------------------------------------------
(* Running expressions, calls and graphs *)

\* The effect of lowering an expression.
LEMMA ExprEffect ==
    ASSUME FailedIsNone, NEW e, NEW stack, NEW env, NEW registry, NEW path,
           NEW val, val = One(MeaningOf(e, env, registry, path))
    PROVE  Effect(LowerExpr(e), Config(stack, env), registry, path)
             = IF val = Failed THEN Failed ELSE Config(Push(<<val>>, stack), env)
<1>1. PICK c : c = Config(stack, env)
  OBVIOUS
<1>2. c # Failed /\ c.stack = stack /\ c.env = env
  BY <1>1, ConfigIs
<1>3. LowerExpr(e).step = "lower_expr" /\ LowerExpr(e).expr = e
  BY DEF LowerExpr
<1>4. PICK s : s = LowerExpr(e)
  OBVIOUS
<1>5. Effect(s, c, registry, path) = Pushed(Single(val), c)
  BY <1>2, <1>3, <1>4 DEF Effect, LiveEffect
<1>6. val # Failed => Single(val) = <<val>> /\ <<val>> # Failed
  BY OneValue
<1>7. val = Failed => Single(val) = Failed
  BY DEF Single
<1> QED
  BY <1>1, <1>2, <1>4, <1>5, <1>6, <1>7 DEF Pushed

\* After a list of expressions their values are on top, or one of them had none.
AfterExprs(vals, n, stack, env) ==
    IF vals = Failed THEN Failed ELSE Config(Stacked(vals, n, stack), env)

\* Lowering a list of expressions puts their values on the stack.
LEMMA RunsSteps ==
    ASSUME FailedIsNone, NEW g, NEW exprs, IsSeq(exprs), NEW stack, IsSeq(stack), NEW env,
           NEW registry, NEW path, \A i \in 1..Len(exprs) : CanLower(g, exprs[i], env, path)
    PROVE  Runs(g, Steps(exprs), Config(stack, env),
                AfterExprs(ValuesOf(exprs, env, registry, path), Len(exprs), stack, env),
                registry, path)
<1> DEFINE n == Len(exprs)
           Val(i) == One(MeaningOf(exprs[i], env, registry, path))
           steps == Steps(exprs)
           vals == ValuesOf(exprs, env, registry, path)
           end == AfterExprs(vals, n, stack, env)
<1>1. n \in Nat /\ DOMAIN exprs = 1..n
  BY SeqShape
<1>2. IsValuesOf(vals, exprs, env, registry, path)
  BY ValuesOfIs
<1>3. Len(steps) = n /\ \A i \in 1..n : steps[i] = LowerExpr(exprs[i])
  <2>1. steps = [i \in 1..n |-> LowerExpr(exprs[i])]
    BY <1>1 DEF Steps
  <2> HIDE DEF steps, n
  <2>2. steps = [i \in 1..n |-> steps[i]] /\ \A i \in 1..n : steps[i] = LowerExpr(exprs[i])
    BY <2>1
  <2> QED
    BY <1>1, <2>2, ListIsSeq
<1>4. PICK V : V = [i \in 1..n |-> Val(i)]
  OBVIOUS
<1>5. \A i \in 1..n : V[i] = One(MeaningOf(exprs[i], env, registry, path))
  BY <1>4
<1> HIDE DEF n, Val, steps, vals
<1>6. PICK C : C = [i \in 0..n |-> IF \E j \in 1..i : V[j] = Failed THEN Failed
                                   ELSE Config(Stacked(V, i, stack), env)]
  OBVIOUS
<1>7. C[0] = Config(stack, env)
  <2>1. 0 \in 0..n /\ ~ \E j \in 1..0 : V[j] = Failed
    BY <1>1
  <2>2. C[0] = Config(Stacked(V, 0, stack), env)
    BY <1>6, <2>1
  <2> QED
    BY <2>2, StackedNone
<1>8. C[n] = end
  <2>1. n \in 0..n
    BY <1>1
  <2>2. C[n] = IF \E j \in 1..n : V[j] = Failed THEN Failed ELSE Config(Stacked(V, n, stack), env)
    BY <1>6, <2>1
  <2>3. CASE vals = Failed
    <3>1. \E j \in 1..n : V[j] = Failed
      <4>1. vals = Failed => ~IsValues(vals)
        BY SeqIsNoFailure DEF IsValues
      <4> QED
        BY <1>2, <1>5, <2>3, <4>1 DEF IsValuesOf, n
    <3> QED
      BY <2>2, <2>3, <3>1 DEF AfterExprs
  <2>4. CASE vals # Failed
    <3>1. IsValues(vals) /\ Len(vals) = n /\ \A i \in 1..n : vals[i] = V[i]
      BY <1>2, <1>5, <2>4 DEF IsValuesOf, n
    <3>2. IsSeq(V) /\ Len(V) = n
      <4>1. V = [i \in 1..n |-> V[i]]
        BY <1>4
      <4> QED
        BY <1>1, <4>1, ListIsSeq
    <3>3. vals = V
      BY <3>1, <3>2, SeqsEqual DEF IsValues
    <3>4. ~ \E j \in 1..n : V[j] = Failed
      BY <3>1 DEF IsValues
    <3> QED
      BY <2>2, <2>4, <3>3, <3>4 DEF AfterExprs
  <2> QED
    BY <2>3, <2>4
<1>9. ASSUME NEW i \in 1..n
      PROVE  /\ C[i] = Effect(steps[i], C[i - 1], registry, path)
             /\ Sound(g, steps[i], C[i - 1], registry, path)
  <2>0. PICK k : k = i - 1
    OBVIOUS
  <2>1. k \in Nat /\ k \in 0..n /\ k + 1 = i /\ i \in 0..n
    BY <1>1, <2>0
  <2>2. /\ C[k] = IF \E j \in 1..k : V[j] = Failed THEN Failed
                  ELSE Config(Stacked(V, k, stack), env)
        /\ C[i] = IF \E j \in 1..i : V[j] = Failed THEN Failed
                  ELSE Config(Stacked(V, i, stack), env)
    BY <1>6, <2>1
  <2>3. \A j : j \in 1..i <=> j \in 1..k \/ j = i
    BY <2>1
  <2>4. CASE \E j \in 1..k : V[j] = Failed
    BY <2>0, <2>2, <2>3, <2>4 DEF Effect, Sound
  <2>5. CASE ~ \E j \in 1..k : V[j] = Failed
    <3>1. C[k] = Config(Stacked(V, k, stack), env) /\ steps[i] = LowerExpr(exprs[i])
      BY <1>3, <2>2, <2>5
    <3>2. C[k].env = env
      BY <3>1, ConfigIs
    <3>3. Sound(g, steps[i], C[k], registry, path)
      <4>1. steps[i].step = "lower_expr" /\ steps[i].expr = exprs[i]
        BY <3>1 DEF LowerExpr
      <4>2. ExprsIn(steps[i]) = {exprs[i]}
        BY <4>1 DEF ExprsIn
      <4>3. CanLower(g, exprs[i], env, path)
        BY DEF n
      <4> QED
        BY <3>2, <4>1, <4>2, <4>3, PlainSound
    <3>4. Effect(steps[i], C[k], registry, path)
            = IF V[i] = Failed THEN Failed
              ELSE Config(Push(<<V[i]>>, Stacked(V, k, stack)), env)
      BY <1>5, <3>1, ExprEffect
    <3>5. Push(<<V[i]>>, Stacked(V, k, stack)) = Stacked(V, i, stack)
      BY <2>1, StackedNext
    <3>6. C[i] = Effect(steps[i], C[k], registry, path)
      BY <2>2, <2>3, <2>5, <3>4, <3>5
    <3> QED
      BY <2>0, <3>3, <3>6
  <2> QED
    BY <2>4, <2>5
<1>10. Runs(g, steps, Config(stack, env), end, registry, path)
  BY <1>3, <1>7, <1>8, <1>9 DEF Runs, Chain
<1> QED
  BY <1>10 DEF steps, vals, n

\* The parts of a graph are expressions, and their parts are parts of it.
LEMMA PartsAreClosed ==
    ASSUME NEW g, IsGraph(g), NEW e \in PartsOf(g)
    PROVE  e \in Exprs /\ Parts[e] \subseteq PartsOf(g)
<1>1. PICK x \in Exprs : e \in Parts[x] /\ Parts[x] \subseteq PartsOf(g)
  <2>1. \A i \in DOMAIN g.lets : g.lets[i].value \in Exprs
    BY DEF IsGraph
  <2>2. \A i \in DOMAIN g.body : g.body[i] \in Exprs
    BY DEF IsGraph
  <2>3. CASE \E i \in DOMAIN g.lets : e \in Parts[g.lets[i].value]
    <3>1. PICK i \in DOMAIN g.lets : e \in Parts[g.lets[i].value]
      BY <2>3
    <3>2. Parts[g.lets[i].value] \subseteq PartsOf(g)
      BY <3>1 DEF PartsOf
    <3> QED
      BY <2>1, <3>1, <3>2
  <2>4. CASE \E i \in DOMAIN g.body : e \in Parts[g.body[i]]
    <3>1. PICK i \in DOMAIN g.body : e \in Parts[g.body[i]]
      BY <2>4
    <3>2. Parts[g.body[i]] \subseteq PartsOf(g)
      BY <3>1 DEF PartsOf
    <3> QED
      BY <2>2, <3>1, <3>2
  <2>5. \/ \E i \in DOMAIN g.lets : e \in Parts[g.lets[i].value]
        \/ \E i \in DOMAIN g.body : e \in Parts[g.body[i]]
    BY DEF PartsOf
  <2> QED
    BY <2>3, <2>4, <2>5
<1>2. e \in Exprs /\ Parts[e] \subseteq Parts[x]
  BY <1>1, ExprsAssumption
<1> QED
  BY <1>1, <1>2

\* What can be lowered has children that can.
LEMMA ChildrenCanBeLowered ==
    ASSUME NEW g, IsGraph(g), NEW e, NEW env, NEW path, CanLower(g, e, env, path),
           NEW x \in Children(e)
    PROVE  CanLower(g, x, env, path) /\ e \in Exprs /\ x \in Exprs
<1>1. e \in Exprs /\ Parts[e] \subseteq PartsOf(g)
  BY PartsAreClosed DEF CanLower
<1>2. x \in Exprs /\ x \in Parts[e] /\ VarsOf(x) \subseteq VarsOf(e)
  BY <1>1, ChildIsPart
<1> QED
  BY <1>1, <1>2 DEF CanLower

\* Appending and concatenating.
LEMMA AppendedList ==
    ASSUME NEW s, IsSeq(s), NEW x, NEW one, one = <<x>>
    PROVE  IsSeq(one) /\ Append(s, x) = s \o one
<1>1. IsSeq(one) /\ Len(one) = 1 /\ one[1] = x
  <2>1. one \in Seq({x}) /\ Len(one) = 1 /\ one[1] = x
    OBVIOUS
  <2> QED
    BY <2>1, SeqIsSeq
<1>2. PICK n : n = Len(s) /\ n \in Nat
  BY SeqShape
<1>3. PICK first : first = Append(s, x)
  OBVIOUS
<1>4. PICK both : both = s \o one
  OBVIOUS
<1>5. IsSeq(first) /\ Len(first) = n + 1 /\ (\A i \in 1..n : first[i] = s[i]) /\ first[n + 1] = x
  BY <1>2, <1>3, AppendIsSeq
<1>6. /\ IsSeq(both) /\ Len(both) = n + 1
      /\ \A i \in 1..n + 1 : both[i] = IF i <= n THEN s[i] ELSE one[i - n]
  BY <1>1, <1>2, <1>4, ConcatIsSeq
<1>7. ASSUME NEW i \in 1..n + 1 PROVE first[i] = both[i]
  <2>1. CASE i <= n
    <3>1. i \in 1..n
      BY <1>2, <2>1
    <3> QED
      BY <1>5, <1>6, <2>1, <3>1
  <2>2. CASE ~(i <= n)
    <3>1. i = n + 1 /\ i - n = 1
      BY <1>2, <2>2
    <3>2. both[i] = one[1]
      BY <1>6, <2>2, <3>1
    <3> QED
      BY <1>1, <1>5, <3>1, <3>2
  <2> QED
    BY <2>1, <2>2
<1>8. first = both
  BY <1>5, <1>6, <1>7, SeqsEqual
<1> QED
  BY <1>1, <1>3, <1>4, <1>8

\* A call: its arguments, then the operation or the graph.
CallStep(e) == IF e.kind = "Graph"
               THEN [step |-> "inline_graph", name |-> e.name, count |-> Len(e.args)]
               ELSE [step |-> "emit", op |-> e.op, count |-> Len(e.args)]

AfterArgs(e, stack, env, registry, path) ==
    AfterExprs(ValuesOf(e.args, env, registry, path), Len(e.args), stack, env)

\* The arguments of a call, then the call: together the value of the call.
LEMMA CallEffect ==
    ASSUME MeaningsAreDefined, NEW e \in Exprs, e.kind \in {"Call", "Graph"},
           NEW stack, IsSeq(stack), NEW env, NEW g, NEW registry, NEW path
    PROVE  /\ Sound(g, CallStep(e), AfterArgs(e, stack, env, registry, path), registry, path)
           /\ Effect(CallStep(e), AfterArgs(e, stack, env, registry, path), registry, path)
                = Pushed(MeaningOf(e, env, registry, path), Config(stack, env))
<1>a. PICK n : n = Len(e.args)
  OBVIOUS
<1>b. PICK vals : vals = ValuesOf(e.args, env, registry, path)
  OBVIOUS
<1>0. FailedIsNone /\ MeaningRules
  BY DEF MeaningsAreDefined
<1>1. PICK c : c = AfterExprs(vals, n, stack, env)
  OBVIOUS
<1>c. c = AfterArgs(e, stack, env, registry, path)
  BY <1>1, <1>a, <1>b DEF AfterArgs
<1>2. PICK s : s = CallStep(e)
  OBVIOUS
<1>3. IsSeq(e.args) /\ n \in Nat
  BY <1>a, ChildrenAre, SeqShape
<1>4. IsValuesOf(vals, e.args, env, registry, path)
  BY <1>0, <1>3, <1>b, ValuesOfIs
<1>5. PICK m : m = MeaningOf(e, env, registry, path)
  OBVIOUS
<1>6. IsMeaning(m, e, env, registry, path)
  BY <1>0, <1>5, MeaningIs
<1>7. CASE vals = Failed
  <2>1. c = Failed
    BY <1>1, <1>7 DEF AfterExprs
  <2>2. m = Failed
    BY <1>6, <1>7, <1>b DEF IsMeaning
  <2> QED
    BY <1>c, <1>2, <1>5, <2>1, <2>2 DEF Sound, Effect, Pushed
<1>8. CASE vals # Failed
  <2>1. IsValues(vals) /\ Len(vals) = n
    BY <1>4, <1>8, <1>a DEF IsValuesOf
  <2>2. PICK st : st = Stacked(vals, n, stack)
    OBVIOUS
  <2>3. c = Config(st, env)
    BY <1>1, <1>8, <2>2 DEF AfterExprs
  <2>4. c # Failed /\ c.stack = st
    BY <1>0, <2>3, ConfigIs
  <2>5. IsStacked(vals, n, stack, st)
    BY <1>3, <2>2, StackedIs
  <2>6. Args(n, c) = vals /\ Pop(n, c) = Config(stack, env)
    <3>0. HasArgs(Config(Stacked(vals, n, stack), env), vals, n, stack, env)
      BY <1>3, StackedArgs
    <3>1. Args(n, c) = [i \in 1..n |-> vals[i]] /\ Pop(n, c) = Config(stack, env)
      BY <2>2, <2>3, <3>0 DEF HasArgs
    <3>2. vals = [i \in 1..n |-> vals[i]]
      BY <2>1, SeqShape DEF IsValues, IsSeq
    <3> QED
      BY <3>1, <3>2
  <2>7. s.step \in {"inline_graph", "emit"} /\ s.count = n
    BY <1>2, <1>3, <1>a DEF CallStep
  <2>8. ASSUME NEW i \in 1..n PROVE c.stack[i][1] # Failed
    <3> DEFINE j == n + 1 - i
    <3>1. j \in 1..Len(vals)
      BY <1>3, <2>1
    <3>2. st[i] = <<vals[n + 1 - i]>>
      BY <2>5 DEF IsStacked
    <3> HIDE DEF j
    <3>3. vals[j] # Failed
      BY <2>1, <3>1 DEF IsValues
    <3> QED
      BY <2>4, <3>2, <3>3 DEF j
  <2>9. Sound(g, s, c, registry, path)
    BY <1>3, <2>7, <2>8 DEF Sound, ExprsIn, Kept
  <2>10. Effect(s, c, registry, path) = Pushed(m, Config(stack, env))
    <3>1. CASE e.kind = "Call"
      <4>1. s.step = "emit" /\ s.op = e.op
        BY <1>2, <3>1 DEF CallStep
      <4> DEFINE list == [r \in 1..Results[e.op] |-> Term(e.op, vals, r)]
      <4>2. m = IF e.op \in Unsupported THEN Failed ELSE list
        BY <1>6, <1>8, <1>b, <3>1 DEF IsMeaning
      <4> HIDE DEF list
      <4>3. Effect(s, c, registry, path)
              = IF e.op \in Unsupported THEN Failed ELSE Pushed(list, Config(stack, env))
        BY <2>4, <2>6, <2>7, <4>1 DEF Effect, LiveEffect, list
      <4> QED
        BY <4>2, <4>3 DEF Pushed
    <3>2. CASE e.kind = "Graph"
      <4>1. s.step = "inline_graph" /\ s.name = e.name
        BY <1>2, <3>2 DEF CallStep
      <4>2. m = CallMeaning(e.name, vals, registry, path)
        BY <1>6, <1>8, <1>b, <3>2 DEF IsMeaning
      <4> QED
        BY <2>4, <2>6, <2>7, <4>1, <4>2 DEF Effect, LiveEffect
    <3> QED
      BY <3>1, <3>2
  <2> QED
    BY <1>c, <1>2, <1>5, <2>9, <2>10
<1> QED
  BY <1>7, <1>8

\* The steps of a call push what the call means.
LEMMA RunsCall ==
    ASSUME MeaningsAreDefined, NEW g, IsGraph(g), NEW e, e.kind \in {"Call", "Graph"},
           NEW stack, IsSeq(stack), NEW env, NEW registry, NEW path, CanLower(g, e, env, path)
    PROVE  /\ IsSeq(CallSteps(e))
           /\ Runs(g, CallSteps(e), Config(stack, env),
                   Pushed(MeaningOf(e, env, registry, path), Config(stack, env)), registry, path)
<1>0. FailedIsNone /\ MeaningRules
  BY DEF MeaningsAreDefined
<1>a. PICK n : n = Len(e.args)
  OBVIOUS
<1> DEFINE start == Config(stack, env)
           mid == AfterArgs(e, stack, env, registry, path)
           end == Pushed(MeaningOf(e, env, registry, path), start)
           args == Steps(e.args)
           call == <<CallStep(e)>>
<1>1. e \in Exprs
  BY PartsAreClosed DEF CanLower
<1>2. IsSeq(e.args) /\ \A i \in 1..n : CanLower(g, e.args[i], env, path)
  BY <1>1, <1>a, ChildrenAre, ChildrenCanBeLowered
<1>3. Runs(g, args, start, mid, registry, path)
  BY <1>0, <1>2, <1>a, RunsSteps DEF AfterArgs
<1>4. Sound(g, CallStep(e), mid, registry, path)
      /\ Effect(CallStep(e), mid, registry, path) = end
  BY <1>1, CallEffect
<1> HIDE DEF mid, end
<1>5. Runs(g, call, mid, end, registry, path)
  BY <1>4, RunsOne
<1>6. IsSeq(args)
  <2>1. args = [i \in 1..n |-> args[i]] /\ n \in Nat
    BY <1>2, <1>a, SeqShape DEF Steps
  <2> QED
    BY <2>1, ListIsSeq
<1>7. CallSteps(e) = args \o call /\ IsSeq(call)
  <2>1. CallSteps(e) = Append(args, CallStep(e))
    BY DEF CallSteps, CallStep
  <2> HIDE DEF args
  <2> QED
    BY <1>6, <2>1, AppendedList
<1> HIDE DEF args, call, start
<1>8. Runs(g, args \o call, start, end, registry, path)
  BY <1>3, <1>5, <1>6, <1>7, RunsBoth
<1>9. IsSeq(args \o call)
  BY <1>6, <1>7, ConcatIsSeq
<1> QED
  BY <1>7, <1>8, <1>9 DEF end, start

\* The names of a graph after one more let.
LEMMA NextNames ==
    ASSUME NEW g, NEW n \in Nat
    PROVE  /\ NamesBefore(g, 1) = ToSet(g.inputs)
           /\ NamesBefore(g, n + 2) = NamesBefore(g, n + 1) \cup ToSet(g.lets[n + 1].names)
<1>1. \A k, x : x \in NamesBefore(g, k) <=> \/ x \in ToSet(g.inputs)
                                           \/ \E j \in 1..k - 1 : x \in ToSet(g.lets[j].names)
  BY DEF NamesBefore
<1>2. PICK m : m = n + 1
  OBVIOUS
<1>3. PICK k : k = n + 2
  OBVIOUS
<1>4. /\ \A j : j \in 1..k - 1 <=> j \in 1..m - 1 \/ j = m
      /\ \A j : j \notin 1..1 - 1
  BY <1>2, <1>3
<1>5. NamesBefore(g, 1) = ToSet(g.inputs)
  BY <1>1, <1>4
<1>6. NamesBefore(g, k) = NamesBefore(g, m) \cup ToSet(g.lets[m].names)
  <2>1. \A x : x \in NamesBefore(g, k) <=> x \in NamesBefore(g, m) \/ x \in ToSet(g.lets[m].names)
    BY <1>1, <1>4
  <2> QED
    BY <2>1
<1> QED
  BY <1>2, <1>3, <1>5, <1>6

\* What a binding makes of the names.
LEMMA BindingIs ==
    ASSUME FailedIsNone, NEW env, NEW l, IsSeq(l.names), NEW registry, NEW path,
           Binding(env, l, registry, path) # Failed
    PROVE  /\ env # Failed
           /\ IsBound(Binding(env, l, registry, path), env, l.names,
                      MeaningOf(l.value, env, registry, path))
<1> DEFINE vals == MeaningOf(l.value, env, registry, path)
<1>1. env # Failed /\ Binding(env, l, registry, path) = Bound(env, l.names, vals).map
  BY DEF Binding
<1> QED
  BY <1>1, BoundMapIs

\* The names of a graph after some lets are those bound so far.
EnvHolds(env, names) == env = Failed \/ (IsMap(env) /\ DOMAIN env = names)

\* The names after the first n lets.
LEMMA EnvNames ==
    ASSUME MeaningsAreDefined, NEW g, IsGraph(g), NEW args, NEW registry, NEW path
    PROVE  \A n \in 0..Len(g.lets) :
             EnvHolds(EnvAfter(g, args, registry, path, n), NamesBefore(g, n + 1))
<1> DEFINE Env(n) == EnvAfter(g, args, registry, path, n)
           m == Len(g.lets)
           S == {n \in Nat : n <= m => EnvHolds(Env(n), NamesBefore(g, n + 1))}
<1>0. FailedIsNone /\ MeaningRules
  BY DEF MeaningsAreDefined
<1>1. /\ m \in Nat /\ IsSeq(g.inputs)
      /\ \A i \in 1..m : IsSeq(g.lets[i].names)
  BY DEF IsGraph, IsSeq
<1>2. \A n \in Nat : Env(n) = EnvStep(g, args, registry, path, n)
  BY <1>0 DEF MeaningRules
<1>3. 0 \in S
  <2>1. Env(0) = Bound(EmptyMap, g.inputs, args).map
    BY <1>2 DEF EnvStep
  <2>2. IsBound(Env(0), EmptyMap, g.inputs, args)
    BY <1>1, <2>1, BoundMapIs
  <2>3. DOMAIN EmptyMap = {} /\ 0 + 1 = 1
    BY DEF EmptyMap
  <2> HIDE DEF Env
  <2>4. IsMap(Env(0)) /\ DOMAIN Env(0) = NamesBefore(g, 1)
    BY <2>2, <2>3, NextNames DEF IsBound
  <2> QED
    BY <2>3, <2>4 DEF EnvHolds
<1>4. ASSUME NEW n \in Nat, n \in S PROVE n + 1 \in S
  <2> SUFFICES ASSUME n + 1 <= m PROVE EnvHolds(Env(n + 1), NamesBefore(g, (n + 1) + 1))
    BY <1>4
  <2>0. PICK k : k = n + 1
    OBVIOUS
  <2>1. k \in 1..m /\ k \in Nat /\ k # 0 /\ k - 1 = n /\ k + 1 = n + 2
    BY <1>1, <2>0
  <2>2. EnvHolds(Env(n), NamesBefore(g, k))
    BY <1>1, <1>4, <2>0
  <2>3. Env(k) = Binding(Env(n), g.lets[k], registry, path)
    <3>1. EnvStep(g, args, registry, path, k)
            = Binding(EnvAfter(g, args, registry, path, k - 1), g.lets[k], registry, path)
      BY <2>1 DEF EnvStep
    <3> QED
      BY <1>2, <2>1, <3>1
  <2> HIDE DEF Env
  <2>4. CASE Env(k) = Failed
    BY <2>0, <2>4 DEF EnvHolds
  <2>5. CASE Env(k) # Failed
    <3>1. Env(n) # Failed /\ IsBound(Env(k), Env(n), g.lets[k].names,
                                     MeaningOf(g.lets[k].value, Env(n), registry, path))
      BY <1>0, <1>1, <2>1, <2>3, <2>5, BindingIs
    <3>2. NamesBefore(g, k + 1) = NamesBefore(g, k) \cup ToSet(g.lets[k].names)
      BY <2>0, <2>1, NextNames
    <3>3. IsMap(Env(k)) /\ DOMAIN Env(k) = NamesBefore(g, k + 1)
      BY <2>2, <3>1, <3>2 DEF EnvHolds, IsBound
    <3> QED
      BY <2>0, <3>3 DEF EnvHolds
  <2> QED
    BY <2>4, <2>5
<1> HIDE DEF S
<1>5. Nat \subseteq S
  BY <1>3, <1>4, Induction
<1> HIDE DEF Env
<1>6. ASSUME NEW n \in 0..m PROVE EnvHolds(Env(n), NamesBefore(g, n + 1))
  <2>1. n \in S /\ n <= m
    BY <1>1, <1>5
  <2> QED
    BY <2>1 DEF S
<1> QED
  BY <1>6 DEF Env, m

\* The lets of a graph lead from its arguments to its names.
LetSteps(g) == [i \in DOMAIN g.lets |-> [step |-> "let", binding |-> g.lets[i]]]
AfterLets(env) == IF env = Failed THEN Failed ELSE Config(<< >>, env)

\* The lets are run one after the other, as EnvAfter says.
LEMMA RunsLets ==
    ASSUME MeaningsAreDefined, NEW g, IsGraph(g), NEW args, NEW registry, NEW path,
           Len(path) > 1 => IsScoped(g)
    PROVE  /\ IsSeq(LetSteps(g))
           /\ Runs(g, LetSteps(g), AfterLets(EnvAfter(g, args, registry, path, 0)),
                   AfterLets(EnvAfter(g, args, registry, path, Len(g.lets))), registry, path)
<1> DEFINE Env(n) == EnvAfter(g, args, registry, path, n)
           m == Len(g.lets)
           steps == LetSteps(g)
<1>0. FailedIsNone /\ MeaningRules
  BY DEF MeaningsAreDefined
<1>1. /\ m \in Nat /\ DOMAIN g.lets = 1..m
      /\ \A i \in 1..m : g.lets[i].value \in Exprs
  BY DEF IsGraph
<1>2. \A n \in 0..m : EnvHolds(Env(n), NamesBefore(g, n + 1))
  BY EnvNames
<1>3. steps = [i \in 1..m |-> [step |-> "let", binding |-> g.lets[i]]]
  BY <1>1 DEF LetSteps
<1> HIDE DEF steps, m
<1>4. steps = [i \in 1..m |-> steps[i]] /\ \A i \in 1..m : steps[i] = [step |-> "let", binding |-> g.lets[i]]
  BY <1>3
<1>5. IsSeq(steps) /\ Len(steps) = m
  BY <1>1, <1>4, ListIsSeq
<1>6. ASSUME NEW i \in 1..m
      PROVE  Env(i) = Binding(Env(i - 1), g.lets[i], registry, path)
  <2>1. i \in Nat /\ i # 0
    BY <1>1
  <2>2. Env(i) = EnvStep(g, args, registry, path, i)
    BY <1>0, <2>1 DEF MeaningRules
  <2> QED
    BY <2>1, <2>2 DEF EnvStep
<1> HIDE DEF Env
<1>7. PICK C : C = [i \in 0..m |-> AfterLets(Env(i))]
  OBVIOUS
<1>8. C[0] = AfterLets(Env(0)) /\ C[m] = AfterLets(Env(m))
  <2>1. 0 \in 0..m /\ m \in 0..m
    BY <1>1
  <2> QED
    BY <1>7, <2>1
<1>9. ASSUME NEW i \in 1..m
      PROVE  /\ C[i] = Effect(steps[i], C[i - 1], registry, path)
             /\ Sound(g, steps[i], C[i - 1], registry, path)
  <2>0. PICK k : k = i - 1
    OBVIOUS
  <2>1. k \in 0..m /\ i \in 0..m /\ k + 1 = i
    BY <1>1, <2>0
  <2>2. C[k] = AfterLets(Env(k)) /\ C[i] = AfterLets(Env(i))
    BY <1>7, <2>1
  <2>3. steps[i].step = "let" /\ steps[i].binding = g.lets[i]
    BY <1>4
  <2>4. Env(i) = Binding(Env(k), g.lets[i], registry, path)
    BY <1>6, <2>0
  <2>5. CASE Env(k) = Failed
    <3>1. C[k] = Failed /\ C[i] = Failed
      BY <2>2, <2>4, <2>5 DEF AfterLets, Binding
    <3> QED
      BY <2>0, <3>1 DEF Effect, Sound
  <2>6. CASE Env(k) # Failed
    <3>1. C[k] = Config(<< >>, Env(k)) /\ C[k] # Failed
          /\ C[k].stack = << >> /\ C[k].env = Env(k)
      BY <1>0, <2>2, <2>6, ConfigIs DEF AfterLets
    <3>2. Effect(steps[i], C[k], registry, path) = C[i]
      BY <2>2, <2>3, <2>4, <3>1 DEF Effect, LiveEffect, AfterLets
    <3>3. ExprsIn(steps[i]) = {g.lets[i].value}
      BY <2>3 DEF ExprsIn
    <3>4. CanLower(g, g.lets[i].value, Env(k), path)
      <4>1. g.lets[i].value \in PartsOf(g)
        <5>1. g.lets[i].value \in Parts[g.lets[i].value]
          BY <1>1, ExprsAssumption
        <5> QED
          BY <1>1, <5>1 DEF PartsOf
      <4>2. Len(path) > 1 => VarsOf(g.lets[i].value) \subseteq NamesBefore(g, i)
        BY <1>1 DEF IsScoped
      <4>3. DOMAIN Env(k) = NamesBefore(g, i)
        BY <1>2, <2>1, <2>6 DEF EnvHolds
      <4> QED
        BY <4>1, <4>2, <4>3 DEF CanLower
    <3>5. Sound(g, steps[i], C[k], registry, path)
      BY <2>3, <3>1, <3>3, <3>4, PlainSound
    <3> QED
      BY <2>0, <3>2, <3>5
  <2> QED
    BY <2>5, <2>6
<1>10. Runs(g, steps, AfterLets(Env(0)), AfterLets(Env(m)), registry, path)
  BY <1>5, <1>8, <1>9 DEF Runs, Chain
<1> QED
  BY <1>5, <1>10 DEF steps, Env, m

\* The steps lead to this result of the graph.
Arrives(g, steps, c, end, registry, path) ==
    \E d : Runs(g, steps, c, d, registry, path) /\ EndOf(d) = end

\* The steps of a graph lead from its arguments to what it means.
LEMMA RunsGraph ==
    ASSUME MeaningsAreDefined, NEW g, IsGraph(g), NEW args, Len(args) = Len(g.inputs),
           NEW registry, NEW path, Len(path) > 1 => IsScoped(g)
    PROVE  /\ IsSeq(GraphSteps(g))
           /\ Arrives(g, GraphSteps(g), AfterLets(EnvAfter(g, args, registry, path, 0)),
                      MeaningOfGraph(g, args, registry, path), registry, path)
<1>0. FailedIsNone /\ MeaningRules
  BY DEF MeaningsAreDefined
<1>1. PICK env : env = EnvAfter(g, args, registry, path, Len(g.lets))
  OBVIOUS
<1>2. PICK vals : vals = ValuesOf(g.body, env, registry, path)
  OBVIOUS
<1>3. PICK start : start = AfterLets(EnvAfter(g, args, registry, path, 0))
  OBVIOUS
<1>4. PICK mid : mid = AfterLets(env)
  OBVIOUS
<1>17. Len(g.body) \in Nat
  BY DEF IsGraph
<1>5. PICK n : n = Len(g.body) /\ n \in Nat
  BY <1>17
<1> DEFINE lets == LetSteps(g)
           body == Steps(g.body)
<1>6. IsSeq(lets) /\ Runs(g, lets, start, mid, registry, path)
  BY <1>1, <1>3, <1>4, RunsLets
<1>7. IsSeq(g.body) /\ \A i \in 1..n : g.body[i] \in Exprs /\ i \in DOMAIN g.body
  BY <1>5, SeqIsSeq DEF IsGraph
<1>8. IsSeq(body)
  <2>1. body = [i \in 1..n |-> body[i]]
    BY <1>5, <1>7, SeqShape DEF Steps
  <2> HIDE DEF body
  <2> QED
    BY <1>5, <2>1, ListIsSeq
<1>9. GraphSteps(g) = lets \o body
  BY DEF GraphSteps, LetSteps
<1>10. MeaningOfGraph(g, args, registry, path) = IF env = Failed THEN Failed ELSE vals
  BY <1>1, <1>2 DEF MeaningOfGraph
<1>11. \E d : Runs(g, body, mid, d, registry, path)
              /\ EndOf(d) = IF env = Failed THEN Failed ELSE vals
  <2>1. CASE env = Failed
    <3>1. mid = Failed
      BY <1>4, <2>1 DEF AfterLets
    <3> HIDE DEF body
    <3>2. Runs(g, body, mid, Failed, registry, path)
      BY <1>8, <3>1, RunsOnFailed
    <3>3. EndOf(Failed) = Failed
      BY DEF EndOf
    <3> QED
      BY <2>1, <3>2, <3>3
  <2>2. CASE env # Failed
    <3>1. mid = Config(<< >>, env)
      BY <1>4, <2>2 DEF AfterLets
    <3>2. PICK none : none = << >>
      OBVIOUS
    <3>3. IsSeq(none) /\ Len(none) = 0
      BY <3>2 DEF IsSeq
    <3>4. \A i \in 1..n : CanLower(g, g.body[i], env, path)
      <4>1. EnvHolds(env, NamesBefore(g, Len(g.lets) + 1))
        <5>1. Len(g.lets) \in Nat /\ Len(g.lets) \in 0..Len(g.lets)
          BY DEF IsGraph
        <5> QED
          BY <1>1, <5>1, EnvNames
      <4>2. ASSUME NEW i \in 1..n PROVE CanLower(g, g.body[i], env, path)
        <5>1. g.body[i] \in Parts[g.body[i]]
          BY <1>7, ExprsAssumption
        <5>2. g.body[i] \in PartsOf(g)
          BY <1>7, <5>1 DEF PartsOf
        <5>3. Len(path) > 1 => VarsOf(g.body[i]) \subseteq DOMAIN env
          BY <1>7, <2>2, <4>1 DEF IsScoped, EnvHolds
        <5> QED
          BY <5>2, <5>3 DEF CanLower
      <4> QED
        BY <4>2
    <3>5. PICK d : d = AfterExprs(vals, n, none, env)
      OBVIOUS
    <3>6. Runs(g, body, Config(none, env), d, registry, path)
      BY <1>0, <1>2, <1>5, <1>7, <3>3, <3>4, <3>5, RunsSteps
    <3>7. EndOf(d) = vals
      <4>1. CASE vals = Failed
        BY <3>5, <4>1 DEF AfterExprs, EndOf
      <4>2. CASE vals # Failed
        <5>1. d = Config(Stacked(vals, n, none), env)
          BY <3>5, <4>2 DEF AfterExprs
        <5>2. IsStacked(vals, n, none, Stacked(vals, n, none))
          BY <1>5, <3>3, StackedIs
        <5>3. d # Failed /\ d.stack = Stacked(vals, n, none)
          BY <1>0, <5>1, ConfigIs
        <5>4. Len(d.stack) = n
          BY <1>5, <3>3, <5>2, <5>3 DEF IsStacked
        <5>5. HasArgs(Config(Stacked(vals, n, none), env), vals, n, none, env)
          BY <1>5, <3>3, StackedArgs
        <5>6. EndOf(d) = [i \in 1..n |-> vals[i]]
          BY <5>1, <5>3, <5>4, <5>5 DEF EndOf, HasArgs
        <5>7. IsValuesOf(vals, g.body, env, registry, path)
          BY <1>0, <1>2, <1>7, ValuesOfIs
        <5>8. IsSeq(vals) /\ Len(vals) = n
          BY <1>5, <4>2, <5>7 DEF IsValuesOf, IsValues
        <5>9. vals = [i \in 1..n |-> vals[i]]
          BY <5>8, SeqShape DEF IsSeq
        <5> QED
          BY <5>6, <5>9
      <4> QED
        BY <4>1, <4>2
    <3> QED
      BY <2>2, <3>1, <3>2, <3>6, <3>7
  <2> QED
    BY <2>1, <2>2
<1> HIDE DEF lets, body
<1>12. PICK d : /\ Runs(g, body, mid, d, registry, path)
                /\ EndOf(d) = IF env = Failed THEN Failed ELSE vals
  BY <1>11
<1>16. Runs(g, lets, start, mid, registry, path) /\ Runs(g, body, mid, d, registry, path)
  BY <1>6, <1>12
<1>13. Runs(g, lets \o body, start, d, registry, path)
  BY <1>6, <1>8, <1>16, RunsBoth
<1>14. IsSeq(lets \o body)
  BY <1>6, <1>8, ConcatIsSeq
<1>15. Arrives(g, GraphSteps(g), start, MeaningOfGraph(g, args, registry, path), registry, path)
  BY <1>9, <1>10, <1>12, <1>13 DEF Arrives
<1> QED
  BY <1>3, <1>9, <1>14, <1>15

\* One step nearer, some steps more, and the end.
LEMMA ArrivesNext ==
    ASSUME NEW g, NEW steps, IsSeq(steps), steps # << >>, NEW c, NEW end, NEW registry, NEW path,
           Arrives(g, steps, c, end, registry, path)
    PROVE  /\ Sound(g, Head(steps), c, registry, path)
           /\ Arrives(g, Tail(steps), Effect(Head(steps), c, registry, path), end, registry, path)
<1>1. PICK d : Runs(g, steps, c, d, registry, path) /\ EndOf(d) = end
  BY DEF Arrives
<1>2. /\ Sound(g, Head(steps), c, registry, path)
      /\ Runs(g, Tail(steps), Effect(Head(steps), c, registry, path), d, registry, path)
  BY <1>1, RunsFirst
<1> QED
  BY <1>1, <1>2 DEF Arrives

\* Steps that lead to mid can be put before steps that lead on from it.
LEMMA ArrivesBy ==
    ASSUME NEW g, NEW s, IsSeq(s), NEW t, IsSeq(t), NEW c, NEW mid, NEW end, NEW registry, NEW path,
           Runs(g, s, c, mid, registry, path), Arrives(g, t, mid, end, registry, path)
    PROVE  Arrives(g, s \o t, c, end, registry, path)
<1>1. PICK d : Runs(g, t, mid, d, registry, path) /\ EndOf(d) = end
  BY DEF Arrives
<1>2. Runs(g, s \o t, c, d, registry, path)
  BY <1>1, RunsBoth
<1> QED
  BY <1>1, <1>2 DEF Arrives

\* A failure leads to no meaning, and to nothing else.
LEMMA ArrivesFailed ==
    ASSUME NEW g, NEW steps, IsSeq(steps), NEW end, NEW registry, NEW path
    PROVE  Arrives(g, steps, Failed, end, registry, path) <=> end = Failed
<1>1. EndOf(Failed) = Failed
  BY DEF EndOf
<1>2. Runs(g, steps, Failed, Failed, registry, path)
  BY RunsOnFailed
<1>3. ASSUME NEW d, Runs(g, steps, Failed, d, registry, path) PROVE d = Failed
  BY <1>3, RunsFailed
<1> QED
  BY <1>1, <1>2, <1>3 DEF Arrives

\* With no step left, the graph means what has been reached.
LEMMA ArrivesNow ==
    ASSUME NEW g, NEW c, NEW end, NEW registry, NEW path, Arrives(g, << >>, c, end, registry, path)
    PROVE  end = EndOf(c)
<1>1. PICK d : Runs(g, << >>, c, d, registry, path) /\ EndOf(d) = end
  BY DEF Arrives
<1>2. d = c
  BY <1>1, RunsNone
<1> QED
  BY <1>1, <1>2

------------------------------------------------------------------------------
(* Replacing a step by smaller ones *)

\* The shared values that a step may cache, and the names that it binds.
Uses(g, s) == {x.value : x \in (UNION {SharedIn(e) : e \in ExprsIn(s)}) \cup Kept(g, s)}
NamesBy(s) == IF s.step = "let" THEN ToSet(s.binding.names)
              ELSE IF s.step = "bind_values" THEN ToSet(s.names) ELSE {}
Within(g, r, s) == Uses(g, r) \subseteq Uses(g, s) /\ NamesBy(r) \subseteq NamesBy(s)

\* The steps do what the step does, and with nothing else.
Replaces(g, s, steps, stack, env, registry, path) ==
    /\ IsSeq(steps)
    /\ \A r \in ToSet(steps) : Within(g, r, s)
    /\ Runs(g, steps, Config(stack, env), Effect(s, Config(stack, env), registry, path),
            registry, path)

\* The graph, its results and its names are well formed.
WellFormed(g, stack, env, registry) ==
    /\ IsGraph(g) /\ IsShared(g) /\ IsSeq(stack) /\ IsEnv(env)
    /\ \A name \in DOMAIN registry : IsGraph(registry[name])

\* Lists of one and of two steps.
LEMMA OneStep ==
    ASSUME NEW a
    PROVE  IsSeq(<<a>>) /\ \A s \in ToSet(<<a>>) : s = a
<1>1. <<a>> \in Seq({a}) /\ DOMAIN <<a>> = {1} /\ <<a>>[1] = a
  OBVIOUS
<1> QED
  BY <1>1, SeqIsSeq DEF ToSet

\* The same for two steps, which are one step and then another.
LEMMA TwoSteps ==
    ASSUME NEW a, NEW b
    PROVE  /\ IsSeq(<<a, b>>) /\ \A s \in ToSet(<<a, b>>) : s = a \/ s = b
           /\ <<a, b>> = <<a>> \o <<b>>
<1>1. /\ <<a, b>> \in Seq({a, b}) /\ DOMAIN <<a, b>> = {1, 2}
      /\ <<a, b>>[1] = a /\ <<a, b>>[2] = b
  OBVIOUS
<1>2. <<a, b>> = <<a>> \o <<b>>
  <2>1. PICK s : s = <<a>>
    OBVIOUS
  <2>2. PICK t : t = <<b>>
    OBVIOUS
  <2>3. IsSeq(s) /\ IsSeq(t) /\ Len(s) = 1 /\ Len(t) = 1 /\ s[1] = a /\ t[1] = b
    BY <2>1, <2>2, OneStep
  <2>4. /\ IsSeq(s \o t) /\ Len(s \o t) = 2
        /\ \A i \in 1..2 : (s \o t)[i] = IF i <= 1 THEN s[i] ELSE t[i - 1]
    <3>1. /\ IsSeq(s \o t) /\ Len(s \o t) = Len(s) + Len(t)
          /\ \A i \in 1..Len(s) + Len(t) :
               (s \o t)[i] = IF i <= Len(s) THEN s[i] ELSE t[i - Len(s)]
      BY <2>3, ConcatIsSeq
    <3>2. Len(s) + Len(t) = 2
      BY <2>3
    <3> QED
      BY <2>3, <3>1, <3>2
  <2>5. PICK both : both = s \o t
    OBVIOUS
  <2>6. IsSeq(both) /\ Len(both) = 2 /\ both[1] = a /\ both[2] = b
    BY <2>3, <2>4, <2>5
  <2>7. PICK two : two = <<a, b>>
    OBVIOUS
  <2>8. IsSeq(two) /\ Len(two) = 2 /\ two[1] = a /\ two[2] = b
    BY <1>1, <2>7, SeqIsSeq
  <2>9. \A i \in 1..2 : i = 1 \/ i = 2
    OBVIOUS
  <2>10. two = both
    BY <2>6, <2>8, <2>9, SeqsEqual
  <2> QED
    BY <2>1, <2>2, <2>5, <2>7, <2>10
<1> QED
  BY <1>1, <1>2, SeqIsSeq DEF ToSet

\* Two sound steps lead where the second leads from where the first led.
LEMMA RunsTwo ==
    ASSUME NEW g, NEW a, NEW b, NEW c, NEW mid, NEW end, NEW registry, NEW path,
           Sound(g, a, c, registry, path), mid = Effect(a, c, registry, path),
           Sound(g, b, mid, registry, path), end = Effect(b, mid, registry, path)
    PROVE  Runs(g, <<a, b>>, c, end, registry, path)
<1>1. PICK s : s = <<a>>
  OBVIOUS
<1>2. PICK t : t = <<b>>
  OBVIOUS
<1>3. IsSeq(s) /\ IsSeq(t)
  BY <1>1, <1>2, OneStep
<1>4. Runs(g, s, c, mid, registry, path) /\ Runs(g, t, mid, end, registry, path)
  BY <1>1, <1>2, RunsOne
<1>5. Runs(g, s \o t, c, end, registry, path)
  BY <1>3, <1>4, RunsBoth
<1>6. <<a, b>> = s \o t
  BY <1>1, <1>2, TwoSteps
<1> QED
  BY <1>5, <1>6

\* Pushing a result and taking it off again.
LEMMA PoppedIs ==
    ASSUME FailedIsNone, NEW x, NEW stack, IsSeq(stack), NEW env
    PROVE  /\ Config(Push(x, stack), env) # Failed
           /\ Config(Push(x, stack), env).stack = Push(x, stack)
           /\ Config(Push(x, stack), env).env = env
           /\ Head(Config(Push(x, stack), env).stack) = x
           /\ Pop(1, Config(Push(x, stack), env)) = Config(stack, env)
<1>1. PICK c : c = Config(Push(x, stack), env)
  OBVIOUS
<1>2. PICK p : p = Push(x, stack)
  OBVIOUS
<1>3. c # Failed /\ c.stack = p /\ c.env = env
  BY <1>1, <1>2, ConfigIs
<1>4. PICK n : n = Len(stack) /\ n \in Nat
  BY SeqShape
<1>5. /\ IsSeq(p) /\ Len(p) = n + 1 /\ Head(p) = x
      /\ \A i \in 1..n : p[i + 1] = stack[i]
  BY <1>2, <1>4, PushIs
<1>6. PICK r : r = Drop(p, 1)
  OBVIOUS
<1>7. IsDropped(p, 1, r)
  <2>1. 1 \in Nat /\ 1 <= Len(p)
    BY <1>4, <1>5
  <2> QED
    BY <1>5, <1>6, <2>1, DropIs
<1>8. IsSeq(r) /\ Len(r) = n /\ \A i \in 1..n : r[i] = p[1 + i]
  <2>1. Len(p) - 1 = n
    BY <1>4, <1>5
  <2> QED
    BY <1>7, <2>1 DEF IsDropped
<1>9. \A i \in 1..n : 1 + i = i + 1
  BY <1>4
<1>10. r = stack
  BY <1>4, <1>5, <1>8, <1>9, SeqsEqual
<1>11. Pop(1, c) = Config(stack, env)
  BY <1>3, <1>6, <1>10 DEF Pop
<1> QED
  BY <1>1, <1>2, <1>3, <1>5, <1>11

\* The effect of lowering an expression that may have many values.
LEMMA LetValuesEffect ==
    ASSUME FailedIsNone, NEW e, NEW stack, NEW env, NEW registry, NEW path
    PROVE  Effect(LowerLetValues(e), Config(stack, env), registry, path)
             = IF MeaningOf(e, env, registry, path) = Failed THEN Failed
               ELSE Config(Push(MeaningOf(e, env, registry, path), stack), env)
<1>1. PICK c : c = Config(stack, env)
  OBVIOUS
<1>2. c # Failed /\ c.stack = stack /\ c.env = env
  BY <1>1, ConfigIs
<1>3. PICK s : s = LowerLetValues(e)
  OBVIOUS
<1>4. s.step = "lower_let_values" /\ s.expr = e
  BY <1>3 DEF LowerLetValues
<1>5. Effect(s, c, registry, path) = Pushed(MeaningOf(e, env, registry, path), c)
  BY <1>2, <1>4 DEF Effect, LiveEffect
<1> QED
  BY <1>1, <1>2, <1>3, <1>5 DEF Pushed

\* What is sound about steps that lower an expression.
LEMMA LoweringSound ==
    ASSUME FailedIsNone, NEW g, NEW e, NEW stack, NEW env, NEW registry, NEW path
    PROVE  /\ Sound(g, LowerExpr(e), Config(stack, env), registry, path)
                <=> CanLower(g, e, env, path)
           /\ Sound(g, LowerLetValues(e), Config(stack, env), registry, path)
                <=> CanLower(g, e, env, path)
<1>1. PICK c : c = Config(stack, env)
  OBVIOUS
<1>2. c # Failed /\ c.env = env
  BY <1>1, ConfigIs
<1>3. ASSUME NEW s, s = LowerExpr(e) \/ s = LowerLetValues(e)
      PROVE  Sound(g, s, c, registry, path) <=> CanLower(g, e, env, path)
  <2>1. s.step \in {"lower_expr", "lower_let_values"} /\ s.expr = e
    BY <1>3 DEF LowerExpr, LowerLetValues
  <2>2. ExprsIn(s) = {e}
    BY <2>1 DEF ExprsIn
  <2>3. CanLower(g, e, env, path) => Sound(g, s, c, registry, path)
    BY <1>2, <2>1, <2>2, PlainSound
  <2>4. Sound(g, s, c, registry, path) => CanLower(g, e, env, path)
    BY <1>2, <2>2 DEF Sound
  <2> QED
    BY <2>3, <2>4
<1> QED
  BY <1>1, <1>3

\* A call where a tensor is expected: the call, and a check of its result.
LEMMA SingleEffect ==
    ASSUME MeaningsAreDefined, NEW e \in Exprs, NEW g, NEW stack, NEW env, NEW registry, NEW path,
           WellFormed(g, stack, env, registry), NEW single, single = [step |-> "single"],
           NEW mid, mid = Pushed(MeaningOf(e, env, registry, path), Config(stack, env))
    PROVE  /\ Sound(g, single, mid, registry, path)
           /\ Effect(single, mid, registry, path)
                = Effect(LowerExpr(e), Config(stack, env), registry, path)
<1>0. FailedIsNone
  BY DEF MeaningsAreDefined
<1>1. PICK m : m = MeaningOf(e, env, registry, path)
  OBVIOUS
<1>2. m = Failed \/ IsValues(m)
  BY <1>1, MeaningIsAList DEF WellFormed
<1>3. PICK val : val = One(m)
  OBVIOUS
<1>4. Effect(LowerExpr(e), Config(stack, env), registry, path)
        = IF val = Failed THEN Failed ELSE Config(Push(<<val>>, stack), env)
  BY <1>0, <1>1, <1>3, ExprEffect
<1>5. single.step = "single" /\ ExprsIn(single) = {}
  BY DEF ExprsIn
<1>6. Sound(g, single, mid, registry, path)
  BY <1>5, PlainSound
<1>7. CASE m = Failed
  <2>1. mid = Failed /\ val = Failed
    BY <1>1, <1>3, <1>7 DEF Pushed, One
  <2> QED
    BY <1>4, <1>6, <2>1 DEF Effect
<1>8. CASE IsValues(m)
  <2>1. /\ m # Failed /\ (Len(m) # 1 => val = Failed)
        /\ Len(m) = 1 => val # Failed /\ m = <<val>>
    BY <1>0, <1>3, <1>8, OneOfValues
  <2>2. mid = Config(Push(m, stack), env)
    <3>1. Config(stack, env).stack = stack /\ Config(stack, env).env = env
      BY <1>0, ConfigIs
    <3> QED
      BY <1>1, <2>1, <3>1 DEF Pushed
  <2>3. mid # Failed /\ Head(mid.stack) = m
    BY <1>0, <2>2, PoppedIs DEF WellFormed
  <2>4. Effect(single, mid, registry, path) = IF Len(m) = 1 THEN mid ELSE Failed
    BY <1>5, <2>3 DEF Effect, LiveEffect
  <2> QED
    BY <1>4, <1>6, <2>1, <2>2, <2>4
<1> QED
  BY <1>2, <1>7, <1>8

\* The steps of a call cache and bind nothing of their own.
LEMMA CallIsWithin ==
    ASSUME NEW g, NEW e \in Exprs, e.kind \in {"Call", "Graph"}, NEW s, ExprsIn(s) = {e},
           NEW r \in ToSet(CallSteps(e))
    PROVE  Within(g, r, s)
<1>1. PICK steps : steps = CallSteps(e)
  OBVIOUS
<1>2. PICK n : n = Len(e.args) /\ n \in Nat
  BY CallStepsAre
<1>3. /\ IsSeq(steps) /\ Len(steps) = n + 1
      /\ \A i \in 1..n : steps[i] = LowerExpr(e.args[i])
  BY <1>1, <1>2, CallStepsAre
<1>4. steps[n + 1] = CallStep(e)
  BY <1>1, <1>2, CallStepsAre DEF CallStep
<1>5. PICK i \in 1..n + 1 : r = steps[i]
  BY <1>1, <1>3, SeqShape DEF ToSet
<1>6. CASE i \in 1..n
  <2>1. r = LowerExpr(e.args[i]) /\ e.args[i] \in Children(e)
    BY <1>2, <1>3, <1>5, <1>6, ChildrenAre
  <2>2. r.step = "lower_expr" /\ r.expr = e.args[i]
    BY <2>1 DEF LowerExpr
  <2>3. SharedIn(e.args[i]) \subseteq SharedIn(e)
    BY <2>1, ChildIsPart
  <2>4. ExprsIn(r) = {e.args[i]} /\ Kept(g, r) = {} /\ NamesBy(r) = {}
    BY <2>2 DEF ExprsIn, Kept, NamesBy
  <2> QED
    BY <2>3, <2>4 DEF Within, Uses
<1>7. CASE i = n + 1
  <2>1. r.step \in {"inline_graph", "emit"}
    BY <1>4, <1>5, <1>7 DEF CallStep
  <2>2. ExprsIn(r) = {} /\ Kept(g, r) = {} /\ NamesBy(r) = {}
    BY <2>1 DEF ExprsIn, Kept, NamesBy
  <2> QED
    BY <2>2 DEF Within, Uses
<1> QED
  BY <1>2, <1>5, <1>6, <1>7

\* LowerCall.
LEMMA ReplaceCall ==
    ASSUME MeaningsAreDefined, NEW g, NEW e, e.kind \in {"Call", "Graph"},
           NEW stack, NEW env, NEW registry, NEW path,
           WellFormed(g, stack, env, registry), CanLower(g, e, env, path)
    PROVE  Replaces(g, LowerExpr(e), Append(CallSteps(e), [step |-> "single"]),
                    stack, env, registry, path)
<1>1. e \in Exprs
  BY PartsAreClosed DEF CanLower, WellFormed
<1>2. PICK s : s = LowerExpr(e)
  OBVIOUS
<1>3. PICK single : single = [step |-> "single"]
  OBVIOUS
<1>4. PICK calls : calls = CallSteps(e)
  OBVIOUS
<1>5. PICK c : c = Config(stack, env)
  OBVIOUS
<1>6. PICK mid : mid = Pushed(MeaningOf(e, env, registry, path), c)
  OBVIOUS
<1>7. PICK end : end = Effect(s, c, registry, path)
  OBVIOUS
<1>8. PICK one : one = <<single>>
  OBVIOUS
<1>9. IsSeq(calls) /\ Runs(g, calls, c, mid, registry, path)
  BY <1>4, <1>5, <1>6, RunsCall DEF WellFormed
<1>10. IsSeq(one) /\ Runs(g, one, mid, end, registry, path)
  <2>1. Sound(g, single, mid, registry, path) /\ Effect(single, mid, registry, path) = end
    BY <1>1, <1>2, <1>3, <1>5, <1>6, <1>7, SingleEffect
  <2>2. Runs(g, <<single>>, mid, Effect(single, mid, registry, path), registry, path)
    BY <2>1, RunsOne
  <2> QED
    BY <1>8, <2>1, <2>2, OneStep
<1>11. Runs(g, calls \o one, c, end, registry, path)
  BY <1>9, <1>10, RunsBoth
<1>12. Append(calls, single) = calls \o one
  BY <1>8, <1>9, AppendedList
<1>13. PICK steps : steps = Append(calls, single)
  OBVIOUS
<1>14. /\ IsSeq(steps) /\ Len(steps) = Len(calls) + 1
       /\ \A i \in 1..Len(calls) : steps[i] = calls[i]
       /\ steps[Len(calls) + 1] = single
  BY <1>9, <1>13, AppendIsSeq
<1>15. ASSUME NEW r \in ToSet(steps) PROVE Within(g, r, s)
  <2>1. s.step = "lower_expr" /\ s.expr = e
    BY <1>2 DEF LowerExpr
  <2>2. ExprsIn(s) = {e}
    BY <2>1 DEF ExprsIn
  <2>3. r \in ToSet(calls) \/ r = single
    <3>1. Len(calls) \in Nat /\ DOMAIN calls = 1..Len(calls) /\ DOMAIN steps = 1..Len(calls) + 1
      BY <1>9, <1>14, SeqShape
    <3> QED
      BY <1>14, <3>1 DEF ToSet
  <2>4. CASE r \in ToSet(calls)
    BY <1>1, <1>4, <2>2, <2>4, CallIsWithin
  <2>5. CASE r = single
    BY <1>3, <2>5 DEF Within, Uses, ExprsIn, Kept, NamesBy
  <2> QED
    BY <2>3, <2>4, <2>5
<1>16. Replaces(g, s, steps, stack, env, registry, path)
  BY <1>5, <1>7, <1>11, <1>12, <1>13, <1>14, <1>15 DEF Replaces
<1> QED
  BY <1>2, <1>3, <1>4, <1>13, <1>16

\* A step that keeps a value uses that value only.
LEMMA KeepUses ==
    ASSUME NEW g, NEW b, b.step \in {"keep_node", "keep_tuple"}, NEW v,
           \A x \in Kept(g, b) : x.value = v
    PROVE  \A u \in Uses(g, b) : u = v
<1>1. ExprsIn(b) = {}
  BY DEF ExprsIn
<1>2. PICK old : old = UNION {SharedIn(e) : e \in ExprsIn(b)}
  OBVIOUS
<1>3. old = {}
  BY <1>1, <1>2
<1>4. PICK all : all = old \cup Kept(g, b)
  OBVIOUS
<1>5. Uses(g, b) = {x.value : x \in all}
  BY <1>2, <1>4 DEF Uses
<1>6. \A x \in all : x.value = v
  BY <1>3, <1>4
<1> QED
  BY <1>5, <1>6

\* LowerNode, when the node is not cached.
LEMMA ReplaceNode ==
    ASSUME MeaningsAreDefined, NEW g, NEW e, e.kind = "Node", NEW key, key[2] = e.node_id,
           NEW stack, NEW env, NEW registry, NEW path,
           WellFormed(g, stack, env, registry), CanLower(g, e, env, path)
    PROVE  Replaces(g, LowerExpr(e), <<LowerExpr(e.value), [step |-> "keep_node", key |-> key]>>,
                    stack, env, registry, path)
<1>0. FailedIsNone /\ MeaningRules
  BY DEF MeaningsAreDefined
<1>1. e \in Exprs /\ e \in PartsOf(g)
  BY PartsAreClosed DEF CanLower, WellFormed
<1>2. e.value \in Children(e)
  BY <1>1, ChildrenAre
<1>3. PICK s : s = LowerExpr(e)
  OBVIOUS
<1>4. PICK a : a = LowerExpr(e.value)
  OBVIOUS
<1>5. PICK b : b = [step |-> "keep_node", key |-> key]
  OBVIOUS
<1>6. PICK c : c = Config(stack, env)
  OBVIOUS
<1>7. PICK val : val = One(MeaningOf(e.value, env, registry, path))
  OBVIOUS
<1>8. PICK mid : mid = IF val = Failed THEN Failed ELSE Config(Push(<<val>>, stack), env)
  OBVIOUS
<1>9. mid = Effect(a, c, registry, path)
  BY <1>0, <1>4, <1>6, <1>7, <1>8, ExprEffect
<1>10. mid = Effect(s, c, registry, path)
  <2>1. IsMeaning(MeaningOf(e, env, registry, path), e, env, registry, path)
    BY <1>0, <1>1, MeaningIs
  <2>2. val = One(MeaningOf(e, env, registry, path))
    BY <1>7, <2>1 DEF IsMeaning
  <2> QED
    BY <1>0, <1>3, <1>6, <1>8, <2>2, ExprEffect
<1>11. Sound(g, a, c, registry, path)
  <2>1. CanLower(g, e.value, env, path)
    BY <1>2, ChildrenCanBeLowered DEF WellFormed
  <2> QED
    BY <1>0, <1>4, <1>6, <2>1, LoweringSound
<1>12. b.step = "keep_node" /\ b.key[2] = e.node_id
  BY <1>5
<1>13. \A x \in Kept(g, b) : x.value = e.value
  BY <1>1, <1>12 DEF Kept, WellFormed, IsShared
<1>14. mid = Effect(b, mid, registry, path)
  BY <1>12 DEF Effect, LiveEffect
<1>15. Sound(g, b, mid, registry, path)
  <2> SUFFICES ASSUME mid # Failed PROVE \A x \in Kept(g, b) : CanKeep(b, x, mid, registry, path)
    BY <1>12 DEF Sound, ExprsIn
  <2>1. val # Failed /\ mid = Config(Push(<<val>>, stack), env)
    BY <1>8
  <2>2. Head(mid.stack) = <<val>> /\ mid.env = env
    BY <1>0, <2>1, PoppedIs DEF WellFormed
  <2> QED
    BY <1>7, <1>12, <1>13, <2>1, <2>2 DEF CanKeep
<1>16. PICK steps : steps = <<a, b>>
  OBVIOUS
<1>17. Runs(g, steps, c, mid, registry, path)
  BY <1>9, <1>11, <1>14, <1>15, <1>16, RunsTwo
<1>18. IsSeq(steps) /\ \A r \in ToSet(steps) : r = a \/ r = b
  BY <1>16, TwoSteps
<1>19. Within(g, a, s) /\ Within(g, b, s)
  <2>1. s.step = "lower_expr" /\ s.expr = e /\ a.step = "lower_expr" /\ a.expr = e.value
    BY <1>3, <1>4 DEF LowerExpr
  <2>2. /\ ExprsIn(s) = {e} /\ ExprsIn(a) = {e.value} /\ ExprsIn(b) = {}
        /\ Kept(g, a) = {} /\ NamesBy(a) = {} /\ NamesBy(b) = {}
    BY <1>12, <2>1 DEF ExprsIn, Kept, NamesBy
  <2>3. SharedIn(e.value) \subseteq SharedIn(e) /\ e \in SharedIn(e)
    BY <1>1, <1>2, ChildIsPart DEF SharedIn
  <2>4. Within(g, a, s)
    BY <2>2, <2>3 DEF Within, Uses
  <2>5. e.value \in Uses(g, s)
    BY <2>2, <2>3 DEF Uses
  <2>6. Within(g, b, s)
    <3>1. \A v \in Uses(g, b) : v = e.value
      BY <1>12, <1>13, KeepUses
    <3> QED
      BY <2>2, <2>5, <3>1 DEF Within
  <2> QED
    BY <2>4, <2>6
<1>20. Replaces(g, s, steps, stack, env, registry, path)
  BY <1>6, <1>10, <1>17, <1>18, <1>19 DEF Replaces
<1> QED
  BY <1>3, <1>4, <1>5, <1>16, <1>20

\* LowerTupleGet, when the tuple is not cached.
LEMMA ReplaceTupleGet ==
    ASSUME MeaningsAreDefined, NEW g, NEW e, e.kind = "TupleGet",
           NEW key, key[2] = e.tuple_id, NEW stack, NEW env, NEW registry, NEW path,
           WellFormed(g, stack, env, registry), CanLower(g, e, env, path)
    PROVE  Replaces(g, LowerExpr(e),
                    <<LowerLetValues(e.value),
                      [step |-> "keep_tuple", key |-> key, index |-> e.index]>>,
                    stack, env, registry, path)
<1>0. FailedIsNone /\ MeaningRules
  BY DEF MeaningsAreDefined
<1>1. e \in Exprs /\ e \in PartsOf(g)
  BY PartsAreClosed DEF CanLower, WellFormed
<1>2. e.value \in Children(e)
  BY <1>1, ChildrenAre
<1>3. PICK s : s = LowerExpr(e)
  OBVIOUS
<1>4. PICK a : a = LowerLetValues(e.value)
  OBVIOUS
<1>5. PICK b : b = [step |-> "keep_tuple", key |-> key, index |-> e.index]
  OBVIOUS
<1>6. PICK c : c = Config(stack, env)
  OBVIOUS
<1>7. PICK tuple : tuple = MeaningOf(e.value, env, registry, path)
  OBVIOUS
<1>8. PICK mid : mid = IF tuple = Failed THEN Failed ELSE Config(Push(tuple, stack), env)
  OBVIOUS
<1>9. mid = Effect(a, c, registry, path)
  BY <1>0, <1>4, <1>6, <1>7, <1>8, LetValuesEffect
<1>10. Sound(g, a, c, registry, path)
  <2>1. CanLower(g, e.value, env, path)
    BY <1>2, ChildrenCanBeLowered DEF WellFormed
  <2> QED
    BY <1>0, <1>4, <1>6, <2>1, LoweringSound
<1>11. b.step = "keep_tuple" /\ b.key[2] = e.tuple_id /\ b.index = e.index
  BY <1>5
<1>12. \A x \in Kept(g, b) : x.value = e.value
  BY <1>1, <1>11 DEF Kept, WellFormed, IsShared
<1>13. tuple # Failed =>
         /\ mid # Failed /\ Head(mid.stack) = tuple /\ mid.env = env /\ Pop(1, mid) = c
  <2>1. IsSeq(stack)
    BY DEF WellFormed
  <2> QED
    BY <1>0, <1>6, <1>8, <2>1, PoppedIs
<1>14. PICK end : end = Effect(s, c, registry, path)
  OBVIOUS
<1>15. PICK m : m = MeaningOf(e, env, registry, path)
  OBVIOUS
<1>16. m = IF tuple # Failed /\ e.index \in DOMAIN tuple THEN <<tuple[e.index]>> ELSE Failed
  <2>1. IsMeaning(m, e, env, registry, path)
    BY <1>0, <1>1, <1>15, MeaningIs
  <2> QED
    BY <1>7, <2>1 DEF IsMeaning
<1>17. PICK val : val = One(m)
  OBVIOUS
<1>18. end = IF val = Failed THEN Failed ELSE Config(Push(<<val>>, stack), env)
  BY <1>0, <1>3, <1>6, <1>14, <1>15, <1>17, ExprEffect
<1>19. end = Effect(b, mid, registry, path)
  <2>1. CASE tuple = Failed
    <3>1. val = Failed /\ mid = Failed
      BY <1>8, <1>16, <1>17, <2>1 DEF One
    <3> QED
      BY <1>18, <3>1 DEF Effect
  <2>2. CASE tuple # Failed /\ e.index \notin DOMAIN tuple
    <3>1. val = Failed
      BY <1>16, <1>17, <2>2 DEF One
    <3> QED
      BY <1>11, <1>13, <1>18, <2>2, <3>1 DEF Effect, LiveEffect
  <2>3. CASE tuple # Failed /\ e.index \in DOMAIN tuple
    <3>1. PICK v : v = tuple[e.index]
      OBVIOUS
    <3>2. tuple = Failed \/ IsValues(tuple)
      <4>1. e.value \in Exprs
        BY <1>1, <1>2, ChildIsPart
      <4> QED
        BY <1>7, <4>1, MeaningIsAList DEF WellFormed
    <3>3. v # Failed
      BY <2>3, <3>1, <3>2, SeqShape DEF IsValues
    <3>4. <<v>> # Failed /\ val = v
      BY <1>0, <1>16, <1>17, <2>3, <3>1, OneValue
    <3>5. Effect(b, mid, registry, path) = Pushed(<<v>>, c)
      BY <1>11, <1>13, <2>3, <3>1 DEF Effect, LiveEffect
    <3>6. c.stack = stack /\ c.env = env
      BY <1>0, <1>6, ConfigIs
    <3> QED
      BY <1>18, <3>3, <3>4, <3>5, <3>6 DEF Pushed
  <2> QED
    BY <2>1, <2>2, <2>3
<1>20. Sound(g, b, mid, registry, path)
  <2> SUFFICES ASSUME mid # Failed PROVE \A x \in Kept(g, b) : CanKeep(b, x, mid, registry, path)
    BY <1>11 DEF Sound, ExprsIn
  <2>1. tuple # Failed
    BY <1>8
  <2> QED
    BY <1>7, <1>11, <1>12, <1>13, <2>1 DEF CanKeep
<1>21. PICK steps : steps = <<a, b>>
  OBVIOUS
<1>22. Runs(g, steps, c, end, registry, path)
  BY <1>9, <1>10, <1>19, <1>20, <1>21, RunsTwo
<1>23. IsSeq(steps) /\ \A r \in ToSet(steps) : r = a \/ r = b
  BY <1>21, TwoSteps
<1>24. Within(g, a, s) /\ Within(g, b, s)
  <2>1. s.step = "lower_expr" /\ s.expr = e /\ a.step = "lower_let_values" /\ a.expr = e.value
    BY <1>3, <1>4 DEF LowerExpr, LowerLetValues
  <2>2. /\ ExprsIn(s) = {e} /\ ExprsIn(a) = {e.value} /\ ExprsIn(b) = {}
        /\ Kept(g, a) = {} /\ NamesBy(a) = {} /\ NamesBy(b) = {}
    BY <1>11, <2>1 DEF ExprsIn, Kept, NamesBy
  <2>3. SharedIn(e.value) \subseteq SharedIn(e) /\ e \in SharedIn(e)
    BY <1>1, <1>2, ChildIsPart DEF SharedIn
  <2>4. Within(g, a, s)
    BY <2>2, <2>3 DEF Within, Uses
  <2>5. e.value \in Uses(g, s)
    BY <2>2, <2>3 DEF Uses
  <2>6. Within(g, b, s)
    <3>1. \A v \in Uses(g, b) : v = e.value
      BY <1>11, <1>12, KeepUses
    <3> QED
      BY <2>2, <2>5, <3>1 DEF Within
  <2> QED
    BY <2>4, <2>6
<1>25. Replaces(g, s, steps, stack, env, registry, path)
  BY <1>6, <1>14, <1>22, <1>23, <1>24 DEF Replaces
<1> QED
  BY <1>3, <1>4, <1>5, <1>21, <1>25

\* One step that has the same effect.
LEMMA ReplaceOne ==
    ASSUME NEW g, NEW s, NEW a, NEW stack, NEW env, NEW registry, NEW path,
           Sound(g, a, Config(stack, env), registry, path), Within(g, a, s),
           Effect(a, Config(stack, env), registry, path)
             = Effect(s, Config(stack, env), registry, path)
    PROVE  Replaces(g, s, <<a>>, stack, env, registry, path)
<1>1. PICK steps : steps = <<a>>
  OBVIOUS
<1>2. PICK c : c = Config(stack, env)
  OBVIOUS
<1>3. Runs(g, steps, c, Effect(s, c, registry, path), registry, path)
  BY <1>1, <1>2, RunsOne
<1>4. IsSeq(steps) /\ \A r \in ToSet(steps) : r = a
  BY <1>1, OneStep
<1>5. Replaces(g, s, steps, stack, env, registry, path)
  BY <1>2, <1>3, <1>4 DEF Replaces
<1> QED
  BY <1>1, <1>5

\* LowerLetOrTuple.
LEMMA ReplaceLetOrTuple ==
    ASSUME MeaningsAreDefined, NEW g, NEW e, NEW stack, NEW env, NEW registry, NEW path,
           WellFormed(g, stack, env, registry), CanLower(g, e, env, path)
    PROVE  Replaces(g, LowerLetValues(e),
                    CASE e.kind = "Node" -> <<LowerLetValues(e.value)>>
                      [] e.kind \in {"Call", "Graph"} -> CallSteps(e)
                      [] OTHER -> <<LowerExpr(e)>>,
                    stack, env, registry, path)
<1>0. FailedIsNone /\ MeaningRules
  BY DEF MeaningsAreDefined
<1>1. e \in Exprs
  BY PartsAreClosed DEF CanLower, WellFormed
<1>2. PICK s : s = LowerLetValues(e)
  OBVIOUS
<1>3. PICK c : c = Config(stack, env)
  OBVIOUS
<1>4. s.step = "lower_let_values" /\ s.expr = e /\ ExprsIn(s) = {e}
  BY <1>2 DEF LowerLetValues, ExprsIn
<1>5. PICK m : m = MeaningOf(e, env, registry, path)
  OBVIOUS
<1>6. IsMeaning(m, e, env, registry, path)
  BY <1>0, <1>1, <1>5, MeaningIs
<1>7. Effect(s, c, registry, path)
        = IF m = Failed THEN Failed ELSE Config(Push(m, stack), env)
  BY <1>0, <1>2, <1>3, <1>5, LetValuesEffect
<1>8. CASE e.kind = "Node"
  <2>1. PICK a : a = LowerLetValues(e.value)
    OBVIOUS
  <2>2. e.value \in Children(e)
    BY <1>1, <1>8, ChildrenAre
  <2>3. Sound(g, a, c, registry, path)
    <3>1. CanLower(g, e.value, env, path)
      BY <2>2, ChildrenCanBeLowered DEF WellFormed
    <3> QED
      BY <1>0, <1>3, <2>1, <3>1, LoweringSound
  <2>4. Effect(a, c, registry, path) = Effect(s, c, registry, path)
    <3>1. m = MeaningOf(e.value, env, registry, path)
      BY <1>6, <1>8 DEF IsMeaning
    <3> QED
      BY <1>0, <1>3, <1>7, <2>1, <3>1, LetValuesEffect
  <2>5. Within(g, a, s)
    <3>1. a.step = "lower_let_values" /\ a.expr = e.value
      BY <2>1 DEF LowerLetValues
    <3>2. ExprsIn(a) = {e.value} /\ Kept(g, a) = {} /\ NamesBy(a) = {}
      BY <3>1 DEF ExprsIn, Kept, NamesBy
    <3>3. SharedIn(e.value) \subseteq SharedIn(e)
      BY <1>1, <2>2, ChildIsPart
    <3> QED
      BY <1>4, <3>2, <3>3 DEF Within, Uses
  <2>6. Replaces(g, s, <<a>>, stack, env, registry, path)
    BY <1>3, <2>3, <2>4, <2>5, ReplaceOne
  <2> QED
    BY <1>2, <1>8, <2>1, <2>6
<1>9. CASE e.kind \in {"Call", "Graph"}
  <2>1. PICK steps : steps = CallSteps(e)
    OBVIOUS
  <2>2. IsSeq(steps) /\ Runs(g, steps, c, Pushed(m, c), registry, path)
    BY <1>3, <1>5, <1>9, <2>1, RunsCall DEF WellFormed
  <2>3. Pushed(m, c) = Effect(s, c, registry, path)
    BY <1>0, <1>3, <1>7, ConfigIs DEF Pushed
  <2>4. \A r \in ToSet(steps) : Within(g, r, s)
    BY <1>1, <1>4, <1>9, <2>1, CallIsWithin
  <2>5. Replaces(g, s, steps, stack, env, registry, path)
    BY <1>3, <2>2, <2>3, <2>4 DEF Replaces
  <2> QED
    BY <1>2, <1>9, <2>1, <2>5
<1>10. CASE e.kind \notin {"Node", "Call", "Graph"}
  <2>1. PICK a : a = LowerExpr(e)
    OBVIOUS
  <2>2. Sound(g, a, c, registry, path)
    BY <1>0, <1>3, <2>1, LoweringSound
  <2>3. PICK val : val = One(m)
    OBVIOUS
  <2>4. Effect(a, c, registry, path)
          = IF val = Failed THEN Failed ELSE Config(Push(<<val>>, stack), env)
    BY <1>0, <1>3, <1>5, <2>1, <2>3, ExprEffect
  <2>5. m = Failed \/ \E v : m = <<v>>
    BY <1>1, <1>6, <1>10, ExprsAssumption DEF IsMeaning
  <2>6. m = Failed \/ IsValues(m)
    BY <1>1, <1>5, MeaningIsAList DEF WellFormed
  <2>7. Effect(a, c, registry, path) = Effect(s, c, registry, path)
    <3>1. CASE m = Failed
      BY <1>7, <2>3, <2>4, <3>1 DEF One
    <3>2. CASE m # Failed
      <4>1. Len(m) = 1
        BY <2>5, <3>2
      <4>2. val # Failed /\ m = <<val>>
        BY <1>0, <2>3, <2>6, <3>2, <4>1, OneOfValues
      <4> QED
        BY <1>7, <2>4, <3>2, <4>2
    <3> QED
      BY <3>1, <3>2
  <2>8. Within(g, a, s)
    <3>1. a.step = "lower_expr" /\ a.expr = e
      BY <2>1 DEF LowerExpr
    <3>2. ExprsIn(a) = {e} /\ Kept(g, a) = {} /\ NamesBy(a) = {}
      BY <3>1 DEF ExprsIn, Kept, NamesBy
    <3> QED
      BY <1>4, <3>2 DEF Within, Uses
  <2>9. Replaces(g, s, <<a>>, stack, env, registry, path)
    BY <1>3, <2>2, <2>7, <2>8, ReplaceOne
  <2> QED
    BY <1>2, <1>10, <2>1, <2>9
<1> QED
  BY <1>8, <1>9, <1>10

\* LowerLet.
LEMMA ReplaceLet ==
    ASSUME MeaningsAreDefined, NEW g, NEW l, IsSeq(l.names),
           NEW s, s.step = "let", s.binding = l, NEW stack, NEW env, NEW registry, NEW path,
           WellFormed(g, stack, env, registry), CanLower(g, l.value, env, path)
    PROVE  Replaces(g, s, <<LowerLetValues(l.value), [step |-> "bind_values", names |-> l.names]>>,
                    stack, env, registry, path)
<1>0. FailedIsNone /\ MeaningRules
  BY DEF MeaningsAreDefined
<1>1. l.value \in Exprs
  BY PartsAreClosed DEF CanLower, WellFormed
<1>2. PICK a : a = LowerLetValues(l.value)
  OBVIOUS
<1>3. PICK b : b = [step |-> "bind_values", names |-> l.names]
  OBVIOUS
<1>4. PICK c : c = Config(stack, env)
  OBVIOUS
<1>5. PICK vals : vals = MeaningOf(l.value, env, registry, path)
  OBVIOUS
<1>6. PICK mid : mid = IF vals = Failed THEN Failed ELSE Config(Push(vals, stack), env)
  OBVIOUS
<1>7. mid = Effect(a, c, registry, path)
  BY <1>0, <1>2, <1>4, <1>5, <1>6, LetValuesEffect
<1>8. PICK end : end = Effect(s, c, registry, path)
  OBVIOUS
<1>9. Sound(g, a, c, registry, path)
  BY <1>0, <1>2, <1>4, LoweringSound
<1>10. b.step = "bind_values" /\ b.names = l.names
  BY <1>3
<1>11. vals # Failed =>
         /\ mid # Failed /\ Head(mid.stack) = vals /\ mid.env = env /\ Pop(1, mid) = c
  <2>1. IsSeq(stack)
    BY DEF WellFormed
  <2> QED
    BY <1>0, <1>4, <1>6, <2>1, PoppedIs
<1>12. Sound(g, b, mid, registry, path)
  <2>1. ExprsIn(b) = {} /\ Kept(g, b) = {}
    BY <1>10 DEF ExprsIn, Kept
  <2>2. vals # Failed => IsValues(vals)
    BY <1>1, <1>5, MeaningIsAList DEF WellFormed
  <2>3. mid # Failed => IsValues(Head(mid.stack))
    BY <1>6, <1>11, <2>2
  <2> QED
    BY <1>10, <2>1, <2>3 DEF Sound
<1>13. PICK new : new = Bound(env, l.names, vals).map
  OBVIOUS
<1>14. new # Failed
  BY <1>0, <1>13, BoundMapIs DEF IsBound, FailedIsNone
<1>15. c # Failed /\ c.stack = stack /\ c.env = env /\ env # Failed
  <2>1. env # Failed
    BY <1>0 DEF FailedIsNone, WellFormed, IsEnv
  <2> QED
    BY <1>0, <1>4, <2>1, ConfigIs
<1>16. Binding(env, l, registry, path)
         = IF vals # Failed /\ Len(vals) = Len(l.names) THEN new ELSE Failed
  BY <1>5, <1>13, <1>15 DEF Binding
<1>17. end = IF vals # Failed /\ Len(vals) = Len(l.names) THEN Config(stack, new) ELSE Failed
  BY <1>8, <1>14, <1>15, <1>16 DEF Effect, LiveEffect
<1>18. end = Effect(b, mid, registry, path)
  <2>1. CASE vals = Failed
    BY <1>6, <1>17, <2>1 DEF Effect
  <2>2. CASE vals # Failed
    BY <1>10, <1>11, <1>13, <1>15, <1>17, <2>2 DEF Effect, LiveEffect
  <2> QED
    BY <2>1, <2>2
<1>19. PICK steps : steps = <<a, b>>
  OBVIOUS
<1>20. Runs(g, steps, c, end, registry, path)
  BY <1>7, <1>9, <1>12, <1>18, <1>19, RunsTwo
<1>21. IsSeq(steps) /\ \A r \in ToSet(steps) : r = a \/ r = b
  BY <1>19, TwoSteps
<1>22. Within(g, a, s) /\ Within(g, b, s)
  <2>1. a.step = "lower_let_values" /\ a.expr = l.value
    BY <1>2 DEF LowerLetValues
  <2>2. /\ ExprsIn(s) = {l.value} /\ ExprsIn(a) = {l.value} /\ ExprsIn(b) = {}
        /\ Kept(g, a) = {} /\ Kept(g, b) = {}
    BY <1>10, <2>1 DEF ExprsIn, Kept
  <2>3. NamesBy(a) = {} /\ NamesBy(b) = NamesBy(s)
    BY <1>10, <2>1 DEF NamesBy
  <2>4. Uses(g, b) = {}
    BY <2>2 DEF Uses
  <2> QED
    BY <2>2, <2>3, <2>4 DEF Within, Uses
<1>23. Replaces(g, s, steps, stack, env, registry, path)
  BY <1>4, <1>8, <1>20, <1>21, <1>22 DEF Replaces
<1> QED
  BY <1>2, <1>3, <1>19, <1>23
==============================================================================
