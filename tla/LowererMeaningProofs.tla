------------------------- MODULE LowererMeaningProofs -------------------------
(***************************************************************************)
(* The proof that the function that Lowerer emits computes what the graph  *)
(* means, for any programs and operations, and that lowering gives up only *)
(* on a graph that means nothing.                                          *)
(***************************************************************************)
EXTENDS LowererRunsProofs

(***************************************************************************)
(* Each graph being lowered has names of its own, env, whatever the other  *)
(* graphs have put into the lowerer's map of names.  The graph, arguments  *)
(* and path of calls that it was entered with are its frame.               *)
(***************************************************************************)
FrameMeaning(f, registry) == MeaningOfGraph(f.graph, f.args, registry, f.path)

\* The lowerer has the values of these names; it may have others.
Agrees(f, env, map) ==
    IF Len(f.path) = 1 THEN map = env
    ELSE \A name \in DOMAIN env : name \in DOMAIN map /\ map[name] = env[name]

\* No step binds a name of this expression.
Undisturbed(v, steps) ==
    \A i \in 1..Len(steps) : VarsOf(v) \cap NamesBy(steps[i]) = {}

\* What a step may cache is not disturbed by the steps from it on.
Calm(g, steps) ==
    \A i \in 1..Len(steps) : \A j \in i..Len(steps) :
        \A v \in Uses(g, steps[i]) : VarsOf(v) \cap NamesBy(steps[j]) = {}

\* A node that is cached has its value, now and for all steps to come, and a
\* tuple its values.
NodeIsKept(x, nv, key, f, env, registry) ==
    LET val == One(MeaningOf(x.value, env, registry, f.path))
    IN  val # Failed /\ nv[key] = val
TupleIsKept(x, tv, key, f, env, registry) ==
    LET vals == MeaningOf(x.value, env, registry, f.path)
    IN  vals # Failed /\ tv[key] = vals

Cached(f, env, steps, scope, nv, tv, registry) ==
    \A x \in PartsOf(f.graph) :
        /\ x.kind = "Node" /\ <<scope, x.node_id>> \in DOMAIN nv =>
             /\ NodeIsKept(x, nv, <<scope, x.node_id>>, f, env, registry)
             /\ Undisturbed(x.value, steps)
        /\ x.kind = "TupleGet" /\ <<scope, x.tuple_id>> \in DOMAIN tv =>
             /\ TupleIsKept(x, tv, <<scope, x.tuple_id>>, f, env, registry)
             /\ Undisturbed(x.value, steps)

\* The steps of a frame lead from c to what the frame means.
FrameOk(f, env, map, steps, stack, c, scope, nv, tv, registry) ==
    /\ IsGraph(f.graph) /\ IsShared(f.graph) /\ IsEnv(env) /\ IsSeq(stack) /\ IsSeq(steps)
    /\ Agrees(f, env, map)
    /\ Calm(f.graph, steps)
    /\ Cached(f, env, steps, scope, nv, tv, registry)
    /\ Arrives(f.graph, steps, c, FrameMeaning(f, registry), registry, f.path)

------------------------------------------------------------------------------
(* One step of a frame *)

\* Steps that come from one step disturb nothing that it did not disturb.
LEMMA WithinIsCalm ==
    ASSUME NEW g, NEW steps, IsSeq(steps), steps # << >>, Calm(g, steps),
           NEW new, IsSeq(new), \A r \in ToSet(new) : Within(g, r, Head(steps))
    PROVE  /\ Calm(g, new \o Tail(steps))
           /\ \A v : Undisturbed(v, steps) => Undisturbed(v, new \o Tail(steps))
<1>1. PICK n : n = Len(steps) /\ n \in Nat \ {0}
  BY SeqShape
<1>2. PICK rest : rest = Tail(steps)
  OBVIOUS
<1>3. /\ IsSeq(rest) /\ Len(rest) = n - 1 /\ Head(steps) = steps[1]
      /\ \A i \in 1..n - 1 : rest[i] = steps[i + 1]
  BY <1>1, <1>2, TailIsSeq
<1>4. PICK m : m = Len(new) /\ m \in Nat
  BY SeqShape
<1>5. PICK both : both = new \o rest
  OBVIOUS
<1>6. /\ IsSeq(both) /\ Len(both) = m + n - 1
      /\ \A i \in 1..m + n - 1 : both[i] = IF i <= m THEN new[i] ELSE rest[i - m]
  <2>1. /\ IsSeq(both) /\ Len(both) = m + Len(rest)
        /\ \A i \in 1..m + Len(rest) : both[i] = IF i <= m THEN new[i] ELSE rest[i - m]
    BY <1>3, <1>4, <1>5, ConcatIsSeq
  <2>2. m + Len(rest) = m + n - 1
    BY <1>1, <1>3, <1>4
  <2> QED
    BY <2>1, <2>2
<1>7. PICK Old : Old = [i \in 1..m + n - 1 |-> IF i <= m THEN 1 ELSE i - m + 1]
  OBVIOUS
<1>8. ASSUME NEW i \in 1..m + n - 1
      PROVE  /\ Old[i] \in 1..n
             /\ Uses(g, both[i]) \subseteq Uses(g, steps[Old[i]])
             /\ NamesBy(both[i]) \subseteq NamesBy(steps[Old[i]])
  <2>1. CASE i <= m
    <3>1. Old[i] = 1 /\ both[i] = new[i] /\ 1 \in 1..n
      BY <1>1, <1>6, <1>7, <2>1
    <3>2. new[i] \in ToSet(new)
      BY <1>4, <2>1, SeqShape DEF ToSet
    <3> QED
      BY <1>3, <3>1, <3>2 DEF Within
  <2>2. CASE ~(i <= m)
    <3>1. PICK j : j = i - m
      OBVIOUS
    <3>2. j \in 1..n - 1 /\ Old[i] = j + 1 /\ both[i] = rest[j] /\ j + 1 \in 1..n
      BY <1>1, <1>4, <1>6, <1>7, <2>2, <3>1
    <3> QED
      BY <1>3, <3>2
  <2> QED
    BY <2>1, <2>2
<1>9. ASSUME NEW i \in 1..m + n - 1, NEW j \in i..m + n - 1 PROVE Old[j] \in Old[i]..n
  <2>1. j \in 1..m + n - 1 /\ i <= j
    BY <1>1, <1>4
  <2>2. Old[j] \in 1..n /\ Old[i] \in 1..n
    BY <1>8, <2>1
  <2>3. Old[j] = (IF j <= m THEN 1 ELSE j - m + 1) /\ Old[i] = (IF i <= m THEN 1 ELSE i - m + 1)
    BY <1>7, <2>1
  <2>4. Old[i] <= Old[j]
    BY <1>1, <1>4, <2>1, <2>3
  <2> QED
    BY <2>2, <2>4
<1>10. Calm(g, both)
  <2>1. ASSUME NEW i \in 1..m + n - 1, NEW j \in i..m + n - 1, NEW v \in Uses(g, both[i])
        PROVE  VarsOf(v) \cap NamesBy(both[j]) = {}
    <3>1. j \in 1..m + n - 1
      BY <1>1, <1>4
    <3>2. PICK k : k = Old[i]
      OBVIOUS
    <3>3. PICK l : l = Old[j]
      OBVIOUS
    <3>4. k \in 1..n /\ l \in k..n /\ v \in Uses(g, steps[k])
      BY <1>8, <1>9, <2>1, <3>2, <3>3
    <3>5. VarsOf(v) \cap NamesBy(steps[l]) = {}
      BY <1>1, <3>4 DEF Calm
    <3>6. NamesBy(both[j]) \subseteq NamesBy(steps[l])
      BY <1>8, <3>1, <3>3
    <3> QED
      BY <3>5, <3>6
  <2> QED
    BY <1>6, <2>1 DEF Calm
<1>11. ASSUME NEW v, Undisturbed(v, steps) PROVE Undisturbed(v, both)
  <2>1. ASSUME NEW i \in 1..m + n - 1 PROVE VarsOf(v) \cap NamesBy(both[i]) = {}
    <3>1. PICK k : k = Old[i]
      OBVIOUS
    <3>2. k \in 1..n /\ NamesBy(both[i]) \subseteq NamesBy(steps[k])
      BY <1>8, <3>1
    <3> QED
      BY <1>1, <1>11, <3>2 DEF Undisturbed
  <2> QED
    BY <1>6, <2>1 DEF Undisturbed
<1> QED
  BY <1>2, <1>5, <1>10, <1>11

\* So do the steps that are left when the first one is done.
LEMMA TailIsCalm ==
    ASSUME NEW g, NEW steps, IsSeq(steps), steps # << >>, Calm(g, steps)
    PROVE  /\ Calm(g, Tail(steps))
           /\ \A v : Undisturbed(v, steps) => Undisturbed(v, Tail(steps))
           /\ \A v \in Uses(g, Head(steps)) : Undisturbed(v, Tail(steps))
           /\ \A v : Undisturbed(v, steps) => VarsOf(v) \cap NamesBy(Head(steps)) = {}
<1>1. PICK n : n = Len(steps) /\ n \in Nat \ {0}
  BY SeqShape
<1>2. PICK rest : rest = Tail(steps)
  OBVIOUS
<1>3. /\ IsSeq(rest) /\ Len(rest) = n - 1 /\ Head(steps) = steps[1]
      /\ \A i \in 1..n - 1 : rest[i] = steps[i + 1]
  BY <1>1, <1>2, TailIsSeq
<1>4. Calm(g, rest)
  <2>1. ASSUME NEW i \in 1..n - 1, NEW j \in i..n - 1, NEW v \in Uses(g, rest[i])
        PROVE  VarsOf(v) \cap NamesBy(rest[j]) = {}
    <3>1. PICK k : k = i + 1
      OBVIOUS
    <3>2. PICK l : l = j + 1
      OBVIOUS
    <3>3. /\ k \in 1..n /\ l \in k..n /\ rest[i] = steps[k] /\ rest[j] = steps[l]
      BY <1>1, <1>3, <3>1, <3>2
    <3> QED
      BY <1>1, <2>1, <3>3 DEF Calm
  <2> QED
    BY <1>3, <2>1 DEF Calm
<1>5. \A i \in 1..n - 1 : i + 1 \in 1..n
  BY <1>1
<1>6. ASSUME NEW v, Undisturbed(v, steps) PROVE Undisturbed(v, rest)
  BY <1>1, <1>3, <1>5, <1>6 DEF Undisturbed
<1>7. 1 \in 1..n
  BY <1>1
<1>8. ASSUME NEW v \in Uses(g, Head(steps)) PROVE Undisturbed(v, rest)
  <2>1. ASSUME NEW i \in 1..n - 1 PROVE VarsOf(v) \cap NamesBy(rest[i]) = {}
    <3>1. PICK k : k = i + 1
      OBVIOUS
    <3>2. k \in 1..n /\ rest[i] = steps[k]
      BY <1>1, <1>3, <3>1
    <3> QED
      BY <1>1, <1>3, <1>7, <1>8, <3>2 DEF Calm
  <2> QED
    BY <1>3, <2>1 DEF Undisturbed
<1>9. ASSUME NEW v, Undisturbed(v, steps) PROVE VarsOf(v) \cap NamesBy(Head(steps)) = {}
  BY <1>1, <1>3, <1>7, <1>9 DEF Undisturbed
<1> QED
  BY <1>2, <1>4, <1>6, <1>8, <1>9

\* Cached values stay when there are fewer steps that could disturb them.
LEMMA StillCached ==
    ASSUME NEW f, NEW env, NEW steps, NEW scope, NEW nv, NEW tv, NEW registry,
           Cached(f, env, steps, scope, nv, tv, registry),
           NEW rest, \A v : Undisturbed(v, steps) => Undisturbed(v, rest)
    PROVE  Cached(f, env, rest, scope, nv, tv, registry)
BY DEF Cached

\* The first step of a frame is sound; when it is done the frame is where the
\* step leads to.
LEMMA FrameStep ==
    ASSUME NEW f, NEW env, NEW map, NEW steps, steps # << >>, NEW stack, NEW c, NEW scope,
           NEW nv, NEW tv, NEW registry,
           FrameOk(f, env, map, steps, stack, c, scope, nv, tv, registry)
    PROVE  /\ Sound(f.graph, Head(steps), c, registry, f.path)
           /\ \A stack2 : IsSeq(stack2) =>
                FrameOk(f, env, map, Tail(steps), stack2,
                        Effect(Head(steps), c, registry, f.path), scope, nv, tv, registry)
           /\ Effect(Head(steps), c, registry, f.path) = Failed =>
                FrameOk(f, env, map, steps, stack, Failed, scope, nv, tv, registry)
<1>1. PICK g : g = f.graph
  OBVIOUS
<1>2. PICK end : end = FrameMeaning(f, registry)
  OBVIOUS
<1>3. IsSeq(steps) /\ Calm(g, steps) /\ Arrives(g, steps, c, end, registry, f.path)
  BY <1>1, <1>2 DEF FrameOk
<1>4. PICK rest : rest = Tail(steps)
  OBVIOUS
<1>5. PICK d : d = Effect(Head(steps), c, registry, f.path)
  OBVIOUS
<1>6. Sound(g, Head(steps), c, registry, f.path) /\ Arrives(g, rest, d, end, registry, f.path)
  BY <1>3, <1>4, <1>5, ArrivesNext
<1>7. IsSeq(rest)
  BY <1>3, <1>4, TailIsSeq
<1>8. Calm(g, rest) /\ \A v : Undisturbed(v, steps) => Undisturbed(v, rest)
  BY <1>3, <1>4, TailIsCalm
<1>9. Cached(f, env, rest, scope, nv, tv, registry)
  <2>1. Cached(f, env, steps, scope, nv, tv, registry)
    BY DEF FrameOk
  <2> QED
    BY <1>8, <2>1, StillCached
<1>10. ASSUME NEW stack2, IsSeq(stack2)
       PROVE  FrameOk(f, env, map, rest, stack2, d, scope, nv, tv, registry)
  BY <1>1, <1>2, <1>6, <1>7, <1>8, <1>9, <1>10 DEF FrameOk
<1>11. ASSUME d = Failed
       PROVE  FrameOk(f, env, map, steps, stack, Failed, scope, nv, tv, registry)
  <2>1. end = Failed
    BY <1>6, <1>7, <1>11, ArrivesFailed
  <2>2. Arrives(g, steps, Failed, end, registry, f.path)
    BY <1>3, <2>1, ArrivesFailed
  <2> QED
    BY <1>1, <1>2, <2>2 DEF FrameOk
<1> QED
  BY <1>1, <1>4, <1>5, <1>6, <1>10, <1>11

\* A step of a frame is replaced by others.
LEMMA FrameReplaced ==
    ASSUME NEW f, NEW env, NEW map, NEW steps, steps # << >>, NEW stack, NEW scope,
           NEW nv, NEW tv, NEW registry,
           FrameOk(f, env, map, steps, stack, Config(stack, env), scope, nv, tv, registry),
           NEW new, Replaces(f.graph, Head(steps), new, stack, env, registry, f.path)
    PROVE  FrameOk(f, env, map, new \o Tail(steps), stack, Config(stack, env), scope,
                   nv, tv, registry)
<1>1. PICK g : g = f.graph
  OBVIOUS
<1>2. PICK end : end = FrameMeaning(f, registry)
  OBVIOUS
<1>3. PICK c : c = Config(stack, env)
  OBVIOUS
<1>4. IsSeq(steps) /\ Calm(g, steps) /\ Arrives(g, steps, c, end, registry, f.path)
  BY <1>1, <1>2, <1>3 DEF FrameOk
<1>5. PICK rest : rest = Tail(steps)
  OBVIOUS
<1>6. PICK d : d = Effect(Head(steps), c, registry, f.path)
  OBVIOUS
<1>7. Arrives(g, rest, d, end, registry, f.path)
  BY <1>4, <1>5, <1>6, ArrivesNext
<1>8. IsSeq(rest)
  BY <1>4, <1>5, TailIsSeq
<1>9. /\ IsSeq(new) /\ \A r \in ToSet(new) : Within(g, r, Head(steps))
      /\ Runs(g, new, c, d, registry, f.path)
  BY <1>1, <1>3, <1>6 DEF Replaces
<1>10. Arrives(g, new \o rest, c, end, registry, f.path)
  BY <1>7, <1>8, <1>9, ArrivesBy
<1>11. Calm(g, new \o rest) /\ \A v : Undisturbed(v, steps) => Undisturbed(v, new \o rest)
  BY <1>4, <1>5, <1>9, WithinIsCalm
<1>12. PICK both : both = new \o rest
  OBVIOUS
<1>13. Cached(f, env, both, scope, nv, tv, registry)
  <2>1. Cached(f, env, steps, scope, nv, tv, registry)
    BY DEF FrameOk
  <2> QED
    BY <1>11, <1>12, <2>1, StillCached
<1>14. IsSeq(both)
  BY <1>8, <1>9, <1>12, ConcatIsSeq
<1>15. FrameOk(f, env, map, both, stack, c, scope, nv, tv, registry)
  BY <1>1, <1>2, <1>10, <1>11, <1>12, <1>13, <1>14 DEF FrameOk
<1> QED
  BY <1>3, <1>5, <1>12, <1>15

------------------------------------------------------------------------------
(* Steps of a frame that keep a value or bind names *)

\* What a step keeps, nothing after it disturbs.
LEMMA KeptIsUndisturbed ==
    ASSUME NEW g, NEW steps, IsSeq(steps), steps # << >>, Calm(g, steps),
           NEW x \in Kept(g, Head(steps))
    PROVE  Undisturbed(x.value, Tail(steps))
<1>1. x.value \in Uses(g, Head(steps))
  BY DEF Uses
<1> QED
  BY <1>1, TailIsCalm

\* KeepNode.
LEMMA FrameKeepsNode ==
    ASSUME FailedIsNone, NEW f, NEW env, NEW map, NEW steps, steps # << >>, NEW stack,
           NEW scope, NEW nv, NEW tv, NEW registry,
           FrameOk(f, env, map, steps, stack, Config(stack, env), scope, nv, tv, registry),
           Head(steps).step = "keep_node", NEW key, key = Head(steps).key,
           NEW val, val = Head(stack)[1]
    PROVE  FrameOk(f, env, map, Tail(steps), stack, Config(stack, env), scope,
                   MapInsert(nv, key, val), tv, registry)
<1>1. PICK g : g = f.graph
  OBVIOUS
<1>2. PICK s : s = Head(steps)
  OBVIOUS
<1>3. PICK c : c = Config(stack, env)
  OBVIOUS
<1>4. c # Failed /\ c.stack = stack /\ c.env = env
  BY <1>3, ConfigIs
<1>5. s.step = "keep_node" /\ s.key = key
  BY <1>2
<1>6. Effect(s, c, registry, f.path) = c
  BY <1>5 DEF Effect, LiveEffect
<1>7. PICK rest : rest = Tail(steps)
  OBVIOUS
<1>8. /\ Sound(g, s, c, registry, f.path)
      /\ FrameOk(f, env, map, rest, stack, c, scope, nv, tv, registry)
  <2>1. IsSeq(stack)
    BY DEF FrameOk
  <2> QED
    BY <1>1, <1>2, <1>3, <1>6, <1>7, <2>1, FrameStep
<1>9. PICK new : new = MapInsert(nv, key, val)
  OBVIOUS
<1>10. /\ DOMAIN new = DOMAIN nv \cup {key} /\ new[key] = val
       /\ \A k \in DOMAIN nv : k # key => new[k] = nv[k]
  BY <1>9 DEF MapInsert
<1>11. Cached(f, env, rest, scope, nv, tv, registry)
  BY <1>8 DEF FrameOk
<1>12. ASSUME NEW x \in PartsOf(g), x.kind = "Node", <<scope, x.node_id>> \in DOMAIN new
       PROVE  /\ NodeIsKept(x, new, <<scope, x.node_id>>, f, env, registry)
              /\ Undisturbed(x.value, rest)
  <2>1. PICK k : k = <<scope, x.node_id>>
    OBVIOUS
  <2>2. CASE k = key
    <3>1. key[2] = x.node_id
      BY <2>1, <2>2
    <3>2. x \in Kept(g, s)
      BY <1>5, <1>12, <3>1 DEF Kept
    <3>3. CanKeep(s, x, c, registry, f.path)
      BY <1>4, <1>8, <3>2 DEF Sound
    <3>4. PICK one : one = One(MeaningOf(x.value, env, registry, f.path))
      OBVIOUS
    <3>5. one # Failed /\ Head(stack) = <<one>>
      BY <1>4, <1>5, <3>3, <3>4 DEF CanKeep
    <3>6. val = one
      BY <3>5
    <3>7. Undisturbed(x.value, rest)
      BY <1>1, <1>2, <1>7, <3>2, KeptIsUndisturbed DEF FrameOk
    <3> QED
      BY <1>10, <2>1, <2>2, <3>4, <3>5, <3>6, <3>7 DEF NodeIsKept
  <2>3. CASE k # key
    <3>1. k \in DOMAIN nv /\ new[k] = nv[k]
      BY <1>10, <1>12, <2>1, <2>3
    <3>2. NodeIsKept(x, nv, k, f, env, registry) /\ Undisturbed(x.value, rest)
      BY <1>1, <1>11, <1>12, <2>1, <3>1 DEF Cached
    <3> QED
      BY <2>1, <3>1, <3>2 DEF NodeIsKept
  <2> QED
    BY <2>2, <2>3
<1>13. Cached(f, env, rest, scope, new, tv, registry)
  BY <1>1, <1>11, <1>12 DEF Cached
<1>14. FrameOk(f, env, map, rest, stack, c, scope, new, tv, registry)
  BY <1>8, <1>13 DEF FrameOk
<1> QED
  BY <1>3, <1>7, <1>9, <1>14

\* KeepTuple, and the error when the tuple has too few values.
LEMMA FrameKeepsTuple ==
    ASSUME FailedIsNone, NEW f, NEW env, NEW map, NEW steps, steps # << >>, NEW stack,
           NEW scope, NEW nv, NEW tv, NEW registry,
           FrameOk(f, env, map, steps, stack, Config(stack, env), scope, nv, tv, registry),
           Head(steps).step = "keep_tuple", NEW key, key = Head(steps).key,
           NEW index, index = Head(steps).index,
           NEW vals, vals = Head(stack), index \in DOMAIN vals,
           NEW stack2, stack2 = Push(<<vals[index]>>, Drop(stack, 1))
    PROVE  FrameOk(f, env, map, Tail(steps), stack2, Config(stack2, env), scope,
                   nv, MapInsert(tv, key, vals), registry)
<1>1. PICK g : g = f.graph
  OBVIOUS
<1>2. PICK s : s = Head(steps)
  OBVIOUS
<1>3. PICK c : c = Config(stack, env)
  OBVIOUS
<1>4. c # Failed /\ c.stack = stack /\ c.env = env
  BY <1>3, ConfigIs
<1>5. s.step = "keep_tuple" /\ s.key = key /\ s.index = index
  BY <1>2
<1>6. Effect(s, c, registry, f.path) = Config(stack2, env)
  <2>1. PICK d : d = Pop(1, c)
    OBVIOUS
  <2>2. d = Config(Drop(stack, 1), env)
    BY <1>4, <2>1 DEF Pop
  <2>3. d.stack = Drop(stack, 1) /\ d.env = env
    BY <2>2, ConfigIs
  <2>4. PICK one : one = <<vals[index]>>
    OBVIOUS
  <2>5. one # Failed
    BY <2>4, OneValue
  <2>6. Effect(s, c, registry, f.path) = Pushed(one, d)
    BY <1>4, <1>5, <2>1, <2>4 DEF Effect, LiveEffect
  <2> QED
    BY <2>3, <2>4, <2>5, <2>6 DEF Pushed
<1>7. PICK rest : rest = Tail(steps)
  OBVIOUS
<1>8. PICK c2 : c2 = Config(stack2, env)
  OBVIOUS
<1>9. /\ Sound(g, s, c, registry, f.path)
      /\ FrameOk(f, env, map, rest, stack2, c2, scope, nv, tv, registry)
  <2>1. IsSeq(stack)
    BY DEF FrameOk
  <2>2. IsSeq(Drop(stack, 1))
    BY <2>1, DropIsSeq
  <2>3. IsSeq(stack2)
    BY <2>2, PushIs
  <2> QED
    BY <1>1, <1>2, <1>3, <1>6, <1>7, <1>8, <2>3, FrameStep
<1>10. PICK new : new = MapInsert(tv, key, vals)
  OBVIOUS
<1>11. /\ DOMAIN new = DOMAIN tv \cup {key} /\ new[key] = vals
       /\ \A k \in DOMAIN tv : k # key => new[k] = tv[k]
  BY <1>10 DEF MapInsert
<1>12. Cached(f, env, rest, scope, nv, tv, registry)
  BY <1>9 DEF FrameOk
<1>13. ASSUME NEW x \in PartsOf(g), x.kind = "TupleGet", <<scope, x.tuple_id>> \in DOMAIN new
       PROVE  /\ TupleIsKept(x, new, <<scope, x.tuple_id>>, f, env, registry)
              /\ Undisturbed(x.value, rest)
  <2>1. PICK k : k = <<scope, x.tuple_id>>
    OBVIOUS
  <2>2. CASE k = key
    <3>1. key[2] = x.tuple_id
      BY <2>1, <2>2
    <3>2. x \in Kept(g, s)
      BY <1>5, <1>13, <3>1 DEF Kept
    <3>3. CanKeep(s, x, c, registry, f.path)
      BY <1>4, <1>9, <3>2 DEF Sound
    <3>4. PICK tuple : tuple = MeaningOf(x.value, env, registry, f.path)
      OBVIOUS
    <3>5. tuple # Failed /\ vals = tuple
      BY <1>4, <1>5, <3>3, <3>4 DEF CanKeep
    <3>6. Undisturbed(x.value, rest)
      BY <1>1, <1>2, <1>7, <3>2, KeptIsUndisturbed DEF FrameOk
    <3> QED
      BY <1>11, <2>1, <2>2, <3>4, <3>5, <3>6 DEF TupleIsKept
  <2>3. CASE k # key
    <3>1. k \in DOMAIN tv /\ new[k] = tv[k]
      BY <1>11, <1>13, <2>1, <2>3
    <3>2. TupleIsKept(x, tv, k, f, env, registry) /\ Undisturbed(x.value, rest)
      BY <1>1, <1>12, <1>13, <2>1, <3>1 DEF Cached
    <3> QED
      BY <2>1, <3>1, <3>2 DEF TupleIsKept
  <2> QED
    BY <2>2, <2>3
<1>14. Cached(f, env, rest, scope, nv, new, registry)
  BY <1>1, <1>12, <1>13 DEF Cached
<1>15. FrameOk(f, env, map, rest, stack2, c2, scope, nv, new, registry)
  BY <1>9, <1>14 DEF FrameOk
<1> QED
  BY <1>7, <1>8, <1>10, <1>15

\* Binding values to names.
LEMMA BoundIsEnv ==
    ASSUME FailedIsNone, NEW env, IsEnv(env), NEW names, IsSeq(names),
           NEW vals, IsValues(vals), Len(vals) = Len(names)
    PROVE  IsEnv(Bound(env, names, vals).map)
<1>1. PICK new : new = Bound(env, names, vals).map
  OBVIOUS
<1>2. IsBound(new, env, names, vals)
  BY <1>1, BoundMapIs
<1>3. ASSUME NEW name \in DOMAIN new PROVE new[name] # Failed
  <2>1. CASE name \in ToSet(names)
    <3>1. Len(names) \in Nat
      BY SeqShape
    <3>2. PICK n : n = Len(names) /\ n \in Nat
      BY <3>1
    <3>3. name \in FirstNames(names, n)
      BY <2>1, <3>2, BoundIs
    <3>4. PICK i : i = LastAt(names, n, name)
      OBVIOUS
    <3>5. i \in 1..n
      BY <3>2, <3>3, <3>4, LastAtIs
    <3>6. new[name] = vals[i]
      BY <1>2, <2>1, <3>2, <3>4 DEF IsBound
    <3> QED
      BY <3>2, <3>5, <3>6 DEF IsValues
  <2>2. CASE name \notin ToSet(names)
    <3>1. name \in DOMAIN env /\ new[name] = env[name]
      BY <1>2, <1>3, <2>2 DEF IsBound
    <3> QED
      BY <3>1 DEF IsEnv
  <2> QED
    BY <2>1, <2>2
<1>4. IsEnv(new)
  BY <1>2, <1>3 DEF IsBound, IsEnv
<1> QED
  BY <1>1, <1>4

\* Binding the same values in two maps of names that agree.
LEMMA BoundAgree ==
    ASSUME NEW f, NEW env, NEW map, Agrees(f, env, map), NEW names, IsSeq(names), NEW vals
    PROVE  Agrees(f, Bound(env, names, vals).map, Bound(map, names, vals).map)
<1>1. PICK env2 : env2 = Bound(env, names, vals).map
  OBVIOUS
<1>2. PICK map2 : map2 = Bound(map, names, vals).map
  OBVIOUS
<1>3. IsBound(env2, env, names, vals) /\ IsBound(map2, map, names, vals)
  BY <1>1, <1>2, BoundMapIs
<1>4. CASE Len(f.path) = 1
  BY <1>1, <1>2, <1>4 DEF Agrees
<1>5. CASE Len(f.path) # 1
  <2>1. \A name \in DOMAIN env : name \in DOMAIN map /\ map[name] = env[name]
    BY <1>5 DEF Agrees
  <2>2. ASSUME NEW name \in DOMAIN env2
        PROVE  name \in DOMAIN map2 /\ map2[name] = env2[name]
    BY <1>3, <2>1, <2>2 DEF IsBound
  <2>3. Agrees(f, env2, map2)
    BY <1>5, <2>2 DEF Agrees
  <2> QED
    BY <1>1, <1>2, <2>3
<1> QED
  BY <1>4, <1>5

\* Names that an expression does not use leave its meaning as it is.
LEMMA BoundElsewhere ==
    ASSUME MeaningRules, NEW e \in Exprs, NEW env, NEW names, IsSeq(names),
           VarsOf(e) \cap ToSet(names) = {}, NEW vals, NEW registry, NEW path
    PROVE  MeaningOf(e, Bound(env, names, vals).map, registry, path)
             = MeaningOf(e, env, registry, path)
<1>1. PICK new : new = Bound(env, names, vals).map
  OBVIOUS
<1>2. IsBound(new, env, names, vals)
  BY <1>1, BoundMapIs
<1>3. SameFor(VarsOf(e), new, env)
  BY <1>2 DEF IsBound, SameFor
<1>4. MeaningOf(e, new, registry, path) = MeaningOf(e, env, registry, path)
  BY <1>3, SameMeaning
<1> QED
  BY <1>1, <1>4

\* BindValues.
LEMMA FrameBinds ==
    ASSUME MeaningsAreDefined, NEW f, NEW env, NEW map, NEW steps, steps # << >>, NEW stack,
           NEW scope, NEW nv, NEW tv, NEW registry,
           FrameOk(f, env, map, steps, stack, Config(stack, env), scope, nv, tv, registry),
           Head(steps).step = "bind_values", NEW names, names = Head(steps).names, IsSeq(names),
           NEW vals, vals = Head(stack), Len(names) = Len(vals),
           NEW env2, env2 = Bound(env, names, vals).map,
           NEW map2, map2 = Bound(map, names, vals).map,
           NEW stack2, stack2 = Drop(stack, 1)
    PROVE  FrameOk(f, env2, map2, Tail(steps), stack2, Config(stack2, env2), scope,
                   nv, tv, registry)
<1>0. FailedIsNone /\ MeaningRules
  BY DEF MeaningsAreDefined
<1>1. PICK g : g = f.graph
  OBVIOUS
<1>2. PICK s : s = Head(steps)
  OBVIOUS
<1>3. PICK c : c = Config(stack, env)
  OBVIOUS
<1>4. c # Failed /\ c.stack = stack /\ c.env = env
  BY <1>0, <1>3, ConfigIs
<1>5. s.step = "bind_values" /\ s.names = names
  BY <1>2
<1>6. PICK c2 : c2 = Config(stack2, env2)
  OBVIOUS
<1>7. Effect(s, c, registry, f.path) = c2
  <2>1. PICK d : d = Pop(1, c)
    OBVIOUS
  <2>2. d = Config(Drop(stack, 1), env)
    BY <1>4, <2>1 DEF Pop
  <2>3. d.stack = stack2
    BY <1>0, <2>2, ConfigIs
  <2> QED
    BY <1>4, <1>5, <1>6, <2>1, <2>3 DEF Effect, LiveEffect
<1>8. PICK rest : rest = Tail(steps)
  OBVIOUS
<1>9. IsGraph(g) /\ IsEnv(env) /\ IsSeq(stack) /\ IsSeq(steps) /\ Calm(g, steps)
      /\ Agrees(f, env, map) /\ Cached(f, env, steps, scope, nv, tv, registry)
  BY <1>1 DEF FrameOk
<1>10. /\ Sound(g, s, c, registry, f.path)
       /\ FrameOk(f, env, map, rest, stack2, c2, scope, nv, tv, registry)
  <2>1. IsSeq(stack2)
    BY <1>9, DropIsSeq
  <2> QED
    BY <1>1, <1>2, <1>3, <1>7, <1>8, <2>1, FrameStep
<1>11. IsEnv(env2)
  <2>1. IsValues(vals)
    BY <1>4, <1>5, <1>10 DEF Sound
  <2> QED
    BY <1>0, <1>9, <2>1, BoundIsEnv
<1>12. Agrees(f, env2, map2)
  BY <1>9, BoundAgree
<1>13. ASSUME NEW x \in PartsOf(g), x.kind \in {"Node", "TupleGet"}, Undisturbed(x.value, steps)
       PROVE  MeaningOf(x.value, env2, registry, f.path) = MeaningOf(x.value, env, registry, f.path)
  <2>1. x \in Exprs
    BY <1>9, PartsAreClosed
  <2>2. x.value \in Exprs
    BY <1>13, <2>1, ChildrenAre, ChildIsPart
  <2>3. VarsOf(x.value) \cap NamesBy(s) = {}
    BY <1>2, <1>9, <1>13, TailIsCalm
  <2>4. NamesBy(s) = ToSet(names)
    BY <1>5 DEF NamesBy
  <2> QED
    BY <1>0, <2>2, <2>3, <2>4, BoundElsewhere
<1>14. Cached(f, env2, rest, scope, nv, tv, registry)
  <2>1. Cached(f, env, rest, scope, nv, tv, registry)
    BY <1>10 DEF FrameOk
  <2>2. ASSUME NEW x \in PartsOf(g), x.kind = "Node", <<scope, x.node_id>> \in DOMAIN nv
        PROVE  /\ NodeIsKept(x, nv, <<scope, x.node_id>>, f, env2, registry)
               /\ Undisturbed(x.value, rest)
    <3>1. PICK key : key = <<scope, x.node_id>>
      OBVIOUS
    <3>2. NodeIsKept(x, nv, key, f, env, registry) /\ Undisturbed(x.value, rest)
      BY <1>1, <2>1, <2>2, <3>1 DEF Cached
    <3>3. Undisturbed(x.value, steps)
      BY <1>1, <1>9, <2>2 DEF Cached
    <3>4. MeaningOf(x.value, env2, registry, f.path) = MeaningOf(x.value, env, registry, f.path)
      BY <1>13, <2>2, <3>3
    <3> QED
      BY <3>1, <3>2, <3>4 DEF NodeIsKept
  <2>3. ASSUME NEW x \in PartsOf(g), x.kind = "TupleGet", <<scope, x.tuple_id>> \in DOMAIN tv
        PROVE  /\ TupleIsKept(x, tv, <<scope, x.tuple_id>>, f, env2, registry)
               /\ Undisturbed(x.value, rest)
    <3>1. PICK key : key = <<scope, x.tuple_id>>
      OBVIOUS
    <3>2. TupleIsKept(x, tv, key, f, env, registry) /\ Undisturbed(x.value, rest)
      BY <1>1, <2>1, <2>3, <3>1 DEF Cached
    <3>3. Undisturbed(x.value, steps)
      BY <1>1, <1>9, <2>3 DEF Cached
    <3>4. MeaningOf(x.value, env2, registry, f.path) = MeaningOf(x.value, env, registry, f.path)
      BY <1>13, <2>3, <3>3
    <3> QED
      BY <3>1, <3>2, <3>4 DEF TupleIsKept
  <2> QED
    BY <1>1, <2>2, <2>3 DEF Cached
<1>15. FrameOk(f, env2, map2, rest, stack2, c2, scope, nv, tv, registry)
  BY <1>10, <1>11, <1>12, <1>14 DEF FrameOk
<1> QED
  BY <1>6, <1>8, <1>15

------------------------------------------------------------------------------
(* Entering a frame, and the frames below *)

\* The names that a graph binds do not disturb what it shares.
LEMMA GraphIsCalm ==
    ASSUME NEW g, IsGraph(g), IsShared(g)
    PROVE  Calm(g, GraphSteps(g))
<1>1. PICK steps : steps = GraphSteps(g)
  OBVIOUS
<1>2. PICK m : m = Len(g.lets) /\ m \in Nat
  BY GraphStepsAre
<1>3. PICK n : n = Len(g.body) /\ n \in Nat
  BY GraphStepsAre
<1>4. /\ Len(steps) = m + n
      /\ \A i \in 1..m + n : steps[i] = IF i <= m THEN [step |-> "let", binding |-> g.lets[i]]
                                        ELSE LowerExpr(g.body[i - m])
  BY <1>1, <1>2, <1>3, GraphStepsAre
<1>5. DOMAIN g.lets = 1..m
  BY <1>2 DEF IsGraph
<1>7. \A i \in 1..m + n : \A j \in i..m + n : j \in 1..m + n /\ i <= j
  <2>1. m \in Nat /\ n \in Nat
    BY <1>2, <1>3
  <2>2. m + n \in Int
    BY <2>1
  <2>3. PICK k : k = m + n
    OBVIOUS
  <2>4. \A i \in 1..k : \A j \in i..k : j \in 1..k /\ i <= j
    BY <2>2, <2>3
  <2> QED
    BY <2>3, <2>4
<1>6. ASSUME NEW i \in 1..m + n, NEW j \in i..m + n, NEW v \in Uses(g, steps[i])
      PROVE  VarsOf(v) \cap NamesBy(steps[j]) = {}
  <2>0. j \in 1..m + n /\ i <= j
    BY <1>7
  <2>1. CASE j <= m
    <3>1. i \in 1..j /\ i <= m /\ j \in DOMAIN g.lets
      BY <1>2, <1>3, <1>5, <2>0, <2>1
    <3>2. PICK s : s = steps[i]
      OBVIOUS
    <3>3. PICK t : t = steps[j]
      OBVIOUS
    <3>4. /\ s = [step |-> "let", binding |-> g.lets[i]]
          /\ t = [step |-> "let", binding |-> g.lets[j]]
      BY <1>4, <2>0, <2>1, <3>1, <3>2, <3>3
    <3>5. NamesBy(t) = ToSet(g.lets[j].names)
      BY <3>4 DEF NamesBy
    <3>6. ExprsIn(s) = {g.lets[i].value} /\ Kept(g, s) = {}
      BY <3>4 DEF ExprsIn, Kept
    <3>7. PICK x \in SharedIn(g.lets[i].value) : v = x.value
      BY <1>6, <3>2, <3>6 DEF Uses
    <3>8. VarsOf(x.value) \cap ToSet(g.lets[j].names) = {}
      BY <3>1 DEF IsShared
    <3> QED
      BY <3>3, <3>5, <3>7, <3>8
  <2>2. CASE ~(j <= m)
    <3>1. PICK t : t = steps[j]
      OBVIOUS
    <3>2. t = LowerExpr(g.body[j - m])
      BY <1>4, <2>0, <2>2, <3>1
    <3>3. NamesBy(t) = {}
      BY <3>2 DEF LowerExpr, NamesBy
    <3> QED
      BY <3>1, <3>3
  <2> QED
    BY <2>1, <2>2
<1> QED
  BY <1>1, <1>4, <1>6 DEF Calm

\* A graph as it is entered.
LEMMA FrameEntered ==
    ASSUME MeaningsAreDefined, NEW f, NEW g, f.graph = g, IsGraph(g), IsShared(g),
           Len(f.path) > 1 => IsScoped(g),
           NEW args, f.args = args, IsValues(args), Len(args) = Len(g.inputs),
           NEW start, Len(f.path) = 1 => start = EmptyMap,
           NEW env, env = Bound(EmptyMap, g.inputs, args).map,
           NEW map, map = Bound(start, g.inputs, args).map,
           NEW scope, NEW nv, NEW tv, \A key \in DOMAIN nv \cup DOMAIN tv : key[1] # scope,
           NEW registry, NEW none, none = << >>
    PROVE  FrameOk(f, env, map, GraphSteps(g), none, Config(none, env), scope, nv, tv, registry)
<1>0. FailedIsNone /\ MeaningRules
  BY DEF MeaningsAreDefined
<1>1. IsSeq(g.inputs)
  BY DEF IsGraph, IsSeq
<1>2. PICK empty : empty = EmptyMap
  OBVIOUS
<1>3. DOMAIN empty = {} /\ empty = [name \in {} |-> empty[name]]
  BY <1>2 DEF EmptyMap
<1>4. IsEnv(empty)
  BY <1>3 DEF IsEnv, IsMap
<1>5. IsEnv(env)
  BY <1>0, <1>1, <1>2, <1>4, BoundIsEnv
<1>6. Agrees(f, env, map)
  <2>1. Agrees(f, empty, start)
    BY <1>2, <1>3 DEF Agrees
  <2> QED
    BY <1>1, <1>2, <2>1, BoundAgree
<1>7. Calm(g, GraphSteps(g))
  BY GraphIsCalm
<1>8. ASSUME NEW id PROVE <<scope, id>> \notin DOMAIN nv /\ <<scope, id>> \notin DOMAIN tv
  <2>1. <<scope, id>>[1] = scope
    OBVIOUS
  <2> QED
    BY <2>1
<1>9. PICK steps : steps = GraphSteps(g)
  OBVIOUS
<1>10. Cached(f, env, steps, scope, nv, tv, registry)
  BY <1>8 DEF Cached
<1>11. env = EnvAfter(g, args, registry, f.path, 0)
  <2>1. EnvAfter(g, args, registry, f.path, 0) = EnvStep(g, args, registry, f.path, 0)
    BY <1>0 DEF MeaningRules
  <2> QED
    BY <2>1 DEF EnvStep
<1>12. env # Failed
  BY <1>0, <1>5 DEF IsEnv, FailedIsNone
<1>13. Config(none, env) = AfterLets(EnvAfter(g, args, registry, f.path, 0))
  BY <1>11, <1>12 DEF AfterLets
<1>14. /\ IsSeq(steps)
       /\ Arrives(g, steps, Config(none, env), MeaningOfGraph(g, args, registry, f.path),
                  registry, f.path)
  BY <1>9, <1>13, RunsGraph
<1>15. IsSeq(none)
  BY NoStepBinds
<1>16. FrameOk(f, env, map, steps, none, Config(none, env), scope, nv, tv, registry)
  BY <1>5, <1>6, <1>7, <1>9, <1>10, <1>14, <1>15 DEF FrameOk, FrameMeaning
<1> QED
  BY <1>9, <1>16

\* What changes in other scopes does not matter to a frame.
SameInScope(old, new, scope) ==
    \A key \in DOMAIN new : key[1] = scope => key \in DOMAIN old /\ new[key] = old[key]

\* A frame stays sound when the caches change in other scopes only.
LEMMA FrameElsewhere ==
    ASSUME NEW f, NEW env, NEW map, NEW steps, NEW stack, NEW c, NEW scope, NEW nv, NEW tv,
           NEW registry, FrameOk(f, env, map, steps, stack, c, scope, nv, tv, registry),
           NEW nv2, SameInScope(nv, nv2, scope), NEW tv2, SameInScope(tv, tv2, scope)
    PROVE  FrameOk(f, env, map, steps, stack, c, scope, nv2, tv2, registry)
<1>1. Cached(f, env, steps, scope, nv, tv, registry)
  BY DEF FrameOk
<1>2. ASSUME NEW id, <<scope, id>> \in DOMAIN nv2
      PROVE  <<scope, id>> \in DOMAIN nv /\ nv2[<<scope, id>>] = nv[<<scope, id>>]
  <2>1. <<scope, id>>[1] = scope
    OBVIOUS
  <2> QED
    BY <1>2, <2>1 DEF SameInScope
<1>3. ASSUME NEW id, <<scope, id>> \in DOMAIN tv2
      PROVE  <<scope, id>> \in DOMAIN tv /\ tv2[<<scope, id>>] = tv[<<scope, id>>]
  <2>1. <<scope, id>>[1] = scope
    OBVIOUS
  <2> QED
    BY <1>3, <2>1 DEF SameInScope
<1>4. Cached(f, env, steps, scope, nv2, tv2, registry)
  BY <1>1, <1>2, <1>3 DEF Cached, NodeIsKept, TupleIsKept
<1> QED
  BY <1>4 DEF FrameOk

------------------------------------------------------------------------------
(***************************************************************************)
(* The inductive invariant.  There are frames F, each with its own names E *)
(* and with what the lowerer's map of names is when the frame is innermost *)
(* (V, as in Layers), and the steps of each lead to what it means.  A      *)
(* frame that has called another waits for what that one means.            *)
(***************************************************************************)
Linked(F) ==
    /\ F[1].graph = graph
    /\ F[1].args = [i \in DOMAIN graph.inputs |-> BlockArgument(i)]
    /\ F[1].path = <<graph.name>>
    /\ F[Len(todo)].path = call_stack
    /\ \A k \in 1..Len(todo) : Len(F[k].path) = k
    /\ \A k \in 2..Len(todo) : F[k - 1].path = Front(F[k].path)

ConfigAt(F, E, k) ==
    IF k < Len(todo) THEN Pushed(FrameMeaning(F[k + 1], graphs), Config(results[k], E[k]))
    ELSE IF status = "failing" THEN Failed ELSE Config(results[k], E[k])

Frames(F, E, V) ==
    \A k \in 1..Len(todo) :
        FrameOk(F[k], E[k], V[k], todo[k], results[k], ConfigAt(F, E, k), tuple_scope_stack[k],
                node_values, tuple_values, graphs)

InProgress(F, E, V) == Layers(V) /\ Linked(F) /\ Frames(F, E, V)

ResultsAgree == IsSeq(results) /\ Len(results) = Len(todo)

MeaningInv ==
    /\ status # "idle" => \E p \in Programs : graph = p.graph /\ graphs = p.graphs
    /\ status \in {"lowering", "failing"} => ResultsAgree /\ \E F, E, V : InProgress(F, E, V)
    /\ LoweringKeepsTheMeaning

------------------------------------------------------------------------------
(* The innermost frame *)

\* What a list is after one of its elements has changed.
IsChanged(new, old, n, x) ==
    IsSeq(new) /\ Len(new) = Len(old) /\ \A k \in 1..Len(old) : new[k] = IF k = n THEN x ELSE old[k]

\* What Continue and StepDone leave to do, exactly.
LEMMA TodoIs ==
    ASSUME LowererInv, status = "lowering", Todo # << >>
    PROVE  /\ Len(todo) \in Nat \ {0} /\ Todo = todo[Len(todo)] /\ IsSeq(todo)
           /\ IsSeq(todo[Len(todo)]) /\ todo[Len(todo)] # << >> /\ Top = Head(todo[Len(todo)])
           /\ StepDone => IsChanged(todo', todo, Len(todo), Tail(todo[Len(todo)]))
           /\ \A steps : IsSeq(steps) /\ Continue(steps) =>
                IsChanged(todo', todo, Len(todo), steps \o Tail(todo[Len(todo)]))
<1>1. PICK n : n = Len(todo)
  OBVIOUS
<1>2. /\ n \in Nat \ {0} /\ Todo = todo[n] /\ IsSeq(todo) /\ IsSeq(Todo)
  BY <1>1, TopIsScoped DEF LowererInv, StackTypes, ScopedSteps
<1>3. n \in 1..Len(todo)
  BY <1>1, <1>2
<1>4. ASSUME NEW x, todo' = [todo EXCEPT ![n] = x] PROVE IsChanged(todo', todo, n, x)
  <2>1. IsSeq(todo')
    BY <1>2, <1>3, <1>4, ExceptIsSeq
  <2>2. Len(todo') = Len(todo)
    BY <1>2, <1>3, <1>4, ExceptIsSeq
  <2>3. \A k \in 1..Len(todo) : todo'[k] = IF k = n THEN x ELSE todo[k]
    BY <1>2, <1>3, <1>4, ExceptIsSeq
  <2> QED
    BY <2>1, <2>2, <2>3 DEF IsChanged
<1>5. ASSUME StepDone PROVE IsChanged(todo', todo, n, Tail(todo[n]))
  <2>1. todo' = [todo EXCEPT ![n] = Tail(todo[n])]
    BY <1>1, <1>5 DEF StepDone
  <2> QED
    BY <1>4, <2>1
<1>6. ASSUME NEW steps, Continue(steps)
      PROVE  IsChanged(todo', todo, n, steps \o Tail(todo[n]))
  <2>1. todo' = [todo EXCEPT ![n] = steps \o Tail(todo[n])]
    BY <1>1, <1>6 DEF Continue
  <2> QED
    BY <1>4, <2>1
<1> QED
  BY <1>1, <1>2, <1>5, <1>6 DEF Top

\* What Return makes of the results.
LEMMA ResultsAre ==
    ASSUME ResultsAgree, Len(todo) \in Nat \ {0}
    PROVE  /\ Last(results) = results[Len(todo)]
           /\ Result = Head(results[Len(todo)])
           /\ \A n : Without(n) = Drop(results[Len(todo)], n)
           /\ \A n, env : Latest(n) = Args(n, Config(results[Len(todo)], env))
           /\ \A n, vals : Return(n, vals) =>
                StepDone /\ IsChanged(results', results, Len(todo),
                                      Push(vals, Drop(results[Len(todo)], n)))
<1>1. PICK n : n = Len(todo) /\ n \in Nat \ {0}
  OBVIOUS
<1>2. IsSeq(results) /\ Len(results) = n /\ n \in 1..Len(results)
  BY <1>1 DEF ResultsAgree
<1>3. Last(results) = results[n]
  BY <1>2 DEF Last
<1>4. \A m : Without(m) = Drop(results[n], m)
  BY <1>3 DEF Without, Drop
<1>5. \A m, env : Latest(m) = Args(m, Config(results[n], env))
  BY <1>3 DEF Latest, Args, Config
<1>6. ASSUME NEW x, results' = [results EXCEPT ![n] = x] PROVE IsChanged(results', results, n, x)
  <2>1. IsSeq(results')
    BY <1>2, <1>6, ExceptIsSeq
  <2>2. Len(results') = Len(results)
    BY <1>2, <1>6, ExceptIsSeq
  <2>3. \A k \in 1..Len(results) : results'[k] = IF k = n THEN x ELSE results[k]
    BY <1>2, <1>6, ExceptIsSeq
  <2> QED
    BY <2>1, <2>2, <2>3 DEF IsChanged
<1>7. ASSUME NEW m, NEW vals, Return(m, vals)
      PROVE  StepDone /\ IsChanged(results', results, n, Push(vals, Drop(results[n], m)))
  <2>1. PICK x : x = Push(vals, Drop(results[n], m))
    OBVIOUS
  <2>2. results' = [results EXCEPT ![n] = x]
    BY <1>2, <1>4, <1>7, <2>1 DEF Return, Push
  <2> QED
    BY <1>6, <1>7, <2>1, <2>2 DEF Return
<1> QED
  BY <1>1, <1>3, <1>4, <1>5, <1>7 DEF Result

\* The innermost frame has the names of the lowerer and is at its next step.
LEMMA TopIs ==
    ASSUME LowererInv, status = "lowering", ResultsAgree, NEW F, NEW E, NEW V, InProgress(F, E, V),
           NEW n, n = Len(todo)
    PROVE  /\ n \in Nat \ {0} /\ IsSeq(results) /\ Len(results) = n
           /\ FrameOk(F[n], E[n], values, todo[n], results[n], Config(results[n], E[n]),
                      tuple_scope_stack[n], node_values, tuple_values, graphs)
           /\ V[n] = values /\ F[n].path = call_stack /\ Len(F[n].path) = n
           /\ current_tuple_scope = tuple_scope_stack[n]
           /\ \A name \in DOMAIN graphs : IsGraph(graphs[name])
           /\ WellFormed(F[n].graph, results[n], E[n], graphs)
<1>1. n \in Nat \ {0} /\ n \in 1..Len(todo) /\ current_tuple_scope = tuple_scope_stack[n]
  <2>1. n \in Nat \ {0} /\ current_tuple_scope = tuple_scope_stack[n]
    BY TopIsScoped
  <2> QED
    BY <2>1
<1>2. V[n] = values
  BY DEF InProgress, Layers
<1>3. F[n].path = call_stack /\ Len(F[n].path) = n
  BY <1>1 DEF InProgress, Linked
<1>4. ConfigAt(F, E, n) = Config(results[n], E[n])
  BY <1>1 DEF ConfigAt
<1>5. FrameOk(F[n], E[n], values, todo[n], results[n], Config(results[n], E[n]),
              tuple_scope_stack[n], node_values, tuple_values, graphs)
  BY <1>1, <1>2, <1>4 DEF InProgress, Frames
<1>6. \A name \in DOMAIN graphs : IsGraph(graphs[name])
  BY DEF LowererInv, StackTypes
<1>7. WellFormed(F[n].graph, results[n], E[n], graphs)
  BY <1>5, <1>6 DEF WellFormed, FrameOk
<1> QED
  BY <1>1, <1>2, <1>3, <1>5, <1>6, <1>7 DEF ResultsAgree

\* Only the innermost frame changes.
LEMMA TopChanges ==
    ASSUME LowererInv, status = "lowering", ResultsAgree, NEW F, NEW E, NEW V, InProgress(F, E, V),
           NEW n, n = Len(todo), UNCHANGED <<status, graph, graphs, scopes>>,
           NEW steps, IsChanged(todo', todo, n, steps),
           NEW stack, IsChanged(results', results, n, stack),
           \A scope : scope # tuple_scope_stack[n] =>
               SameInScope(node_values, node_values', scope)
               /\ SameInScope(tuple_values, tuple_values', scope),
           NEW W, Layers(W)', \A k \in 1..n : k # n => W[k] = V[k],
           NEW env, FrameOk(F[n], env, W[n], steps, stack, Config(stack, env), tuple_scope_stack[n],
                            node_values', tuple_values', graphs)
    PROVE  ResultsAgree' /\ \E F1, E1, V1 : InProgress(F1, E1, V1)'
<1>1. n \in Nat \ {0} /\ IsSeq(results) /\ Len(results) = n
  BY TopIs
<1>2. /\ IsSeq(todo') /\ Len(todo') = n /\ todo'[n] = steps
      /\ \A k \in 1..n : k # n => todo'[k] = todo[k]
  BY <1>1 DEF IsChanged
<1>3. /\ IsSeq(results') /\ Len(results') = n /\ results'[n] = stack
      /\ \A k \in 1..n : k # n => results'[k] = results[k]
  BY <1>1 DEF IsChanged
<1>4. PICK E1 : E1 = [k \in 1..n |-> IF k = n THEN env ELSE E[k]]
  OBVIOUS
<1>5. E1[n] = env /\ \A k \in 1..n : k # n => E1[k] = E[k]
  BY <1>1, <1>4
<1>6. /\ status' = "lowering" /\ graph' = graph /\ graphs' = graphs /\ call_stack' = call_stack
      /\ tuple_scope_stack' = tuple_scope_stack
  BY DEF scopes
<1>7. Linked(F)'
  BY <1>2, <1>6 DEF InProgress, Linked
<1>8. ASSUME NEW k \in 1..n, k # n
      PROVE  FrameOk(F[k], E1[k], W[k], todo'[k], results'[k], ConfigAt(F, E1, k)',
                     tuple_scope_stack'[k], node_values', tuple_values', graphs')
  <2>1. k < n /\ k \in 1..Len(todo)
    BY <1>1, <1>8
  <2>2. PICK c : c = ConfigAt(F, E, k)
    OBVIOUS
  <2>3. c = Pushed(FrameMeaning(F[k + 1], graphs), Config(results[k], E[k]))
    BY <2>1, <2>2 DEF ConfigAt
  <2>4. ConfigAt(F, E1, k)' = c
    BY <1>2, <1>3, <1>5, <1>6, <1>8, <2>1, <2>3 DEF ConfigAt
  <2>5. FrameOk(F[k], E[k], V[k], todo[k], results[k], c, tuple_scope_stack[k],
                node_values, tuple_values, graphs)
    BY <2>1, <2>2 DEF InProgress, Frames
  <2>6. tuple_scope_stack[k] # tuple_scope_stack[n]
    <3>1. DOMAIN tuple_scope_stack = 1..n
      BY SeqIsSeq, SeqShape DEF LowererInv, StackTypes, StacksAgree
    <3>2. k \in DOMAIN tuple_scope_stack /\ n \in DOMAIN tuple_scope_stack
      BY <1>1, <3>1
    <3> QED
      BY <1>8, <3>2 DEF LowererInv, CachedScopesAreLive, IsInjective
  <2>7. /\ SameInScope(node_values, node_values', tuple_scope_stack[k])
        /\ SameInScope(tuple_values, tuple_values', tuple_scope_stack[k])
    BY <2>6
  <2>8. PICK nv : nv = node_values'
    OBVIOUS
  <2>9. PICK tv : tv = tuple_values'
    OBVIOUS
  <2>10. FrameOk(F[k], E[k], V[k], todo[k], results[k], c, tuple_scope_stack[k], nv, tv, graphs)
    BY <2>5, <2>7, <2>8, <2>9, FrameElsewhere
  <2> QED
    BY <1>2, <1>3, <1>5, <1>6, <1>8, <2>4, <2>8, <2>9, <2>10
<1>9. FrameOk(F[n], E1[n], W[n], todo'[n], results'[n], ConfigAt(F, E1, n)',
              tuple_scope_stack'[n], node_values', tuple_values', graphs')
  <2>1. ConfigAt(F, E1, n)' = Config(stack, env)
    BY <1>1, <1>2, <1>3, <1>5, <1>6 DEF ConfigAt
  <2> QED
    BY <1>2, <1>3, <1>5, <1>6, <2>1
<1>10. Frames(F, E1, W)'
  BY <1>2, <1>8, <1>9 DEF Frames
<1>11. InProgress(F, E1, W)'
  BY <1>7, <1>10 DEF InProgress
<1>12. ResultsAgree'
  BY <1>2, <1>3 DEF ResultsAgree
<1> QED
  BY <1>11, <1>12

------------------------------------------------------------------------------
(* Steps that bind no names *)

\* The names stay, and what is left of the innermost frame is as it should be.
LEMMA ExprChanges ==
    ASSUME LowererInv, MeaningInv, status = "lowering", Unscoped,
           NEW F, NEW E, NEW V, InProgress(F, E, V), NEW n, n = Len(todo),
           NEW steps, IsChanged(todo', todo, n, steps),
           NEW stack, IsChanged(results', results, n, stack),
           \A scope : scope # tuple_scope_stack[n] =>
               SameInScope(node_values, node_values', scope)
               /\ SameInScope(tuple_values, tuple_values', scope),
           FrameOk(F[n], E[n], values, steps, stack, Config(stack, E[n]), tuple_scope_stack[n],
                   node_values', tuple_values', graphs)
    PROVE  MeaningInv'
<1>1. ResultsAgree
  BY DEF MeaningInv
<1>2. V[n] = values
  BY <1>1, TopIs
<1>3. Len(todo') = n /\ UNCHANGED <<values, overwritten>>
  BY DEF IsChanged, Unscoped
<1>4. Layers(V)'
  BY <1>3, SameLayers DEF InProgress
<1>5. UNCHANGED <<status, graph, graphs, scopes>>
  BY DEF Unscoped
<1>6. \A k \in 1..n : k # n => V[k] = V[k]
  OBVIOUS
<1>7. FrameOk(F[n], E[n], V[n], steps, stack, Config(stack, E[n]), tuple_scope_stack[n],
              node_values', tuple_values', graphs)
  BY <1>2
<1>8. ResultsAgree' /\ \E F1, E1, V1 : InProgress(F1, E1, V1)'
  BY <1>1, <1>4, <1>5, <1>6, <1>7, TopChanges
<1>9. status' = "lowering" /\ graph' = graph /\ graphs' = graphs
  BY <1>5
<1> QED
  BY <1>8, <1>9 DEF MeaningInv, LoweringKeepsTheMeaning

\* Caches that stay are the same in every scope.
LEMMA SameCaches ==
    ASSUME UNCHANGED caches
    PROVE  /\ node_values' = node_values /\ tuple_values' = tuple_values
           /\ \A scope : SameInScope(node_values, node_values', scope)
                         /\ SameInScope(tuple_values, tuple_values', scope)
BY DEF caches, SameInScope

\* A step that returns what its effect is.
LEMMA ReturnsEffect ==
    ASSUME LowererInv, MeaningInv, status = "lowering", Todo # << >>, Unscoped, UNCHANGED caches,
           NEW F, NEW E, NEW V, InProgress(F, E, V), NEW n, n = Len(todo),
           NEW m \in Nat, NEW vals, Return(m, vals),
           Effect(Top, Config(results[n], E[n]), graphs, F[n].path)
             = Config(Push(vals, Drop(results[n], m)), E[n])
    PROVE  MeaningInv'
<1>1. ResultsAgree
  BY DEF MeaningInv
<1>2. /\ n \in Nat \ {0} /\ IsSeq(todo[n]) /\ todo[n] # << >> /\ Top = Head(todo[n])
      /\ StepDone => IsChanged(todo', todo, n, Tail(todo[n]))
  BY TodoIs
<1>3. PICK stack : stack = Push(vals, Drop(results[n], m))
  OBVIOUS
<1>4. StepDone /\ IsChanged(results', results, n, stack)
  BY <1>1, <1>2, <1>3, ResultsAre
<1>5. PICK c : c = Config(results[n], E[n])
  OBVIOUS
<1>6. FrameOk(F[n], E[n], values, todo[n], results[n], c, tuple_scope_stack[n],
              node_values, tuple_values, graphs)
  BY <1>1, <1>5, TopIs
<1>7. IsSeq(stack)
  <2>1. IsSeq(results[n])
    BY <1>6 DEF FrameOk
  <2>2. IsSeq(Drop(results[n], m))
    BY <2>1, DropIsSeq
  <2> QED
    BY <1>3, <2>2, PushIs
<1>8. PICK rest : rest = Tail(todo[n])
  OBVIOUS
<1>9. PICK c2 : c2 = Config(stack, E[n])
  OBVIOUS
<1>10. Effect(Head(todo[n]), c, graphs, F[n].path) = c2
  BY <1>2, <1>3, <1>5, <1>9
<1>11. FrameOk(F[n], E[n], values, rest, stack, c2, tuple_scope_stack[n],
               node_values, tuple_values, graphs)
  BY <1>2, <1>6, <1>7, <1>8, <1>10, FrameStep
<1>12. /\ node_values' = node_values /\ tuple_values' = tuple_values
       /\ \A scope : SameInScope(node_values, node_values', scope)
                     /\ SameInScope(tuple_values, tuple_values', scope)
  BY SameCaches
<1>13. IsChanged(todo', todo, n, rest)
  BY <1>2, <1>4, <1>8
<1>14. FrameOk(F[n], E[n], values, rest, stack, Config(stack, E[n]), tuple_scope_stack[n],
               node_values', tuple_values', graphs)
  BY <1>9, <1>11, <1>12
<1> QED
  BY <1>4, <1>12, <1>13, <1>14, ExprChanges

\* A step that is replaced by others.
LEMMA ContinuesWith ==
    ASSUME LowererInv, MeaningInv, status = "lowering", Todo # << >>, Unscoped, UNCHANGED caches,
           UNCHANGED results,
           NEW F, NEW E, NEW V, InProgress(F, E, V), NEW n, n = Len(todo),
           NEW new, Continue(new),
           Replaces(F[n].graph, Top, new, results[n], E[n], graphs, F[n].path)
    PROVE  MeaningInv'
<1>1. ResultsAgree
  BY DEF MeaningInv
<1>2. IsSeq(new)
  BY DEF Replaces
<1>3. /\ n \in Nat \ {0} /\ IsSeq(todo[n]) /\ todo[n] # << >> /\ Top = Head(todo[n])
      /\ IsChanged(todo', todo, n, new \o Tail(todo[n]))
  BY <1>2, TodoIs
<1>4. FrameOk(F[n], E[n], values, todo[n], results[n], Config(results[n], E[n]),
              tuple_scope_stack[n], node_values, tuple_values, graphs)
  BY <1>1, TopIs
<1>5. PICK steps : steps = new \o Tail(todo[n])
  OBVIOUS
<1>6. FrameOk(F[n], E[n], values, steps, results[n], Config(results[n], E[n]),
              tuple_scope_stack[n], node_values, tuple_values, graphs)
  BY <1>3, <1>4, <1>5, FrameReplaced
<1>7. PICK stack : stack = results[n]
  OBVIOUS
<1>8. IsChanged(results', results, n, stack)
  BY <1>1, <1>7 DEF ResultsAgree, IsChanged
<1>9. /\ node_values' = node_values /\ tuple_values' = tuple_values
      /\ \A scope : SameInScope(node_values, node_values', scope)
                    /\ SameInScope(tuple_values, tuple_values', scope)
  BY SameCaches
<1>10. FrameOk(F[n], E[n], values, steps, stack, Config(stack, E[n]), tuple_scope_stack[n],
               node_values', tuple_values', graphs)
  BY <1>6, <1>7, <1>9
<1>11. IsChanged(todo', todo, n, steps)
  BY <1>3, <1>5
<1> QED
  BY <1>8, <1>9, <1>10, <1>11, ExprChanges

------------------------------------------------------------------------------
(* The step at hand *)

\* Steps that lower the same expression do and need the same.
LEMMA SameStep ==
    ASSUME NEW s, NEW t, s.step = t.step, s.expr = t.expr,
           s.step \in {"lower_expr", "lower_let_values"},
           NEW g, NEW stack, NEW env, NEW registry, NEW path, NEW new
    PROVE  /\ Effect(s, Config(stack, env), registry, path)
                = Effect(t, Config(stack, env), registry, path)
           /\ Replaces(g, s, new, stack, env, registry, path)
                <=> Replaces(g, t, new, stack, env, registry, path)
<1>1. PICK c : c = Config(stack, env)
  OBVIOUS
<1>2. Effect(s, c, registry, path) = Effect(t, c, registry, path)
  <2>1. CASE s.step = "lower_expr"
    BY <2>1 DEF Effect, LiveEffect
  <2>2. CASE s.step = "lower_let_values"
    BY <2>2 DEF Effect, LiveEffect
  <2> QED
    BY <2>1, <2>2
<1>3. Kept(g, s) = {} /\ Kept(g, t) = {}
  BY DEF Kept
<1>4. ExprsIn(s) = ExprsIn(t)
  BY DEF ExprsIn
<1>5. Uses(g, s) = Uses(g, t)
  BY <1>3, <1>4 DEF Uses
<1>6. NamesBy(s) = NamesBy(t)
  BY DEF NamesBy
<1>7. \A r : Within(g, r, s) <=> Within(g, r, t)
  BY <1>5, <1>6 DEF Within
<1>8. Effect(s, Config(stack, env), registry, path) = Effect(t, Config(stack, env), registry, path)
  BY <1>1, <1>2
<1> QED
  BY <1>7, <1>8 DEF Replaces

\* The step at hand is sound, and leads on or fails.
AtHand(F, E, n) ==
    /\ n \in Nat \ {0} /\ n = Len(todo)
    /\ todo[n] # << >> /\ Top = Head(todo[n])
    /\ FrameOk(F[n], E[n], values, todo[n], results[n], Config(results[n], E[n]),
               tuple_scope_stack[n], node_values, tuple_values, graphs)
    /\ Sound(F[n].graph, Top, Config(results[n], E[n]), graphs, F[n].path)
    /\ WellFormed(F[n].graph, results[n], E[n], graphs)
    /\ current_tuple_scope = tuple_scope_stack[n]
    /\ F[n].path = call_stack /\ Len(F[n].path) = n

\* The innermost frame of a lowering in progress is at hand.
LEMMA TopIsAtHand ==
    ASSUME LowererInv, status = "lowering", Todo # << >>, ResultsAgree,
           NEW F, NEW E, NEW V, InProgress(F, E, V), NEW n, n = Len(todo)
    PROVE  AtHand(F, E, n)
<1>1. n \in Nat \ {0} /\ todo[n] # << >> /\ Top = Head(todo[n])
  BY TodoIs
<1>2. FrameOk(F[n], E[n], values, todo[n], results[n], Config(results[n], E[n]),
              tuple_scope_stack[n], node_values, tuple_values, graphs)
  BY TopIs
<1>3. Sound(F[n].graph, Top, Config(results[n], E[n]), graphs, F[n].path)
  BY <1>1, <1>2, FrameStep
<1>4. /\ current_tuple_scope = tuple_scope_stack[n] /\ F[n].path = call_stack
      /\ Len(F[n].path) = n /\ WellFormed(F[n].graph, results[n], E[n], graphs)
  BY TopIs
<1> QED
  BY <1>1, <1>2, <1>3, <1>4 DEF AtHand

\* The expression at hand is one of the graph, and its names are bound.
LEMMA ExprAtHand ==
    ASSUME NEW F, NEW E, NEW n, AtHand(F, E, n), FailedIsNone,
           Top.step \in {"lower_expr", "lower_let_values"}, NEW e, e = Top.expr
    PROVE  /\ CanLower(F[n].graph, e, E[n], F[n].path) /\ e \in Exprs /\ e \in PartsOf(F[n].graph)
           /\ Top.step = "lower_expr" =>
                Effect(Top, Config(results[n], E[n]), graphs, F[n].path)
                  = Effect(LowerExpr(e), Config(results[n], E[n]), graphs, F[n].path)
<1>1. PICK c : c = Config(results[n], E[n])
  OBVIOUS
<1>2. c # Failed /\ c.env = E[n]
  BY <1>1, ConfigIs
<1>3. e \in ExprsIn(Top)
  BY DEF ExprsIn
<1>4. Sound(F[n].graph, Top, c, graphs, F[n].path)
  BY <1>1 DEF AtHand
<1>5. CanLower(F[n].graph, e, E[n], F[n].path)
  BY <1>2, <1>3, <1>4 DEF Sound
<1>6. IsGraph(F[n].graph)
  BY DEF AtHand, WellFormed
<1>7. e \in Exprs /\ e \in PartsOf(F[n].graph)
  BY <1>5, <1>6, PartsAreClosed DEF CanLower
<1>8. ASSUME Top.step = "lower_expr"
      PROVE  Effect(Top, c, graphs, F[n].path) = Effect(LowerExpr(e), c, graphs, F[n].path)
  <2>1. LowerExpr(e).step = "lower_expr" /\ LowerExpr(e).expr = e
    BY DEF LowerExpr
  <2> QED
    BY <1>1, <1>8, <2>1, SameStep
<1> QED
  BY <1>1, <1>5, <1>7, <1>8

\* Nothing is dropped.
LEMMA DropNone ==
    ASSUME NEW s, IsSeq(s)
    PROVE  Drop(s, 0) = s
<1>1. PICK r : r = Drop(s, 0)
  OBVIOUS
<1>2. PICK m : m = Len(s) /\ m \in Nat
  BY SeqShape
<1>3. IsDropped(s, 0, r)
  BY <1>1, <1>2, DropIs
<1>4. IsSeq(r) /\ Len(r) = m /\ \A i \in 1..m : r[i] = s[i]
  BY <1>2, <1>3 DEF IsDropped
<1>5. r = s
  BY <1>2, <1>4, SeqsEqual
<1> QED
  BY <1>1, <1>5

\* An expression whose value is at hand.
LEMMA ReturnsValue ==
    ASSUME FailedIsNone, LowererInv, MeaningInv, status = "lowering", Todo # << >>, Unscoped,
           UNCHANGED caches, Top.step = "lower_expr",
           NEW F, NEW E, NEW V, InProgress(F, E, V), NEW n, n = Len(todo),
           NEW val, val = One(MeaningOf(Top.expr, E[n], graphs, F[n].path)), val # Failed,
           Return(0, <<val>>)
    PROVE  MeaningInv'
<1>1. AtHand(F, E, n)
  BY TopIsAtHand DEF MeaningInv
<1>2. PICK stack : stack = results[n]
  OBVIOUS
<1>3. IsSeq(stack)
  BY <1>1, <1>2 DEF AtHand, WellFormed
<1>4. PICK e : e = Top.expr
  OBVIOUS
<1>5. Effect(Top, Config(stack, E[n]), graphs, F[n].path)
        = Effect(LowerExpr(e), Config(stack, E[n]), graphs, F[n].path)
  BY <1>1, <1>2, <1>4, ExprAtHand
<1>6. PICK one : one = <<val>>
  OBVIOUS
<1>7. Effect(LowerExpr(e), Config(stack, E[n]), graphs, F[n].path) = Config(Push(one, stack), E[n])
  BY <1>4, <1>6, ExprEffect
<1>8. Drop(stack, 0) = stack
  BY <1>3, DropNone
<1>9. Effect(Top, Config(results[n], E[n]), graphs, F[n].path)
        = Config(Push(one, Drop(results[n], 0)), E[n])
  BY <1>2, <1>5, <1>7, <1>8
<1>10. Return(0, one) /\ 0 \in Nat
  BY <1>6
<1> QED
  BY <1>9, <1>10, ReturnsEffect

\* LowerVar: the lowerer has the value of each name of the graph.
LEMMA VarMeaning ==
    ASSUME MeaningsAreDefined, LowererInv, MeaningInv, LowerVar
    PROVE  MeaningInv'
<1>0. FailedIsNone /\ MeaningRules
  BY DEF MeaningsAreDefined
<1>1. /\ status = "lowering" /\ Todo # << >> /\ Top.step = "lower_expr" /\ Top.expr.kind = "Var"
      /\ Top.expr.name \in DOMAIN values /\ Return(0, <<values[Top.expr.name]>>)
      /\ UNCHANGED caches /\ Unscoped
  BY DEF LowerVar, AtExpr, At, caches
<1>2. ResultsAgree /\ \E F, E, V : InProgress(F, E, V)
  BY <1>1 DEF MeaningInv
<1>3. PICK F, E, V : InProgress(F, E, V)
  BY <1>2
<1>4. PICK n : n = Len(todo)
  OBVIOUS
<1>5. AtHand(F, E, n)
  BY <1>1, <1>2, <1>3, <1>4, TopIsAtHand
<1>6. PICK e : e = Top.expr
  OBVIOUS
<1>7. CanLower(F[n].graph, e, E[n], F[n].path) /\ e \in Exprs
  BY <1>0, <1>1, <1>5, <1>6, ExprAtHand
<1>8. e.name \in DOMAIN E[n] /\ E[n][e.name] = values[e.name]
  <2>1. Agrees(F[n], E[n], values)
    BY <1>5 DEF AtHand, FrameOk
  <2>2. CASE Len(F[n].path) = 1
    BY <1>1, <1>6, <2>1, <2>2 DEF Agrees
  <2>3. CASE Len(F[n].path) # 1
    <3>1. Len(F[n].path) > 1
      BY <1>5, <2>3 DEF AtHand
    <3>2. VarsOf(e) \subseteq DOMAIN E[n]
      BY <1>7, <3>1 DEF CanLower
    <3>3. e.name \in VarsOf(e)
      BY <1>1, <1>6, <1>7, ExprsAssumption DEF VarsOf
    <3> QED
      BY <2>1, <2>3, <3>2, <3>3 DEF Agrees
  <2> QED
    BY <2>2, <2>3
<1>9. PICK val : val = values[e.name]
  OBVIOUS
<1>10. val # Failed
  BY <1>5, <1>8, <1>9 DEF AtHand, WellFormed, IsEnv
<1>11. PICK vals : vals = MeaningOf(e, E[n], graphs, F[n].path)
  OBVIOUS
<1>12. IsMeaning(vals, e, E[n], graphs, F[n].path)
  BY <1>0, <1>7, <1>11, MeaningIs
<1>13. vals = <<val>>
  BY <1>1, <1>6, <1>8, <1>9, <1>12 DEF IsMeaning
<1>14. val = One(MeaningOf(Top.expr, E[n], graphs, F[n].path))
  BY <1>0, <1>6, <1>11, <1>13, OneValue
<1>15. Return(0, <<val>>)
  BY <1>1, <1>6, <1>9
<1> QED
  BY <1>0, <1>1, <1>3, <1>4, <1>10, <1>14, <1>15, ReturnsValue

\* LowerConst.
LEMMA ConstMeaning ==
    ASSUME MeaningsAreDefined, LowererInv, MeaningInv, LowerConst
    PROVE  MeaningInv'
<1>0. FailedIsNone /\ MeaningRules
  BY DEF MeaningsAreDefined
<1>1. /\ status = "lowering" /\ Todo # << >> /\ Top.step = "lower_expr" /\ Top.expr.kind = "Const"
      /\ Return(0, <<Term(Top.expr.value, << >>, 1)>>)
      /\ UNCHANGED caches /\ Unscoped
  BY DEF LowerConst, AtExpr, At
<1>2. ResultsAgree /\ \E F, E, V : InProgress(F, E, V)
  BY <1>1 DEF MeaningInv
<1>3. PICK F, E, V : InProgress(F, E, V)
  BY <1>2
<1>4. PICK n : n = Len(todo)
  OBVIOUS
<1>5. AtHand(F, E, n)
  BY <1>1, <1>2, <1>3, <1>4, TopIsAtHand
<1>6. PICK e : e = Top.expr
  OBVIOUS
<1>7. e \in Exprs
  BY <1>0, <1>1, <1>5, <1>6, ExprAtHand
<1>8. PICK val : val = Term(e.value, << >>, 1)
  OBVIOUS
<1>9. val # Failed
  BY <1>0, <1>8, TermIsValue
<1>10. PICK vals : vals = MeaningOf(e, E[n], graphs, F[n].path)
  OBVIOUS
<1>11. IsMeaning(vals, e, E[n], graphs, F[n].path)
  BY <1>0, <1>7, <1>10, MeaningIs
<1>12. vals = <<val>>
  BY <1>1, <1>6, <1>8, <1>11 DEF IsMeaning
<1>13. val = One(MeaningOf(Top.expr, E[n], graphs, F[n].path))
  BY <1>0, <1>6, <1>10, <1>12, OneValue
<1>14. Return(0, <<val>>)
  BY <1>1, <1>6, <1>8
<1> QED
  BY <1>0, <1>1, <1>3, <1>4, <1>9, <1>13, <1>14, ReturnsValue

\* A step that is replaced by what lowering its expression is replaced by.
LEMMA ExprContinues ==
    ASSUME FailedIsNone, LowererInv, MeaningInv, status = "lowering", Todo # << >>, Unscoped,
           UNCHANGED <<caches, results>>, Top.step \in {"lower_expr", "lower_let_values"},
           NEW F, NEW E, NEW V, InProgress(F, E, V), NEW n, n = Len(todo),
           NEW t, t.step = Top.step, t.expr = Top.expr, NEW new, Continue(new),
           Replaces(F[n].graph, t, new, results[n], E[n], graphs, F[n].path)
    PROVE  MeaningInv'
<1>1. Replaces(F[n].graph, Top, new, results[n], E[n], graphs, F[n].path)
  BY SameStep
<1>2. UNCHANGED caches /\ UNCHANGED results
  OBVIOUS
<1> QED
  BY <1>1, <1>2, ContinuesWith

\* LowerNode: the cached value is that of the node.
LEMMA NodeMeaning ==
    ASSUME MeaningsAreDefined, LowererInv, MeaningInv, LowerNode
    PROVE  MeaningInv'
<1>0. FailedIsNone /\ MeaningRules
  BY DEF MeaningsAreDefined
<1>1. PICK e : e = Top.expr
  OBVIOUS
<1>2. PICK key : key = <<current_tuple_scope, e.node_id>>
  OBVIOUS
<1>3. /\ status = "lowering" /\ Todo # << >> /\ Top.step = "lower_expr" /\ e.kind = "Node"
      /\ UNCHANGED caches /\ Unscoped
      /\ IF key \in DOMAIN node_values
         THEN Return(0, <<node_values[key]>>)
         ELSE /\ Continue(<<LowerExpr(e.value), [step |-> "keep_node", key |-> key]>>)
              /\ UNCHANGED results
  BY <1>1, <1>2 DEF LowerNode, AtExpr, At, scoped_key
<1>4. ResultsAgree /\ \E F, E, V : InProgress(F, E, V)
  BY <1>3 DEF MeaningInv
<1>5. PICK F, E, V : InProgress(F, E, V)
  BY <1>4
<1>6. PICK n : n = Len(todo)
  OBVIOUS
<1>7. AtHand(F, E, n)
  BY <1>3, <1>4, <1>5, <1>6, TopIsAtHand
<1>8. CanLower(F[n].graph, e, E[n], F[n].path) /\ e \in Exprs /\ e \in PartsOf(F[n].graph)
  BY <1>0, <1>1, <1>3, <1>7, ExprAtHand
<1>9. CASE key \in DOMAIN node_values
  <2>1. PICK scope : scope = tuple_scope_stack[n]
    OBVIOUS
  <2>2. key = <<scope, e.node_id>>
    BY <1>2, <1>7, <2>1 DEF AtHand
  <2>3. Cached(F[n], E[n], todo[n], scope, node_values, tuple_values, graphs)
    BY <1>7, <2>1 DEF AtHand, FrameOk
  <2>4. <<scope, e.node_id>> \in DOMAIN node_values
    BY <1>9, <2>2
  <2>5. NodeIsKept(e, node_values, <<scope, e.node_id>>, F[n], E[n], graphs)
    BY <1>3, <1>8, <2>3, <2>4 DEF Cached
  <2>6. PICK vals : vals = MeaningOf(e, E[n], graphs, F[n].path)
    OBVIOUS
  <2>7. IsMeaning(vals, e, E[n], graphs, F[n].path)
    BY <1>0, <1>8, <2>6, MeaningIs
  <2>8. vals = MeaningOf(e.value, E[n], graphs, F[n].path)
    BY <1>3, <2>7 DEF IsMeaning
  <2>9. PICK val : val = node_values[key]
    OBVIOUS
  <2>10. val = One(vals) /\ val # Failed
    BY <2>2, <2>5, <2>8, <2>9 DEF NodeIsKept
  <2>11. val = One(MeaningOf(Top.expr, E[n], graphs, F[n].path))
    BY <1>1, <2>6, <2>10
  <2>12. Return(0, <<val>>)
    BY <1>3, <1>9, <2>9
  <2> QED
    BY <1>0, <1>3, <1>5, <1>6, <2>10, <2>11, <2>12, ReturnsValue
<1>10. CASE key \notin DOMAIN node_values
  <2>1. PICK new : new = <<LowerExpr(e.value), [step |-> "keep_node", key |-> key]>>
    OBVIOUS
  <2>2. Continue(new) /\ UNCHANGED results
    BY <1>3, <1>10, <2>1
  <2>3. key[2] = e.node_id
    BY <1>2
  <2>4. WellFormed(F[n].graph, results[n], E[n], graphs)
    BY <1>7 DEF AtHand
  <2>5. Replaces(F[n].graph, LowerExpr(e), new, results[n], E[n], graphs, F[n].path)
    BY <1>3, <1>8, <2>1, <2>3, <2>4, ReplaceNode
  <2>6. PICK t : t = LowerExpr(e)
    OBVIOUS
  <2>7. t.step = Top.step /\ t.expr = Top.expr
    BY <1>1, <1>3, <2>6 DEF LowerExpr
  <2>8. Replaces(F[n].graph, t, new, results[n], E[n], graphs, F[n].path)
    BY <2>5, <2>6
  <2>9. UNCHANGED <<caches, results>> /\ Top.step \in {"lower_expr", "lower_let_values"}
    BY <1>3, <2>2
  <2> QED
    BY <1>0, <1>3, <1>5, <1>6, <2>2, <2>7, <2>8, <2>9, ExprContinues
<1> QED
  BY <1>9, <1>10

\* LowerTupleGet: the cached values are those of the tuple.
LEMMA TupleGetMeaning ==
    ASSUME MeaningsAreDefined, LowererInv, MeaningInv, LowerTupleGet
    PROVE  MeaningInv'
<1>0. FailedIsNone /\ MeaningRules
  BY DEF MeaningsAreDefined
<1>1. PICK e : e = Top.expr
  OBVIOUS
<1>2. PICK key : key = <<current_tuple_scope, e.tuple_id>>
  OBVIOUS
<1>3. /\ status = "lowering" /\ Todo # << >> /\ Top.step = "lower_expr" /\ e.kind = "TupleGet"
      /\ UNCHANGED caches /\ Unscoped
      /\ IF key \in DOMAIN tuple_values
         THEN /\ e.index \in DOMAIN tuple_values[key]
              /\ Return(0, <<tuple_values[key][e.index]>>)
         ELSE /\ Continue(<<LowerLetValues(e.value),
                            [step |-> "keep_tuple", key |-> key, index |-> e.index]>>)
              /\ UNCHANGED results
  BY <1>1, <1>2 DEF LowerTupleGet, AtExpr, At, scoped_key
<1>4. ResultsAgree /\ \E F, E, V : InProgress(F, E, V)
  BY <1>3 DEF MeaningInv
<1>5. PICK F, E, V : InProgress(F, E, V)
  BY <1>4
<1>6. PICK n : n = Len(todo)
  OBVIOUS
<1>7. AtHand(F, E, n)
  BY <1>3, <1>4, <1>5, <1>6, TopIsAtHand
<1>8. CanLower(F[n].graph, e, E[n], F[n].path) /\ e \in Exprs /\ e \in PartsOf(F[n].graph)
  BY <1>0, <1>1, <1>3, <1>7, ExprAtHand
<1>9. CASE key \in DOMAIN tuple_values
  <2>1. PICK scope : scope = tuple_scope_stack[n]
    OBVIOUS
  <2>2. key = <<scope, e.tuple_id>>
    BY <1>2, <1>7, <2>1 DEF AtHand
  <2>3. Cached(F[n], E[n], todo[n], scope, node_values, tuple_values, graphs)
    BY <1>7, <2>1 DEF AtHand, FrameOk
  <2>4. <<scope, e.tuple_id>> \in DOMAIN tuple_values
    BY <1>9, <2>2
  <2>5. TupleIsKept(e, tuple_values, <<scope, e.tuple_id>>, F[n], E[n], graphs)
    BY <1>3, <1>8, <2>3, <2>4 DEF Cached
  <2>6. PICK tuple : tuple = MeaningOf(e.value, E[n], graphs, F[n].path)
    OBVIOUS
  <2>7. tuple # Failed /\ tuple_values[key] = tuple
    BY <2>2, <2>5, <2>6 DEF TupleIsKept
  <2>8. PICK vals : vals = MeaningOf(e, E[n], graphs, F[n].path)
    OBVIOUS
  <2>9. IsMeaning(vals, e, E[n], graphs, F[n].path)
    BY <1>0, <1>8, <2>8, MeaningIs
  <2>10. PICK val : val = tuple[e.index]
    OBVIOUS
  <2>11. e.index \in DOMAIN tuple /\ Return(0, <<val>>)
    BY <1>3, <1>9, <2>7, <2>10
  <2>12. vals = <<val>>
    BY <1>3, <2>6, <2>7, <2>9, <2>10, <2>11 DEF IsMeaning
  <2>13. IsValues(tuple)
    <3>1. IsEnv(E[n]) /\ \A name \in DOMAIN graphs : IsGraph(graphs[name])
      BY <1>7 DEF AtHand, WellFormed
    <3>2. e.value \in Exprs
      BY <1>3, <1>8, ProgramsAssumption
    <3> QED
      BY <2>6, <2>7, <3>1, <3>2, MeaningIsAList
  <2>14. val # Failed
    <3>1. DOMAIN tuple = 1..Len(tuple)
      BY <2>13, SeqShape DEF IsValues
    <3> QED
      BY <2>10, <2>11, <2>13, <3>1 DEF IsValues
  <2>15. val = One(MeaningOf(Top.expr, E[n], graphs, F[n].path))
    BY <1>0, <1>1, <2>8, <2>12, OneValue
  <2> QED
    BY <1>0, <1>3, <1>5, <1>6, <2>11, <2>14, <2>15, ReturnsValue
<1>10. CASE key \notin DOMAIN tuple_values
  <2>1. PICK new : new = <<LowerLetValues(e.value),
                           [step |-> "keep_tuple", key |-> key, index |-> e.index]>>
    OBVIOUS
  <2>2. Continue(new) /\ UNCHANGED results
    BY <1>3, <1>10, <2>1
  <2>3. key[2] = e.tuple_id
    BY <1>2
  <2>4. WellFormed(F[n].graph, results[n], E[n], graphs)
    BY <1>7 DEF AtHand
  <2>5. Replaces(F[n].graph, LowerExpr(e), new, results[n], E[n], graphs, F[n].path)
    BY <1>3, <1>8, <2>1, <2>3, <2>4, ReplaceTupleGet
  <2>6. PICK t : t = LowerExpr(e)
    OBVIOUS
  <2>7. t.step = Top.step /\ t.expr = Top.expr
    BY <1>1, <1>3, <2>6 DEF LowerExpr
  <2>8. Replaces(F[n].graph, t, new, results[n], E[n], graphs, F[n].path)
    BY <2>5, <2>6
  <2>9. UNCHANGED <<caches, results>> /\ Top.step \in {"lower_expr", "lower_let_values"}
    BY <1>3, <2>2
  <2> QED
    BY <1>0, <1>3, <1>5, <1>6, <2>2, <2>7, <2>8, <2>9, ExprContinues
<1> QED
  BY <1>9, <1>10

\* LowerCall.
LEMMA CallMeans ==
    ASSUME MeaningsAreDefined, LowererInv, MeaningInv, LowerCall
    PROVE  MeaningInv'
<1>0. FailedIsNone /\ MeaningRules
  BY DEF MeaningsAreDefined
<1>1. PICK e : e = Top.expr
  OBVIOUS
<1>2. PICK new : new = Append(CallSteps(e), [step |-> "single"])
  OBVIOUS
<1>3. /\ status = "lowering" /\ Todo # << >> /\ Top.step = "lower_expr"
      /\ e.kind \in {"Call", "Graph"} /\ UNCHANGED <<caches, results>> /\ Unscoped
      /\ Continue(new)
  BY <1>1, <1>2 DEF LowerCall, AtExpr, At
<1>4. ResultsAgree /\ \E F, E, V : InProgress(F, E, V)
  BY <1>3 DEF MeaningInv
<1>5. PICK F, E, V : InProgress(F, E, V)
  BY <1>4
<1>6. PICK n : n = Len(todo)
  OBVIOUS
<1>7. AtHand(F, E, n)
  BY <1>3, <1>4, <1>5, <1>6, TopIsAtHand
<1>8. CanLower(F[n].graph, e, E[n], F[n].path)
  BY <1>0, <1>1, <1>3, <1>7, ExprAtHand
<1>9. WellFormed(F[n].graph, results[n], E[n], graphs)
  BY <1>7 DEF AtHand
<1>10. PICK t : t = LowerExpr(e)
  OBVIOUS
<1>11. Replaces(F[n].graph, t, new, results[n], E[n], graphs, F[n].path)
  BY <1>2, <1>3, <1>8, <1>9, <1>10, ReplaceCall
<1>12. t.step = Top.step /\ t.expr = Top.expr
  BY <1>1, <1>3, <1>10 DEF LowerExpr
<1>13. Top.step \in {"lower_expr", "lower_let_values"}
  BY <1>3
<1> QED
  BY <1>0, <1>3, <1>5, <1>6, <1>11, <1>12, <1>13, ExprContinues

\* LowerLetOrTuple.
LEMMA LetOrTupleMeaning ==
    ASSUME MeaningsAreDefined, LowererInv, MeaningInv, LowerLetOrTuple
    PROVE  MeaningInv'
<1>0. FailedIsNone /\ MeaningRules
  BY DEF MeaningsAreDefined
<1>1. PICK e : e = Top.expr
  OBVIOUS
<1>2. PICK new : new = CASE e.kind = "Node" -> <<LowerLetValues(e.value)>>
                         [] e.kind \in {"Call", "Graph"} -> CallSteps(e)
                         [] OTHER -> <<LowerExpr(e)>>
  OBVIOUS
<1>3. /\ status = "lowering" /\ Todo # << >> /\ Top.step = "lower_let_values"
      /\ UNCHANGED <<caches, results>> /\ Unscoped
      /\ Continue(new)
  BY <1>1, <1>2 DEF LowerLetOrTuple, At
<1>4. ResultsAgree /\ \E F, E, V : InProgress(F, E, V)
  BY <1>3 DEF MeaningInv
<1>5. PICK F, E, V : InProgress(F, E, V)
  BY <1>4
<1>6. PICK n : n = Len(todo)
  OBVIOUS
<1>7. AtHand(F, E, n)
  BY <1>3, <1>4, <1>5, <1>6, TopIsAtHand
<1>8. CanLower(F[n].graph, e, E[n], F[n].path)
  BY <1>0, <1>1, <1>3, <1>7, ExprAtHand
<1>9. WellFormed(F[n].graph, results[n], E[n], graphs)
  BY <1>7 DEF AtHand
<1>10. PICK t : t = LowerLetValues(e)
  OBVIOUS
<1>11. Replaces(F[n].graph, t, new, results[n], E[n], graphs, F[n].path)
  BY <1>2, <1>8, <1>9, <1>10, ReplaceLetOrTuple
<1>12. t.step = Top.step /\ t.expr = Top.expr
  BY <1>1, <1>3, <1>10 DEF LowerLetValues
<1>13. Top.step \in {"lower_expr", "lower_let_values"}
  BY <1>3
<1> QED
  BY <1>0, <1>3, <1>5, <1>6, <1>11, <1>12, <1>13, ExprContinues

\* The names that a step binds are a list.
LEMMA TopBindsAList ==
    ASSUME LowererInv, ScopesInv, status = "lowering", Todo # << >>
    PROVE  BindsAList(Top)
<1>1. PICK n : n = Len(todo)
  OBVIOUS
<1>2. n \in Nat \ {0} /\ IsSeq(todo[n]) /\ todo[n] # << >> /\ Top = Head(todo[n])
  BY <1>1, TodoIs
<1>3. Head(todo[n]) = todo[n][1] /\ 1 \in DOMAIN todo[n]
  <2>1. Len(todo[n]) \in Nat \ {0} /\ DOMAIN todo[n] = 1..Len(todo[n])
    BY <1>2, SeqShape
  <2> QED
    BY <1>2, <2>1, TailIsSeq
<1>4. Top \in ToSet(todo[n])
  BY <1>2, <1>3 DEF ToSet
<1>5. n \in 1..Len(todo)
  BY <1>1, <1>2
<1> QED
  BY <1>4, <1>5 DEF ScopesInv

\* LowerLet.
LEMMA LetMeaning ==
    ASSUME MeaningsAreDefined, LowererInv, ScopesInv, MeaningInv, LowerLet
    PROVE  MeaningInv'
<1>0. FailedIsNone /\ MeaningRules
  BY DEF MeaningsAreDefined
<1>1. PICK l : l = Top.binding
  OBVIOUS
<1>2. PICK new : new = <<LowerLetValues(l.value), [step |-> "bind_values", names |-> l.names]>>
  OBVIOUS
<1>3. /\ status = "lowering" /\ Todo # << >> /\ Top.step = "let"
      /\ UNCHANGED caches /\ UNCHANGED results /\ Unscoped /\ Continue(new)
  BY <1>1, <1>2 DEF LowerLet, At
<1>4. ResultsAgree /\ \E F, E, V : InProgress(F, E, V)
  BY <1>3 DEF MeaningInv
<1>5. PICK F, E, V : InProgress(F, E, V)
  BY <1>4
<1>6. PICK n : n = Len(todo)
  OBVIOUS
<1>7. AtHand(F, E, n)
  BY <1>3, <1>4, <1>5, <1>6, TopIsAtHand
<1>8. CanLower(F[n].graph, l.value, E[n], F[n].path)
  <2>1. PICK c : c = Config(results[n], E[n])
    OBVIOUS
  <2>2. c # Failed /\ c.env = E[n]
    BY <1>0, <2>1, ConfigIs
  <2>3. Sound(F[n].graph, Top, c, graphs, F[n].path)
    BY <1>7, <2>1 DEF AtHand
  <2>4. l.value \in ExprsIn(Top)
    BY <1>1, <1>3 DEF ExprsIn
  <2> QED
    BY <2>2, <2>3, <2>4 DEF Sound
<1>9. IsSeq(l.names)
  BY <1>1, <1>3, TopBindsAList DEF BindsAList
<1>10. WellFormed(F[n].graph, results[n], E[n], graphs)
  BY <1>7 DEF AtHand
<1>11. PICK s : s = Top
  OBVIOUS
<1>12. s.step = "let" /\ s.binding = l
  BY <1>1, <1>3, <1>11
<1>13. Replaces(F[n].graph, s, new, results[n], E[n], graphs, F[n].path)
  BY <1>2, <1>8, <1>9, <1>10, <1>12, ReplaceLet
<1>14. Replaces(F[n].graph, Top, new, results[n], E[n], graphs, F[n].path)
  BY <1>11, <1>13
<1> QED
  BY <1>3, <1>5, <1>6, <1>14, ContinuesWith

\* CheckSingle: a call that has one value is that value.
LEMMA SingleMeaning ==
    ASSUME MeaningsAreDefined, LowererInv, MeaningInv, CheckSingle
    PROVE  MeaningInv'
<1>0. FailedIsNone /\ MeaningRules
  BY DEF MeaningsAreDefined
<1>1. /\ status = "lowering" /\ Todo # << >> /\ Top.step = "single" /\ Len(Result) = 1
      /\ StepDone /\ UNCHANGED caches /\ results' = results /\ Unscoped
  BY DEF CheckSingle, At
<1>2. ResultsAgree /\ \E F, E, V : InProgress(F, E, V)
  BY <1>1 DEF MeaningInv
<1>3. PICK F, E, V : InProgress(F, E, V)
  BY <1>2
<1>4. PICK n : n = Len(todo)
  OBVIOUS
<1>5. AtHand(F, E, n)
  BY <1>1, <1>2, <1>3, <1>4, TopIsAtHand
<1>6. PICK stack : stack = results[n]
  OBVIOUS
<1>7. PICK c : c = Config(stack, E[n])
  OBVIOUS
<1>8. Result = Head(stack)
  BY <1>2, <1>4, <1>5, <1>6, ResultsAre DEF AtHand
<1>9. c # Failed /\ c.stack = stack
  BY <1>0, <1>7, ConfigIs
<1>10. Effect(Top, c, graphs, F[n].path) = c
  BY <1>1, <1>8, <1>9 DEF Effect, LiveEffect
<1>11. FrameOk(F[n], E[n], values, todo[n], stack, c, tuple_scope_stack[n],
               node_values, tuple_values, graphs)
  BY <1>5, <1>6, <1>7 DEF AtHand
<1>12. PICK rest : rest = Tail(todo[n])
  OBVIOUS
<1>13. IsSeq(stack) /\ todo[n] # << >> /\ Top = Head(todo[n])
  BY <1>5, <1>6 DEF AtHand, WellFormed
<1>14. Effect(Head(todo[n]), c, graphs, F[n].path) = c
  BY <1>10, <1>13
<1>15. FrameOk(F[n], E[n], values, rest, stack, c, tuple_scope_stack[n],
               node_values, tuple_values, graphs)
  BY <1>11, <1>12, <1>13, <1>14, FrameStep
<1>16. /\ node_values' = node_values /\ tuple_values' = tuple_values
       /\ \A scope : SameInScope(node_values, node_values', scope)
                     /\ SameInScope(tuple_values, tuple_values', scope)
  BY <1>1, SameCaches
<1>17. FrameOk(F[n], E[n], values, rest, stack, Config(stack, E[n]), tuple_scope_stack[n],
               node_values', tuple_values', graphs)
  BY <1>7, <1>15, <1>16
<1>18. IsChanged(results', results, n, stack)
  BY <1>1, <1>2, <1>6 DEF ResultsAgree, IsChanged
<1>19. IsChanged(todo', todo, n, rest)
  BY <1>1, <1>4, <1>12, TodoIs
<1> QED
  BY <1>1, <1>3, <1>4, <1>16, <1>17, <1>18, <1>19, ExprChanges

\* Emit: the values of an operation are those of the call.
LEMMA EmitMeaning ==
    ASSUME MeaningsAreDefined, LowererInv, MeaningInv, Emit
    PROVE  MeaningInv'
<1>0. FailedIsNone /\ MeaningRules
  BY DEF MeaningsAreDefined
<1>1. PICK m : m = Top.count
  OBVIOUS
<1>2. PICK args : args = Latest(m)
  OBVIOUS
<1>3. PICK outs : outs = [r \in 1..Results[Top.op] |-> Term(Top.op, args, r)]
  OBVIOUS
<1>4. /\ status = "lowering" /\ Todo # << >> /\ Top.step = "emit" /\ Top.op \notin Unsupported
      /\ Return(m, outs) /\ UNCHANGED caches /\ Unscoped
  BY <1>1, <1>2, <1>3 DEF Emit, At
<1>5. ResultsAgree /\ \E F, E, V : InProgress(F, E, V)
  BY <1>4 DEF MeaningInv
<1>6. PICK F, E, V : InProgress(F, E, V)
  BY <1>5
<1>7. PICK n : n = Len(todo)
  OBVIOUS
<1>8. AtHand(F, E, n)
  BY <1>4, <1>5, <1>6, <1>7, TopIsAtHand
<1>9. PICK c : c = Config(results[n], E[n])
  OBVIOUS
<1>10. c # Failed /\ c.stack = results[n] /\ c.env = E[n]
  BY <1>0, <1>9, ConfigIs
<1>11. m \in Nat
  <2>1. Sound(F[n].graph, Top, c, graphs, F[n].path)
    BY <1>8, <1>9 DEF AtHand
  <2> QED
    BY <1>1, <1>4, <1>10, <2>1 DEF Sound
<1>12. Args(m, c) = args
  BY <1>2, <1>5, <1>7, <1>8, <1>9, ResultsAre DEF AtHand
<1>13. outs # Failed
  <2>1. IsMap(outs)
    BY <1>3 DEF IsMap
  <2> QED
    BY <1>0, <2>1 DEF FailedIsNone
<1>14. PICK d : d = Pop(m, c)
  OBVIOUS
<1>15. d.stack = Drop(results[n], m) /\ d.env = E[n]
  <2>1. d = Config(Drop(results[n], m), E[n])
    BY <1>10, <1>14 DEF Pop
  <2> QED
    BY <1>0, <2>1, ConfigIs
<1>16. Effect(Top, c, graphs, F[n].path) = Pushed(outs, d)
  BY <1>1, <1>3, <1>4, <1>10, <1>12, <1>14 DEF Effect, LiveEffect
<1>17. Effect(Top, Config(results[n], E[n]), graphs, F[n].path)
         = Config(Push(outs, Drop(results[n], m)), E[n])
  BY <1>9, <1>13, <1>15, <1>16 DEF Pushed
<1> QED
  BY <1>4, <1>6, <1>7, <1>11, <1>17, ReturnsEffect

------------------------------------------------------------------------------
(* Steps that keep a value or bind names *)

\* A value kept in one scope changes nothing in another.
LEMMA InsertElsewhere ==
    ASSUME NEW map, NEW key, NEW val, NEW scope, scope # key[1]
    PROVE  SameInScope(map, MapInsert(map, key, val), scope)
<1>1. PICK new : new = MapInsert(map, key, val)
  OBVIOUS
<1>2. DOMAIN new = DOMAIN map \cup {key} /\ \A k \in DOMAIN map : k # key => new[k] = map[k]
  BY <1>1 DEF MapInsert
<1>3. SameInScope(map, new, scope)
  BY <1>2 DEF SameInScope
<1> QED
  BY <1>1, <1>3

\* The key of a value to be kept is in the innermost scope.
LEMMA KeyIsInnermost ==
    ASSUME LowererInv, status = "lowering", Todo # << >>, Top.step \in {"keep_node", "keep_tuple"}
    PROVE  Top.key[1] = tuple_scope_stack[Len(todo)]
BY TopIsScoped DEF ScopedStep

\* KeepNode.
LEMMA KeepNodeMeaning ==
    ASSUME MeaningsAreDefined, LowererInv, MeaningInv, KeepNode
    PROVE  MeaningInv'
<1>0. FailedIsNone /\ MeaningRules
  BY DEF MeaningsAreDefined
<1>1. PICK key : key = Top.key
  OBVIOUS
<1>2. PICK val : val = Result[1]
  OBVIOUS
<1>3. /\ status = "lowering" /\ Todo # << >> /\ Top.step = "keep_node"
      /\ node_values' = MapInsert(node_values, key, val) /\ tuple_values' = tuple_values
      /\ StepDone /\ results' = results /\ Unscoped
  BY <1>1, <1>2 DEF KeepNode, At
<1>4. ResultsAgree /\ \E F, E, V : InProgress(F, E, V)
  BY <1>3 DEF MeaningInv
<1>5. PICK F, E, V : InProgress(F, E, V)
  BY <1>4
<1>6. PICK n : n = Len(todo)
  OBVIOUS
<1>7. AtHand(F, E, n)
  BY <1>3, <1>4, <1>5, <1>6, TopIsAtHand
<1>8. PICK stack : stack = results[n]
  OBVIOUS
<1>9. PICK scope : scope = tuple_scope_stack[n]
  OBVIOUS
<1>10. PICK steps : steps = todo[n]
  OBVIOUS
<1>11. val = Head(stack)[1]
  <2>1. Result = Head(stack)
    BY <1>4, <1>6, <1>7, <1>8, ResultsAre DEF AtHand
  <2> QED
    BY <1>2, <2>1
<1>12. /\ steps # << >> /\ Top = Head(steps)
       /\ FrameOk(F[n], E[n], values, steps, stack, Config(stack, E[n]), scope,
                  node_values, tuple_values, graphs)
  BY <1>7, <1>8, <1>9, <1>10 DEF AtHand
<1>13. Head(steps).step = "keep_node" /\ key = Head(steps).key
  BY <1>1, <1>3, <1>12
<1>14. PICK nv : nv = MapInsert(node_values, key, val)
  OBVIOUS
<1>15. PICK rest : rest = Tail(steps)
  OBVIOUS
<1>16. FrameOk(F[n], E[n], values, rest, stack, Config(stack, E[n]), scope, nv, tuple_values, graphs)
  BY <1>0, <1>11, <1>12, <1>13, <1>14, <1>15, FrameKeepsNode
<1>17. FrameOk(F[n], E[n], values, rest, stack, Config(stack, E[n]), tuple_scope_stack[n],
               node_values', tuple_values', graphs)
  BY <1>3, <1>9, <1>14, <1>16
<1>18. key[1] = scope
  BY <1>1, <1>3, <1>6, <1>9, KeyIsInnermost
<1>19. ASSUME NEW s, s # tuple_scope_stack[n]
       PROVE  SameInScope(node_values, node_values', s) /\ SameInScope(tuple_values, tuple_values', s)
  <2>1. SameInScope(node_values, MapInsert(node_values, key, val), s)
    BY <1>9, <1>18, <1>19, InsertElsewhere
  <2>2. SameInScope(tuple_values, tuple_values', s)
    BY <1>3 DEF SameInScope
  <2> QED
    BY <1>3, <2>1, <2>2
<1>20. IsChanged(results', results, n, stack)
  BY <1>3, <1>4, <1>8 DEF ResultsAgree, IsChanged
<1>21. IsChanged(todo', todo, n, rest)
  BY <1>3, <1>6, <1>10, <1>15, TodoIs
<1> QED
  BY <1>3, <1>5, <1>6, <1>17, <1>19, <1>20, <1>21, ExprChanges

\* KeepTuple.
LEMMA KeepTupleMeaning ==
    ASSUME MeaningsAreDefined, LowererInv, MeaningInv, KeepTuple
    PROVE  MeaningInv'
<1>0. FailedIsNone /\ MeaningRules
  BY DEF MeaningsAreDefined
<1>1. PICK key : key = Top.key
  OBVIOUS
<1>2. PICK vals : vals = Result
  OBVIOUS
<1>3. PICK index : index = Top.index
  OBVIOUS
<1>4. /\ status = "lowering" /\ Todo # << >> /\ Top.step = "keep_tuple" /\ index \in DOMAIN vals
      /\ tuple_values' = MapInsert(tuple_values, key, vals) /\ node_values' = node_values
      /\ Return(1, <<vals[index]>>) /\ Unscoped
  BY <1>1, <1>2, <1>3 DEF KeepTuple, At
<1>5. ResultsAgree /\ \E F, E, V : InProgress(F, E, V)
  BY <1>4 DEF MeaningInv
<1>6. PICK F, E, V : InProgress(F, E, V)
  BY <1>5
<1>7. PICK n : n = Len(todo)
  OBVIOUS
<1>8. AtHand(F, E, n)
  BY <1>4, <1>5, <1>6, <1>7, TopIsAtHand
<1>9. PICK stack : stack = results[n]
  OBVIOUS
<1>10. PICK scope : scope = tuple_scope_stack[n]
  OBVIOUS
<1>11. PICK steps : steps = todo[n]
  OBVIOUS
<1>12. PICK stack2 : stack2 = Push(<<vals[index]>>, Drop(stack, 1))
  OBVIOUS
<1>13. vals = Head(stack) /\ StepDone /\ IsChanged(results', results, n, stack2)
  <2>1. n \in Nat \ {0}
    BY <1>8 DEF AtHand
  <2>2. PICK one : one = <<vals[index]>>
    OBVIOUS
  <2>3. Return(1, one)
    BY <1>4, <2>2
  <2>4. Result = Head(results[n])
    BY <1>5, <1>7, <2>1, ResultsAre
  <2>5. StepDone /\ IsChanged(results', results, n, Push(one, Drop(results[n], 1)))
    BY <1>5, <1>7, <2>1, <2>3, ResultsAre
  <2> QED
    BY <1>2, <1>9, <1>12, <2>2, <2>4, <2>5
<1>14. /\ steps # << >> /\ Top = Head(steps)
       /\ FrameOk(F[n], E[n], values, steps, stack, Config(stack, E[n]), scope,
                  node_values, tuple_values, graphs)
  BY <1>8, <1>9, <1>10, <1>11 DEF AtHand
<1>15. Head(steps).step = "keep_tuple" /\ key = Head(steps).key /\ index = Head(steps).index
  BY <1>1, <1>3, <1>4, <1>14
<1>16. PICK tv : tv = MapInsert(tuple_values, key, vals)
  OBVIOUS
<1>17. PICK rest : rest = Tail(steps)
  OBVIOUS
<1>18. FrameOk(F[n], E[n], values, rest, stack2, Config(stack2, E[n]), scope, node_values, tv, graphs)
  BY <1>0, <1>4, <1>12, <1>13, <1>14, <1>15, <1>16, <1>17, FrameKeepsTuple
<1>19. FrameOk(F[n], E[n], values, rest, stack2, Config(stack2, E[n]), tuple_scope_stack[n],
               node_values', tuple_values', graphs)
  BY <1>4, <1>10, <1>16, <1>18
<1>20. key[1] = scope
  BY <1>1, <1>4, <1>7, <1>10, KeyIsInnermost
<1>21. ASSUME NEW s, s # tuple_scope_stack[n]
       PROVE  SameInScope(node_values, node_values', s) /\ SameInScope(tuple_values, tuple_values', s)
  <2>1. SameInScope(tuple_values, MapInsert(tuple_values, key, vals), s)
    BY <1>10, <1>20, <1>21, InsertElsewhere
  <2>2. SameInScope(node_values, node_values', s)
    BY <1>4 DEF SameInScope
  <2> QED
    BY <1>4, <2>1, <2>2
<1>22. IsChanged(todo', todo, n, rest)
  BY <1>4, <1>7, <1>11, <1>13, <1>17, TodoIs
<1> QED
  BY <1>4, <1>6, <1>7, <1>13, <1>19, <1>21, <1>22, ExprChanges

\* BindValues: the names of the graph and those of the lowerer change together.
LEMMA BindMeaning ==
    ASSUME MeaningsAreDefined, LowererInv, ScopesInv, MeaningInv, BindValues
    PROVE  MeaningInv'
<1>0. FailedIsNone /\ MeaningRules
  BY DEF MeaningsAreDefined
<1>1. PICK names : names = Top.names
  OBVIOUS
<1>2. PICK vals : vals = Result
  OBVIOUS
<1>3. /\ status = "lowering" /\ Todo # << >> /\ Top.step = "bind_values" /\ Len(names) = Len(vals)
      /\ values' = Bound(values, names, vals).map /\ StepDone
      /\ results' = [results EXCEPT ![Len(results)] = Without(1)]
      /\ UNCHANGED <<status, graph, graphs, scopes>> /\ UNCHANGED caches
  BY <1>1, <1>2 DEF BindValues, At
<1>4. ResultsAgree /\ \E F, E, V : InProgress(F, E, V)
  BY <1>3 DEF MeaningInv
<1>5. PICK F, E, V : InProgress(F, E, V)
  BY <1>4
<1>6. PICK n : n = Len(todo)
  OBVIOUS
<1>7. AtHand(F, E, n)
  BY <1>3, <1>4, <1>5, <1>6, TopIsAtHand
<1>8. PICK stack : stack = results[n]
  OBVIOUS
<1>9. PICK steps : steps = todo[n]
  OBVIOUS
<1>10. PICK stack2 : stack2 = Drop(stack, 1)
  OBVIOUS
<1>11. n \in Nat \ {0}
  BY <1>7 DEF AtHand
<1>12. vals = Head(stack) /\ IsChanged(results', results, n, stack2)
  <2>1. Result = Head(results[n]) /\ Without(1) = Drop(results[n], 1)
    BY <1>4, <1>6, <1>11, ResultsAre
  <2>2. IsSeq(results) /\ Len(results) = n /\ n \in 1..Len(results)
    BY <1>4, <1>6, <1>11 DEF ResultsAgree
  <2>3. results' = [results EXCEPT ![n] = stack2]
    BY <1>3, <1>8, <1>10, <2>1, <2>2
  <2>4. IsSeq(results')
    BY <2>2, <2>3, ExceptIsSeq
  <2>5. Len(results') = Len(results)
    BY <2>2, <2>3, ExceptIsSeq
  <2>6. \A i \in 1..Len(results) : results'[i] = IF i = n THEN stack2 ELSE results[i]
    BY <2>2, <2>3, ExceptIsSeq
  <2> QED
    BY <1>2, <1>8, <2>1, <2>4, <2>5, <2>6 DEF IsChanged
<1>13. IsSeq(names)
  BY <1>1, <1>3, TopBindsAList DEF BindsAList
<1>14. /\ steps # << >> /\ Top = Head(steps)
       /\ FrameOk(F[n], E[n], values, steps, stack, Config(stack, E[n]), tuple_scope_stack[n],
                  node_values, tuple_values, graphs)
  BY <1>7, <1>8, <1>9 DEF AtHand
<1>15. Head(steps).step = "bind_values" /\ names = Head(steps).names
  BY <1>1, <1>3, <1>14
<1>16. PICK env2 : env2 = Bound(E[n], names, vals).map
  OBVIOUS
<1>17. PICK map2 : map2 = Bound(values, names, vals).map
  OBVIOUS
<1>18. PICK rest : rest = Tail(steps)
  OBVIOUS
<1>19. FrameOk(F[n], env2, map2, rest, stack2, Config(stack2, env2), tuple_scope_stack[n],
               node_values, tuple_values, graphs)
  BY <1>3, <1>10, <1>12, <1>13, <1>14, <1>15, <1>16, <1>17, <1>18, FrameBinds
<1>20. /\ node_values' = node_values /\ tuple_values' = tuple_values
       /\ \A scope : SameInScope(node_values, node_values', scope)
                     /\ SameInScope(tuple_values, tuple_values', scope)
  BY <1>3, SameCaches
<1>21. PICK map3 : map3 = values'
  OBVIOUS
<1>22. PICK W : W = [k \in 1..n |-> IF k = n THEN map3 ELSE V[k]]
  OBVIOUS
<1>23. \A k \in 1..Len(todo) : W[k] = IF k = Len(todo) THEN values' ELSE V[k]
  BY <1>6, <1>21, <1>22
<1>24. Layers(V)
  BY <1>5 DEF InProgress
<1>25. Layers(W)'
  BY <1>1, <1>13, <1>23, <1>24, BindLayers
<1>26. W[n] = map2 /\ \A k \in 1..n : k # n => W[k] = V[k]
  BY <1>3, <1>11, <1>17, <1>21, <1>22
<1>27. FrameOk(F[n], env2, W[n], rest, stack2, Config(stack2, env2), tuple_scope_stack[n],
               node_values', tuple_values', graphs)
  BY <1>19, <1>20, <1>26
<1>28. IsChanged(todo', todo, n, rest)
  BY <1>3, <1>6, <1>9, <1>18, TodoIs
<1>29. ResultsAgree' /\ \E F1, E1, V1 : InProgress(F1, E1, V1)'
  BY <1>3, <1>4, <1>5, <1>6, <1>12, <1>20, <1>25, <1>26, <1>27, <1>28, TopChanges
<1>30. status' = "lowering" /\ graph' = graph /\ graphs' = graphs
  BY <1>3
<1> QED
  BY <1>3, <1>29, <1>30 DEF MeaningInv, LoweringKeepsTheMeaning

------------------------------------------------------------------------------
(* Calls *)

\* A list with one element changed and another added.
IsGrown(new, old, n, x, y) ==
    /\ IsSeq(new) /\ Len(new) = n + 1 /\ new[n + 1] = y /\ new[n] = x
    /\ \A k \in 1..n : k # n => new[k] = old[k]

\* An EXCEPT and an Append make such a list.
LEMMA ChangedAndAdded ==
    ASSUME NEW old, IsSeq(old), NEW n, n = Len(old), n \in Nat \ {0}, NEW x, NEW y,
           NEW new, new = Append([old EXCEPT ![n] = x], y)
    PROVE  IsGrown(new, old, n, x, y)
<1>1. n \in 1..Len(old)
  OBVIOUS
<1>6. PICK mid : mid = [old EXCEPT ![n] = x]
  OBVIOUS
<1>2. IsSeq(mid)
  BY <1>1, <1>6, ExceptIsSeq
<1>3. Len(mid) = Len(old)
  BY <1>1, <1>6, ExceptIsSeq
<1>4. \A k \in 1..Len(old) : mid[k] = IF k = n THEN x ELSE old[k]
  BY <1>1, <1>6, ExceptIsSeq
<1>5. /\ IsSeq(new) /\ Len(new) = n + 1 /\ new[n + 1] = y
      /\ \A k \in 1..n : new[k] = mid[k]
  BY <1>2, <1>3, <1>6, AppendIsSeq
<1> QED
  BY <1>1, <1>4, <1>5 DEF IsGrown

\* Without the element just added a list is what it was.
LEMMA FrontOfAppend ==
    ASSUME NEW s, IsSeq(s), NEW x
    PROVE  Front(Append(s, x)) = s
<1>1. PICK n : n = Len(s) /\ n \in Nat
  BY SeqShape
<1>2. PICK t : t = Append(s, x)
  OBVIOUS
<1>3. IsSeq(t) /\ Len(t) = n + 1 /\ \A i \in 1..n : t[i] = s[i]
  BY <1>1, <1>2, AppendIsSeq
<1>4. PICK r : r = Front(t)
  OBVIOUS
<1>5. IsSeq(r) /\ Len(r) = Len(t) - 1 /\ \A i \in 1..Len(t) - 1 : r[i] = t[i]
  BY <1>1, <1>3, <1>4, FrontIsSeq
<1>6. Len(t) - 1 = n
  BY <1>1, <1>3
<1>7. r = s
  BY <1>1, <1>3, <1>5, <1>6, SeqsEqual
<1> QED
  BY <1>2, <1>4, <1>7

\* What the step that calls a graph consumes are values.
LEMMA ArgsAreValues ==
    ASSUME FailedIsNone, ResultsAgree, NEW F, NEW E, NEW n, AtHand(F, E, n),
           Top.step \in {"emit", "inline_graph"}, NEW count, count = Top.count
    PROVE  count \in Nat /\ IsValues(Latest(count)) /\ Len(Latest(count)) = count
<1>1. PICK c : c = Config(results[n], E[n])
  OBVIOUS
<1>2. c # Failed /\ c.stack = results[n]
  BY <1>1, ConfigIs
<1>3. Sound(F[n].graph, Top, c, graphs, F[n].path)
  BY <1>1 DEF AtHand
<1>4. count \in Nat /\ \A i \in 1..count : results[n][i][1] # Failed
  BY <1>2, <1>3 DEF Sound
<1>5. PICK args : args = Latest(count)
  OBVIOUS
<1>6. args = [i \in 1..count |-> results[n][count + 1 - i][1]]
  <2>1. n \in Nat \ {0} /\ n = Len(todo)
    BY DEF AtHand
  <2>2. Last(results) = results[n]
    BY <2>1, ResultsAre
  <2> QED
    BY <1>5, <2>2 DEF Latest
<1>7. ASSUME NEW i \in 1..count PROVE args[i] # Failed
  <2>1. PICK j : j = count + 1 - i
    OBVIOUS
  <2>2. j \in 1..count
    BY <1>4, <2>1
  <2>3. args[i] = results[n][j][1]
    BY <1>6, <2>1
  <2> QED
    BY <1>4, <2>2, <2>3
<1>8. args = [i \in 1..count |-> args[i]]
  BY <1>6
<1>9. IsValues(args) /\ Len(args) = count
  BY <1>4, <1>7, <1>8, ValuesListed
<1> QED
  BY <1>4, <1>5, <1>9

\* A graph that is called is not the one being lowered, and is well formed.
LEMMA CalleeIsScoped ==
    ASSUME LowererInv, ScopesInv, MeaningInv, status = "lowering", NEW name, NEW count,
           MayInline(name, count)
    PROVE  /\ IsGraph(graphs[name]) /\ IsShared(graphs[name]) /\ IsScoped(graphs[name])
           /\ Len(graphs[name].inputs) = count
<1>1. ~Contains(call_stack, name) /\ name \in DOMAIN graphs /\ Len(graphs[name].inputs) = count
  BY DEF MayInline
<1>2. call_stack[1] = graph.name
  BY DEF ScopesInv
<1>3. 1 \in 1..Len(call_stack)
  <2>1. Len(todo) \in Nat \ {0}
    BY TopIsScoped
  <2>2. Len(call_stack) = Len(todo)
    BY DEF LowererInv, StacksAgree
  <2> QED
    BY <2>1, <2>2
<1>4. name # graph.name
  BY <1>1, <1>2, <1>3 DEF Contains
<1>5. PICK p \in Programs : graph = p.graph /\ graphs = p.graphs
  BY DEF MeaningInv
<1>6. name \in DOMAIN p.graphs \ {p.graph.name}
  BY <1>1, <1>4, <1>5
<1>7. IsShared(graphs[name]) /\ IsScoped(graphs[name])
  BY <1>5, <1>6, GraphsAssumption
<1> QED
  BY <1>1, <1>7 DEF LowererInv, StackTypes

\* No value is cached yet in the scope of the next call.
LEMMA NextScopeIsEmpty ==
    ASSUME LowererInv
    PROVE  \A key \in DOMAIN node_values \cup DOMAIN tuple_values : key[1] # next_tuple_scope
<1>1. tuple_scope_stack \in Seq(Nat) /\ next_tuple_scope \in Nat
  BY DEF LowererInv, StackTypes
<1>2. \A i \in DOMAIN tuple_scope_stack :
        tuple_scope_stack[i] \in Nat /\ tuple_scope_stack[i] < next_tuple_scope
  BY <1>1 DEF LowererInv, CachedScopesAreLive
<1>3. next_tuple_scope \notin ToSet(tuple_scope_stack)
  BY <1>1, <1>2 DEF ToSet
<1> QED
  BY <1>3 DEF LowererInv, CachedScopesAreLive

\* What EnterGraph does to the lists of the lowerer.
Entered(n, callee, args, name) ==
    /\ n \in Nat \ {0} /\ n = Len(todo)
    /\ status = "lowering" /\ status' = "lowering" /\ graph' = graph /\ graphs' = graphs
    /\ UNCHANGED caches
    /\ IsSeq(call_stack) /\ Len(call_stack) = n /\ call_stack' = Append(call_stack, name)
    /\ tuple_scope_stack'[n + 1] = next_tuple_scope
    /\ \A k \in 1..n : tuple_scope_stack'[k] = tuple_scope_stack[k]
    /\ values' = Bound(values, callee.inputs, args).map
    /\ IsSeq(todo') /\ Len(todo') = n + 1 /\ todo'[n + 1] = GraphSteps(callee)
    /\ todo'[n] = Tail(todo[n])
    /\ \A k \in 1..n : k # n => todo'[k] = todo[k]
    /\ IsSeq(results') /\ Len(results') = n + 1 /\ results'[n + 1] = << >>
    /\ results'[n] = Drop(results[n], Len(args))
    /\ \A k \in 1..n : k # n => results'[k] = results[k]

\* EnterGraph makes exactly these changes.
LEMMA EnterIs ==
    ASSUME LowererInv, EnterGraph, ResultsAgree, NEW n, n = Len(todo), NEW name, name = Top.name,
           NEW args, args = Latest(Top.count), Len(args) = Top.count,
           NEW callee, callee = graphs[name]
    PROVE  Entered(n, callee, args, name)
<1>1. /\ status = "lowering" /\ status' = "lowering" /\ Todo # << >>
      /\ graph' = graph /\ graphs' = graphs /\ UNCHANGED caches
      /\ call_stack' = Append(call_stack, name)
      /\ tuple_scope_stack' = Append(tuple_scope_stack, next_tuple_scope)
      /\ values' = Bound(values, callee.inputs, args).map
      /\ todo' = Append([todo EXCEPT ![n] = Tail(todo[n])], GraphSteps(callee))
      /\ results' = Append([results EXCEPT ![Len(results)] = Without(Len(args))], << >>)
  BY DEF EnterGraph, At
<1>2. n \in Nat \ {0} /\ IsSeq(todo)
  BY <1>1, TodoIs
<1>3. IsSeq(call_stack) /\ Len(call_stack) = n
  BY DEF LowererInv, StackTypes, StacksAgree
<1>4. IsSeq(tuple_scope_stack) /\ Len(tuple_scope_stack) = n
  BY SeqIsSeq DEF LowererInv, StackTypes, StacksAgree
<1>5. IsSeq(results) /\ Len(results) = n
  BY DEF ResultsAgree
<1>6. /\ tuple_scope_stack'[n + 1] = next_tuple_scope
      /\ \A k \in 1..n : tuple_scope_stack'[k] = tuple_scope_stack[k]
  BY <1>1, <1>4, AppendIsSeq
<1>7. PICK x : x = Tail(todo[n])
  OBVIOUS
<1>8. PICK y : y = GraphSteps(callee)
  OBVIOUS
<1>10. PICK new : new = todo'
  OBVIOUS
<1>11. new = Append([todo EXCEPT ![n] = x], y)
  BY <1>1, <1>7, <1>8, <1>10
<1>12. IsGrown(new, todo, n, x, y)
  BY <1>2, <1>11, ChangedAndAdded
<1>13. PICK stack : stack = Drop(results[n], Len(args))
  OBVIOUS
<1>14. Without(Len(args)) = stack
  BY <1>2, <1>13, ResultsAre
<1>16. PICK new2 : new2 = results'
  OBVIOUS
<1>17. PICK none : none = << >>
  OBVIOUS
<1>18. new2 = Append([results EXCEPT ![n] = stack], none)
  BY <1>1, <1>5, <1>14, <1>16, <1>17
<1>19. IsGrown(new2, results, n, stack, none)
  BY <1>2, <1>5, <1>18, ChangedAndAdded
<1>20. /\ IsSeq(todo') /\ Len(todo') = n + 1 /\ todo'[n + 1] = GraphSteps(callee)
       /\ todo'[n] = Tail(todo[n])
       /\ \A k \in 1..n : k # n => todo'[k] = todo[k]
  BY <1>7, <1>8, <1>10, <1>12 DEF IsGrown
<1>21. /\ IsSeq(results') /\ Len(results') = n + 1 /\ results'[n + 1] = << >>
       /\ results'[n] = Drop(results[n], Len(args))
       /\ \A k \in 1..n : k # n => results'[k] = results[k]
  BY <1>13, <1>16, <1>17, <1>19 DEF IsGrown
<1> QED
  BY <1>1, <1>2, <1>3, <1>6, <1>20, <1>21 DEF Entered

\* The step at hand means what the graph called does.
LEMMA CallAtHand ==
    ASSUME FailedIsNone, ResultsAgree, NEW F, NEW E, NEW n, AtHand(F, E, n),
           Top.step = "inline_graph", NEW name, name = Top.name,
           MayInline(name, Top.count), NEW args, args = Latest(Top.count), Len(args) = Top.count,
           NEW new, new = [graph |-> graphs[name], args |-> args, path |-> Append(call_stack, name)]
    PROVE  Effect(Top, Config(results[n], E[n]), graphs, F[n].path)
             = Pushed(FrameMeaning(new, graphs), Config(Drop(results[n], Len(args)), E[n]))
<1>1. PICK c : c = Config(results[n], E[n])
  OBVIOUS
<1>2. c # Failed /\ c.stack = results[n] /\ c.env = E[n]
  BY <1>1, ConfigIs
<1>3. PICK m : m = Top.count
  OBVIOUS
<1>4. Args(m, c) = args
  <2>1. n \in Nat \ {0} /\ n = Len(todo)
    BY DEF AtHand
  <2> QED
    BY <1>1, <1>3, <2>1, ResultsAre
<1>5. Pop(m, c) = Config(Drop(results[n], m), E[n])
  BY <1>2 DEF Pop
<1>6. F[n].path = call_stack
  BY DEF AtHand
<1>7. CallMeaning(name, args, graphs, F[n].path) = FrameMeaning(new, graphs)
  <2>1. ~Contains(call_stack, name) /\ name \in DOMAIN graphs
    BY DEF MayInline
  <2>2. /\ new.graph = graphs[name] /\ new.args = args
        /\ new.path = Append(call_stack, name)
    OBVIOUS
  <2>3. FrameMeaning(new, graphs)
          = MeaningOfGraph(graphs[name], args, graphs, Append(call_stack, name))
    BY <2>2 DEF FrameMeaning
  <2> QED
    BY <1>6, <2>1, <2>3 DEF CallMeaning
<1>8. Effect(Top, c, graphs, F[n].path)
        = Pushed(CallMeaning(name, Args(m, c), graphs, F[n].path), Pop(m, c))
  BY <1>2, <1>3 DEF Effect, LiveEffect
<1>9. m = Len(args)
  BY <1>3
<1> QED
  BY <1>1, <1>4, <1>5, <1>7, <1>8, <1>9

\* EnterGraph: the caller waits for what the graph it calls means.
LEMMA EnterMeaning ==
    ASSUME MeaningsAreDefined, LowererInv, ScopesInv, MeaningInv, EnterGraph
    PROVE  MeaningInv'
<1>0. FailedIsNone /\ MeaningRules
  BY DEF MeaningsAreDefined
<1>1. PICK name : name = Top.name
  OBVIOUS
<1>2. PICK callee : callee = graphs[name]
  OBVIOUS
<1>3. PICK args : args = Latest(Top.count)
  OBVIOUS
<1>4. /\ status = "lowering" /\ Todo # << >> /\ Top.step = "inline_graph"
      /\ MayInline(name, Top.count)
  BY <1>1 DEF EnterGraph, At
<1>5. ResultsAgree /\ \E F, E, V : InProgress(F, E, V)
  BY <1>4 DEF MeaningInv
<1>6. PICK F, E, V : InProgress(F, E, V)
  BY <1>5
<1>7. PICK n : n = Len(todo)
  OBVIOUS
<1>8. AtHand(F, E, n)
  BY <1>4, <1>5, <1>6, <1>7, TopIsAtHand
<1>9. Top.count \in Nat /\ IsValues(args) /\ Len(args) = Top.count
  BY <1>0, <1>3, <1>4, <1>5, <1>8, ArgsAreValues
<1>10. IsGraph(callee) /\ IsShared(callee) /\ IsScoped(callee) /\ Len(args) = Len(callee.inputs)
  BY <1>2, <1>4, <1>9, CalleeIsScoped
<1>11. Entered(n, callee, args, name)
  BY <1>1, <1>2, <1>3, <1>5, <1>7, <1>9, EnterIs
<1>12. PICK new : new = [graph |-> callee, args |-> args, path |-> Append(call_stack, name)]
  OBVIOUS
<1>13. new.graph = callee /\ new.args = args /\ new.path = Append(call_stack, name)
  BY <1>12
<1>14. n \in Nat \ {0} /\ Len(new.path) = n + 1 /\ Front(new.path) = call_stack
       /\ new.path = call_stack'
  BY <1>11, <1>13, AppendIsSeq, FrontOfAppend DEF Entered
<1>15. PICK env : env = Bound(EmptyMap, callee.inputs, args).map
  OBVIOUS
<1>16. PICK map : map = values'
  OBVIOUS
<1>17. PICK F1 : F1 = [k \in 1..n + 1 |-> IF k = n + 1 THEN new ELSE F[k]]
  OBVIOUS
<1>18. PICK E1 : E1 = [k \in 1..n + 1 |-> IF k = n + 1 THEN env ELSE E[k]]
  OBVIOUS
<1>19. PICK W : W = [k \in 1..n + 1 |-> IF k = n + 1 THEN map ELSE V[k]]
  OBVIOUS
<1>20. /\ F1[n + 1] = new /\ E1[n + 1] = env /\ W[n + 1] = map
       /\ \A k \in 1..n : F1[k] = F[k] /\ E1[k] = E[k] /\ W[k] = V[k]
  BY <1>14, <1>17, <1>18, <1>19
<1>21. Layers(W)'
  <2>1. Layers(V)
    BY <1>6 DEF InProgress
  <2>2. (\A k \in 1..Len(todo) : W[k] = V[k]) /\ W[Len(todo) + 1] = values'
    BY <1>7, <1>16, <1>20
  <2> QED
    BY <2>1, <2>2, EnterLayers
<1>22. Linked(F1)'
  <2>1. Linked(F)
    BY <1>6 DEF InProgress
  <2>2. 1 \in 1..n /\ n \in 1..n
    BY <1>14
  <2>3. /\ F1[1] = F[1] /\ graph' = graph /\ Len(todo') = n + 1
    BY <1>11, <1>20, <2>2 DEF Entered
  <2>4. F1[n + 1].path = call_stack'
    BY <1>14, <1>20
  <2>5. ASSUME NEW k \in 1..n + 1 PROVE Len(F1[k].path) = k
    <3>1. CASE k = n + 1
      BY <1>14, <1>20, <3>1
    <3>2. CASE k # n + 1
      <4>1. k \in 1..n
        BY <1>14, <3>2
      <4> QED
        BY <1>7, <1>20, <2>1, <4>1 DEF Linked
    <3> QED
      BY <3>1, <3>2
  <2>6. ASSUME NEW k \in 2..n + 1 PROVE F1[k - 1].path = Front(F1[k].path)
    <3>1. CASE k = n + 1
      <4>1. k - 1 = n
        BY <1>14, <3>1
      <4>2. F[n].path = call_stack
        BY <1>7, <2>1 DEF Linked
      <4> QED
        BY <1>14, <1>20, <2>2, <3>1, <4>1, <4>2
    <3>2. CASE k # n + 1
      <4>1. k \in 1..n /\ k - 1 \in 1..n /\ k \in 2..n
        BY <1>14, <3>2
      <4>2. PICK j : j = k - 1
        OBVIOUS
      <4>3. F[j].path = Front(F[k].path)
        BY <1>7, <2>1, <4>1, <4>2 DEF Linked
      <4>4. F1[j] = F[j] /\ F1[k] = F[k]
        BY <1>20, <4>1, <4>2
      <4> QED
        BY <4>2, <4>3, <4>4
    <3> QED
      BY <3>1, <3>2
  <2> QED
    BY <2>1, <2>3, <2>4, <2>5, <2>6 DEF Linked
<1>23. PICK scope : scope = next_tuple_scope
  OBVIOUS
<1>24. node_values' = node_values /\ tuple_values' = tuple_values
  BY <1>11 DEF Entered, caches
<1>25. FrameOk(F1[n + 1], E1[n + 1], W[n + 1], todo'[n + 1], results'[n + 1], ConfigAt(F1, E1, n + 1)',
               tuple_scope_stack'[n + 1], node_values', tuple_values', graphs')
  <2>1. Len(new.path) > 1
    BY <1>14
  <2>2. map = Bound(values, callee.inputs, args).map
    BY <1>11, <1>16 DEF Entered
  <2>3. \A key \in DOMAIN node_values \cup DOMAIN tuple_values : key[1] # scope
    BY <1>23, NextScopeIsEmpty
  <2>4. PICK none : none = << >>
    OBVIOUS
  <2>5. FrameOk(new, env, map, GraphSteps(callee), none, Config(none, env), scope,
                node_values, tuple_values, graphs)
    <3>1. Len(new.path) = 1 => values = EmptyMap
      BY <2>1
    <3> QED
      BY <1>9, <1>10, <1>13, <1>15, <2>2, <2>3, <2>4, <3>1, FrameEntered
  <2>6. ConfigAt(F1, E1, n + 1)' = Config(none, env)
    BY <1>11, <1>14, <1>20, <2>4 DEF ConfigAt, Entered
  <2> QED
    BY <1>11, <1>20, <1>23, <1>24, <2>4, <2>5, <2>6 DEF Entered
<1>26. FrameOk(F1[n], E1[n], W[n], todo'[n], results'[n], ConfigAt(F1, E1, n)',
               tuple_scope_stack'[n], node_values', tuple_values', graphs')
  <2>1. PICK c : c = Config(results[n], E[n])
    OBVIOUS
  <2>2. PICK stack : stack = Drop(results[n], Len(args))
    OBVIOUS
  <2>3. PICK d : d = Pushed(FrameMeaning(new, graphs), Config(stack, E[n]))
    OBVIOUS
  <2>4. Effect(Top, c, graphs, F[n].path) = d
    BY <1>0, <1>1, <1>2, <1>3, <1>4, <1>5, <1>8, <1>9, <1>12, <2>1, <2>2, <2>3, CallAtHand
  <2>5. todo[n] # << >> /\ Top = Head(todo[n])
        /\ FrameOk(F[n], E[n], values, todo[n], results[n], c, tuple_scope_stack[n],
                   node_values, tuple_values, graphs)
    BY <1>8, <2>1 DEF AtHand
  <2>6. IsSeq(stack)
    <3>1. IsSeq(results[n])
      BY <1>8 DEF AtHand, WellFormed
    <3>2. Len(args) \in Nat
      BY <1>9
    <3> QED
      BY <2>2, <3>1, <3>2, DropIsSeq
  <2>7. PICK rest : rest = Tail(todo[n])
    OBVIOUS
  <2>8. Effect(Head(todo[n]), c, graphs, F[n].path) = d
    BY <2>4, <2>5
  <2>9. FrameOk(F[n], E[n], values, rest, stack, d, tuple_scope_stack[n],
                node_values, tuple_values, graphs)
    BY <2>5, <2>6, <2>7, <2>8, FrameStep
  <2>10. n \in 1..n /\ n < n + 1
    BY <1>14
  <2>11. F1[n] = F[n] /\ E1[n] = E[n] /\ W[n] = V[n] /\ V[n] = values
    BY <1>6, <1>7, <1>20, <2>10 DEF InProgress, Layers
  <2>12. ConfigAt(F1, E1, n)' = d
    BY <1>11, <1>20, <2>2, <2>3, <2>10, <2>11 DEF ConfigAt, Entered
  <2>13. /\ tuple_scope_stack'[n] = tuple_scope_stack[n] /\ todo'[n] = rest
         /\ results'[n] = stack /\ graphs' = graphs
    BY <1>11, <2>2, <2>7, <2>10 DEF Entered
  <2> QED
    BY <1>24, <2>9, <2>11, <2>12, <2>13
<1>27. ASSUME NEW k \in 1..n, k # n
       PROVE  FrameOk(F1[k], E1[k], W[k], todo'[k], results'[k], ConfigAt(F1, E1, k)',
                      tuple_scope_stack'[k], node_values', tuple_values', graphs')
  <2>1. k < n /\ k \in 1..Len(todo) /\ k + 1 \in 1..n /\ k < n + 1
    BY <1>7, <1>14, <1>27
  <2>2. FrameOk(F[k], E[k], V[k], todo[k], results[k], ConfigAt(F, E, k), tuple_scope_stack[k],
                node_values, tuple_values, graphs)
    BY <1>6, <2>1 DEF InProgress, Frames
  <2>3. PICK j : j = k + 1
    OBVIOUS
  <2>4. ConfigAt(F, E, k) = Pushed(FrameMeaning(F[j], graphs), Config(results[k], E[k]))
    BY <1>7, <2>1, <2>3 DEF ConfigAt
  <2>5. F1[j] = F[j] /\ F1[k] = F[k] /\ E1[k] = E[k] /\ W[k] = V[k]
    BY <1>20, <2>1, <2>3
  <2>6. /\ tuple_scope_stack'[k] = tuple_scope_stack[k] /\ todo'[k] = todo[k]
        /\ results'[k] = results[k] /\ graphs' = graphs /\ Len(todo') = n + 1
    BY <1>11, <1>27 DEF Entered
  <2>7. ConfigAt(F1, E1, k)' = ConfigAt(F, E, k)
    BY <2>1, <2>3, <2>4, <2>5, <2>6 DEF ConfigAt
  <2> QED
    BY <1>24, <2>2, <2>5, <2>6, <2>7
<1>28. Frames(F1, E1, W)'
  <2>1. ASSUME NEW k \in 1..n + 1
        PROVE  FrameOk(F1[k], E1[k], W[k], todo'[k], results'[k], ConfigAt(F1, E1, k)',
                       tuple_scope_stack'[k], node_values', tuple_values', graphs')
    <3>1. CASE k = n + 1
      BY <1>25, <3>1
    <3>2. CASE k = n
      BY <1>26, <3>2
    <3>3. CASE k \in 1..n /\ k # n
      BY <1>27, <3>3
    <3> QED
      BY <1>14, <3>1, <3>2, <3>3
  <2>2. Len(todo') = n + 1
    BY <1>11 DEF Entered
  <2> QED
    BY <2>1, <2>2 DEF Frames
<1>29. InProgress(F1, E1, W)'
  BY <1>21, <1>22, <1>28 DEF InProgress
<1>30. ResultsAgree'
  BY <1>11 DEF Entered, ResultsAgree
<1>31. status' = "lowering" /\ graph' = graph /\ graphs' = graphs
  BY <1>11 DEF Entered
<1> QED
  BY <1>4, <1>29, <1>30, <1>31 DEF MeaningInv, LoweringKeepsTheMeaning

\* Forgetting what is cached in one scope changes nothing in the others.
LEMMA RetainElsewhere ==
    ASSUME NEW map, NEW s, NEW scope
    PROVE  SameInScope(map, Retain(map, OtherScopes(map, s)), scope)
<1>1. PICK new : new = Retain(map, OtherScopes(map, s))
  OBVIOUS
<1>2. DOMAIN new \subseteq DOMAIN map /\ \A key \in DOMAIN new : new[key] = map[key]
  BY <1>1 DEF Retain, OtherScopes
<1>3. SameInScope(map, new, scope)
  BY <1>2 DEF SameInScope
<1> QED
  BY <1>1, <1>3

\* The caller goes on where it was, with what it was waiting for.
LEMMA LeaveKeeps ==
    ASSUME LowererInv, status \in {"lowering", "failing"}, Len(todo) > 1,
           LeaveScope, todo' = Front(todo), UNCHANGED <<status, graph, graphs>>,
           NEW F, NEW E, NEW V, InProgress(F, E, V), NEW m, m = Len(todo) - 1,
           IsSeq(results'), Len(results') = m, \A k \in 1..m : k # m => results'[k] = results[k],
           IsSeq(results'[m]),
           ConfigAt(F, E, m) = IF status = "failing" THEN Failed ELSE Config(results'[m], E[m])
    PROVE  ResultsAgree' /\ \E F1, E1, V1 : InProgress(F1, E1, V1)'
<1>1. PICK n : n = Len(todo)
  OBVIOUS
<1>2. n \in Nat \ {0} /\ IsSeq(todo)
  BY <1>1, TopIsScoped DEF LowererInv, StackTypes
<1>3. m \in Nat \ {0} /\ n = m + 1 /\ m < n /\ m \in 1..m /\ m \in 1..n /\ n \in 2..n
  BY <1>1, <1>2
<1>4. Layers(V)
  BY DEF InProgress
<1>5. /\ Layers(V)' /\ Len(todo') = m
      /\ \A k \in 1..m : todo'[k] = todo[k] /\ tuple_scope_stack'[k] = tuple_scope_stack[k]
  <2>1. status # "idle"
    OBVIOUS
  <2>2. /\ Layers(V)' /\ Len(todo') = Len(todo) - 1
        /\ \A k \in 1..Len(todo) - 1 :
             todo'[k] = todo[k] /\ overwritten'[k] = overwritten[k]
             /\ call_stack'[k] = call_stack[k]
             /\ tuple_scope_stack'[k] = tuple_scope_stack[k]
    BY <1>4, <2>1, LeaveLayers
  <2> QED
    BY <2>2
<1>6. Linked(F)'
  <2>1. Linked(F) /\ graph' = graph /\ call_stack' = Front(call_stack)
    BY DEF InProgress, LeaveScope
  <2>2. F[n].path = call_stack /\ F[n - 1].path = Front(F[n].path)
    BY <1>1, <1>3, <2>1 DEF Linked
  <2>3. F[m].path = call_stack'
    BY <1>3, <2>1, <2>2
  <2>4. \A k \in 1..m : k \in 1..n
    BY <1>3
  <2>5. \A k \in 2..m : k \in 2..n
    BY <1>3
  <2> QED
    BY <1>1, <1>5, <2>1, <2>3, <2>4, <2>5 DEF Linked
<1>7. PICK nv : nv = node_values'
  OBVIOUS
<1>8. PICK tv : tv = tuple_values'
  OBVIOUS
<1>9. \A scope : SameInScope(node_values, nv, scope) /\ SameInScope(tuple_values, tv, scope)
  BY <1>7, <1>8, RetainElsewhere DEF LeaveScope
<1>10. ASSUME NEW k \in 1..m
       PROVE  FrameOk(F[k], E[k], V[k], todo'[k], results'[k], ConfigAt(F, E, k)',
                      tuple_scope_stack'[k], node_values', tuple_values', graphs')
  <2>1. k \in 1..Len(todo) /\ k < n
    BY <1>1, <1>3
  <2>2. FrameOk(F[k], E[k], V[k], todo[k], results[k], ConfigAt(F, E, k), tuple_scope_stack[k],
                node_values, tuple_values, graphs)
    BY <2>1 DEF InProgress, Frames
  <2>3. FrameOk(F[k], E[k], V[k], todo[k], results[k], ConfigAt(F, E, k), tuple_scope_stack[k],
                nv, tv, graphs)
    BY <1>9, <2>2, FrameElsewhere
  <2>4. ConfigAt(F, E, k)' = ConfigAt(F, E, k)
    <3>1. CASE k = m
      BY <1>3, <1>5, <3>1 DEF ConfigAt
    <3>2. CASE k # m
      <4>1. k < m /\ k < Len(todo)
        BY <1>1, <1>3, <2>1, <3>2
      <4>2. results'[k] = results[k] /\ graphs' = graphs
        BY <3>2
      <4> QED
        BY <1>5, <4>1, <4>2 DEF ConfigAt
    <3> QED
      BY <3>1, <3>2
  <2>5. IsSeq(results'[k])
    <3>1. CASE k = m
      BY <3>1
    <3>2. CASE k # m
      BY <2>2, <3>2 DEF FrameOk
    <3> QED
      BY <3>1, <3>2
  <2>6. PICK stack : stack = results'[k]
    OBVIOUS
  <2>7. FrameOk(F[k], E[k], V[k], todo[k], stack, ConfigAt(F, E, k), tuple_scope_stack[k],
                nv, tv, graphs)
    BY <2>3, <2>5, <2>6 DEF FrameOk
  <2> QED
    BY <1>5, <1>7, <1>8, <2>4, <2>6, <2>7
<1>11. Frames(F, E, V)'
  BY <1>5, <1>10 DEF Frames
<1>12. InProgress(F, E, V)'
  BY <1>5, <1>6, <1>11 DEF InProgress
<1>13. ResultsAgree'
  BY <1>5 DEF ResultsAgree
<1> QED
  BY <1>12, <1>13

\* When a frame has no more steps, its results are what it means.
LEMMA OutputsMean ==
    ASSUME FailedIsNone, LowererInv, status = "lowering", ResultsAgree, Todo = << >>,
           NEW F, NEW E, NEW V, InProgress(F, E, V), NEW n, n = Len(todo)
    PROVE  FrameMeaning(F[n], graphs) = Outputs /\ Outputs # Failed
<1>1. PICK stack : stack = results[n]
  OBVIOUS
<1>2. PICK c : c = Config(stack, E[n])
  OBVIOUS
<1>3. /\ n \in Nat \ {0}
      /\ FrameOk(F[n], E[n], values, todo[n], stack, c, tuple_scope_stack[n],
                 node_values, tuple_values, graphs)
  BY <1>1, <1>2, TopIs
<1>4. todo[n] = << >>
  BY TopIsScoped
<1>5. PICK end : end = FrameMeaning(F[n], graphs)
  OBVIOUS
<1>6. Arrives(F[n].graph, << >>, c, end, graphs, F[n].path)
  BY <1>3, <1>4, <1>5 DEF FrameOk
<1>7. end = EndOf(c)
  BY <1>6, ArrivesNow
<1>8. c # Failed /\ c.stack = stack
  BY <1>2, ConfigIs
<1>9. end = Args(Len(stack), c)
  BY <1>7, <1>8 DEF EndOf
<1>10. Last(results) = stack /\ \A k : Latest(k) = Args(k, c)
  BY <1>1, <1>2, <1>3, ResultsAre
<1>11. end = Outputs
  BY <1>9, <1>10 DEF Outputs
<1>12. IsMap(end)
  BY <1>9 DEF Args, IsMap
<1>13. end # Failed
  BY <1>12 DEF FailedIsNone
<1> QED
  BY <1>5, <1>11, <1>13

\* LeaveGraph.
LEMMA LeaveMeaning ==
    ASSUME MeaningsAreDefined, LowererInv, MeaningInv, LeaveGraph
    PROVE  MeaningInv'
<1>0. FailedIsNone /\ MeaningRules
  BY DEF MeaningsAreDefined
<1>1. PICK out : out = Outputs
  OBVIOUS
<1>2. /\ status = "lowering" /\ Len(todo) > 1 /\ Todo = << >> /\ LeaveScope /\ todo' = Front(todo)
      /\ results' = [Front(results) EXCEPT ![Len(Front(results))] =
                       Push(out, Front(results)[Len(Front(results))])]
      /\ status' = status /\ graph' = graph /\ graphs' = graphs
  BY <1>1 DEF LeaveGraph, Push
<1>3. ResultsAgree /\ \E F, E, V : InProgress(F, E, V)
  BY <1>2 DEF MeaningInv
<1>4. PICK F, E, V : InProgress(F, E, V)
  BY <1>3
<1>5. PICK n : n = Len(todo)
  OBVIOUS
<1>6. PICK m : m = n - 1
  OBVIOUS
<1>7. n \in Nat \ {0} /\ m \in Nat \ {0} /\ n = m + 1 /\ m < n /\ m \in 1..n
  <2>1. n \in Nat \ {0}
    BY <1>2, <1>5, TopIsScoped
  <2> QED
    BY <1>2, <1>5, <1>6, <2>1
<1>8. FrameMeaning(F[n], graphs) = out /\ out # Failed
  BY <1>0, <1>1, <1>2, <1>3, <1>4, <1>5, OutputsMean
<1>9. PICK callers : callers = Front(results)
  OBVIOUS
<1>10. IsSeq(callers) /\ Len(callers) = m /\ \A k \in 1..m : callers[k] = results[k]
  <2>1. IsSeq(results) /\ Len(results) = n /\ Len(results) > 0
    BY <1>3, <1>5, <1>7 DEF ResultsAgree
  <2>2. /\ IsSeq(callers) /\ Len(callers) = Len(results) - 1
        /\ \A k \in 1..Len(results) - 1 : callers[k] = results[k]
    BY <1>9, <2>1, FrontIsSeq
  <2> QED
    BY <1>6, <2>1, <2>2
<1>11. PICK stack : stack = Push(out, results[m])
  OBVIOUS
<1>12. m \in 1..m
  BY <1>7
<1>13. PICK new : new = results'
  OBVIOUS
<1>14. new = [callers EXCEPT ![m] = stack]
  BY <1>2, <1>9, <1>10, <1>11, <1>12, <1>13
<1>15. IsSeq(new)
  BY <1>10, <1>12, <1>14, ExceptIsSeq
<1>16. Len(new) = Len(callers)
  BY <1>10, <1>12, <1>14, ExceptIsSeq
<1>17. \A k \in 1..Len(callers) : new[k] = IF k = m THEN stack ELSE callers[k]
  BY <1>10, <1>12, <1>14, ExceptIsSeq
<1>18. /\ IsSeq(results') /\ Len(results') = m /\ results'[m] = stack
       /\ \A k \in 1..m : k # m => results'[k] = results[k]
  BY <1>10, <1>12, <1>13, <1>15, <1>16, <1>17
<1>19. IsSeq(results[m])
  BY <1>4, <1>5, <1>7 DEF InProgress, Frames, FrameOk
<1>20. IsSeq(stack)
  BY <1>11, <1>19, PushIs
<1>21. ConfigAt(F, E, m) = Config(stack, E[m])
  <2>1. ConfigAt(F, E, m) = Pushed(FrameMeaning(F[m + 1], graphs), Config(results[m], E[m]))
    BY <1>5, <1>7 DEF ConfigAt
  <2>2. PICK c : c = Config(results[m], E[m])
    OBVIOUS
  <2>3. c.stack = results[m] /\ c.env = E[m]
    BY <1>0, <2>2, ConfigIs
  <2>4. ConfigAt(F, E, m) = Pushed(out, c)
    BY <1>7, <1>8, <2>1, <2>2
  <2> QED
    BY <1>8, <1>11, <2>3, <2>4 DEF Pushed
<1>22. ConfigAt(F, E, m) = IF status = "failing" THEN Failed ELSE Config(results'[m], E[m])
  BY <1>2, <1>18, <1>21
<1>23. m = Len(todo) - 1 /\ IsSeq(results'[m]) /\ UNCHANGED <<status, graph, graphs>>
  BY <1>2, <1>5, <1>6, <1>18, <1>20
<1>24. ResultsAgree' /\ \E F1, E1, V1 : InProgress(F1, E1, V1)'
  BY <1>2, <1>4, <1>18, <1>22, <1>23, LeaveKeeps
<1> QED
  BY <1>2, <1>24 DEF MeaningInv, LoweringKeepsTheMeaning

\* Unwind: the graph that is given up means nothing, so its caller means nothing.
LEMMA UnwindMeaning ==
    ASSUME MeaningsAreDefined, LowererInv, MeaningInv, Unwind
    PROVE  MeaningInv'
<1>0. FailedIsNone /\ MeaningRules
  BY DEF MeaningsAreDefined
<1>1. /\ status = "failing" /\ Len(todo) > 1 /\ LeaveScope /\ todo' = Front(todo)
      /\ results' = Front(results)
      /\ status' = status /\ graph' = graph /\ graphs' = graphs
  BY DEF Unwind
<1>2. ResultsAgree /\ \E F, E, V : InProgress(F, E, V)
  BY <1>1 DEF MeaningInv
<1>3. PICK F, E, V : InProgress(F, E, V)
  BY <1>2
<1>4. PICK n : n = Len(todo)
  OBVIOUS
<1>5. PICK m : m = n - 1
  OBVIOUS
<1>6. n \in Nat \ {0} /\ m \in Nat \ {0} /\ n = m + 1 /\ m < n /\ m \in 1..n /\ n \in 1..n
  <2>1. n \in Nat \ {0}
    BY <1>1, <1>4, TopIsScoped
  <2> QED
    BY <1>1, <1>4, <1>5, <2>1
<1>7. FrameMeaning(F[n], graphs) = Failed
  <2>1. ConfigAt(F, E, n) = Failed
    BY <1>1, <1>4, <1>6 DEF ConfigAt
  <2>2. FrameOk(F[n], E[n], V[n], todo[n], results[n], Failed, tuple_scope_stack[n],
                node_values, tuple_values, graphs)
    BY <1>3, <1>4, <1>6, <2>1 DEF InProgress, Frames
  <2> QED
    BY <2>2, ArrivesFailed DEF FrameOk
<1>8. /\ IsSeq(results') /\ Len(results') = m /\ \A k \in 1..m : results'[k] = results[k]
  <2>1. IsSeq(results) /\ Len(results) = n /\ Len(results) > 0
    BY <1>2, <1>4, <1>6 DEF ResultsAgree
  <2>2. PICK new : new = results'
    OBVIOUS
  <2>3. new = Front(results)
    BY <1>1, <2>2
  <2>4. /\ IsSeq(new) /\ Len(new) = Len(results) - 1
        /\ \A k \in 1..Len(results) - 1 : new[k] = results[k]
    BY <2>1, <2>3, FrontIsSeq
  <2> QED
    BY <1>5, <2>1, <2>2, <2>4
<1>9. IsSeq(results'[m])
  <2>1. IsSeq(results[m])
    BY <1>3, <1>4, <1>6 DEF InProgress, Frames, FrameOk
  <2>2. m \in 1..m
    BY <1>6
  <2> QED
    BY <1>8, <2>1, <2>2
<1>10. ConfigAt(F, E, m) = Failed
  <2>1. ConfigAt(F, E, m) = Pushed(FrameMeaning(F[m + 1], graphs), Config(results[m], E[m]))
    BY <1>4, <1>6 DEF ConfigAt
  <2> QED
    BY <1>6, <1>7, <2>1 DEF Pushed
<1>11. ConfigAt(F, E, m) = IF status = "failing" THEN Failed ELSE Config(results'[m], E[m])
  BY <1>1, <1>10
<1>12. /\ m = Len(todo) - 1 /\ UNCHANGED <<status, graph, graphs>>
       /\ \A k \in 1..m : k # m => results'[k] = results[k]
  BY <1>1, <1>4, <1>5, <1>8
<1>13. ResultsAgree' /\ \E F1, E1, V1 : InProgress(F1, E1, V1)'
  BY <1>1, <1>3, <1>8, <1>9, <1>11, <1>12, LeaveKeeps
<1> QED
  BY <1>1, <1>13 DEF MeaningInv, LoweringKeepsTheMeaning

------------------------------------------------------------------------------
(* Errors *)

\* An expression that means nothing.
LEMMA ExprFails ==
    ASSUME FailedIsNone, NEW F, NEW E, NEW n, AtHand(F, E, n), Top.step = "lower_expr",
           NEW e, e = Top.expr, MeaningOf(e, E[n], graphs, F[n].path) = Failed
    PROVE  Effect(Top, Config(results[n], E[n]), graphs, F[n].path) = Failed
<1>1. PICK c : c = Config(results[n], E[n])
  OBVIOUS
<1>2. Effect(Top, c, graphs, F[n].path) = Effect(LowerExpr(e), c, graphs, F[n].path)
  BY <1>1, ExprAtHand
<1>3. PICK val : val = One(MeaningOf(e, E[n], graphs, F[n].path))
  OBVIOUS
<1>4. val = Failed
  BY <1>3 DEF One
<1>5. Effect(LowerExpr(e), Config(results[n], E[n]), graphs, F[n].path) = Failed
  <2>1. PICK stack : stack = results[n]
    OBVIOUS
  <2>2. Effect(LowerExpr(e), Config(stack, E[n]), graphs, F[n].path)
          = IF val = Failed THEN Failed ELSE Config(Push(<<val>>, stack), E[n])
    BY <1>3, ExprEffect
  <2> QED
    BY <1>4, <2>1, <2>2
<1> QED
  BY <1>1, <1>2, <1>5

\* A name that the lowerer does not know has no value in its graph.
LEMMA VarFails ==
    ASSUME MeaningsAreDefined, NEW F, NEW E, NEW n, AtHand(F, E, n), AtExpr({"Var"}),
           Top.expr.name \notin DOMAIN values
    PROVE  Effect(Top, Config(results[n], E[n]), graphs, F[n].path) = Failed
<1>0. FailedIsNone /\ MeaningRules
  BY DEF MeaningsAreDefined
<1>1. PICK e : e = Top.expr
  OBVIOUS
<1>2. Top.step = "lower_expr" /\ e.kind = "Var" /\ e.name \notin DOMAIN values
  BY <1>1 DEF AtExpr, At
<1>3. CanLower(F[n].graph, e, E[n], F[n].path) /\ e \in Exprs
  BY <1>0, <1>1, <1>2, ExprAtHand
<1>4. e.name \notin DOMAIN E[n]
  <2>1. Agrees(F[n], E[n], values)
    BY DEF AtHand, FrameOk
  <2>2. CASE Len(F[n].path) = 1
    BY <1>2, <2>1, <2>2 DEF Agrees
  <2>3. CASE Len(F[n].path) # 1
    <3>1. Len(F[n].path) > 1
      BY <2>3 DEF AtHand
    <3>2. e.name \in VarsOf(e)
      BY <1>2, <1>3, ExprsAssumption DEF VarsOf
    <3>3. e.name \in DOMAIN E[n]
      BY <1>3, <3>1, <3>2 DEF CanLower
    <3> QED
      BY <1>2, <2>1, <2>3, <3>3 DEF Agrees
  <2> QED
    BY <2>2, <2>3
<1>5. PICK vals : vals = MeaningOf(e, E[n], graphs, F[n].path)
  OBVIOUS
<1>6. IsMeaning(vals, e, E[n], graphs, F[n].path)
  BY <1>0, <1>3, <1>5, MeaningIs
<1>7. vals = Failed
  BY <1>2, <1>4, <1>6 DEF IsMeaning
<1> QED
  BY <1>0, <1>1, <1>2, <1>5, <1>7, ExprFails

\* A projection that a cached tuple does not have.
LEMMA TupleGetFails ==
    ASSUME MeaningsAreDefined, NEW F, NEW E, NEW n, AtHand(F, E, n), AtExpr({"TupleGet"}),
           NEW key, key = <<current_tuple_scope, Top.expr.tuple_id>>,
           key \in DOMAIN tuple_values, Top.expr.index \notin DOMAIN tuple_values[key]
    PROVE  Effect(Top, Config(results[n], E[n]), graphs, F[n].path) = Failed
<1>0. FailedIsNone /\ MeaningRules
  BY DEF MeaningsAreDefined
<1>1. PICK e : e = Top.expr
  OBVIOUS
<1>2. Top.step = "lower_expr" /\ e.kind = "TupleGet"
  BY <1>1 DEF AtExpr, At
<1>3. e \in Exprs /\ e \in PartsOf(F[n].graph)
  BY <1>0, <1>1, <1>2, ExprAtHand
<1>4. PICK scope : scope = tuple_scope_stack[n]
  OBVIOUS
<1>5. key = <<scope, e.tuple_id>>
  BY <1>1, <1>4 DEF AtHand
<1>6. Cached(F[n], E[n], todo[n], scope, node_values, tuple_values, graphs)
  BY <1>4 DEF AtHand, FrameOk
<1>7. <<scope, e.tuple_id>> \in DOMAIN tuple_values
  BY <1>5
<1>8. TupleIsKept(e, tuple_values, <<scope, e.tuple_id>>, F[n], E[n], graphs)
  BY <1>2, <1>3, <1>6, <1>7 DEF Cached
<1>9. PICK tuple : tuple = MeaningOf(e.value, E[n], graphs, F[n].path)
  OBVIOUS
<1>10. tuple_values[key] = tuple
  BY <1>5, <1>8, <1>9 DEF TupleIsKept
<1>11. e.index \notin DOMAIN tuple
  BY <1>1, <1>10
<1>12. PICK vals : vals = MeaningOf(e, E[n], graphs, F[n].path)
  OBVIOUS
<1>13. IsMeaning(vals, e, E[n], graphs, F[n].path)
  BY <1>0, <1>3, <1>12, MeaningIs
<1>14. vals = Failed
  BY <1>2, <1>9, <1>11, <1>13 DEF IsMeaning
<1> QED
  BY <1>0, <1>1, <1>2, <1>12, <1>14, ExprFails

\* A call that inline_graph_values refuses.
LEMMA InlineFails ==
    ASSUME MeaningsAreDefined, ResultsAgree, NEW F, NEW E, NEW n, AtHand(F, E, n),
           At("inline_graph"), ~MayInline(Top.name, Top.count)
    PROVE  Effect(Top, Config(results[n], E[n]), graphs, F[n].path) = Failed
<1>0. FailedIsNone /\ MeaningRules
  BY DEF MeaningsAreDefined
<1>1. Top.step = "inline_graph"
  BY DEF At
<1>2. PICK name : name = Top.name
  OBVIOUS
<1>3. PICK m : m = Top.count
  OBVIOUS
<1>4. PICK args : args = Latest(m)
  OBVIOUS
<1>5. Len(args) = m
  BY <1>0, <1>1, <1>3, <1>4, ArgsAreValues
<1>6. PICK c : c = Config(results[n], E[n])
  OBVIOUS
<1>7. c # Failed
  BY <1>0, <1>6, ConfigIs
<1>8. Args(m, c) = args
  <2>1. n \in Nat \ {0} /\ n = Len(todo)
    BY DEF AtHand
  <2> QED
    BY <1>4, <1>6, <2>1, ResultsAre
<1>9. F[n].path = call_stack
  BY DEF AtHand
<1>10. CallMeaning(name, args, graphs, call_stack) = Failed
  <2>1. CASE Contains(call_stack, name) \/ name \notin DOMAIN graphs
    BY <2>1 DEF CallMeaning
  <2>2. CASE ~Contains(call_stack, name) /\ name \in DOMAIN graphs
    <3>1. Len(graphs[name].inputs) # Len(args)
      BY <1>2, <1>3, <1>5, <2>2 DEF MayInline
    <3>2. MeaningOfGraph(graphs[name], args, graphs, Append(call_stack, name)) = Failed
      BY <3>1 DEF MeaningOfGraph
    <3> QED
      BY <2>2, <3>2 DEF CallMeaning
  <2> QED
    BY <2>1, <2>2
<1>11. PICK d : d = Pop(m, c)
  OBVIOUS
<1>12. Effect(Top, c, graphs, F[n].path) = Pushed(CallMeaning(name, args, graphs, call_stack), d)
  BY <1>1, <1>2, <1>3, <1>7, <1>8, <1>9, <1>11 DEF Effect, LiveEffect
<1> QED
  BY <1>6, <1>10, <1>12 DEF Pushed

\* A step that is an error means nothing.
LEMMA FailingStep ==
    ASSUME MeaningsAreDefined, ResultsAgree, NEW F, NEW E, NEW n, AtHand(F, E, n), StepFails
    PROVE  Effect(Top, Config(results[n], E[n]), graphs, F[n].path) = Failed
<1>0. FailedIsNone /\ MeaningRules
  BY DEF MeaningsAreDefined
<1>1. PICK c : c = Config(results[n], E[n])
  OBVIOUS
<1>2. c # Failed /\ c.stack = results[n]
  BY <1>0, <1>1, ConfigIs
<1>3. Result = Head(results[n])
  <2>1. n \in Nat \ {0} /\ n = Len(todo)
    BY DEF AtHand
  <2> QED
    BY <2>1, ResultsAre
<1>4. CASE AtExpr({"Var"}) /\ Top.expr.name \notin DOMAIN values
  BY <1>4, VarFails
<1>5. CASE /\ AtExpr({"TupleGet"})
           /\ LET key == scoped_key(Top.expr.tuple_id) IN
                /\ key \in DOMAIN tuple_values
                /\ Top.expr.index \notin DOMAIN tuple_values[key]
  <2>1. PICK key : key = <<current_tuple_scope, Top.expr.tuple_id>>
    OBVIOUS
  <2>2. AtExpr({"TupleGet"}) /\ key \in DOMAIN tuple_values
        /\ Top.expr.index \notin DOMAIN tuple_values[key]
    BY <1>5, <2>1 DEF scoped_key
  <2> QED
    BY <2>1, <2>2, TupleGetFails
<1>6. CASE At("keep_tuple") /\ Top.index \notin DOMAIN Result
  <2>1. Top.step = "keep_tuple" /\ Top.index \notin DOMAIN Head(c.stack)
    BY <1>2, <1>3, <1>6 DEF At
  <2> QED
    BY <1>1, <1>2, <2>1 DEF Effect, LiveEffect
<1>7. CASE At("emit") /\ Top.op \in Unsupported
  <2>1. Top.step = "emit"
    BY <1>7 DEF At
  <2> QED
    BY <1>1, <1>2, <1>7, <2>1 DEF Effect, LiveEffect
<1>8. CASE At("single") /\ Len(Result) # 1
  <2>1. Top.step = "single" /\ Len(Head(c.stack)) # 1
    BY <1>2, <1>3, <1>8 DEF At
  <2> QED
    BY <1>1, <1>2, <2>1 DEF Effect, LiveEffect
<1>9. CASE At("bind_values") /\ Len(Top.names) # Len(Result)
  <2>1. Top.step = "bind_values" /\ Len(Top.names) # Len(Head(c.stack))
    BY <1>2, <1>3, <1>9 DEF At
  <2> QED
    BY <1>1, <1>2, <2>1 DEF Effect, LiveEffect
<1>10. CASE At("inline_graph") /\ ~MayInline(Top.name, Top.count)
  BY <1>10, InlineFails
<1> QED
  BY <1>4, <1>5, <1>6, <1>7, <1>8, <1>9, <1>10 DEF StepFails

\* Fail: from here on the innermost frame means nothing.
LEMMA FailMeaning ==
    ASSUME MeaningsAreDefined, LowererInv, MeaningInv, Fail
    PROVE  MeaningInv'
<1>0. FailedIsNone /\ MeaningRules
  BY DEF MeaningsAreDefined
<1>1. /\ status = "lowering" /\ Todo # << >> /\ StepFails /\ status' = "failing"
      /\ graph' = graph /\ graphs' = graphs /\ values' = values /\ overwritten' = overwritten
      /\ todo' = todo /\ results' = results /\ call_stack' = call_stack
      /\ tuple_scope_stack' = tuple_scope_stack
      /\ node_values' = node_values /\ tuple_values' = tuple_values
  BY DEF Fail, StepFails, AtExpr, At, scopes, caches
<1>2. ResultsAgree /\ \E F, E, V : InProgress(F, E, V)
  BY <1>1 DEF MeaningInv
<1>3. PICK F, E, V : InProgress(F, E, V)
  BY <1>2
<1>4. PICK n : n = Len(todo)
  OBVIOUS
<1>5. AtHand(F, E, n)
  BY <1>1, <1>2, <1>3, <1>4, TopIsAtHand
<1>6. PICK c : c = Config(results[n], E[n])
  OBVIOUS
<1>7. Effect(Head(todo[n]), c, graphs, F[n].path) = Failed
  <2>1. Top = Head(todo[n])
    BY <1>5 DEF AtHand
  <2>2. Effect(Top, Config(results[n], E[n]), graphs, F[n].path) = Failed
    BY <1>1, <1>2, <1>5, FailingStep
  <2> QED
    BY <1>6, <2>1, <2>2
<1>8. FrameOk(F[n], E[n], values, todo[n], results[n], Failed, tuple_scope_stack[n],
              node_values, tuple_values, graphs)
  <2>1. todo[n] # << >> /\ FrameOk(F[n], E[n], values, todo[n], results[n], c, tuple_scope_stack[n],
                                   node_values, tuple_values, graphs)
    BY <1>5, <1>6 DEF AtHand
  <2> QED
    BY <1>7, <2>1, FrameStep
<1>9. Layers(V)'
  BY <1>1, <1>3, SameLayers DEF InProgress
<1>10. Linked(F)'
  BY <1>1, <1>3 DEF InProgress, Linked
<1>11. ASSUME NEW k \in 1..n
       PROVE  FrameOk(F[k], E[k], V[k], todo'[k], results'[k], ConfigAt(F, E, k)',
                      tuple_scope_stack'[k], node_values', tuple_values', graphs')
  <2>1. CASE k = n
    <3>1. ConfigAt(F, E, k)' = Failed
      <4>1. ~(k < Len(todo'))
        BY <1>1, <1>4, <1>5, <2>1 DEF AtHand
      <4> QED
        BY <1>1, <4>1 DEF ConfigAt
    <3>2. V[n] = values
      BY <1>3, <1>4 DEF InProgress, Layers
    <3> QED
      BY <1>1, <1>8, <2>1, <3>1, <3>2
  <2>2. CASE k # n
    <3>1. k < Len(todo) /\ k \in 1..Len(todo)
      BY <1>4, <1>5, <2>2 DEF AtHand
    <3>2. ConfigAt(F, E, k)' = ConfigAt(F, E, k)
      BY <1>1, <3>1 DEF ConfigAt
    <3>3. FrameOk(F[k], E[k], V[k], todo[k], results[k], ConfigAt(F, E, k), tuple_scope_stack[k],
                  node_values, tuple_values, graphs)
      BY <1>3, <3>1 DEF InProgress, Frames
    <3> QED
      BY <1>1, <3>2, <3>3
  <2> QED
    BY <2>1, <2>2
<1>12. Frames(F, E, V)'
  BY <1>1, <1>4, <1>11 DEF Frames
<1>13. InProgress(F, E, V)'
  BY <1>9, <1>10, <1>12 DEF InProgress
<1>14. ResultsAgree'
  BY <1>1, <1>2 DEF ResultsAgree
<1> QED
  BY <1>1, <1>13, <1>14 DEF MeaningInv, LoweringKeepsTheMeaning

------------------------------------------------------------------------------
(* The beginning and the end *)

\* The only frame left is the graph itself.
LEMMA LastFrame ==
    ASSUME NEW F, Linked(F), Len(todo) = 1
    PROVE  FrameMeaning(F[1], graphs) = Meaning(graph, graphs)
BY DEF Linked, FrameMeaning, Meaning

\* ReturnOutputs: the function returns what the graph means.
LEMMA OutputsMeaning ==
    ASSUME MeaningsAreDefined, LowererInv, MeaningInv, ReturnOutputs
    PROVE  MeaningInv'
<1>0. FailedIsNone /\ MeaningRules
  BY DEF MeaningsAreDefined
<1>1. /\ status = "lowering" /\ Len(todo) = 1 /\ Todo = << >> /\ status' = "done"
      /\ results' = <<<<Outputs>>>> /\ graph' = graph /\ graphs' = graphs
  BY DEF ReturnOutputs
<1>2. ResultsAgree /\ \E F, E, V : InProgress(F, E, V)
  BY <1>1 DEF MeaningInv
<1>3. PICK F, E, V : InProgress(F, E, V)
  BY <1>2
<1>4. PICK n : n = 1
  OBVIOUS
<1>5. n = Len(todo)
  BY <1>1, <1>4
<1>6. FrameMeaning(F[n], graphs) = Outputs
  BY <1>0, <1>1, <1>2, <1>3, <1>5, OutputsMean
<1>7. FrameMeaning(F[1], graphs) = Meaning(graph, graphs)
  BY <1>1, <1>3, LastFrame DEF InProgress
<1>8. results' = <<<<Meaning(graph, graphs)>>>>
  BY <1>1, <1>4, <1>6, <1>7
<1>9. PICK mean : mean = Meaning(graph, graphs)
  OBVIOUS
<1>10. Meaning(graph', graphs') = mean
  BY <1>1, <1>9
<1>11. LoweringKeepsTheMeaning'
  BY <1>1, <1>8, <1>9, <1>10 DEF LoweringKeepsTheMeaning
<1>12. \E p \in Programs : graph' = p.graph /\ graphs' = p.graphs
  BY <1>1 DEF MeaningInv
<1> QED
  BY <1>1, <1>11, <1>12 DEF MeaningInv

\* GiveUp: the graph means nothing.
LEMMA GiveUpMeaning ==
    ASSUME MeaningsAreDefined, LowererInv, MeaningInv, GiveUp
    PROVE  MeaningInv'
<1>1. /\ status = "failing" /\ Len(todo) = 1 /\ status' = "failed"
      /\ graph' = graph /\ graphs' = graphs
  BY DEF GiveUp
<1>2. ResultsAgree /\ \E F, E, V : InProgress(F, E, V)
  BY <1>1 DEF MeaningInv
<1>3. PICK F, E, V : InProgress(F, E, V)
  BY <1>2
<1>4. ConfigAt(F, E, 1) = Failed
  BY <1>1 DEF ConfigAt
<1>5. 1 \in 1..Len(todo)
  BY <1>1
<1>6. FrameOk(F[1], E[1], V[1], todo[1], results[1], Failed, tuple_scope_stack[1],
              node_values, tuple_values, graphs)
  BY <1>3, <1>4, <1>5 DEF InProgress, Frames
<1>7. FrameMeaning(F[1], graphs) = Failed
  BY <1>6, ArrivesFailed DEF FrameOk
<1>8. Meaning(graph, graphs) = Failed
  BY <1>1, <1>3, <1>7, LastFrame DEF InProgress
<1>9. Meaning(graph', graphs') = Failed
  BY <1>1, <1>8
<1>10. LoweringKeepsTheMeaning'
  BY <1>1, <1>9 DEF LoweringKeepsTheMeaning
<1>11. \E p \in Programs : graph' = p.graph /\ graphs' = p.graphs
  BY <1>1 DEF MeaningInv
<1> QED
  BY <1>1, <1>10, <1>11 DEF MeaningInv

\* The arguments of the function being made are values.
LEMMA BlockArgumentsAreValues ==
    ASSUME FailedIsNone, NEW names, IsSeq(names),
           NEW args, args = [i \in DOMAIN names |-> BlockArgument(i)]
    PROVE  IsValues(args) /\ Len(args) = Len(names)
<1>1. PICK n : n = Len(names) /\ n \in Nat
  BY SeqShape
<1>2. DOMAIN names = 1..n
  BY <1>1, SeqShape
<1>3. args = [i \in 1..n |-> args[i]] /\ \A i \in 1..n : args[i] = BlockArgument(i)
  BY <1>2
<1>4. \A i \in 1..n : args[i] # Failed
  BY <1>3, TermIsValue DEF BlockArgument
<1> QED
  BY <1>1, <1>3, <1>4, ValuesListed

\* New: the only frame is that of the graph to lower.
LEMMA NewMeaning ==
    ASSUME MeaningsAreDefined, LowererInv, MeaningInv, NEW p \in Programs, New(p.graph, p.graphs)
    PROVE  MeaningInv'
<1>0. FailedIsNone /\ MeaningRules
  BY DEF MeaningsAreDefined
<1>1. PICK g : g = p.graph
  OBVIOUS
<1>2. PICK args : args = [i \in DOMAIN g.inputs |-> BlockArgument(i)]
  OBVIOUS
<1>3. /\ status = "idle" /\ status' = "lowering" /\ graph' = g /\ graphs' = p.graphs
      /\ call_stack' = <<g.name>> /\ tuple_scope_stack' = <<0>>
      /\ values' = Bound(EmptyMap, g.inputs, args).map
      /\ todo' = <<GraphSteps(g)>> /\ results' = <<<< >>>>
      /\ node_values' = node_values /\ tuple_values' = tuple_values
  BY <1>1, <1>2 DEF New, caches
<1>4. IsGraph(g) /\ IsShared(g)
  BY <1>1, ProgramsAssumption, GraphsAssumption
<1>5. IsValues(args) /\ Len(args) = Len(g.inputs)
  <2>1. IsSeq(g.inputs)
    BY <1>4 DEF IsGraph, IsSeq
  <2> QED
    BY <1>0, <1>2, <2>1, BlockArgumentsAreValues
<1>6. PICK f : f = [graph |-> g, args |-> args, path |-> <<g.name>>]
  OBVIOUS
<1>7. f.graph = g /\ f.args = args /\ f.path = <<g.name>>
  BY <1>6
<1>8. Len(f.path) = 1
  BY <1>7
<1>9. PICK env : env = Bound(EmptyMap, g.inputs, args).map
  OBVIOUS
<1>10. PICK none : none = << >>
  OBVIOUS
<1>11. DOMAIN node_values = {} /\ DOMAIN tuple_values = {}
  <2>1. Len(todo) = 0 /\ Len(tuple_scope_stack) = 0 /\ tuple_scope_stack \in Seq(Nat)
    BY <1>3 DEF LowererInv, StackTypes, StacksAgree
  <2>2. DOMAIN tuple_scope_stack = {}
    BY <2>1
  <2> QED
    BY <2>2 DEF LowererInv, CachedScopesAreLive, ToSet
<1>12. PICK registry : registry = p.graphs
  OBVIOUS
<1>13. PICK start : start = EmptyMap
  OBVIOUS
<1>14. FrameOk(f, env, env, GraphSteps(g), none, Config(none, env), 0, node_values, tuple_values,
               registry)
  <2>1. \A key \in DOMAIN node_values \cup DOMAIN tuple_values : key[1] # 0
    BY <1>11
  <2>2. (Len(f.path) > 1 => IsScoped(g)) /\ (Len(f.path) = 1 => start = EmptyMap)
    BY <1>8, <1>13
  <2>3. env = Bound(start, g.inputs, args).map
    BY <1>9, <1>13
  <2> QED
    BY <1>4, <1>5, <1>7, <1>9, <1>10, <2>1, <2>2, <2>3, FrameEntered
<1>15. PICK F : F = <<f>>
  OBVIOUS
<1>16. PICK E : E = <<env>>
  OBVIOUS
<1>17. F[1] = f /\ E[1] = env
  BY <1>15, <1>16
<1>18. PICK steps : steps = GraphSteps(g)
  OBVIOUS
<1>19. /\ Len(todo') = 1 /\ todo'[1] = steps /\ results'[1] = none
       /\ IsSeq(results') /\ Len(results') = 1 /\ tuple_scope_stack'[1] = 0
  <2>1. Len(todo') = 1 /\ todo'[1] = steps /\ tuple_scope_stack'[1] = 0
    BY <1>3, <1>18
  <2>2. results' = <<none>>
    BY <1>3, <1>10
  <2>3. IsSeq(<<none>>)
    BY OneStep
  <2>4. Len(<<none>>) = 1 /\ <<none>>[1] = none
    OBVIOUS
  <2> QED
    BY <2>1, <2>2, <2>3, <2>4
<1>20. Layers(E)'
  <2>1. values' = env
    BY <1>3, <1>9
  <2>2. IsMap(env)
    BY <1>14 DEF FrameOk, IsEnv
  <2>3. /\ \A k \in 1..Len(todo') : IsMap(E[k])
        /\ values' = E[Len(todo')]
        /\ \A k \in 2..Len(todo') : FALSE
    BY <1>17, <1>19, <2>1, <2>2
  <2> QED
    BY <2>3 DEF Layers
<1>21. Linked(F)'
  <2>1. call_stack' = f.path /\ graph' = g
    BY <1>3, <1>7
  <2>2. /\ \A k \in 1..Len(todo') : Len(F[k].path) = k
        /\ \A k \in 2..Len(todo') : FALSE
    BY <1>8, <1>17, <1>19
  <2>3. F[Len(todo')].path = call_stack'
    BY <1>17, <1>19, <2>1
  <2> QED
    BY <1>2, <1>7, <1>17, <2>1, <2>2, <2>3 DEF Linked
<1>22. ConfigAt(F, E, 1)' = Config(none, env)
  BY <1>3, <1>17, <1>19 DEF ConfigAt
<1>23. FrameOk(F[1], E[1], E[1], todo'[1], results'[1], ConfigAt(F, E, 1)', tuple_scope_stack'[1],
               node_values', tuple_values', graphs')
  BY <1>3, <1>12, <1>14, <1>17, <1>18, <1>19, <1>22
<1>24. Frames(F, E, E)'
  <2>1. \A k \in 1..Len(todo') : k = 1
    BY <1>19
  <2> QED
    BY <1>23, <2>1 DEF Frames
<1>25. InProgress(F, E, E)'
  BY <1>20, <1>21, <1>24 DEF InProgress
<1>26. ResultsAgree'
  BY <1>19 DEF ResultsAgree
<1>27. \E q \in Programs : graph' = q.graph /\ graphs' = q.graphs
  BY <1>1, <1>3
<1> QED
  BY <1>3, <1>25, <1>26, <1>27 DEF MeaningInv, LoweringKeepsTheMeaning

\* Nothing happens.
LEMMA SameMeaningInv ==
    ASSUME MeaningInv, UNCHANGED lowererVars
    PROVE  MeaningInv'
<1>1. /\ status' = status /\ graph' = graph /\ graphs' = graphs /\ values' = values
      /\ overwritten' = overwritten /\ todo' = todo /\ results' = results
      /\ call_stack' = call_stack /\ tuple_scope_stack' = tuple_scope_stack
      /\ node_values' = node_values /\ tuple_values' = tuple_values
  BY DEF lowererVars, scopes, caches
<1>2. ASSUME status \in {"lowering", "failing"}
      PROVE  ResultsAgree' /\ (\E F, E, V : InProgress(F, E, V))'
  <2>1. ResultsAgree /\ \E F, E, V : InProgress(F, E, V)
    BY <1>2 DEF MeaningInv
  <2>2. PICK F, E, V : InProgress(F, E, V)
    BY <2>1
  <2>3. Layers(V)'
    BY <1>1, <2>2, SameLayers DEF InProgress
  <2>4. Linked(F)'
    BY <1>1, <2>2 DEF InProgress, Linked
  <2>5. ASSUME NEW k \in 1..Len(todo)
        PROVE  FrameOk(F[k], E[k], V[k], todo'[k], results'[k], ConfigAt(F, E, k)',
                       tuple_scope_stack'[k], node_values', tuple_values', graphs')
    <3>1. ConfigAt(F, E, k)' = ConfigAt(F, E, k)
      BY <1>1 DEF ConfigAt
    <3>2. FrameOk(F[k], E[k], V[k], todo[k], results[k], ConfigAt(F, E, k), tuple_scope_stack[k],
                  node_values, tuple_values, graphs)
      BY <2>2 DEF InProgress, Frames
    <3> QED
      BY <1>1, <3>1, <3>2
  <2>6. Frames(F, E, V)'
    BY <1>1, <2>5 DEF Frames
  <2>7. InProgress(F, E, V)'
    BY <2>3, <2>4, <2>6 DEF InProgress
  <2>8. ResultsAgree'
    BY <1>1, <2>1 DEF ResultsAgree
  <2> QED
    BY <2>7, <2>8
<1>3. LoweringKeepsTheMeaning'
  <2>1. LoweringKeepsTheMeaning
    BY DEF MeaningInv
  <2> QED
    BY <1>1, <2>1 DEF LoweringKeepsTheMeaning, Meaning
<1>4. status' # "idle" => \E p \in Programs : graph' = p.graph /\ graphs' = p.graphs
  BY <1>1 DEF MeaningInv
<1> QED
  BY <1>1, <1>2, <1>3, <1>4 DEF MeaningInv

\* Every step of lowering keeps what the frames mean.
LEMMA NextMeaning ==
    ASSUME MeaningsAreDefined, LowererInv, ScopesInv, MeaningInv, [Next]_lowererVars
    PROVE  MeaningInv'
<1>1. CASE status = "idle" /\ \E p \in Programs : New(p.graph, p.graphs)
  BY <1>1, NewMeaning
<1>2. CASE LowerVar \/ LowerConst \/ LowerCall \/ CheckSingle \/ LowerNode \/ KeepNode
  BY <1>2, VarMeaning, ConstMeaning, CallMeans, SingleMeaning, NodeMeaning, KeepNodeMeaning
<1>3. CASE LowerTupleGet \/ KeepTuple \/ LowerLetOrTuple \/ Emit \/ LowerLet \/ BindValues
  BY <1>3, TupleGetMeaning, KeepTupleMeaning, LetOrTupleMeaning, EmitMeaning, LetMeaning, BindMeaning
<1>4. CASE EnterGraph \/ LeaveGraph \/ ReturnOutputs \/ Fail \/ Unwind \/ GiveUp
  BY <1>4, EnterMeaning, LeaveMeaning, OutputsMeaning, FailMeaning, UnwindMeaning, GiveUpMeaning
<1>5. CASE Finished \/ UNCHANGED lowererVars
  BY <1>5, SameMeaningInv DEF Finished
<1> QED
  BY <1>1, <1>2, <1>3, <1>4, <1>5 DEF Next, Lower

\* The steps that the lowerer has still to do, in each of the graphs being
\* lowered, lead to what that graph means in its own names: through inlining,
\* overwritten names, cached nodes and tuples, and errors.
THEOREM MeaningInvariant ==
    ASSUME MeaningsAreDefined
    PROVE  Spec => [](LowererInv /\ ScopesInv /\ MeaningInv)
<1>1. Init => LowererInv /\ ScopesInv /\ MeaningInv
  <2>1. Init => LowererInv
    BY InitInvariant
  <2>2. Init => ScopesInv
    BY DEF Init, ScopesInv
  <2>3. Init => MeaningInv
    BY DEF Init, MeaningInv, LoweringKeepsTheMeaning
  <2> QED
    BY <2>1, <2>2, <2>3
<1>2. LowererInv /\ ScopesInv /\ MeaningInv /\ [Next]_lowererVars
        => (LowererInv /\ ScopesInv /\ MeaningInv)'
  BY NextInvariant, NextScopes, NextMeaning
<1> QED
  BY <1>1, <1>2, PTL DEF Spec

\* Lowering keeps the meaning of any typed graph: the function computes what
\* the graph means when names are those of the graph they are written in, and
\* only a graph that means nothing is refused (lowerer.rs, all of it).
THEOREM LoweringAlwaysKeepsTheMeaning ==
    ASSUME MeaningsAreDefined
    PROVE  Spec => []LoweringKeepsTheMeaning
<1>1. LowererInv /\ ScopesInv /\ MeaningInv => LoweringKeepsTheMeaning
  BY DEF MeaningInv
<1> QED
  BY <1>1, MeaningInvariant, PTL
==============================================================================
