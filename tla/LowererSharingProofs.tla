------------------------- MODULE LowererSharingProofs -------------------------
(***************************************************************************)
(* The proof that what the graph shares is emitted once: the block that    *)
(* Lowerer leaves has one operation for each place of the graph.           *)
(***************************************************************************)
EXTENDS LowererMeaningProofs, FiniteSetTheorems, FunctionTheorems

(***************************************************************************)
(* Places are paths.  A place extends another if it is that one or below   *)
(* it; what an expression needs is at places that extend its own place, or *)
(* that of a node or tuple in it.                                          *)
(***************************************************************************)
Extends(d, p) ==
    /\ IsSeq(d) /\ IsSeq(p) /\ Len(p) <= Len(d)
    /\ \A i \in 1..Len(p) : d[i] = p[i]

\* The place of an expression: it begins with a let, an output, a node or a tuple.
IsPlace(p) == IsSeq(p) /\ Len(p) >= 2

\* The place of an argument, and of what a call itself needs.
ArgPlace(p, i) == p \o <<1, i>>
InCall(p) == p \o <<4>>

\* Nothing is done below p, or nothing of the call at p.
Fresh(p, done) == \A d \in done : ~Extends(d, p)
Bare(p, done) == p \notin done /\ Fresh(InCall(p), done)

\* A pair as a list.
LEMMA PairIsSeq ==
    ASSUME NEW a, NEW b
    PROVE  IsSeq(<<a, b>>) /\ Len(<<a, b>>) = 2 /\ <<a, b>>[1] = a /\ <<a, b>>[2] = b
<1>1. <<a, b>> \in Seq({a, b}) /\ Len(<<a, b>>) = 2 /\ <<a, b>>[1] = a /\ <<a, b>>[2] = b
  OBVIOUS
<1> QED
  BY <1>1, SeqIsSeq

\* What extends a place extends all that place extends.
LEMMA ExtendsTrans ==
    ASSUME NEW d, NEW p, NEW q, Extends(d, p), Extends(p, q)
    PROVE  Extends(d, q)
<1>1. Len(d) \in Nat /\ Len(p) \in Nat /\ Len(q) \in Nat
  BY SeqShape DEF Extends
<1> QED
  BY <1>1 DEF Extends

\* Of two places that a path extends, the shorter one is extended by the other.
LEMMA ExtendsBoth ==
    ASSUME NEW d, NEW p, NEW q, Extends(d, p), Extends(d, q), Len(q) <= Len(p)
    PROVE  Extends(p, q)
<1>1. Len(d) \in Nat /\ Len(p) \in Nat /\ Len(q) \in Nat
  BY SeqShape DEF Extends
<1> QED
  BY <1>1 DEF Extends

\* A place extends itself.
LEMMA ExtendsSelf ==
    ASSUME NEW p, IsSeq(p)
    PROVE  Extends(p, p)
<1>1. Len(p) \in Nat
  BY SeqShape
<1> QED
  BY <1>1 DEF Extends

\* Places of the same length that a path extends are the same.
LEMMA SameLength ==
    ASSUME NEW d, NEW p, NEW q, Extends(d, p), Extends(d, q), Len(p) = Len(q)
    PROVE  p = q
<1>1. IsSeq(p) /\ IsSeq(q) /\ Len(p) \in Nat
  BY SeqShape DEF Extends
<1>2. \A i \in 1..Len(p) : p[i] = q[i]
  BY <1>1 DEF Extends
<1> QED
  BY <1>1, <1>2, SeqsEqual

\* A longer path.
IsLonger(r, p, q) ==
    /\ IsSeq(r) /\ Len(r) = Len(p) + Len(q) /\ Extends(r, p) /\ Len(p) \in Nat
    /\ \A i \in 1..Len(q) : r[Len(p) + i] = q[i]

\* Its elements.
LEMMA LongerIs ==
    ASSUME NEW p, IsSeq(p), NEW q, IsSeq(q), NEW r, r = p \o q
    PROVE  IsLonger(r, p, q)
<1>1. PICK m, n : m = Len(p) /\ n = Len(q)
  OBVIOUS
<1>2. m \in Nat /\ n \in Nat
  BY <1>1, SeqShape
<1>3. /\ IsSeq(r) /\ Len(r) = Len(p) + Len(q)
      /\ \A i \in 1..Len(p) + Len(q) : r[i] = IF i <= Len(p) THEN p[i] ELSE q[i - Len(p)]
  BY ConcatIsSeq
<1>4. IsSeq(r) /\ Len(r) = m + n /\ \A i \in 1..m + n : r[i] = IF i <= m THEN p[i] ELSE q[i - m]
  BY <1>1, <1>3
<1>5. \A i \in 1..m : r[i] = p[i]
  BY <1>2, <1>4
<1>6. ASSUME NEW i \in 1..n PROVE r[m + i] = q[i]
  <2>1. m + i \in 1..m + n /\ ~(m + i <= m) /\ (m + i) - m = i
    BY <1>2
  <2> QED
    BY <1>4, <2>1
<1>7. Extends(r, p)
  BY <1>1, <1>2, <1>4, <1>5 DEF Extends
<1> QED
  BY <1>1, <1>2, <1>4, <1>6, <1>7 DEF IsLonger

\* The place of an argument is below that of the call.
LEMMA ArgPlaceIs ==
    ASSUME NEW p, IsSeq(p), NEW i
    PROVE  /\ IsSeq(ArgPlace(p, i)) /\ Extends(ArgPlace(p, i), p)
           /\ Len(p) \in Nat /\ Len(ArgPlace(p, i)) = Len(p) + 2
           /\ ArgPlace(p, i)[Len(p) + 1] = 1 /\ ArgPlace(p, i)[Len(p) + 2] = i
<1>1. PICK q : q = <<1, i>>
  OBVIOUS
<1>2. IsSeq(q) /\ Len(q) = 2 /\ q[1] = 1 /\ q[2] = i
  BY <1>1, PairIsSeq
<1>3. PICK r : r = p \o q
  OBVIOUS
<1>4. /\ IsSeq(r) /\ Len(r) = Len(p) + Len(q) /\ Extends(r, p) /\ Len(p) \in Nat
      /\ \A j \in 1..Len(q) : r[Len(p) + j] = q[j]
  <2>1. IsLonger(r, p, q)
    BY <1>2, <1>3, LongerIs
  <2> QED
    BY <2>1 DEF IsLonger
<1>5. 1 \in 1..Len(q) /\ 2 \in 1..Len(q)
  BY <1>2
<1>6. r[Len(p) + 1] = 1 /\ r[Len(p) + 2] = i /\ Len(r) = Len(p) + 2
  BY <1>2, <1>4, <1>5
<1>7. r = ArgPlace(p, i)
  BY <1>1, <1>3 DEF ArgPlace
<1> QED
  BY <1>4, <1>6, <1>7

\* Two arguments have nothing in common.
LEMMA ArgsApart ==
    ASSUME NEW p, IsSeq(p), NEW i, NEW j, NEW d,
           Extends(d, ArgPlace(p, i)), Extends(d, ArgPlace(p, j))
    PROVE  i = j
<1>1. Len(ArgPlace(p, i)) = Len(p) + 2 /\ Len(ArgPlace(p, j)) = Len(p) + 2
  BY ArgPlaceIs
<1>2. ArgPlace(p, i) = ArgPlace(p, j)
  BY <1>1, SameLength
<1>3. ArgPlace(p, i)[Len(p) + 2] = i /\ ArgPlace(p, j)[Len(p) + 2] = j
  BY ArgPlaceIs
<1> QED
  BY <1>2, <1>3

\* The places inside of a call that is inlined.
LEMMA InCallIs ==
    ASSUME NEW p, IsSeq(p)
    PROVE  /\ IsSeq(InCall(p)) /\ Extends(InCall(p), p)
           /\ Len(p) \in Nat /\ Len(InCall(p)) = Len(p) + 1 /\ InCall(p)[Len(p) + 1] = 4
<1>1. PICK q : q = <<4>>
  OBVIOUS
<1>2. q \in Seq({4}) /\ Len(q) = 1 /\ q[1] = 4
  BY <1>1
<1>3. IsSeq(q)
  BY <1>2, SeqIsSeq
<1>4. PICK r : r = p \o q
  OBVIOUS
<1>5. /\ IsSeq(r) /\ Len(r) = Len(p) + Len(q) /\ Extends(r, p) /\ Len(p) \in Nat
      /\ \A j \in 1..Len(q) : r[Len(p) + j] = q[j]
  <2>1. IsLonger(r, p, q)
    BY <1>3, <1>4, LongerIs
  <2> QED
    BY <2>1 DEF IsLonger
<1>6. 1 \in 1..Len(q)
  BY <1>2
<1>7. r[Len(p) + 1] = 4 /\ Len(r) = Len(p) + 1
  BY <1>2, <1>5, <1>6
<1>8. r = InCall(p)
  BY <1>1, <1>4 DEF InCall
<1> QED
  BY <1>5, <1>7, <1>8

\* A place of the graph that is called, as a place of the caller.
CalleePlace(p, d) == p \o <<4, d>>

\* Such a place is that of the call, a 4, and the place in the callee.
LEMMA CalleePlaceIs ==
    ASSUME NEW p, IsSeq(p), NEW d
    PROVE  /\ IsSeq(CalleePlace(p, d)) /\ Extends(CalleePlace(p, d), InCall(p))
           /\ Extends(CalleePlace(p, d), p)
           /\ Len(p) \in Nat /\ Len(CalleePlace(p, d)) = Len(p) + 2
           /\ CalleePlace(p, d)[Len(p) + 2] = d
<1>1. PICK q : q = <<4, d>>
  OBVIOUS
<1>2. IsSeq(q) /\ Len(q) = 2 /\ q[1] = 4 /\ q[2] = d
  BY <1>1, PairIsSeq
<1>3. PICK r : r = p \o q
  OBVIOUS
<1>4. /\ IsSeq(r) /\ Len(r) = Len(p) + Len(q) /\ Extends(r, p) /\ Len(p) \in Nat
      /\ \A j \in 1..Len(q) : r[Len(p) + j] = q[j]
  <2>1. IsLonger(r, p, q)
    BY <1>2, <1>3, LongerIs
  <2> QED
    BY <2>1 DEF IsLonger
<1>5. 1 \in 1..Len(q) /\ 2 \in 1..Len(q)
  BY <1>2
<1>6. r[Len(p) + 1] = 4 /\ r[Len(p) + 2] = d /\ Len(r) = Len(p) + 2
  BY <1>2, <1>4, <1>5
<1>7. PICK c : c = InCall(p)
  OBVIOUS
<1>8. IsSeq(c) /\ Extends(c, p) /\ Len(c) = Len(p) + 1 /\ c[Len(p) + 1] = 4
  BY <1>7, InCallIs
<1>9. \A i \in 1..Len(p) + 1 : r[i] = c[i]
  <2>1. \A i \in 1..Len(p) : r[i] = p[i] /\ c[i] = p[i]
    BY <1>4, <1>8 DEF Extends
  <2> QED
    BY <1>4, <1>6, <1>8, <2>1
<1>10. Extends(r, c)
  BY <1>4, <1>6, <1>8, <1>9 DEF Extends
<1>11. r = CalleePlace(p, d)
  BY <1>1, <1>3 DEF CalleePlace
<1> QED
  BY <1>4, <1>6, <1>10, <1>11, <1>7

\* What an argument needs is not the call itself and not in it.
LEMMA ArgIsNotTheCall ==
    ASSUME NEW p, IsSeq(p), NEW i, NEW d, Extends(d, ArgPlace(p, i))
    PROVE  d # p /\ ~Extends(d, InCall(p))
<1>1. PICK a, c, m : a = ArgPlace(p, i) /\ c = InCall(p) /\ m = Len(p)
  OBVIOUS
<1>2. m \in Nat /\ Len(a) = m + 2 /\ a[m + 1] = 1
  BY <1>1, ArgPlaceIs
<1>3. IsSeq(c) /\ Len(c) = m + 1 /\ c[m + 1] = 4
  BY <1>1, InCallIs
<1>4. Len(d) >= m + 2 /\ d[m + 1] = 1
  <2>1. Len(a) <= Len(d) /\ \A j \in 1..Len(a) : d[j] = a[j]
    BY <1>1 DEF Extends
  <2>2. m + 1 \in 1..Len(a)
    BY <1>2
  <2>3. IsSeq(d) /\ Len(d) \in Nat
    BY SeqShape DEF Extends
  <2> QED
    BY <1>2, <2>1, <2>2, <2>3
<1>5. d # p
  BY <1>1, <1>2, <1>4
<1>6. ASSUME Extends(d, c) PROVE FALSE
  <2>1. \A j \in 1..Len(c) : d[j] = c[j]
    BY <1>6 DEF Extends
  <2>2. m + 1 \in 1..Len(c)
    BY <1>2, <1>3
  <2>3. d[m + 1] = 4
    BY <1>3, <2>1, <2>2
  <2> QED
    BY <1>4, <2>3
<1> QED
  BY <1>1, <1>5, <1>6

------------------------------------------------------------------------------
(* The places of an expression *)

PlacesOfArgs(e, here, registry) ==
    UNION {PlacesOf(e.args[i], ArgPlace(here, i), registry) : i \in 1..Len(e.args)}

\* What is a place of e, by the kind of e.
LEMMA PlacesAre ==
    ASSUME PlacesRules, NEW e \in Exprs, NEW here, NEW registry
    PROVE  /\ e.kind = "Var" => PlacesOf(e, here, registry) = {}
           /\ e.kind = "Const" => PlacesOf(e, here, registry) = {here}
           /\ e.kind \in {"Node", "TupleGet"} =>
                PlacesOf(e, here, registry) = PlacesOf(e.value, SharedPlace(e), registry)
           /\ e.kind = "Call" =>
                PlacesOf(e, here, registry) = PlacesOfArgs(e, here, registry) \cup {here}
           /\ e.kind = "Graph" =>
                PlacesOf(e, here, registry) =
                  PlacesOfArgs(e, here, registry) \cup PlacesOfCall(e.name, here, registry)
<1>1. PlacesOf(e, here, registry) = PlacesStep(e, here, registry)
  BY DEF PlacesRules
<1>2. ASSUME e.kind \in {"Call", "Graph"}
      PROVE  UNION {PlacesOf(e.args[i], here \o <<1, i>>, registry) : i \in DOMAIN e.args}
               = PlacesOfArgs(e, here, registry)
  <2>1. IsSeq(e.args)
    BY <1>2, ChildrenAre
  <2>2. DOMAIN e.args = 1..Len(e.args)
    BY <2>1, SeqShape
  <2> QED
    BY <2>2 DEF PlacesOfArgs, ArgPlace
<1>3. ASSUME e.kind = "Var" PROVE PlacesOf(e, here, registry) = {}
  BY <1>1, <1>3 DEF PlacesStep
<1>4. ASSUME e.kind = "Const" PROVE PlacesOf(e, here, registry) = {here}
  BY <1>1, <1>4 DEF PlacesStep
<1>5. ASSUME e.kind \in {"Node", "TupleGet"}
      PROVE  PlacesOf(e, here, registry) = PlacesOf(e.value, SharedPlace(e), registry)
  BY <1>1, <1>5 DEF PlacesStep
<1>6. ASSUME e.kind = "Call"
      PROVE  PlacesOf(e, here, registry) = PlacesOfArgs(e, here, registry) \cup {here}
  BY <1>1, <1>2, <1>6 DEF PlacesStep
<1>7. ASSUME e.kind = "Graph"
      PROVE  PlacesOf(e, here, registry) =
               PlacesOfArgs(e, here, registry) \cup PlacesOfCall(e.name, here, registry)
  BY <1>1, <1>2, <1>7 DEF PlacesStep
<1> QED
  BY <1>3, <1>4, <1>5, <1>6, <1>7

\* A child is lowered for what it is part of.
LEMMA ChildPlaces ==
    ASSUME PlacesRules, NEW e \in Exprs, NEW x \in Children(e), NEW here, NEW registry
    PROVE  \E there : PlacesOf(x, there, registry) \subseteq PlacesOf(e, here, registry)
<1>1. CASE e.kind \in {"Node", "TupleGet"}
  <2>1. x = e.value
    BY <1>1 DEF Children
  <2>2. PlacesOf(e, here, registry) = PlacesOf(x, SharedPlace(e), registry)
    BY <1>1, <2>1, PlacesAre
  <2> QED
    BY <2>2
<1>2. CASE e.kind \in {"Call", "Graph"}
  <2>1. x \in ToSet(e.args) /\ IsSeq(e.args)
    BY <1>2, ChildrenAre DEF Children
  <2>2. PICK i \in 1..Len(e.args) : x = e.args[i]
    BY <2>1, SeqShape DEF ToSet
  <2>3. PlacesOf(x, ArgPlace(here, i), registry) \subseteq PlacesOfArgs(e, here, registry)
    BY <2>2 DEF PlacesOfArgs
  <2>4. PlacesOfArgs(e, here, registry) \subseteq PlacesOf(e, here, registry)
    BY <1>2, PlacesAre
  <2> QED
    BY <2>3, <2>4
<1>3. CASE ~(e.kind \in {"Node", "TupleGet", "Call", "Graph"})
  BY <1>3 DEF Children
<1> QED
  BY <1>1, <1>2, <1>3

\* A part is no deeper than the whole.
LEMMA DepthOfPart ==
    ASSUME NEW e \in Exprs, NEW x \in Parts[e]
    PROVE  x \in Exprs /\ Depth[x] \in Nat /\ Depth[e] \in Nat /\ Depth[x] <= Depth[e]
<1> DEFINE S == {f \in Exprs : \A y \in Parts[f] : Depth[y] <= Depth[f]}
<1>1. \A f \in Exprs : Depth[f] \in Nat /\ Parts[f] \subseteq Exprs
  BY ExprsAssumption
<1>2. ASSUME NEW f \in Exprs, Children(f) \cap Exprs \subseteq S PROVE f \in S
  <2>1. ASSUME NEW y \in Parts[f] PROVE Depth[y] <= Depth[f]
    <3>1. CASE y = f
      BY <1>1, <3>1
    <3>2. CASE y # f
      <4>1. PICK c \in Children(f) : y \in Parts[c]
        BY <2>1, <3>2, ExprsAssumption
      <4>2. c \in Exprs /\ Depth[c] < Depth[f]
        BY ChildIsPart
      <4>3. Depth[y] <= Depth[c]
        BY <1>2, <4>1, <4>2
      <4>4. Depth[y] \in Nat /\ Depth[c] \in Nat /\ Depth[f] \in Nat
        BY <1>1, <2>1, <4>2
      <4> QED
        BY <4>2, <4>3, <4>4
    <3> QED
      BY <3>1, <3>2
  <2> QED
    BY <2>1
<1> HIDE DEF S
<1>3. Exprs \subseteq S
  <2>1. S \in SUBSET Exprs
    BY DEF S
  <2> QED
    BY <1>2, <2>1, ByDepth
<1>4. Depth[x] <= Depth[e]
  BY <1>3 DEF S
<1> QED
  BY <1>1, <1>4

\* A node or tuple of an expression.
LEMMA SharedPart ==
    ASSUME NEW e \in Exprs, NEW x \in SharedIn(e)
    PROVE  /\ x \in Exprs /\ x.kind \in {"Node", "TupleGet"} /\ x \in Parts[e]
           /\ x.value \in Exprs /\ Parts[x.value] \subseteq Parts[e]
           /\ SharedIn(x.value) \subseteq SharedIn(e)
           /\ Depth[x.value] \in Nat /\ Depth[e] \in Nat /\ Depth[x.value] < Depth[e]
<1>1. x \in Parts[e] /\ x.kind \in {"Node", "TupleGet"}
  BY DEF SharedIn
<1>2. x \in Exprs /\ Depth[x] \in Nat /\ Depth[e] \in Nat /\ Depth[x] <= Depth[e]
  BY <1>1, DepthOfPart
<1>3. x.value \in Children(x)
  BY <1>1, <1>2, ChildrenAre
<1>4. /\ x.value \in Exprs /\ Parts[x.value] \subseteq Parts[x]
      /\ Depth[x.value] \in Nat /\ Depth[x.value] < Depth[x]
  BY <1>2, <1>3, ChildIsPart
<1>5. Parts[x] \subseteq Parts[e]
  BY <1>1, ExprsAssumption
<1>6. SharedIn(x.value) \subseteq SharedIn(e)
  BY <1>4, <1>5 DEF SharedIn
<1> QED
  BY <1>1, <1>2, <1>4, <1>5, <1>6

\* What a node or tuple needs is needed by what it is part of.
LEMMA SharedPlacesWithin ==
    ASSUME PlacesRules, NEW e \in Exprs, NEW x \in SharedIn(e), NEW here, NEW registry
    PROVE  PlacesOf(x.value, SharedPlace(x), registry) \subseteq PlacesOf(e, here, registry)
<1> DEFINE S == {f \in Exprs : \A y \in SharedIn(f) : \A there :
                   PlacesOf(y.value, SharedPlace(y), registry) \subseteq PlacesOf(f, there, registry)}
<1>1. ASSUME NEW f \in Exprs, Children(f) \cap Exprs \subseteq S PROVE f \in S
  <2>1. ASSUME NEW y \in SharedIn(f), NEW there
        PROVE  PlacesOf(y.value, SharedPlace(y), registry) \subseteq PlacesOf(f, there, registry)
    <3>1. CASE y = f
      <4>1. f.kind \in {"Node", "TupleGet"}
        BY <2>1, <3>1 DEF SharedIn
      <4> QED
        BY <3>1, <4>1, PlacesAre
    <3>2. CASE y # f
      <4>1. y \in Parts[f] /\ y.kind \in {"Node", "TupleGet"}
        BY <2>1 DEF SharedIn
      <4>2. PICK c \in Children(f) : y \in Parts[c]
        BY <3>2, <4>1, ExprsAssumption
      <4>3. c \in Exprs /\ y \in SharedIn(c)
        BY <4>1, <4>2, ChildIsPart DEF SharedIn
      <4>4. PICK q : PlacesOf(c, q, registry) \subseteq PlacesOf(f, there, registry)
        BY ChildPlaces
      <4>5. PlacesOf(y.value, SharedPlace(y), registry) \subseteq PlacesOf(c, q, registry)
        BY <1>1, <4>3
      <4> QED
        BY <4>4, <4>5
    <3> QED
      BY <3>1, <3>2
  <2> QED
    BY <2>1
<1> HIDE DEF S
<1>2. Exprs \subseteq S
  <2>1. S \in SUBSET Exprs
    BY DEF S
  <2> QED
    BY <1>1, <2>1, ByDepth
<1> QED
  BY <1>2 DEF S

\* The place of a node or tuple is a pair that tells which one it is.
LEMMA SharedPlaceIs ==
    ASSUME NEW x, x.kind \in {"Node", "TupleGet"}
    PROVE  /\ IsPlace(SharedPlace(x)) /\ Len(SharedPlace(x)) = 2
           /\ \A y : y.kind \in {"Node", "TupleGet"} /\ SharedPlace(y) = SharedPlace(x) =>
                /\ y.kind = x.kind
                /\ x.kind = "Node" => y.node_id = x.node_id
                /\ x.kind = "TupleGet" => y.tuple_id = x.tuple_id
<1>1. PICK a, b : SharedPlace(x) = <<a, b>>
  BY DEF SharedPlace
<1>2. IsSeq(SharedPlace(x)) /\ Len(SharedPlace(x)) = 2
  <2>1. PICK s : s = <<a, b>>
    OBVIOUS
  <2>2. IsSeq(s) /\ Len(s) = 2
    BY <2>1, PairIsSeq
  <2> QED
    BY <1>1, <2>1, <2>2
<1>3. \A y : y.kind \in {"Node", "TupleGet"} /\ SharedPlace(y) = SharedPlace(x) =>
         /\ y.kind = x.kind
         /\ x.kind = "Node" => y.node_id = x.node_id
         /\ x.kind = "TupleGet" => y.tuple_id = x.tuple_id
  BY DEF SharedPlace
<1> QED
  BY <1>2, <1>3 DEF IsPlace

\* Everything an expression needs is below its own place, or below that of a
\* node or tuple in it.
Near(d, e, here) == Extends(d, here) \/ \E x \in SharedIn(e) : Extends(d, SharedPlace(x))

\* What an expression needs is near it.
LEMMA PlacesAreNear ==
    ASSUME PlacesRules, NEW e \in Exprs, NEW here, IsSeq(here), NEW registry,
           NEW d \in PlacesOf(e, here, registry)
    PROVE  Near(d, e, here)
<1> DEFINE S == {f \in Exprs : \A q : IsSeq(q) => \A c \in PlacesOf(f, q, registry) : Near(c, f, q)}
<1>1. ASSUME NEW f \in Exprs, Children(f) \cap Exprs \subseteq S PROVE f \in S
  <2>1. ASSUME NEW q, IsSeq(q), NEW c \in PlacesOf(f, q, registry) PROVE Near(c, f, q)
    <3>1. ASSUME NEW x \in Children(f), NEW there, IsSeq(there), c \in PlacesOf(x, there, registry)
          PROVE  Near(c, x, there)
      <4>1. x \in S
        BY <1>1, <3>1, ChildIsPart
      <4> QED
        BY <3>1, <4>1
    <3>2. \A x \in Children(f) : SharedIn(x) \subseteq SharedIn(f)
      BY ChildIsPart
    <3>3. f.kind \in {"Var", "Const", "Call", "Graph", "Node", "TupleGet"}
      BY ExprsAssumption
    <3>4. CASE f.kind = "Var"
      BY <2>1, <3>4, PlacesAre
    <3>5. ASSUME c = q PROVE Near(c, f, q)
      BY <2>1, <3>5, ExtendsSelf DEF Near
    <3>6. CASE f.kind = "Const"
      BY <2>1, <3>5, <3>6, PlacesAre
    <3>7. CASE f.kind \in {"Node", "TupleGet"}
      <4>1. f.value \in Children(f)
        BY <3>7, ChildrenAre
      <4>2. IsSeq(SharedPlace(f))
        BY <3>7, SharedPlaceIs DEF IsPlace
      <4>3. c \in PlacesOf(f.value, SharedPlace(f), registry)
        BY <2>1, <3>7, PlacesAre
      <4>4. Near(c, f.value, SharedPlace(f))
        BY <3>1, <4>1, <4>2, <4>3
      <4>5. f \in SharedIn(f)
        BY <3>7, ExprsAssumption DEF SharedIn
      <4> QED
        BY <3>2, <4>1, <4>4, <4>5 DEF Near
    <3>8. ASSUME f.kind \in {"Call", "Graph"}, c \in PlacesOfArgs(f, q, registry)
          PROVE  Near(c, f, q)
      <4>1. PICK i \in 1..Len(f.args) : c \in PlacesOf(f.args[i], ArgPlace(q, i), registry)
        BY <3>8 DEF PlacesOfArgs
      <4>2. f.args[i] \in Children(f)
        BY <3>8, ChildrenAre
      <4>3. IsSeq(ArgPlace(q, i)) /\ Extends(ArgPlace(q, i), q)
        BY <2>1, ArgPlaceIs
      <4>4. Near(c, f.args[i], ArgPlace(q, i))
        BY <3>1, <4>1, <4>2, <4>3
      <4>5. Extends(c, ArgPlace(q, i)) => Extends(c, q)
        BY <4>3, ExtendsTrans
      <4> QED
        BY <3>2, <4>2, <4>4, <4>5 DEF Near
    <3>9. CASE f.kind = "Call"
      BY <2>1, <3>5, <3>8, <3>9, PlacesAre
    <3>10. CASE f.kind = "Graph"
      <4>1. ASSUME c \in PlacesOfCall(f.name, q, registry) PROVE Near(c, f, q)
        <5>1. PICK b : c = CalleePlace(q, b)
          BY <4>1 DEF PlacesOfCall, CalleePlace
        <5>2. Extends(c, q)
          BY <2>1, <5>1, CalleePlaceIs
        <5> QED
          BY <5>2 DEF Near
      <4> QED
        BY <2>1, <3>8, <3>10, <4>1, PlacesAre
    <3> QED
      BY <3>3, <3>4, <3>6, <3>7, <3>9, <3>10
  <2> QED
    BY <2>1
<1> HIDE DEF S
<1>2. Exprs \subseteq S
  <2>1. S \in SUBSET Exprs
    BY DEF S
  <2> QED
    BY <1>1, <2>1, ByDepth
<1> QED
  BY <1>2 DEF S

\* Of a shared graph: nodes and tuples at one place have one value.
LEMMA OneValueAPlace ==
    ASSUME NEW g, IsShared(g), NEW x \in PartsOf(g), NEW y \in PartsOf(g),
           x.kind \in {"Node", "TupleGet"}, y.kind \in {"Node", "TupleGet"},
           SharedPlace(x) = SharedPlace(y)
    PROVE  x.value = y.value
<1>1. /\ y.kind = x.kind
      /\ x.kind = "Node" => y.node_id = x.node_id
      /\ x.kind = "TupleGet" => y.tuple_id = x.tuple_id
  BY SharedPlaceIs
<1> QED
  BY <1>1 DEF IsShared

\* A node or tuple is not inside itself.
LEMMA NotInItself ==
    ASSUME NEW g, IsShared(g), NEW x \in Exprs, x \in PartsOf(g), Parts[x] \subseteq PartsOf(g),
           x.kind \in {"Node", "TupleGet"}, NEW y \in SharedIn(x.value)
    PROVE  SharedPlace(y) # SharedPlace(x)
<1>1. x \in SharedIn(x)
  BY ExprsAssumption DEF SharedIn
<1>2. x.value \in Exprs /\ Parts[x.value] \subseteq Parts[x]
  BY <1>1, SharedPart
<1>3. /\ y.kind \in {"Node", "TupleGet"} /\ y \in Parts[x.value]
      /\ Depth[y.value] \in Nat /\ Depth[x.value] \in Nat /\ Depth[y.value] < Depth[x.value]
  BY <1>2, SharedPart
<1>4. y \in PartsOf(g)
  BY <1>2, <1>3
<1>5. SharedPlace(y) = SharedPlace(x) => y.value = x.value
  BY <1>3, <1>4, OneValueAPlace
<1> QED
  BY <1>3, <1>5

------------------------------------------------------------------------------
(***************************************************************************)
(* An expression that is still to be lowered fits what its graph has done, *)
(* the places "done" and the nodes and tuples kept at "keys": nothing is   *)
(* done below its place; all that a kept node or tuple needs is done, and  *)
(* of one that is not kept nothing is.                                     *)
(***************************************************************************)
IsComplete(x, done, keys, registry) ==
    PlacesOf(x.value, SharedPlace(x), registry) \subseteq done /\ SharedPlaces(x.value) \subseteq keys
SharedFits(x, done, keys, registry) ==
    IF SharedPlace(x) \in keys THEN IsComplete(x, done, keys, registry)
    ELSE Fresh(SharedPlace(x), done)

ExprFits(e, p, done, keys, g, registry) ==
    /\ e \in Exprs /\ Parts[e] \subseteq PartsOf(g) /\ IsPlace(p) /\ Fresh(p, done)
    /\ \A x \in SharedIn(e) : ~Extends(p, SharedPlace(x)) /\ SharedFits(x, done, keys, registry)

\* What the first m of a list of expressions need and keep.
PlacesOfFirst(es, ps, m, registry) == UNION {PlacesOf(es[i], ps[i], registry) : i \in 1..m}
KeysOfFirst(es, m) == UNION {SharedPlaces(es[i]) : i \in 1..m}

\* Expressions that all fit, at places that have nothing in common.
Apart(p, q) == \A d : ~(Extends(d, p) /\ Extends(d, q))
ListFits(es, ps, n, done, keys, g, registry) ==
    /\ \A i \in 1..n : ExprFits(es[i], ps[i], done, keys, g, registry)
    /\ \A i, j \in 1..n : i # j => Apart(ps[i], ps[j])
    /\ \A i, j \in 1..n : \A x \in SharedIn(es[i]) : ~Extends(ps[j], SharedPlace(x))

\* What another expression needs is not below the place of this one.
LEMMA OthersAreElsewhere ==
    ASSUME PlacesRules, NEW e \in Exprs, NEW q, IsPlace(q), NEW p, IsPlace(p), Apart(p, q),
           \A x \in SharedIn(e) : ~Extends(p, SharedPlace(x)), NEW registry
    PROVE  Fresh(p, PlacesOf(e, q, registry))
<1>1. SUFFICES ASSUME NEW c \in PlacesOf(e, q, registry), Extends(c, p) PROVE FALSE
  BY DEF Fresh
<1>2. Near(c, e, q)
  BY PlacesAreNear DEF IsPlace
<1>3. ~Extends(c, q)
  BY <1>1 DEF Apart
<1>4. PICK x \in SharedIn(e) : Extends(c, SharedPlace(x))
  BY <1>2, <1>3 DEF Near
<1>5. Len(SharedPlace(x)) = 2
  BY SharedPart, SharedPlaceIs
<1>6. Len(SharedPlace(x)) <= Len(p)
  BY <1>5 DEF IsPlace
<1>7. Extends(p, SharedPlace(x))
  BY <1>1, <1>4, <1>6, ExtendsBoth
<1> QED
  BY <1>7

\* Nor below a node or tuple that it does not use.
LEMMA UnusedIsElsewhere ==
    ASSUME PlacesRules, NEW e \in Exprs, NEW q, IsPlace(q), NEW x, x.kind \in {"Node", "TupleGet"},
           ~Extends(q, SharedPlace(x)), SharedPlace(x) \notin SharedPlaces(e), NEW registry
    PROVE  Fresh(SharedPlace(x), PlacesOf(e, q, registry))
<1>1. SUFFICES ASSUME NEW c \in PlacesOf(e, q, registry), Extends(c, SharedPlace(x)) PROVE FALSE
  BY DEF Fresh
<1>2. Near(c, e, q)
  BY PlacesAreNear DEF IsPlace
<1>3. Len(SharedPlace(x)) = 2
  BY SharedPlaceIs
<1>4. ~Extends(c, q)
  <2>1. Len(SharedPlace(x)) <= Len(q)
    BY <1>3 DEF IsPlace
  <2> QED
    BY <1>1, <2>1, ExtendsBoth
<1>5. PICK y \in SharedIn(e) : Extends(c, SharedPlace(y))
  BY <1>2, <1>4 DEF Near
<1>6. Len(SharedPlace(y)) = 2
  BY SharedPart, SharedPlaceIs
<1>7. SharedPlace(y) = SharedPlace(x)
  BY <1>1, <1>3, <1>5, <1>6, SameLength
<1> QED
  BY <1>5, <1>7 DEF SharedPlaces

\* Nothing is done twice: what is done in one of two sets is done in both.
LEMMA FreshInBoth ==
    ASSUME NEW p, NEW done, NEW more, Fresh(p, done), Fresh(p, more)
    PROVE  Fresh(p, done \cup more)
BY DEF Fresh

\* What an expression needs of a node or tuple in it.
LEMMA CompleteWithin ==
    ASSUME PlacesRules, NEW g, IsShared(g), NEW e \in Exprs, Parts[e] \subseteq PartsOf(g), NEW q,
           NEW x \in PartsOf(g), x.kind \in {"Node", "TupleGet"},
           SharedPlace(x) \in SharedPlaces(e), NEW registry
    PROVE  IsComplete(x, PlacesOf(e, q, registry), SharedPlaces(e), registry)
<1>1. PICK y \in SharedIn(e) : SharedPlace(y) = SharedPlace(x)
  BY DEF SharedPlaces
<1>2. y \in PartsOf(g) /\ y.kind \in {"Node", "TupleGet"} /\ SharedIn(y.value) \subseteq SharedIn(e)
  BY SharedPart
<1>3. y.value = x.value
  BY <1>1, <1>2, OneValueAPlace
<1>4. PlacesOf(y.value, SharedPlace(y), registry) \subseteq PlacesOf(e, q, registry)
  BY SharedPlacesWithin
<1>5. SharedPlaces(y.value) \subseteq SharedPlaces(e)
  BY <1>2 DEF SharedPlaces
<1> QED
  BY <1>1, <1>3, <1>4, <1>5 DEF IsComplete

\* Expressions of a list fit one after another.
LEMMA InTurn ==
    ASSUME PlacesRules, NEW g, IsShared(g), NEW n \in Nat, NEW es, NEW ps, NEW done, NEW keys,
           NEW registry, ListFits(es, ps, n, done, keys, g, registry), NEW i \in 1..n
    PROVE  ExprFits(es[i], ps[i], done \cup PlacesOfFirst(es, ps, i - 1, registry),
                    keys \cup KeysOfFirst(es, i - 1), g, registry)
<1>1. PICK e, p, first, kept : /\ e = es[i] /\ p = ps[i]
                               /\ first = PlacesOfFirst(es, ps, i - 1, registry)
                               /\ kept = KeysOfFirst(es, i - 1)
  OBVIOUS
<1>2. ExprFits(e, p, done, keys, g, registry)
  BY <1>1 DEF ListFits
<1>3. ASSUME NEW j \in 1..i - 1
      PROVE  /\ es[j] \in Exprs /\ Parts[es[j]] \subseteq PartsOf(g) /\ IsPlace(ps[j])
             /\ Apart(p, ps[j]) /\ j \in 1..n
             /\ \A x \in SharedIn(e) : ~Extends(ps[j], SharedPlace(x))
             /\ \A x \in SharedIn(es[j]) : ~Extends(p, SharedPlace(x))
  <2>1. j \in 1..n /\ j # i
    OBVIOUS
  <2>2. ExprFits(es[j], ps[j], done, keys, g, registry)
    BY <2>1 DEF ListFits
  <2>3. Apart(p, ps[j])
    BY <1>1, <2>1 DEF ListFits
  <2>4. \A x \in SharedIn(e) : ~Extends(ps[j], SharedPlace(x))
    BY <1>1, <2>1 DEF ListFits
  <2>5. \A x \in SharedIn(es[j]) : ~Extends(p, SharedPlace(x))
    BY <1>1, <2>1 DEF ListFits
  <2> QED
    BY <2>1, <2>2, <2>3, <2>4, <2>5 DEF ExprFits
<1>4. e \in Exprs /\ Parts[e] \subseteq PartsOf(g) /\ IsPlace(p) /\ Fresh(p, done)
  BY <1>2 DEF ExprFits
<1>5. \A c \in first : \E j \in 1..i - 1 : c \in PlacesOf(es[j], ps[j], registry)
  BY <1>1 DEF PlacesOfFirst
<1>6. \A j \in 1..i - 1 : PlacesOf(es[j], ps[j], registry) \subseteq first
  BY <1>1 DEF PlacesOfFirst
<1>7. kept = UNION {SharedPlaces(es[j]) : j \in 1..i - 1}
  BY <1>1 DEF KeysOfFirst
<1>8. Fresh(p, done \cup first)
  <2>1. ASSUME NEW j \in 1..i - 1 PROVE Fresh(p, PlacesOf(es[j], ps[j], registry))
    BY <1>3, <1>4, OthersAreElsewhere
  <2>2. Fresh(p, first)
    BY <1>5, <2>1 DEF Fresh
  <2> QED
    BY <1>4, <2>2, FreshInBoth
<1>9. ASSUME NEW x \in SharedIn(e)
      PROVE  ~Extends(p, SharedPlace(x)) /\ SharedFits(x, done \cup first, keys \cup kept, registry)
  <2>1. ~Extends(p, SharedPlace(x)) /\ SharedFits(x, done, keys, registry)
    BY <1>2 DEF ExprFits
  <2>2. x \in PartsOf(g) /\ x.kind \in {"Node", "TupleGet"}
    BY <1>4, SharedPart
  <2>3. CASE SharedPlace(x) \in keys
    <3>1. IsComplete(x, done, keys, registry)
      BY <2>1, <2>3 DEF SharedFits
    <3>2. IsComplete(x, done \cup first, keys \cup kept, registry)
      BY <3>1 DEF IsComplete
    <3> QED
      BY <2>1, <2>3, <3>2 DEF SharedFits
  <2>4. CASE SharedPlace(x) \in kept
    <3>1. PICK j \in 1..i - 1 : SharedPlace(x) \in SharedPlaces(es[j])
      BY <1>7, <2>4
    <3>2. es[j] \in Exprs /\ Parts[es[j]] \subseteq PartsOf(g)
      BY <1>3
    <3>3. IsComplete(x, PlacesOf(es[j], ps[j], registry), SharedPlaces(es[j]), registry)
      BY <2>2, <3>1, <3>2, CompleteWithin
    <3>4. PlacesOf(es[j], ps[j], registry) \subseteq first /\ SharedPlaces(es[j]) \subseteq kept
      BY <1>6, <1>7
    <3>5. IsComplete(x, done \cup first, keys \cup kept, registry)
      BY <3>3, <3>4 DEF IsComplete
    <3> QED
      BY <2>1, <2>4, <3>5 DEF SharedFits
  <2>5. CASE SharedPlace(x) \notin keys \cup kept
    <3>1. Fresh(SharedPlace(x), done)
      BY <2>1, <2>5 DEF SharedFits
    <3>2. ASSUME NEW j \in 1..i - 1
          PROVE  Fresh(SharedPlace(x), PlacesOf(es[j], ps[j], registry))
      <4>1. SharedPlace(x) \notin SharedPlaces(es[j])
        BY <1>7, <2>5
      <4>2. es[j] \in Exprs /\ IsPlace(ps[j]) /\ ~Extends(ps[j], SharedPlace(x))
        BY <1>3
      <4> QED
        BY <2>2, <4>1, <4>2, UnusedIsElsewhere
    <3>3. Fresh(SharedPlace(x), first)
      BY <1>5, <3>2 DEF Fresh
    <3>4. Fresh(SharedPlace(x), done \cup first)
      BY <3>1, <3>3, FreshInBoth
    <3> QED
      BY <2>1, <2>5, <3>4 DEF SharedFits
  <2> QED
    BY <2>3, <2>4, <2>5
<1>10. ExprFits(e, p, done \cup first, keys \cup kept, g, registry)
  BY <1>4, <1>8, <1>9 DEF ExprFits
<1> QED
  BY <1>1, <1>10

\* The nodes and tuples of a call are those of its arguments.
LEMMA SharedInCall ==
    ASSUME NEW e \in Exprs, e.kind \in {"Call", "Graph"}, NEW n, n = Len(e.args)
    PROVE  SharedPlaces(e) = KeysOfFirst(e.args, n)
<1>1. IsSeq(e.args) /\ \A i \in 1..n : e.args[i] \in Children(e)
  BY ChildrenAre
<1>2. \A i \in 1..n : SharedIn(e.args[i]) \subseteq SharedIn(e)
  BY <1>1, ChildIsPart
<1>3. ASSUME NEW x \in SharedIn(e) PROVE \E i \in 1..n : x \in SharedIn(e.args[i])
  <2>1. x \in Parts[e] /\ x.kind \in {"Node", "TupleGet"} /\ x # e
    BY DEF SharedIn
  <2>2. PICK c \in Children(e) : x \in Parts[c]
    BY <2>1, ExprsAssumption
  <2>3. c \in ToSet(e.args)
    BY DEF Children
  <2>4. PICK i \in 1..n : c = e.args[i]
    BY <1>1, <2>3, SeqShape DEF ToSet
  <2> QED
    BY <2>1, <2>2, <2>4 DEF SharedIn
<1> QED
  BY <1>2, <1>3 DEF SharedPlaces, KeysOfFirst

\* The arguments of a call that fits, in turn, and then the call itself.
LEMMA ArgsFit ==
    ASSUME PlacesRules, NEW g, NEW registry, NEW e \in Exprs, e.kind \in {"Call", "Graph"},
           NEW p, NEW done, NEW keys, ExprFits(e, p, done, keys, g, registry),
           NEW n, n = Len(e.args), NEW ps, \A i \in 1..n : ps[i] = ArgPlace(p, i)
    PROVE  ListFits(e.args, ps, n, done, keys, g, registry)
<1>1. IsSeq(e.args) /\ \A i \in 1..n : e.args[i] \in Children(e)
  BY ChildrenAre
<1>2. /\ Parts[e] \subseteq PartsOf(g) /\ IsPlace(p) /\ IsSeq(p) /\ Len(p) >= 2 /\ Fresh(p, done)
      /\ \A x \in SharedIn(e) : ~Extends(p, SharedPlace(x)) /\ SharedFits(x, done, keys, registry)
  BY DEF ExprFits, IsPlace
<1>3. \A i \in 1..n : /\ e.args[i] \in Exprs /\ Parts[e.args[i]] \subseteq PartsOf(g)
                      /\ SharedIn(e.args[i]) \subseteq SharedIn(e)
  BY <1>1, <1>2, ChildIsPart
<1>4. \A i \in 1..n : IsPlace(ps[i]) /\ Extends(ps[i], p)
  BY <1>2, ArgPlaceIs DEF IsPlace
<1>5. ASSUME NEW i \in 1..n, NEW x \in SharedIn(e) PROVE ~Extends(ps[i], SharedPlace(x))
  <2>1. Len(SharedPlace(x)) = 2
    BY SharedPart, SharedPlaceIs
  <2>2. Len(SharedPlace(x)) <= Len(p)
    BY <1>2, <2>1
  <2>3. Extends(ps[i], SharedPlace(x)) => Extends(p, SharedPlace(x))
    BY <1>4, <2>2, ExtendsBoth
  <2> QED
    BY <1>2, <2>3
<1>6. ASSUME NEW i \in 1..n PROVE Fresh(ps[i], done)
  <2>1. \A d \in done : Extends(d, ps[i]) => Extends(d, p)
    BY <1>4, ExtendsTrans
  <2> QED
    BY <1>2, <2>1 DEF Fresh
<1>7. ASSUME NEW i \in 1..n, NEW j \in 1..n, i # j PROVE Apart(ps[i], ps[j])
  BY <1>2, <1>7, ArgsApart DEF Apart
<1>8. ASSUME NEW i \in 1..n PROVE ExprFits(e.args[i], ps[i], done, keys, g, registry)
  BY <1>2, <1>3, <1>4, <1>5, <1>6 DEF ExprFits
<1>9. \A i, j \in 1..n : \A x \in SharedIn(e.args[i]) : ~Extends(ps[j], SharedPlace(x))
  BY <1>3, <1>5
<1> QED
  BY <1>7, <1>8, <1>9 DEF ListFits

\* What the arguments need leaves the call itself to be done.
LEMMA CallIsBare ==
    ASSUME PlacesRules, NEW g, NEW registry, NEW e \in Exprs, e.kind \in {"Call", "Graph"},
           NEW p, NEW done, NEW keys, ExprFits(e, p, done, keys, g, registry),
           NEW n, n = Len(e.args), NEW ps, \A i \in 1..n : ps[i] = ArgPlace(p, i)
    PROVE  Bare(p, done \cup PlacesOfFirst(e.args, ps, n, registry))
<1>1. IsSeq(e.args) /\ \A i \in 1..n : e.args[i] \in Children(e)
  BY ChildrenAre
<1>2. /\ IsSeq(p) /\ Len(p) >= 2 /\ Fresh(p, done)
      /\ \A x \in SharedIn(e) : ~Extends(p, SharedPlace(x))
  BY DEF ExprFits, IsPlace
<1>3. Extends(p, p) /\ Extends(InCall(p), p)
  BY <1>2, ExtendsSelf, InCallIs
<1>4. ASSUME NEW c, ~Extends(c, p) PROVE c # p /\ ~Extends(c, InCall(p))
  <2>1. Extends(c, InCall(p)) => Extends(c, p)
    BY <1>3, ExtendsTrans
  <2> QED
    BY <1>3, <1>4, <2>1
<1>5. ASSUME NEW c \in done PROVE c # p /\ ~Extends(c, InCall(p))
  BY <1>2, <1>4 DEF Fresh
<1>6. ASSUME NEW i \in 1..n, NEW c \in PlacesOf(e.args[i], ps[i], registry)
      PROVE  c # p /\ ~Extends(c, InCall(p))
  <2>1. e.args[i] \in Exprs /\ SharedIn(e.args[i]) \subseteq SharedIn(e)
    BY <1>1, ChildIsPart
  <2>2. IsSeq(ps[i]) /\ ps[i] = ArgPlace(p, i)
    BY <1>2, ArgPlaceIs
  <2>3. Near(c, e.args[i], ps[i])
    BY <2>1, <2>2, PlacesAreNear
  <2>4. CASE Extends(c, ps[i])
    BY <1>2, <2>2, <2>4, ArgIsNotTheCall
  <2>5. ASSUME NEW x \in SharedIn(e), Extends(c, SharedPlace(x)) PROVE ~Extends(c, p)
    <3>1. Len(SharedPlace(x)) = 2
      BY SharedPart, SharedPlaceIs
    <3>2. Len(SharedPlace(x)) <= Len(p)
      BY <1>2, <3>1
    <3> QED
      BY <1>2, <2>5, <3>2, ExtendsBoth
  <2> QED
    BY <1>4, <2>1, <2>3, <2>4, <2>5 DEF Near
<1>7. \A c \in PlacesOfFirst(e.args, ps, n, registry) : c # p /\ ~Extends(c, InCall(p))
  BY <1>6 DEF PlacesOfFirst
<1> QED
  BY <1>5, <1>7 DEF Bare, Fresh

\* The value of a node or tuple that is not kept fits at the place of that.
LEMMA ValueFits ==
    ASSUME NEW g, IsShared(g), NEW registry, NEW e \in Exprs, e.kind \in {"Node", "TupleGet"},
           NEW p, NEW done, NEW keys, ExprFits(e, p, done, keys, g, registry),
           SharedPlace(e) \notin keys
    PROVE  ExprFits(e.value, SharedPlace(e), done, keys, g, registry)
<1>1. e \in SharedIn(e) /\ e \in Parts[e]
  BY ExprsAssumption DEF SharedIn
<1>2. /\ e.value \in Exprs /\ Parts[e.value] \subseteq Parts[e]
      /\ SharedIn(e.value) \subseteq SharedIn(e)
  BY <1>1, SharedPart
<1>3. /\ Parts[e] \subseteq PartsOf(g)
      /\ \A x \in SharedIn(e) : SharedFits(x, done, keys, registry)
  BY DEF ExprFits
<1>4. IsPlace(SharedPlace(e)) /\ Len(SharedPlace(e)) = 2
  BY SharedPlaceIs
<1>5. Fresh(SharedPlace(e), done)
  BY <1>1, <1>3 DEF SharedFits
<1>6. ASSUME NEW y \in SharedIn(e.value) PROVE ~Extends(SharedPlace(e), SharedPlace(y))
  <2>1. Len(SharedPlace(y)) = 2
    BY <1>2, SharedPart, SharedPlaceIs
  <2>2. Extends(SharedPlace(e), SharedPlace(e))
    BY <1>4, ExtendsSelf DEF IsPlace
  <2>3. SharedPlace(y) # SharedPlace(e)
    BY <1>1, <1>3, NotInItself
  <2> QED
    BY <1>4, <2>1, <2>2, <2>3, SameLength
<1> QED
  BY <1>2, <1>3, <1>4, <1>5, <1>6 DEF ExprFits

\* The nodes and tuples of a node or tuple: it, and those of its value.
LEMMA SharedInShared ==
    ASSUME NEW e \in Exprs, e.kind \in {"Node", "TupleGet"}
    PROVE  SharedPlaces(e) = {SharedPlace(e)} \cup SharedPlaces(e.value)
<1>1. e \in SharedIn(e)
  BY ExprsAssumption DEF SharedIn
<1>2. SharedIn(e.value) \subseteq SharedIn(e)
  BY <1>1, SharedPart
<1>3. ASSUME NEW x \in SharedIn(e) PROVE x = e \/ x \in SharedIn(e.value)
  <2>1. x = e \/ \E c \in Children(e) : x \in Parts[c]
    BY ExprsAssumption DEF SharedIn
  <2>2. Children(e) = {e.value}
    BY DEF Children
  <2> QED
    BY <2>1, <2>2 DEF SharedIn
<1> QED
  BY <1>1, <1>2, <1>3 DEF SharedPlaces

\* All that a kept node or tuple needs is done.
LEMMA KeptIsDone ==
    ASSUME PlacesRules, NEW g, NEW registry, NEW e \in Exprs, e.kind \in {"Node", "TupleGet"},
           NEW p, NEW done, NEW keys, ExprFits(e, p, done, keys, g, registry),
           SharedPlace(e) \in keys
    PROVE  PlacesOf(e, p, registry) \subseteq done /\ SharedPlaces(e) \subseteq keys
<1>1. e \in SharedIn(e)
  BY ExprsAssumption DEF SharedIn
<1>2. IsComplete(e, done, keys, registry)
  BY <1>1 DEF ExprFits, SharedFits
<1>3. PlacesOf(e, p, registry) = PlacesOf(e.value, SharedPlace(e), registry)
  BY PlacesAre
<1> QED
  BY <1>2, <1>3, SharedInShared DEF IsComplete

------------------------------------------------------------------------------
(***************************************************************************)
(* The expressions of a graph.  A let looks through a node: its value is   *)
(* lowered, at the place of the node.                                      *)
(***************************************************************************)
Core(e) == IF e.kind = "Node" THEN e.value ELSE e
CoreAt(e, p) == IF e.kind = "Node" THEN SharedPlace(e) ELSE p

GraphLength(g) == Len(g.lets) + Len(g.body)
ExprAt(g, i) == IF i <= Len(g.lets) THEN g.lets[i].value ELSE g.body[i - Len(g.lets)]
PlaceAt(g, i) == IF i <= Len(g.lets) THEN <<5, i>> ELSE <<6, i - Len(g.lets)>>
GraphExprs(g) == [i \in 1..GraphLength(g) |-> IF i <= Len(g.lets) THEN Core(ExprAt(g, i)) ELSE ExprAt(g, i)]
GraphPlaces(g) ==
    [i \in 1..GraphLength(g) |-> IF i <= Len(g.lets) THEN CoreAt(ExprAt(g, i), PlaceAt(g, i)) ELSE PlaceAt(g, i)]

\* The expressions of a graph are its parts.
LEMMA ExprsOfGraph ==
    ASSUME NEW g, IsGraph(g)
    PROVE  /\ Len(g.lets) \in Nat /\ Len(g.body) \in Nat /\ GraphLength(g) \in Nat
           /\ DOMAIN g.lets = 1..Len(g.lets) /\ DOMAIN g.body = 1..Len(g.body)
           /\ \A i \in 1..GraphLength(g) :
                ExprAt(g, i) \in Exprs /\ ExprAt(g, i) \in PartsOf(g)
                /\ Parts[ExprAt(g, i)] \subseteq PartsOf(g)
<1>1. IsSeq(g.lets) /\ IsSeq(g.body)
  BY SeqIsSeq DEF IsGraph
<1>2. /\ Len(g.lets) \in Nat /\ Len(g.body) \in Nat
      /\ DOMAIN g.lets = 1..Len(g.lets) /\ DOMAIN g.body = 1..Len(g.body)
  BY <1>1, SeqShape
<1>3. PICK a, b : a = Len(g.lets) /\ b = Len(g.body)
  OBVIOUS
<1>4. GraphLength(g) = a + b /\ a \in Nat /\ b \in Nat
  BY <1>2, <1>3 DEF GraphLength
<1>5. ASSUME NEW i \in 1..GraphLength(g)
      PROVE  ExprAt(g, i) \in Exprs /\ Parts[ExprAt(g, i)] \subseteq PartsOf(g)
  <2>1. CASE i <= Len(g.lets)
    <3>1. i \in DOMAIN g.lets
      BY <1>2, <1>3, <1>4, <2>1
    <3>2. g.lets[i].value \in Exprs
      BY <3>1 DEF IsGraph
    <3>3. Parts[g.lets[i].value] \subseteq PartsOf(g)
      BY <3>1 DEF PartsOf
    <3> QED
      BY <2>1, <3>2, <3>3 DEF ExprAt
  <2>2. CASE ~(i <= Len(g.lets))
    <3>1. i - Len(g.lets) \in DOMAIN g.body
      <4>1. i \in 1..a + b /\ ~(i <= a) /\ DOMAIN g.body = 1..b
        BY <1>2, <1>3, <1>4, <2>2
      <4>2. i - a \in 1..b
        BY <1>4, <4>1
      <4> QED
        BY <1>3, <4>1, <4>2
    <3>2. g.body[i - Len(g.lets)] \in Exprs
      BY <1>2, <3>1 DEF IsGraph
    <3>3. Parts[g.body[i - Len(g.lets)]] \subseteq PartsOf(g)
      BY <3>1 DEF PartsOf
    <3> QED
      BY <2>2, <3>2, <3>3 DEF ExprAt
  <2> QED
    BY <2>1, <2>2
<1>6. \A i \in 1..GraphLength(g) : ExprAt(g, i) \in PartsOf(g)
  BY <1>5, ExprsAssumption
<1> QED
  BY <1>2, <1>5, <1>6, <1>4

\* Where a let binds a node, nothing else uses that node.
LEMMA NodeOfLet ==
    ASSUME NEW g, IsGraph(g), IsPlain(g), NEW i \in 1..Len(g.lets), ExprAt(g, i).kind = "Node"
    PROVE  /\ ExprAt(g, i).value.kind # "Node"
           /\ \A j \in 1..GraphLength(g) : j # i =>
                SharedPlace(ExprAt(g, i)) \notin SharedPlaces(ExprAt(g, j))
<1>1. PICK x : x = ExprAt(g, i)
  OBVIOUS
<1>2. /\ Len(g.lets) \in Nat /\ Len(g.body) \in Nat /\ GraphLength(g) \in Nat
      /\ DOMAIN g.lets = 1..Len(g.lets) /\ DOMAIN g.body = 1..Len(g.body)
  BY ExprsOfGraph
<1>3. x = g.lets[i].value /\ x.kind = "Node" /\ i \in DOMAIN g.lets
  BY <1>1, <1>2 DEF ExprAt
<1>4. /\ x.value.kind # "Node"
      /\ \A j \in DOMAIN g.lets \ {i} : SharedPlace(x) \notin SharedPlaces(g.lets[j].value)
      /\ \A j \in DOMAIN g.body : SharedPlace(x) \notin SharedPlaces(g.body[j])
  BY <1>3 DEF IsPlain
<1>5. ASSUME NEW j \in 1..GraphLength(g), j # i PROVE SharedPlace(x) \notin SharedPlaces(ExprAt(g, j))
  <2>1. CASE j <= Len(g.lets)
    BY <1>2, <1>4, <1>5, <2>1 DEF ExprAt
  <2>2. CASE ~(j <= Len(g.lets))
    <3>1. j - Len(g.lets) \in DOMAIN g.body
      <4>1. PICK a, b : a = Len(g.lets) /\ b = Len(g.body)
        OBVIOUS
      <4>2. GraphLength(g) = a + b
        BY <4>1 DEF GraphLength
      <4>3. j \in 1..a + b /\ ~(j <= a) /\ a \in Nat /\ b \in Nat /\ DOMAIN g.body = 1..b
        BY <1>2, <1>5, <2>2, <4>1, <4>2
      <4>4. j - a \in 1..b
        BY <4>3
      <4> QED
        BY <4>1, <4>3, <4>4
    <3> QED
      BY <1>4, <2>2, <3>1 DEF ExprAt
  <2> QED
    BY <2>1, <2>2
<1> QED
  BY <1>1, <1>4, <1>5

\* The places of a graph's expressions.
LEMMA PlaceAtIs ==
    ASSUME NEW g, NEW i
    PROVE  /\ IsPlace(PlaceAt(g, i)) /\ Len(PlaceAt(g, i)) = 2
           /\ \A x : PlaceAt(g, i) # SharedPlace(x)
           /\ \A j : PlaceAt(g, i) = PlaceAt(g, j) /\ Len(g.lets) \in Nat /\ i \in Nat /\ j \in Nat
                => i = j
<1>1. PICK a, b : PlaceAt(g, i) = <<a, b>>
  BY DEF PlaceAt
<1>2. IsPlace(PlaceAt(g, i)) /\ Len(PlaceAt(g, i)) = 2
  <2>1. PICK s : s = <<a, b>>
    OBVIOUS
  <2>2. IsSeq(s) /\ Len(s) = 2
    BY <2>1, PairIsSeq
  <2> QED
    BY <1>1, <2>1, <2>2 DEF IsPlace
<1>3. \A x : PlaceAt(g, i) # SharedPlace(x)
  BY DEF PlaceAt, SharedPlace
<1>4. ASSUME NEW j, PlaceAt(g, i) = PlaceAt(g, j), Len(g.lets) \in Nat, i \in Nat, j \in Nat PROVE i = j
  BY <1>4 DEF PlaceAt
<1> QED
  BY <1>2, <1>3, <1>4

\* An expression of a graph and its place, or a node's value and the node's place.
LEMMA ListOfGraph ==
    ASSUME NEW g, IsGraph(g), IsShared(g), IsPlain(g), NEW i \in 1..GraphLength(g)
    PROVE  /\ GraphExprs(g)[i] \in Exprs /\ Parts[GraphExprs(g)[i]] \subseteq PartsOf(g)
           /\ SharedIn(GraphExprs(g)[i]) \subseteq SharedIn(ExprAt(g, i))
           /\ IsPlace(GraphPlaces(g)[i]) /\ Len(GraphPlaces(g)[i]) = 2
           /\ \/ GraphPlaces(g)[i] = PlaceAt(g, i)
              \/ /\ GraphPlaces(g)[i] = SharedPlace(ExprAt(g, i)) /\ i \in 1..Len(g.lets)
                 /\ ExprAt(g, i).kind = "Node" /\ GraphExprs(g)[i] = ExprAt(g, i).value
<1>1. PICK e, p : e = ExprAt(g, i) /\ p = PlaceAt(g, i)
  OBVIOUS
<1>2. e \in Exprs /\ e \in PartsOf(g) /\ Parts[e] \subseteq PartsOf(g) /\ Len(g.lets) \in Nat
  BY <1>1, ExprsOfGraph
<1>3. /\ GraphExprs(g)[i] = IF i <= Len(g.lets) THEN Core(e) ELSE e
      /\ GraphPlaces(g)[i] = IF i <= Len(g.lets) THEN CoreAt(e, p) ELSE p
  BY <1>1 DEF GraphExprs, GraphPlaces
<1>4. IsPlace(p) /\ Len(p) = 2
  BY <1>1, PlaceAtIs
<1>5. CASE i <= Len(g.lets) /\ e.kind = "Node"
  <2>1. GraphExprs(g)[i] = e.value /\ GraphPlaces(g)[i] = SharedPlace(e)
    BY <1>3, <1>5 DEF Core, CoreAt
  <2>2. e \in SharedIn(e)
    BY <1>2, <1>5, ExprsAssumption DEF SharedIn
  <2>3. /\ e.value \in Exprs /\ Parts[e.value] \subseteq Parts[e]
        /\ SharedIn(e.value) \subseteq SharedIn(e)
    BY <1>2, <2>2, SharedPart
  <2>4. IsPlace(SharedPlace(e)) /\ Len(SharedPlace(e)) = 2
    BY <1>5, SharedPlaceIs
  <2>5. i \in 1..Len(g.lets)
    BY <1>2, <1>5
  <2> QED
    BY <1>1, <1>2, <1>5, <2>1, <2>3, <2>4, <2>5
<1>6. CASE ~(i <= Len(g.lets) /\ e.kind = "Node")
  <2>1. GraphExprs(g)[i] = e /\ GraphPlaces(g)[i] = p
    BY <1>3, <1>6 DEF Core, CoreAt
  <2> QED
    BY <1>1, <1>2, <1>4, <2>1
<1> QED
  BY <1>5, <1>6

\* What a graph uses is not at the place of one of its expressions.
LEMMA UsedElsewhere ==
    ASSUME NEW g, IsGraph(g), IsShared(g), IsPlain(g),
           NEW i \in 1..GraphLength(g), NEW j \in 1..GraphLength(g), NEW x \in SharedIn(GraphExprs(g)[i])
    PROVE  GraphPlaces(g)[j] # SharedPlace(x)
<1>1. CASE GraphPlaces(g)[j] = PlaceAt(g, j)
  BY <1>1, PlaceAtIs
<1>2. CASE /\ GraphPlaces(g)[j] = SharedPlace(ExprAt(g, j)) /\ j \in 1..Len(g.lets)
           /\ ExprAt(g, j).kind = "Node" /\ GraphExprs(g)[j] = ExprAt(g, j).value
  <2>1. PICK y : y = ExprAt(g, j)
    OBVIOUS
  <2>2. CASE i = j
    <3>1. y \in Exprs /\ y \in PartsOf(g) /\ Parts[y] \subseteq PartsOf(g)
      BY <2>1, ExprsOfGraph
    <3>2. y.kind \in {"Node", "TupleGet"} /\ x \in SharedIn(y.value)
      BY <1>2, <2>1, <2>2
    <3>3. SharedPlace(x) # SharedPlace(y)
      BY <3>1, <3>2, NotInItself
    <3> QED
      BY <1>2, <2>1, <3>3
  <2>3. CASE i # j
    <3>1. SharedPlace(y) \notin SharedPlaces(ExprAt(g, i))
      BY <1>2, <2>1, <2>3, NodeOfLet
    <3>2. x \in SharedIn(ExprAt(g, i))
      BY ListOfGraph
    <3>3. SharedPlace(x) \in SharedPlaces(ExprAt(g, i))
      BY <3>2 DEF SharedPlaces
    <3> QED
      BY <1>2, <2>1, <3>1, <3>3
  <2> QED
    BY <2>2, <2>3
<1> QED
  BY <1>1, <1>2, ListOfGraph

\* No two expressions of a graph have the same place.
LEMMA GraphPlacesDiffer ==
    ASSUME NEW g, IsGraph(g), IsShared(g), IsPlain(g),
           NEW i \in 1..GraphLength(g), NEW j \in 1..GraphLength(g), i # j
    PROVE  GraphPlaces(g)[i] # GraphPlaces(g)[j]
<1>1. PICK x, y : x = ExprAt(g, i) /\ y = ExprAt(g, j)
  OBVIOUS
<1>2. x \in Exprs /\ y \in Exprs /\ Len(g.lets) \in Nat /\ i \in Nat /\ j \in Nat
  <2>1. GraphLength(g) \in Nat /\ Len(g.lets) \in Nat
    BY ExprsOfGraph
  <2> QED
    BY <1>1, <2>1, ExprsOfGraph
<1>3. \/ GraphPlaces(g)[i] = PlaceAt(g, i)
      \/ GraphPlaces(g)[i] = SharedPlace(x) /\ i \in 1..Len(g.lets) /\ x.kind = "Node"
  BY <1>1, ListOfGraph
<1>4. \/ GraphPlaces(g)[j] = PlaceAt(g, j)
      \/ GraphPlaces(g)[j] = SharedPlace(y) /\ j \in 1..Len(g.lets) /\ y.kind = "Node"
  BY <1>1, ListOfGraph
<1>5. PlaceAt(g, i) # PlaceAt(g, j) /\ PlaceAt(g, i) # SharedPlace(y) /\ PlaceAt(g, j) # SharedPlace(x)
  BY <1>2, PlaceAtIs
<1>6. ASSUME i \in 1..Len(g.lets), x.kind = "Node", y.kind = "Node" PROVE SharedPlace(x) # SharedPlace(y)
  <2>1. SharedPlace(x) \notin SharedPlaces(y)
    BY <1>1, <1>6, NodeOfLet
  <2>2. y \in SharedIn(y)
    BY <1>2, <1>6, ExprsAssumption DEF SharedIn
  <2> QED
    BY <2>1, <2>2 DEF SharedPlaces
<1> QED
  BY <1>3, <1>4, <1>5, <1>6

\* Nothing is done when a graph is begun: its expressions fit.
LEMMA GraphFits ==
    ASSUME NEW g, IsGraph(g), IsShared(g), IsPlain(g), NEW registry
    PROVE  ListFits(GraphExprs(g), GraphPlaces(g), GraphLength(g), {}, {}, g, registry)
<1>1. PICK es, ps, n : es = GraphExprs(g) /\ ps = GraphPlaces(g) /\ n = GraphLength(g)
  OBVIOUS
<1>2. \A i \in 1..n : /\ es[i] \in Exprs /\ Parts[es[i]] \subseteq PartsOf(g)
                      /\ IsPlace(ps[i]) /\ Len(ps[i]) = 2
  BY <1>1, ListOfGraph
<1>3. \A i, j \in 1..n : \A x \in SharedIn(es[i]) : ps[j] # SharedPlace(x)
  BY <1>1, UsedElsewhere
<1>4. \A i, j \in 1..n : i # j => ps[i] # ps[j]
  BY <1>1, GraphPlacesDiffer
<1>5. ASSUME NEW i \in 1..n, NEW j \in 1..n, NEW x \in SharedIn(es[i])
      PROVE  ~Extends(ps[j], SharedPlace(x))
  <2>1. Len(SharedPlace(x)) = 2
    BY <1>2, SharedPart, SharedPlaceIs
  <2>2. Extends(ps[j], ps[j])
    BY <1>2, ExtendsSelf DEF IsPlace
  <2> QED
    BY <1>2, <1>3, <2>1, <2>2, SameLength
<1>6. ASSUME NEW i \in 1..n, NEW j \in 1..n, i # j PROVE Apart(ps[i], ps[j])
  <2>1. \A d : Extends(d, ps[i]) /\ Extends(d, ps[j]) => ps[i] = ps[j]
    BY <1>2, SameLength
  <2> QED
    BY <1>4, <1>6, <2>1 DEF Apart
<1>7. \A p : Fresh(p, {})
  BY DEF Fresh
<1>8. \A x : SharedFits(x, {}, {}, registry)
  BY <1>7 DEF SharedFits
<1>9. ASSUME NEW i \in 1..n PROVE ExprFits(es[i], ps[i], {}, {}, g, registry)
  BY <1>2, <1>5, <1>7, <1>8 DEF ExprFits
<1>10. ListFits(es, ps, n, {}, {}, g, registry)
  BY <1>5, <1>6, <1>9 DEF ListFits
<1> QED
  BY <1>1, <1>10

------------------------------------------------------------------------------
(***************************************************************************)
(* The steps of a graph, each at a place.  Lowering what is left to do in  *)
(* a graph adds the places and the keys of one step after another.         *)
(***************************************************************************)
LetFits(e, p, done, keys, g, registry) ==
    Core(e).kind # "Node" /\ ExprFits(Core(e), CoreAt(e, p), done, keys, g, registry)

PlacesAt(s, p, registry) ==
    CASE s.step = "lower_expr" -> PlacesOf(s.expr, p, registry)
      [] s.step = "lower_let_values" -> PlacesOf(Core(s.expr), CoreAt(s.expr, p), registry)
      [] s.step = "let" -> PlacesOf(Core(s.binding.value), CoreAt(s.binding.value, p), registry)
      [] s.step = "emit" -> {p}
      [] s.step = "inline_graph" -> PlacesOfCall(s.name, p, registry)
      [] OTHER -> {}

KeysAt(s) ==
    CASE s.step = "lower_expr" -> SharedPlaces(s.expr)
      [] s.step = "lower_let_values" -> SharedPlaces(Core(s.expr))
      [] s.step = "let" -> SharedPlaces(Core(s.binding.value))
      [] s.step = "keep_node" -> {<<2, s.key[2]>>}
      [] s.step = "keep_tuple" -> {<<3, s.key[2]>>}
      [] OTHER -> {}

StepFits(s, p, done, keys, g, registry) ==
    /\ s.step = "lower_expr" => ExprFits(s.expr, p, done, keys, g, registry)
    /\ s.step = "lower_let_values" => LetFits(s.expr, p, done, keys, g, registry)
    /\ s.step = "let" => LetFits(s.binding.value, p, done, keys, g, registry)
    /\ s.step \in {"emit", "inline_graph"} => IsSeq(p) /\ Bare(p, done)
    /\ s.step \in {"keep_node", "keep_tuple"} => s.key = <<s.key[1], s.key[2]>>

\* After the first m steps.
PlacesDone(steps, at, m, done, registry) ==
    done \cup UNION {PlacesAt(steps[i], at[i], registry) : i \in 1..m}
KeysDone(steps, m, keys) == keys \cup UNION {KeysAt(steps[i]) : i \in 1..m}

StepsFit(steps, at, done, keys, g, registry) ==
    /\ IsSeq(steps) /\ IsSeq(at) /\ Len(at) = Len(steps)
    /\ \A i \in 1..Len(steps) :
         StepFits(steps[i], at[i], PlacesDone(steps, at, i - 1, done, registry),
                  KeysDone(steps, i - 1, keys), g, registry)

\* What steps need and keep depends on nothing else.
LEMMA DoneSame ==
    ASSUME NEW m, NEW steps, NEW at, NEW first, NEW firstAt, NEW done, NEW keys, NEW registry,
           \A i \in 1..m : steps[i] = first[i] /\ at[i] = firstAt[i]
    PROVE  /\ PlacesDone(steps, at, m, done, registry) = PlacesDone(first, firstAt, m, done, registry)
           /\ KeysDone(steps, m, keys) = KeysDone(first, m, keys)
<1>1. \A i \in 1..m : PlacesAt(steps[i], at[i], registry) = PlacesAt(first[i], firstAt[i], registry)
  OBVIOUS
<1>2. \A i \in 1..m : KeysAt(steps[i]) = KeysAt(first[i])
  OBVIOUS
<1> QED
  BY <1>1, <1>2 DEF PlacesDone, KeysDone

\* The first steps of a list, and then the others.
LEMMA SplitAt ==
    ASSUME NEW m \in Nat, NEW n \in Nat
    PROVE  /\ \A i \in 1..m + n : i \in 1..m \/ \E j \in 1..n : i = m + j
           /\ \A i \in 1..m : i \in 1..m + n
           /\ \A j \in 1..n : m + j \in 1..m + n
<1>1. ASSUME NEW i \in 1..m + n PROVE i \in 1..m \/ \E j \in 1..n : i = m + j
  <2>1. CASE i <= m
    BY <2>1
  <2>2. CASE ~(i <= m)
    <3>1. i - m \in 1..n /\ i = m + (i - m)
      BY <2>2
    <3> QED
      BY <3>1
  <2> QED
    BY <2>1, <2>2
<1> QED
  BY <1>1

\* The places of the first steps of a list, and then of the others.
LEMMA PlacesInTwo ==
    ASSUME NEW m \in Nat, NEW n \in Nat, NEW steps, NEW at, NEW then, NEW thenAt, NEW done, NEW registry,
           \A i \in 1..n : steps[m + i] = then[i] /\ at[m + i] = thenAt[i]
    PROVE  PlacesDone(steps, at, m + n, done, registry)
             = PlacesDone(then, thenAt, n, PlacesDone(steps, at, m, done, registry), registry)
<1>1. \A i \in 1..n : PlacesAt(steps[m + i], at[m + i], registry) = PlacesAt(then[i], thenAt[i], registry)
  OBVIOUS
<1>2. UNION {PlacesAt(steps[i], at[i], registry) : i \in 1..m + n}
        = (UNION {PlacesAt(steps[i], at[i], registry) : i \in 1..m})
          \cup UNION {PlacesAt(then[i], thenAt[i], registry) : i \in 1..n}
  BY <1>1, SplitAt
<1> QED
  BY <1>2 DEF PlacesDone

\* The keys of the first steps of a list, and then of the others.
LEMMA KeysInTwo ==
    ASSUME NEW m \in Nat, NEW n \in Nat, NEW steps, NEW then, NEW keys,
           \A i \in 1..n : steps[m + i] = then[i]
    PROVE  KeysDone(steps, m + n, keys) = KeysDone(then, n, KeysDone(steps, m, keys))
<1>1. \A i \in 1..n : KeysAt(steps[m + i]) = KeysAt(then[i])
  OBVIOUS
<1>2. UNION {KeysAt(steps[i]) : i \in 1..m + n}
        = (UNION {KeysAt(steps[i]) : i \in 1..m}) \cup UNION {KeysAt(then[i]) : i \in 1..n}
  BY <1>1, SplitAt
<1> QED
  BY <1>2 DEF KeysDone

AllDone(steps, at, done, registry) == PlacesDone(steps, at, Len(steps), done, registry)
AllKept(steps, keys) == KeysDone(steps, Len(steps), keys)

\* Before the first step, and after it.
LEMMA DoneFirst ==
    ASSUME NEW steps, NEW at, NEW done, NEW keys, NEW registry
    PROVE  PlacesDone(steps, at, 0, done, registry) = done /\ KeysDone(steps, 0, keys) = keys
<1>1. 1..0 = {}
  OBVIOUS
<1> QED
  BY <1>1 DEF PlacesDone, KeysDone

\* The places of one step.
LEMMA PlacesOne ==
    ASSUME NEW steps, NEW at, NEW done, NEW registry, NEW one, one = 1
    PROVE  PlacesDone(steps, at, one, done, registry) = done \cup PlacesAt(steps[1], at[1], registry)
<1>1. 1..one = {1}
  OBVIOUS
<1> QED
  BY <1>1 DEF PlacesDone

\* The keys of one step.
LEMMA KeysOne ==
    ASSUME NEW steps, NEW keys, NEW one, one = 1
    PROVE  KeysDone(steps, one, keys) = keys \cup KeysAt(steps[1])
<1>1. 1..one = {1}
  OBVIOUS
<1> QED
  BY <1>1 DEF KeysDone

\* Steps that fit are done one after another.
LEMMA StepsFitOn ==
    ASSUME NEW steps, NEW at, NEW done, NEW keys, NEW g, NEW registry,
           StepsFit(steps, at, done, keys, g, registry), steps # << >>,
           NEW more, more = done \cup PlacesAt(Head(steps), Head(at), registry),
           NEW kept, kept = keys \cup KeysAt(Head(steps))
    PROVE  /\ StepFits(Head(steps), Head(at), done, keys, g, registry)
           /\ StepsFit(Tail(steps), Tail(at), more, kept, g, registry)
           /\ AllDone(Tail(steps), Tail(at), more, registry) = AllDone(steps, at, done, registry)
<1>1. PICK n : n = Len(steps)
  OBVIOUS
<1>2. IsSeq(steps) /\ IsSeq(at) /\ Len(at) = n /\ n \in Nat /\ n # 0
  BY <1>1, SeqShape DEF StepsFit
<1>3. at # << >>
  BY <1>2, SeqShape
<1>4. PICK s, a, rest, restAt : /\ s = steps[1] /\ a = at[1]
                                /\ rest = Tail(steps) /\ restAt = Tail(at)
  OBVIOUS
<1>5. /\ IsSeq(rest) /\ Len(rest) = n - 1 /\ Head(steps) = s
      /\ \A i \in 1..n - 1 : rest[i] = steps[i + 1]
  BY <1>1, <1>2, <1>4, TailIsSeq
<1>6. /\ IsSeq(restAt) /\ Len(restAt) = n - 1 /\ Head(at) = a
      /\ \A i \in 1..n - 1 : restAt[i] = at[i + 1]
  BY <1>2, <1>3, <1>4, TailIsSeq
<1>7. \A i \in 1..n : StepFits(steps[i], at[i], PlacesDone(steps, at, i - 1, done, registry),
                               KeysDone(steps, i - 1, keys), g, registry)
  BY <1>1 DEF StepsFit
<1>8. StepFits(s, a, done, keys, g, registry)
  <2>1. 1 \in 1..n /\ 1 - 1 = 0
    BY <1>2
  <2>2. StepFits(steps[1], at[1], PlacesDone(steps, at, 0, done, registry),
                 KeysDone(steps, 0, keys), g, registry)
    BY <1>7, <2>1
  <2> QED
    BY <1>4, <2>2, DoneFirst
<1>9. ASSUME NEW m \in Nat, m <= n - 1
      PROVE  /\ PlacesDone(steps, at, m + 1, done, registry) = PlacesDone(rest, restAt, m, more, registry)
             /\ KeysDone(steps, m + 1, keys) = KeysDone(rest, m, kept)
  <2>1. \A i \in 1..m : steps[1 + i] = rest[i] /\ at[1 + i] = restAt[i]
    BY <1>2, <1>5, <1>6, <1>9
  <2>2. PICK one : one = 1
    OBVIOUS
  <2>3. one \in Nat /\ one + m = m + 1 /\ \A i \in 1..m : steps[one + i] = rest[i] /\ at[one + i] = restAt[i]
    BY <2>1, <2>2
  <2>4. PlacesDone(steps, at, one + m, done, registry)
          = PlacesDone(rest, restAt, m, PlacesDone(steps, at, one, done, registry), registry)
    BY <2>3, PlacesInTwo
  <2>5. KeysDone(steps, one + m, keys) = KeysDone(rest, m, KeysDone(steps, one, keys))
    BY <2>3, KeysInTwo
  <2>6. /\ PlacesDone(steps, at, one, done, registry) = done \cup PlacesAt(steps[1], at[1], registry)
        /\ KeysDone(steps, one, keys) = keys \cup KeysAt(steps[1])
    BY <2>2, PlacesOne, KeysOne
  <2>7. more = done \cup PlacesAt(s, a, registry) /\ kept = keys \cup KeysAt(s)
    BY <1>5, <1>6
  <2>8. PlacesDone(steps, at, one, done, registry) = more
    BY <1>4, <2>6, <2>7
  <2>9. KeysDone(steps, one, keys) = kept
    BY <1>4, <2>6, <2>7
  <2> QED
    BY <2>3, <2>4, <2>5, <2>8, <2>9
<1>10. ASSUME NEW i \in 1..n - 1
       PROVE  StepFits(rest[i], restAt[i], PlacesDone(rest, restAt, i - 1, more, registry),
                       KeysDone(rest, i - 1, kept), g, registry)
  <2>1. PICK m : m = i - 1
    OBVIOUS
  <2>2. m \in Nat /\ m <= n - 1 /\ m + 1 = i /\ i + 1 \in 1..n /\ (i + 1) - 1 = i
    BY <1>2, <2>1
  <2>3. /\ PlacesDone(steps, at, i, done, registry) = PlacesDone(rest, restAt, m, more, registry)
        /\ KeysDone(steps, i, keys) = KeysDone(rest, m, kept)
    BY <1>9, <2>2
  <2>4. StepFits(steps[i + 1], at[i + 1], PlacesDone(steps, at, i, done, registry),
                 KeysDone(steps, i, keys), g, registry)
    BY <1>7, <2>2
  <2>5. steps[i + 1] = rest[i] /\ at[i + 1] = restAt[i]
    BY <1>5, <1>6
  <2> QED
    BY <2>1, <2>3, <2>4, <2>5
<1>11. StepsFit(rest, restAt, more, kept, g, registry)
  BY <1>5, <1>6, <1>10 DEF StepsFit
<1>12. AllDone(rest, restAt, more, registry) = AllDone(steps, at, done, registry)
  <2>1. n - 1 \in Nat /\ n - 1 <= n - 1 /\ (n - 1) + 1 = n
    BY <1>2
  <2>2. PlacesDone(steps, at, n, done, registry) = PlacesDone(rest, restAt, n - 1, more, registry)
    BY <1>9, <2>1
  <2> QED
    BY <1>1, <1>5, <2>2 DEF AllDone
<1> QED
  BY <1>4, <1>5, <1>6, <1>8, <1>11, <1>12

\* Steps that fit, and others that fit after them.
LEMMA StepsFitBoth ==
    ASSUME NEW first, NEW firstAt, NEW done, NEW keys, NEW g, NEW registry,
           StepsFit(first, firstAt, done, keys, g, registry), NEW then, NEW thenAt,
           StepsFit(then, thenAt, AllDone(first, firstAt, done, registry), AllKept(first, keys), g, registry)
    PROVE  /\ StepsFit(first \o then, firstAt \o thenAt, done, keys, g, registry)
           /\ AllDone(first \o then, firstAt \o thenAt, done, registry)
                = AllDone(then, thenAt, AllDone(first, firstAt, done, registry), registry)
           /\ AllKept(first \o then, keys) = AllKept(then, AllKept(first, keys))
<1>1. PICK m, n, mid, midKeys :
        /\ m = Len(first) /\ n = Len(then) /\ mid = AllDone(first, firstAt, done, registry)
        /\ midKeys = AllKept(first, keys)
  OBVIOUS
<1>2. /\ IsSeq(first) /\ IsSeq(firstAt) /\ Len(first) = m /\ Len(firstAt) = m /\ m \in Nat
      /\ IsSeq(then) /\ IsSeq(thenAt) /\ Len(then) = n /\ Len(thenAt) = n /\ n \in Nat
  BY <1>1, SeqShape DEF StepsFit
<1>3. PICK steps, at : steps = first \o then /\ at = firstAt \o thenAt
  OBVIOUS
<1>4. /\ IsSeq(steps) /\ Len(steps) = m + n
      /\ \A i \in 1..m + n : steps[i] = IF i <= m THEN first[i] ELSE then[i - m]
  <2>1. /\ IsSeq(first \o then) /\ Len(first \o then) = Len(first) + Len(then)
        /\ \A i \in 1..Len(first) + Len(then) :
             (first \o then)[i] = IF i <= Len(first) THEN first[i] ELSE then[i - Len(first)]
    BY <1>2, ConcatIsSeq
  <2> QED
    BY <1>1, <1>3, <2>1
<1>5. /\ IsSeq(at) /\ Len(at) = m + n
      /\ \A i \in 1..m + n : at[i] = IF i <= m THEN firstAt[i] ELSE thenAt[i - m]
  <2>1. /\ IsSeq(firstAt \o thenAt) /\ Len(firstAt \o thenAt) = Len(firstAt) + Len(thenAt)
        /\ \A i \in 1..Len(firstAt) + Len(thenAt) :
             (firstAt \o thenAt)[i] = IF i <= Len(firstAt) THEN firstAt[i] ELSE thenAt[i - Len(firstAt)]
    BY <1>2, ConcatIsSeq
  <2> QED
    BY <1>2, <1>3, <2>1
<1>6. \A i \in 1..m : steps[i] = first[i] /\ at[i] = firstAt[i]
  BY <1>2, <1>4, <1>5
<1>7. ASSUME NEW i \in 1..n PROVE steps[m + i] = then[i] /\ at[m + i] = thenAt[i]
  <2>1. m + i \in 1..m + n /\ ~(m + i <= m) /\ (m + i) - m = i
    BY <1>2
  <2> QED
    BY <1>4, <1>5, <2>1
<1>8. mid = PlacesDone(first, firstAt, m, done, registry) /\ midKeys = KeysDone(first, m, keys)
  BY <1>1 DEF AllDone, AllKept
<1>9. ASSUME NEW k \in Nat, k <= n
      PROVE  /\ PlacesDone(steps, at, m + k, done, registry) = PlacesDone(then, thenAt, k, mid, registry)
             /\ KeysDone(steps, m + k, keys) = KeysDone(then, k, midKeys)
  <2>1. \A i \in 1..k : steps[m + i] = then[i] /\ at[m + i] = thenAt[i]
    BY <1>2, <1>7, <1>9
  <2>2. PlacesDone(steps, at, m + k, done, registry)
          = PlacesDone(then, thenAt, k, PlacesDone(steps, at, m, done, registry), registry)
    BY <1>2, <2>1, PlacesInTwo
  <2>3. KeysDone(steps, m + k, keys) = KeysDone(then, k, KeysDone(steps, m, keys))
    BY <1>2, <2>1, KeysInTwo
  <2>4. PlacesDone(steps, at, m, done, registry) = PlacesDone(first, firstAt, m, done, registry)
    BY <1>6, DoneSame
  <2>5. KeysDone(steps, m, keys) = KeysDone(first, m, keys)
    BY <1>6, DoneSame
  <2> QED
    BY <1>8, <2>2, <2>3, <2>4, <2>5
<1>10. ASSUME NEW i \in 1..m + n
       PROVE  StepFits(steps[i], at[i], PlacesDone(steps, at, i - 1, done, registry),
                       KeysDone(steps, i - 1, keys), g, registry)
  <2>1. CASE i <= m
    <3>1. i \in 1..m
      BY <1>2, <2>1
    <3>2. PICK k : k = i - 1
      OBVIOUS
    <3>3. k \in Nat /\ \A j \in 1..k : j \in 1..m
      BY <1>2, <3>1, <3>2
    <3>4. \A j \in 1..k : steps[j] = first[j] /\ at[j] = firstAt[j]
      BY <1>6, <3>3
    <3>5. PlacesDone(steps, at, k, done, registry) = PlacesDone(first, firstAt, k, done, registry)
      BY <3>4, DoneSame
    <3>6. KeysDone(steps, k, keys) = KeysDone(first, k, keys)
      BY <3>4, DoneSame
    <3>7. StepFits(first[i], firstAt[i], PlacesDone(first, firstAt, i - 1, done, registry),
                   KeysDone(first, i - 1, keys), g, registry)
      BY <1>2, <3>1 DEF StepsFit
    <3> QED
      BY <1>6, <3>1, <3>2, <3>5, <3>6, <3>7
  <2>2. CASE ~(i <= m)
    <3>1. PICK j, k : j = i - m /\ k = j - 1
      OBVIOUS
    <3>2. j \in 1..n /\ k \in Nat /\ k <= n /\ m + k = i - 1 /\ m + j = i
      BY <1>2, <2>2, <3>1
    <3>3. /\ PlacesDone(steps, at, i - 1, done, registry) = PlacesDone(then, thenAt, k, mid, registry)
          /\ KeysDone(steps, i - 1, keys) = KeysDone(then, k, midKeys)
      BY <1>9, <3>2
    <3>4. steps[i] = then[j] /\ at[i] = thenAt[j]
      BY <1>7, <3>2
    <3>5. StepFits(then[j], thenAt[j], PlacesDone(then, thenAt, j - 1, mid, registry),
                   KeysDone(then, j - 1, midKeys), g, registry)
      BY <1>1, <1>2, <3>2 DEF StepsFit
    <3> QED
      BY <3>1, <3>3, <3>4, <3>5
  <2> QED
    BY <2>1, <2>2
<1>11. StepsFit(steps, at, done, keys, g, registry)
  BY <1>4, <1>5, <1>10 DEF StepsFit
<1>12. /\ PlacesDone(steps, at, m + n, done, registry) = PlacesDone(then, thenAt, n, mid, registry)
       /\ KeysDone(steps, m + n, keys) = KeysDone(then, n, midKeys)
  BY <1>2, <1>9
<1>13. /\ AllDone(steps, at, done, registry) = AllDone(then, thenAt, mid, registry)
       /\ AllKept(steps, keys) = AllKept(then, midKeys)
  BY <1>2, <1>4, <1>12 DEF AllDone, AllKept
<1> QED
  BY <1>1, <1>3, <1>11, <1>13

------------------------------------------------------------------------------
(***************************************************************************)
(* What a step is replaced by: steps that fit where it does, and that need *)
(* and keep the same.                                                      *)
(***************************************************************************)
Expands(R, RQ, s, p, done, keys, g, registry) ==
    /\ StepsFit(R, RQ, done, keys, g, registry)
    /\ AllDone(R, RQ, done, registry) = done \cup PlacesAt(s, p, registry)
    /\ AllKept(R, keys) = keys \cup KeysAt(s)

\* The step at the top is replaced by others.
LEMMA ReplaceFits ==
    ASSUME NEW steps, NEW at, NEW done, NEW keys, NEW g, NEW registry,
           StepsFit(steps, at, done, keys, g, registry), steps # << >>, NEW R, NEW RQ,
           Expands(R, RQ, Head(steps), Head(at), done, keys, g, registry)
    PROVE  /\ StepsFit(R \o Tail(steps), RQ \o Tail(at), done, keys, g, registry)
           /\ AllDone(R \o Tail(steps), RQ \o Tail(at), done, registry)
                = AllDone(steps, at, done, registry)
<1>1. PICK more, kept : /\ more = done \cup PlacesAt(Head(steps), Head(at), registry)
                        /\ kept = keys \cup KeysAt(Head(steps))
  OBVIOUS
<1>2. PICK rest, restAt : rest = Tail(steps) /\ restAt = Tail(at)
  OBVIOUS
<1>3. /\ StepsFit(rest, restAt, more, kept, g, registry)
      /\ AllDone(rest, restAt, more, registry) = AllDone(steps, at, done, registry)
  <2>1. /\ StepFits(Head(steps), Head(at), done, keys, g, registry)
        /\ StepsFit(Tail(steps), Tail(at), more, kept, g, registry)
        /\ AllDone(Tail(steps), Tail(at), more, registry) = AllDone(steps, at, done, registry)
    BY <1>1, StepsFitOn
  <2> QED
    BY <1>2, <2>1
<1>4. /\ StepsFit(R, RQ, done, keys, g, registry)
      /\ AllDone(R, RQ, done, registry) = more /\ AllKept(R, keys) = kept
  BY <1>1 DEF Expands
<1>5. StepsFit(rest, restAt, AllDone(R, RQ, done, registry), AllKept(R, keys), g, registry)
  BY <1>3, <1>4
<1>6. /\ StepsFit(R \o rest, RQ \o restAt, done, keys, g, registry)
      /\ AllDone(R \o rest, RQ \o restAt, done, registry)
           = AllDone(rest, restAt, AllDone(R, RQ, done, registry), registry)
  BY <1>4, <1>5, StepsFitBoth
<1> QED
  BY <1>2, <1>3, <1>4, <1>6

\* No steps at all.
LEMMA NoneFit ==
    ASSUME NEW done, NEW keys, NEW g, NEW registry, NEW none, none = << >>
    PROVE  /\ StepsFit(none, none, done, keys, g, registry)
           /\ AllDone(none, none, done, registry) = done /\ AllKept(none, keys) = keys
<1>1. IsSeq(none) /\ Len(none) = 0
  <2>1. none \in Seq({}) /\ Len(none) = 0
    OBVIOUS
  <2> QED
    BY <2>1, SeqIsSeq
<1>2. StepsFit(none, none, done, keys, g, registry)
  BY <1>1 DEF StepsFit
<1>3. PlacesDone(none, none, 0, done, registry) = done /\ KeysDone(none, 0, keys) = keys
  BY DoneFirst
<1> QED
  BY <1>1, <1>2, <1>3 DEF AllDone, AllKept

\* One more step.
Adds(new, newAt, R, RQ, s, p, done, keys, g, registry) ==
    /\ StepsFit(new, newAt, done, keys, g, registry)
    /\ AllDone(new, newAt, done, registry) = AllDone(R, RQ, done, registry) \cup PlacesAt(s, p, registry)
    /\ AllKept(new, keys) = AllKept(R, keys) \cup KeysAt(s)

\* A step that fits after the others adds its places and its keys.
LEMMA AppendFits ==
    ASSUME NEW R, NEW RQ, NEW done, NEW keys, NEW g, NEW registry,
           StepsFit(R, RQ, done, keys, g, registry), NEW s, NEW p,
           StepFits(s, p, AllDone(R, RQ, done, registry), AllKept(R, keys), g, registry)
    PROVE  Adds(Append(R, s), Append(RQ, p), R, RQ, s, p, done, keys, g, registry)
<1>1. PICK n : n = Len(R)
  OBVIOUS
<1>2. IsSeq(R) /\ IsSeq(RQ) /\ Len(RQ) = n /\ n \in Nat
  BY <1>1, SeqShape DEF StepsFit
<1>3. PICK steps, at : steps = Append(R, s) /\ at = Append(RQ, p)
  OBVIOUS
<1>4. IsSeq(steps) /\ Len(steps) = n + 1 /\ (\A i \in 1..n : steps[i] = R[i]) /\ steps[n + 1] = s
  BY <1>1, <1>2, <1>3, AppendIsSeq
<1>5. IsSeq(at) /\ Len(at) = n + 1 /\ (\A i \in 1..n : at[i] = RQ[i]) /\ at[n + 1] = p
  BY <1>2, <1>3, AppendIsSeq
<1>6. ASSUME NEW m \in Nat, m <= n
      PROVE  /\ PlacesDone(steps, at, m, done, registry) = PlacesDone(R, RQ, m, done, registry)
             /\ KeysDone(steps, m, keys) = KeysDone(R, m, keys)
  <2>1. \A i \in 1..m : steps[i] = R[i] /\ at[i] = RQ[i]
    BY <1>2, <1>4, <1>5, <1>6
  <2>2. PlacesDone(steps, at, m, done, registry) = PlacesDone(R, RQ, m, done, registry)
    BY <2>1, DoneSame
  <2>3. KeysDone(steps, m, keys) = KeysDone(R, m, keys)
    BY <2>1, DoneSame
  <2> QED
    BY <2>2, <2>3
<1>7. /\ PlacesDone(steps, at, n, done, registry) = AllDone(R, RQ, done, registry)
      /\ KeysDone(steps, n, keys) = AllKept(R, keys)
  BY <1>1, <1>2, <1>6 DEF AllDone, AllKept
<1>8. ASSUME NEW i \in 1..n + 1
      PROVE  StepFits(steps[i], at[i], PlacesDone(steps, at, i - 1, done, registry),
                      KeysDone(steps, i - 1, keys), g, registry)
  <2>1. CASE i = n + 1
    <3>1. i - 1 = n
      BY <1>2, <2>1
    <3> QED
      BY <1>4, <1>5, <1>7, <2>1, <3>1
  <2>2. CASE i # n + 1
    <3>1. i \in 1..n /\ i - 1 \in Nat /\ i - 1 <= n
      BY <1>2, <2>2
    <3>2. StepFits(R[i], RQ[i], PlacesDone(R, RQ, i - 1, done, registry),
                   KeysDone(R, i - 1, keys), g, registry)
      BY <1>1, <3>1 DEF StepsFit
    <3>3. steps[i] = R[i] /\ at[i] = RQ[i]
      BY <1>4, <1>5, <3>1
    <3>4. /\ PlacesDone(steps, at, i - 1, done, registry) = PlacesDone(R, RQ, i - 1, done, registry)
          /\ KeysDone(steps, i - 1, keys) = KeysDone(R, i - 1, keys)
      BY <1>6, <3>1
    <3> QED
      BY <3>2, <3>3, <3>4
  <2> QED
    BY <2>1, <2>2
<1>9. StepsFit(steps, at, done, keys, g, registry)
  BY <1>4, <1>5, <1>8 DEF StepsFit
<1>10. PICK one : one = 1
  OBVIOUS
<1>11. one \in Nat /\ n + one = n + 1 /\ 1..one = {1}
  BY <1>10
<1>12. PICK then, thenAt : then = <<s>> /\ thenAt = <<p>>
  OBVIOUS
<1>13. \A i \in 1..one : steps[n + i] = then[i] /\ at[n + i] = thenAt[i]
  BY <1>4, <1>5, <1>11, <1>12
<1>14. PlacesDone(steps, at, n + one, done, registry)
         = PlacesDone(then, thenAt, one, PlacesDone(steps, at, n, done, registry), registry)
  BY <1>2, <1>11, <1>13, PlacesInTwo
<1>15. KeysDone(steps, n + one, keys) = KeysDone(then, one, KeysDone(steps, n, keys))
  BY <1>2, <1>11, <1>13, KeysInTwo
<1>16. PICK mid, midKeys : mid = AllDone(R, RQ, done, registry) /\ midKeys = AllKept(R, keys)
  OBVIOUS
<1>17. /\ PlacesDone(then, thenAt, one, mid, registry) = mid \cup PlacesAt(then[1], thenAt[1], registry)
       /\ KeysDone(then, one, midKeys) = midKeys \cup KeysAt(then[1])
  BY <1>10, PlacesOne, KeysOne
<1>18. then[1] = s /\ thenAt[1] = p
  BY <1>12
<1>19. PlacesDone(steps, at, n + 1, done, registry) = mid \cup PlacesAt(s, p, registry)
  BY <1>7, <1>11, <1>14, <1>16, <1>17, <1>18
<1>20. KeysDone(steps, n + 1, keys) = midKeys \cup KeysAt(s)
  BY <1>7, <1>11, <1>15, <1>16, <1>17, <1>18
<1>21. /\ AllDone(steps, at, done, registry) = mid \cup PlacesAt(s, p, registry)
       /\ AllKept(steps, keys) = midKeys \cup KeysAt(s)
  BY <1>4, <1>19, <1>20 DEF AllDone, AllKept
<1>22. Adds(steps, at, R, RQ, s, p, done, keys, g, registry)
  BY <1>9, <1>16, <1>21 DEF Adds
<1> QED
  BY <1>3, <1>22

\* A step that lowers an expression.
StandsFor(s, p, e, q, g, registry) ==
    /\ PlacesAt(s, p, registry) = PlacesOf(e, q, registry) /\ KeysAt(s) = SharedPlaces(e)
    /\ \A done, keys : ExprFits(e, q, done, keys, g, registry) => StepFits(s, p, done, keys, g, registry)

\* The steps of expressions that fit one after another.
LEMMA ListStepsFit ==
    ASSUME PlacesRules, NEW g, IsShared(g), NEW es, NEW ps, NEW n, NEW done, NEW keys, NEW registry,
           ListFits(es, ps, n, done, keys, g, registry),
           NEW steps, IsSeq(steps), Len(steps) = n, NEW at, IsSeq(at), Len(at) = n,
           \A i \in 1..n : StandsFor(steps[i], at[i], es[i], ps[i], g, registry)
    PROVE  /\ StepsFit(steps, at, done, keys, g, registry)
           /\ AllDone(steps, at, done, registry) = done \cup PlacesOfFirst(es, ps, n, registry)
           /\ AllKept(steps, keys) = keys \cup KeysOfFirst(es, n)
<1>1. n \in Nat
  BY SeqShape
<1>2. ASSUME NEW m \in Nat, m <= n
      PROVE  /\ PlacesDone(steps, at, m, done, registry) = done \cup PlacesOfFirst(es, ps, m, registry)
             /\ KeysDone(steps, m, keys) = keys \cup KeysOfFirst(es, m)
  <2>1. \A i \in 1..m : i \in 1..n
    BY <1>1, <1>2
  <2>2. \A i \in 1..m : /\ PlacesAt(steps[i], at[i], registry) = PlacesOf(es[i], ps[i], registry)
                        /\ KeysAt(steps[i]) = SharedPlaces(es[i])
    BY <2>1 DEF StandsFor
  <2>3. PlacesDone(steps, at, m, done, registry) = done \cup PlacesOfFirst(es, ps, m, registry)
    BY <2>2 DEF PlacesDone, PlacesOfFirst
  <2>4. KeysDone(steps, m, keys) = keys \cup KeysOfFirst(es, m)
    BY <2>2 DEF KeysDone, KeysOfFirst
  <2> QED
    BY <2>3, <2>4
<1>3. ASSUME NEW i \in 1..n
      PROVE  StepFits(steps[i], at[i], PlacesDone(steps, at, i - 1, done, registry),
                      KeysDone(steps, i - 1, keys), g, registry)
  <2>1. PICK d, k : /\ d = done \cup PlacesOfFirst(es, ps, i - 1, registry)
                    /\ k = keys \cup KeysOfFirst(es, i - 1)
    OBVIOUS
  <2>2. ExprFits(es[i], ps[i], d, k, g, registry)
    BY <1>1, <2>1, InTurn
  <2>3. StepFits(steps[i], at[i], d, k, g, registry)
    BY <2>2 DEF StandsFor
  <2>4. i - 1 \in Nat /\ i - 1 <= n
    BY <1>1
  <2>5. PlacesDone(steps, at, i - 1, done, registry) = d /\ KeysDone(steps, i - 1, keys) = k
    BY <1>2, <2>1, <2>4
  <2> QED
    BY <2>3, <2>5
<1>4. StepsFit(steps, at, done, keys, g, registry)
  BY <1>3 DEF StepsFit
<1>5. /\ PlacesDone(steps, at, n, done, registry) = done \cup PlacesOfFirst(es, ps, n, registry)
      /\ KeysDone(steps, n, keys) = keys \cup KeysOfFirst(es, n)
  BY <1>1, <1>2
<1> QED
  BY <1>4, <1>5 DEF AllDone, AllKept

\* What the step of an expression needs and keeps.
LEMMA ExprStands ==
    ASSUME NEW e, NEW p, NEW g, NEW registry, NEW s, s = LowerExpr(e)
    PROVE  StandsFor(s, p, e, p, g, registry)
<1>1. s.step = "lower_expr" /\ s.expr = e
  BY DEF LowerExpr
<1>2. PlacesAt(s, p, registry) = PlacesOf(e, p, registry) /\ KeysAt(s) = SharedPlaces(e)
  BY <1>1 DEF PlacesAt, KeysAt
<1>3. \A done, keys : ExprFits(e, p, done, keys, g, registry) => StepFits(s, p, done, keys, g, registry)
  BY <1>1 DEF StepFits
<1> QED
  BY <1>2, <1>3 DEF StandsFor

\* And of the value of a let, that is looked through if it is a node.
LEMMA LetStands ==
    ASSUME NEW e, Core(e).kind # "Node", NEW p, NEW g, NEW registry, NEW s,
           \/ s.step = "let" /\ s.binding.value = e
           \/ s.step = "lower_let_values" /\ s.expr = e
    PROVE  StandsFor(s, p, Core(e), CoreAt(e, p), g, registry)
<1>1. PICK x, q : x = Core(e) /\ q = CoreAt(e, p)
  OBVIOUS
<1>2. PlacesAt(s, p, registry) = PlacesOf(x, q, registry) /\ KeysAt(s) = SharedPlaces(x)
  BY <1>1 DEF PlacesAt, KeysAt
<1>3. ASSUME NEW done, NEW keys, ExprFits(x, q, done, keys, g, registry)
      PROVE  StepFits(s, p, done, keys, g, registry)
  <2>1. LetFits(e, p, done, keys, g, registry)
    BY <1>1, <1>3 DEF LetFits
  <2> QED
    BY <2>1 DEF StepFits
<1> QED
  BY <1>1, <1>2, <1>3 DEF StandsFor

\* The steps of a call: its arguments, and then the call itself.
LEMMA CallFits ==
    ASSUME PlacesRules, NEW g, IsShared(g), NEW e \in Exprs, e.kind \in {"Call", "Graph"}, NEW p,
           NEW done, NEW keys, NEW registry, ExprFits(e, p, done, keys, g, registry)
    PROVE  \E at : /\ StepsFit(CallSteps(e), at, done, keys, g, registry)
                   /\ AllDone(CallSteps(e), at, done, registry) = done \cup PlacesOf(e, p, registry)
                   /\ AllKept(CallSteps(e), keys) = keys \cup SharedPlaces(e)
<1>1. PICK n : n = Len(e.args)
  OBVIOUS
<1>2. IsSeq(e.args) /\ n \in Nat /\ DOMAIN e.args = 1..n
  BY <1>1, ChildrenAre, SeqShape
<1>3. PICK ps : ps = [i \in 1..n |-> ArgPlace(p, i)]
  OBVIOUS
<1>4. IsSeq(ps) /\ Len(ps) = n /\ \A i \in 1..n : ps[i] = ArgPlace(p, i)
  <2>1. ps = [i \in 1..n |-> ps[i]] /\ \A i \in 1..n : ps[i] = ArgPlace(p, i)
    BY <1>3
  <2> QED
    BY <1>2, <2>1, ListIsSeq
<1>5. ListFits(e.args, ps, n, done, keys, g, registry)
  BY <1>1, <1>4, ArgsFit
<1>6. PICK first : first = Steps(e.args)
  OBVIOUS
<1>7. IsSeq(first) /\ Len(first) = n /\ \A i \in 1..n : first[i] = LowerExpr(e.args[i])
  <2>1. first = [i \in 1..n |-> LowerExpr(e.args[i])]
    BY <1>2, <1>6 DEF Steps
  <2>2. first = [i \in 1..n |-> first[i]] /\ \A i \in 1..n : first[i] = LowerExpr(e.args[i])
    BY <2>1
  <2> QED
    BY <1>2, <2>2, ListIsSeq
<1>8. \A i \in 1..n : StandsFor(first[i], ps[i], e.args[i], ps[i], g, registry)
  BY <1>7, ExprStands
<1>9. /\ StepsFit(first, ps, done, keys, g, registry)
      /\ AllDone(first, ps, done, registry) = done \cup PlacesOfFirst(e.args, ps, n, registry)
      /\ AllKept(first, keys) = keys \cup KeysOfFirst(e.args, n)
  BY <1>4, <1>5, <1>7, <1>8, ListStepsFit
<1>10. PICK s : s = IF e.kind = "Graph"
                    THEN [step |-> "inline_graph", name |-> e.name, count |-> Len(e.args)]
                    ELSE [step |-> "emit", op |-> e.op, count |-> Len(e.args)]
  OBVIOUS
<1>11. CallSteps(e) = Append(first, s)
  BY <1>6, <1>10 DEF CallSteps
<1>12. IsSeq(p)
  BY DEF ExprFits, IsPlace
<1>13. Bare(p, AllDone(first, ps, done, registry))
  BY <1>1, <1>4, <1>9, CallIsBare
<1>14. StepFits(s, p, AllDone(first, ps, done, registry), AllKept(first, keys), g, registry)
  BY <1>10, <1>12, <1>13 DEF StepFits
<1>15. KeysAt(s) = {}
  BY <1>10 DEF KeysAt
<1>16. /\ StepsFit(Append(first, s), Append(ps, p), done, keys, g, registry)
       /\ AllDone(Append(first, s), Append(ps, p), done, registry)
            = AllDone(first, ps, done, registry) \cup PlacesAt(s, p, registry)
       /\ AllKept(Append(first, s), keys) = AllKept(first, keys) \cup KeysAt(s)
  <2>1. Adds(Append(first, s), Append(ps, p), first, ps, s, p, done, keys, g, registry)
    BY <1>9, <1>14, AppendFits
  <2> QED
    BY <2>1 DEF Adds
<1>17. PlacesOfArgs(e, p, registry) = PlacesOfFirst(e.args, ps, n, registry)
  BY <1>1, <1>4 DEF PlacesOfArgs, PlacesOfFirst
<1>18. PlacesOf(e, p, registry) = PlacesOfFirst(e.args, ps, n, registry) \cup PlacesAt(s, p, registry)
  <2>1. CASE e.kind = "Call"
    <3>1. PlacesAt(s, p, registry) = {p}
      BY <1>10, <2>1 DEF PlacesAt
    <3> QED
      BY <1>17, <2>1, <3>1, PlacesAre
  <2>2. CASE e.kind = "Graph"
    <3>1. PlacesAt(s, p, registry) = PlacesOfCall(e.name, p, registry)
      BY <1>10, <2>2 DEF PlacesAt
    <3> QED
      BY <1>17, <2>2, <3>1, PlacesAre
  <2> QED
    BY <2>1, <2>2
<1>19. SharedPlaces(e) = KeysOfFirst(e.args, n)
  BY <1>1, SharedInCall
<1>20. PICK at : at = Append(ps, p)
  OBVIOUS
<1>21. /\ StepsFit(CallSteps(e), at, done, keys, g, registry)
       /\ AllDone(CallSteps(e), at, done, registry) = done \cup PlacesOf(e, p, registry)
       /\ AllKept(CallSteps(e), keys) = keys \cup SharedPlaces(e)
  BY <1>9, <1>11, <1>15, <1>16, <1>18, <1>19, <1>20
<1> QED
  BY <1>21

\* One step, and two.
LEMMA OneFits ==
    ASSUME NEW s, NEW p, NEW done, NEW keys, NEW g, NEW registry,
           StepFits(s, p, done, keys, g, registry), NEW R, R = <<s>>, NEW RQ, RQ = <<p>>
    PROVE  Expands(R, RQ, s, p, done, keys, g, registry)
<1>1. PICK none : none = << >>
  OBVIOUS
<1>2. /\ StepsFit(none, none, done, keys, g, registry)
      /\ AllDone(none, none, done, registry) = done /\ AllKept(none, keys) = keys
  BY <1>1, NoneFit
<1>3. R = Append(none, s) /\ RQ = Append(none, p)
  BY <1>1
<1>4. /\ StepsFit(Append(none, s), Append(none, p), done, keys, g, registry)
      /\ AllDone(Append(none, s), Append(none, p), done, registry)
           = AllDone(none, none, done, registry) \cup PlacesAt(s, p, registry)
      /\ AllKept(Append(none, s), keys) = AllKept(none, keys) \cup KeysAt(s)
  <2>1. Adds(Append(none, s), Append(none, p), none, none, s, p, done, keys, g, registry)
    BY <1>2, AppendFits
  <2> QED
    BY <2>1 DEF Adds
<1> QED
  BY <1>2, <1>3, <1>4 DEF Expands

ExpandsTwo(R, RQ, s, p, t, q, done, keys, g, registry) ==
    /\ StepsFit(R, RQ, done, keys, g, registry)
    /\ AllDone(R, RQ, done, registry) = done \cup PlacesAt(s, p, registry) \cup PlacesAt(t, q, registry)
    /\ AllKept(R, keys) = keys \cup KeysAt(s) \cup KeysAt(t)

\* Two steps, the second of which fits after the first.
LEMMA TwoFit ==
    ASSUME NEW s, NEW p, NEW done, NEW keys, NEW g, NEW registry,
           StepFits(s, p, done, keys, g, registry), NEW t, NEW q,
           StepFits(t, q, done \cup PlacesAt(s, p, registry), keys \cup KeysAt(s), g, registry),
           NEW R, R = <<s, t>>, NEW RQ, RQ = <<p, q>>
    PROVE  ExpandsTwo(R, RQ, s, p, t, q, done, keys, g, registry)
<1>1. PICK one, oneAt : one = <<s>> /\ oneAt = <<p>>
  OBVIOUS
<1>2. /\ StepsFit(one, oneAt, done, keys, g, registry)
      /\ AllDone(one, oneAt, done, registry) = done \cup PlacesAt(s, p, registry)
      /\ AllKept(one, keys) = keys \cup KeysAt(s)
  <2>1. Expands(one, oneAt, s, p, done, keys, g, registry)
    BY <1>1, OneFits
  <2> QED
    BY <2>1 DEF Expands
<1>3. R = Append(one, t) /\ RQ = Append(oneAt, q)
  <2>1. ASSUME NEW a, NEW b PROVE <<a, b>> = Append(<<a>>, b)
    <3>1. PICK u, v : u = <<a>> /\ v = <<b>>
      OBVIOUS
    <3>2. IsSeq(u)
      BY <3>1, OneStep
    <3>3. Append(u, b) = u \o v
      BY <3>1, <3>2, AppendedList
    <3> QED
      BY <3>1, <3>3, TwoSteps
  <2> QED
    BY <1>1, <2>1
<1>4. StepFits(t, q, AllDone(one, oneAt, done, registry), AllKept(one, keys), g, registry)
  BY <1>2
<1>5. /\ StepsFit(Append(one, t), Append(oneAt, q), done, keys, g, registry)
      /\ AllDone(Append(one, t), Append(oneAt, q), done, registry)
           = AllDone(one, oneAt, done, registry) \cup PlacesAt(t, q, registry)
      /\ AllKept(Append(one, t), keys) = AllKept(one, keys) \cup KeysAt(t)
  <2>1. Adds(Append(one, t), Append(oneAt, q), one, oneAt, t, q, done, keys, g, registry)
    BY <1>2, <1>4, AppendFits
  <2> QED
    BY <2>1 DEF Adds
<1> QED
  BY <1>2, <1>3, <1>5 DEF ExpandsTwo

\* LowerCall: the call, and then the check of its value.
LEMMA CallExpands ==
    ASSUME PlacesRules, NEW g, IsShared(g), NEW e \in Exprs, e.kind \in {"Call", "Graph"},
           NEW s, s.step = "lower_expr", s.expr = e, NEW p, NEW done, NEW keys, NEW registry,
           StepFits(s, p, done, keys, g, registry),
           NEW R, R = Append(CallSteps(e), [step |-> "single"])
    PROVE  \E RQ : Expands(R, RQ, s, p, done, keys, g, registry)
<1>1. ExprFits(e, p, done, keys, g, registry)
  BY DEF StepFits
<1>2. PICK at : /\ StepsFit(CallSteps(e), at, done, keys, g, registry)
                /\ AllDone(CallSteps(e), at, done, registry) = done \cup PlacesOf(e, p, registry)
                /\ AllKept(CallSteps(e), keys) = keys \cup SharedPlaces(e)
  BY <1>1, CallFits
<1>3. PICK t : t = [step |-> "single"]
  OBVIOUS
<1>4. /\ \A d, k : StepFits(t, p, d, k, g, registry)
      /\ PlacesAt(t, p, registry) = {} /\ KeysAt(t) = {}
  BY <1>3 DEF StepFits, PlacesAt, KeysAt
<1>5. PICK first : first = CallSteps(e)
  OBVIOUS
<1>6. StepFits(t, p, AllDone(first, at, done, registry), AllKept(first, keys), g, registry)
  BY <1>4
<1>7. /\ StepsFit(Append(first, t), Append(at, p), done, keys, g, registry)
      /\ AllDone(Append(first, t), Append(at, p), done, registry)
           = AllDone(first, at, done, registry) \cup PlacesAt(t, p, registry)
      /\ AllKept(Append(first, t), keys) = AllKept(first, keys) \cup KeysAt(t)
  <2>1. Adds(Append(first, t), Append(at, p), first, at, t, p, done, keys, g, registry)
    BY <1>2, <1>5, <1>6, AppendFits
  <2> QED
    BY <2>1 DEF Adds
<1>8. PlacesAt(s, p, registry) = PlacesOf(e, p, registry) /\ KeysAt(s) = SharedPlaces(e)
  BY DEF PlacesAt, KeysAt
<1>9. R = Append(first, t)
  BY <1>3, <1>5
<1>10. Expands(R, Append(at, p), s, p, done, keys, g, registry)
  BY <1>2, <1>4, <1>5, <1>7, <1>8, <1>9 DEF Expands
<1> QED
  BY <1>10

\* LowerNode and LowerTupleGet: the value, and then the step that keeps it.
LEMMA SharedExpands ==
    ASSUME PlacesRules, NEW g, IsShared(g), IsPlain(g), NEW e \in Exprs,
           e.kind \in {"Node", "TupleGet"}, NEW s, s.step = "lower_expr", s.expr = e,
           NEW p, NEW done, NEW keys, NEW registry, StepFits(s, p, done, keys, g, registry),
           SharedPlace(e) \notin keys, NEW keep, StepFits(keep, p, {}, {}, g, registry),
           keep.step \in {"keep_node", "keep_tuple"}, KeysAt(keep) = {SharedPlace(e)},
           NEW R, R = IF e.kind = "Node" THEN <<LowerExpr(e.value), keep>>
                      ELSE <<LowerLetValues(e.value), keep>>
    PROVE  \E RQ : Expands(R, RQ, s, p, done, keys, g, registry)
<1>1. ExprFits(e, p, done, keys, g, registry)
  BY DEF StepFits
<1>2. PICK q, x : q = SharedPlace(e) /\ x = e.value
  OBVIOUS
<1>3. ExprFits(x, q, done, keys, g, registry)
  BY <1>1, <1>2, ValueFits
<1>4. PlacesOf(e, p, registry) = PlacesOf(x, q, registry) /\ SharedPlaces(e) = {q} \cup SharedPlaces(x)
  BY <1>2, PlacesAre, SharedInShared
<1>5. PlacesAt(s, p, registry) = PlacesOf(e, p, registry) /\ KeysAt(s) = SharedPlaces(e)
  BY DEF PlacesAt, KeysAt
<1>6. PlacesAt(keep, p, registry) = {} /\ \A d, k : StepFits(keep, p, d, k, g, registry)
  BY DEF PlacesAt, StepFits
<1>7. PICK t : t = IF e.kind = "Node" THEN LowerExpr(x) ELSE LowerLetValues(x)
  OBVIOUS
<1>8. StandsFor(t, q, x, q, g, registry)
  <2>1. CASE e.kind = "Node"
    BY <1>7, <2>1, ExprStands
  <2>2. CASE e.kind = "TupleGet"
    <3>1. e \in PartsOf(g)
      BY <1>1, ExprsAssumption DEF ExprFits
    <3>2. x.kind # "Node"
      BY <1>2, <2>2, <3>1 DEF IsPlain
    <3>3. Core(x) = x /\ CoreAt(x, q) = q
      BY <3>2 DEF Core, CoreAt
    <3>4. t.step = "lower_let_values" /\ t.expr = x
      BY <1>7, <2>2 DEF LowerLetValues
    <3>5. StandsFor(t, q, Core(x), CoreAt(x, q), g, registry)
      BY <3>2, <3>3, <3>4, LetStands
    <3> QED
      BY <3>3, <3>5
  <2> QED
    BY <2>1, <2>2
<1>9. /\ StepFits(t, q, done, keys, g, registry)
      /\ PlacesAt(t, q, registry) = PlacesOf(x, q, registry) /\ KeysAt(t) = SharedPlaces(x)
  BY <1>3, <1>8 DEF StandsFor
<1>10. R = <<t, keep>>
  BY <1>2, <1>7
<1>11. PICK RQ : RQ = <<q, p>>
  OBVIOUS
<1>12. StepFits(keep, p, done \cup PlacesAt(t, q, registry), keys \cup KeysAt(t), g, registry)
  BY <1>6
<1>13. /\ StepsFit(R, RQ, done, keys, g, registry)
       /\ AllDone(R, RQ, done, registry) =
            done \cup PlacesAt(t, q, registry) \cup PlacesAt(keep, p, registry)
       /\ AllKept(R, keys) = keys \cup KeysAt(t) \cup KeysAt(keep)
  <2>1. ExpandsTwo(R, RQ, t, q, keep, p, done, keys, g, registry)
    BY <1>9, <1>10, <1>11, <1>12, TwoFit
  <2> QED
    BY <2>1 DEF ExpandsTwo
<1>14. Expands(R, RQ, s, p, done, keys, g, registry)
  BY <1>2, <1>4, <1>5, <1>6, <1>9, <1>13 DEF Expands
<1> QED
  BY <1>14

\* LowerLet: its value, and then the names.
LEMMA LetExpands ==
    ASSUME NEW g, NEW s, s.step = "let", NEW p, NEW done, NEW keys, NEW registry,
           StepFits(s, p, done, keys, g, registry), NEW names,
           NEW R, R = <<LowerLetValues(s.binding.value), [step |-> "bind_values", names |-> names]>>
    PROVE  \E RQ : Expands(R, RQ, s, p, done, keys, g, registry)
<1>1. PICK t, bind : /\ t = LowerLetValues(s.binding.value)
                     /\ bind = [step |-> "bind_values", names |-> names]
  OBVIOUS
<1>2. /\ PlacesAt(bind, p, registry) = {} /\ KeysAt(bind) = {}
      /\ \A d, k : StepFits(bind, p, d, k, g, registry)
  BY <1>1 DEF PlacesAt, KeysAt, StepFits
<1>3. t.step = "lower_let_values" /\ t.expr = s.binding.value
  BY <1>1 DEF LowerLetValues
<1>4. StepFits(t, p, done, keys, g, registry)
  BY <1>3 DEF StepFits
<1>5. PlacesAt(t, p, registry) = PlacesAt(s, p, registry) /\ KeysAt(t) = KeysAt(s)
  BY <1>3 DEF PlacesAt, KeysAt
<1>6. PICK RQ : RQ = <<p, p>>
  OBVIOUS
<1>7. R = <<t, bind>>
  BY <1>1
<1>8. StepFits(bind, p, done \cup PlacesAt(t, p, registry), keys \cup KeysAt(t), g, registry)
  BY <1>2
<1>9. /\ StepsFit(R, RQ, done, keys, g, registry)
      /\ AllDone(R, RQ, done, registry) =
           done \cup PlacesAt(t, p, registry) \cup PlacesAt(bind, p, registry)
      /\ AllKept(R, keys) = keys \cup KeysAt(t) \cup KeysAt(bind)
  <2>1. ExpandsTwo(R, RQ, t, p, bind, p, done, keys, g, registry)
    BY <1>4, <1>6, <1>7, <1>8, TwoFit
  <2> QED
    BY <2>1 DEF ExpandsTwo
<1>10. Expands(R, RQ, s, p, done, keys, g, registry)
  BY <1>2, <1>5, <1>9 DEF Expands
<1> QED
  BY <1>10

\* LowerLetOrTuple: a call without a check, or whatever else the value is.
LEMMA LetOrTupleExpands ==
    ASSUME PlacesRules, NEW g, IsShared(g), NEW s, s.step = "lower_let_values", NEW p, NEW done,
           NEW keys, NEW registry, StepFits(s, p, done, keys, g, registry),
           NEW R, R = CASE s.expr.kind = "Node" -> <<LowerLetValues(s.expr.value)>>
                        [] s.expr.kind \in {"Call", "Graph"} -> CallSteps(s.expr)
                        [] OTHER -> <<LowerExpr(s.expr)>>
    PROVE  \E RQ : Expands(R, RQ, s, p, done, keys, g, registry)
<1>1. PICK e, x, q : e = s.expr /\ x = Core(e) /\ q = CoreAt(e, p)
  OBVIOUS
<1>2. x.kind # "Node" /\ ExprFits(x, q, done, keys, g, registry)
  BY <1>1 DEF StepFits, LetFits
<1>3. PlacesAt(s, p, registry) = PlacesOf(x, q, registry) /\ KeysAt(s) = SharedPlaces(x)
  BY <1>1 DEF PlacesAt, KeysAt
<1>4. CASE e.kind \in {"Call", "Graph"}
  <2>1. x = e /\ q = p /\ R = CallSteps(e)
    BY <1>1, <1>4 DEF Core, CoreAt
  <2>2. e \in Exprs
    BY <1>2, <2>1 DEF ExprFits
  <2>3. PICK at : /\ StepsFit(CallSteps(e), at, done, keys, g, registry)
                  /\ AllDone(CallSteps(e), at, done, registry) = done \cup PlacesOf(e, p, registry)
                  /\ AllKept(CallSteps(e), keys) = keys \cup SharedPlaces(e)
    BY <1>2, <1>4, <2>1, <2>2, CallFits
  <2>4. Expands(R, at, s, p, done, keys, g, registry)
    BY <1>3, <2>1, <2>3 DEF Expands
  <2> QED
    BY <2>4
<1>5. CASE e.kind \notin {"Call", "Graph"}
  <2>1. PICK t : t = IF e.kind = "Node" THEN LowerLetValues(x) ELSE LowerExpr(x)
    OBVIOUS
  <2>2. R = <<t>>
    <3>1. e.kind = "Node" => x = e.value
      BY <1>1 DEF Core
    <3>2. e.kind # "Node" => x = e
      BY <1>1 DEF Core
    <3>3. e.kind = "Node" => R = <<LowerLetValues(e.value)>>
      BY <1>1
    <3>4. e.kind # "Node" => R = <<LowerExpr(e)>>
      BY <1>1, <1>5
    <3> QED
      BY <2>1, <3>1, <3>2, <3>3, <3>4
  <2>3. StandsFor(t, q, x, q, g, registry)
    <3>1. CASE e.kind = "Node"
      <4>1. Core(x) = x /\ CoreAt(x, q) = q
        BY <1>2 DEF Core, CoreAt
      <4>2. t.step = "lower_let_values" /\ t.expr = x
        BY <2>1, <3>1 DEF LowerLetValues
      <4>3. StandsFor(t, q, Core(x), CoreAt(x, q), g, registry)
        BY <1>2, <4>1, <4>2, LetStands
      <4> QED
        BY <4>1, <4>3
    <3>2. CASE e.kind # "Node"
      BY <2>1, <3>2, ExprStands
    <3> QED
      BY <3>1, <3>2
  <2>4. /\ StepFits(t, q, done, keys, g, registry)
        /\ PlacesAt(t, q, registry) = PlacesOf(x, q, registry) /\ KeysAt(t) = SharedPlaces(x)
    BY <1>2, <2>3 DEF StandsFor
  <2>5. PICK RQ : RQ = <<q>>
    OBVIOUS
  <2>6. /\ StepsFit(R, RQ, done, keys, g, registry)
        /\ AllDone(R, RQ, done, registry) = done \cup PlacesAt(t, q, registry)
        /\ AllKept(R, keys) = keys \cup KeysAt(t)
    <3>1. Expands(R, RQ, t, q, done, keys, g, registry)
      BY <2>2, <2>4, <2>5, OneFits
    <3> QED
      BY <3>1 DEF Expands
  <2>7. Expands(R, RQ, s, p, done, keys, g, registry)
    BY <1>3, <2>4, <2>6 DEF Expands
  <2> QED
    BY <2>7
<1> QED
  BY <1>4, <1>5

\* What an expression of a graph needs.
LEMMA PlacesInGraph ==
    ASSUME PlacesRules, NEW g, IsGraph(g), NEW registry, NEW i \in 1..GraphLength(g)
    PROVE  PlacesOf(GraphExprs(g)[i], GraphPlaces(g)[i], registry)
             = PlacesOf(ExprAt(g, i), PlaceAt(g, i), registry)
<1>1. PICK e, p : e = ExprAt(g, i) /\ p = PlaceAt(g, i)
  OBVIOUS
<1>2. e \in Exprs
  BY <1>1, ExprsOfGraph
<1>3. /\ GraphExprs(g)[i] = IF i <= Len(g.lets) THEN Core(e) ELSE e
      /\ GraphPlaces(g)[i] = IF i <= Len(g.lets) THEN CoreAt(e, p) ELSE p
  BY <1>1 DEF GraphExprs, GraphPlaces
<1>4. CASE i <= Len(g.lets) /\ e.kind = "Node"
  <2>1. GraphExprs(g)[i] = e.value /\ GraphPlaces(g)[i] = SharedPlace(e)
    BY <1>3, <1>4 DEF Core, CoreAt
  <2>2. PlacesOf(e, p, registry) = PlacesOf(e.value, SharedPlace(e), registry)
    BY <1>2, <1>4, PlacesAre
  <2> QED
    BY <1>1, <2>1, <2>2
<1>5. CASE ~(i <= Len(g.lets) /\ e.kind = "Node")
  <2>1. GraphExprs(g)[i] = e /\ GraphPlaces(g)[i] = p
    BY <1>3, <1>5 DEF Core, CoreAt
  <2> QED
    BY <1>1, <2>1
<1> QED
  BY <1>4, <1>5

\* All that a graph needs.
LEMMA PlacesOfAll ==
    ASSUME PlacesRules, NEW g, IsGraph(g), NEW registry
    PROVE  PlacesOfFirst(GraphExprs(g), GraphPlaces(g), GraphLength(g), registry)
             = PlacesOfGraph(g, registry)
<1>1. PICK a, b, n : a = Len(g.lets) /\ b = Len(g.body) /\ n = GraphLength(g)
  OBVIOUS
<1>2. a \in Nat /\ b \in Nat /\ n = a + b /\ DOMAIN g.lets = 1..a /\ DOMAIN g.body = 1..b
  BY <1>1, ExprsOfGraph DEF GraphLength
<1>3. \A i \in 1..n : PlacesOf(GraphExprs(g)[i], GraphPlaces(g)[i], registry)
                        = PlacesOf(ExprAt(g, i), PlaceAt(g, i), registry)
  BY <1>1, PlacesInGraph
<1>4. ASSUME NEW i \in 1..a
      PROVE  i \in 1..n /\ ExprAt(g, i) = g.lets[i].value /\ PlaceAt(g, i) = <<5, i>>
  <2>1. i \in 1..n /\ i <= a
    BY <1>2
  <2> QED
    BY <1>1, <2>1 DEF ExprAt, PlaceAt
<1>5. ASSUME NEW i \in 1..b
      PROVE  a + i \in 1..n /\ ExprAt(g, a + i) = g.body[i] /\ PlaceAt(g, a + i) = <<6, i>>
  <2>1. PICK j : j = a + i
    OBVIOUS
  <2>2. j \in 1..n /\ ~(j <= a) /\ j - a = i
    BY <1>2, <2>1
  <2>3. ExprAt(g, j) = g.body[i] /\ PlaceAt(g, j) = <<6, i>>
    BY <1>1, <2>2 DEF ExprAt, PlaceAt
  <2> QED
    BY <2>1, <2>2, <2>3
<1>6. ASSUME NEW c \in PlacesOfFirst(GraphExprs(g), GraphPlaces(g), n, registry)
      PROVE  c \in PlacesOfGraph(g, registry)
  <2>1. PICK i \in 1..n : c \in PlacesOf(ExprAt(g, i), PlaceAt(g, i), registry)
    BY <1>3, <1>6 DEF PlacesOfFirst
  <2>2. i \in 1..a \/ \E j \in 1..b : i = a + j
    <3>1. i \in 1..a + b
      BY <1>2
    <3> QED
      BY <1>2, <3>1, SplitAt
  <2>3. CASE i \in 1..a
    <3>1. c \in PlacesOf(g.lets[i].value, <<5, i>>, registry) /\ i \in DOMAIN g.lets
      BY <1>2, <1>4, <2>1, <2>3
    <3> QED
      BY <3>1 DEF PlacesOfGraph
  <2>4. CASE \E j \in 1..b : i = a + j
    <3>1. PICK j \in 1..b : i = a + j
      BY <2>4
    <3>2. c \in PlacesOf(g.body[j], <<6, j>>, registry) /\ j \in DOMAIN g.body
      BY <1>2, <1>5, <2>1, <3>1
    <3> QED
      BY <3>2 DEF PlacesOfGraph
  <2> QED
    BY <2>2, <2>3, <2>4
<1>7. ASSUME NEW c \in PlacesOfGraph(g, registry)
      PROVE  c \in PlacesOfFirst(GraphExprs(g), GraphPlaces(g), n, registry)
  <2>1. \/ \E i \in 1..a : c \in PlacesOf(g.lets[i].value, <<5, i>>, registry)
        \/ \E i \in 1..b : c \in PlacesOf(g.body[i], <<6, i>>, registry)
    BY <1>2, <1>7 DEF PlacesOfGraph
  <2>2. \E j \in 1..n : c \in PlacesOf(ExprAt(g, j), PlaceAt(g, j), registry)
    BY <1>4, <1>5, <2>1
  <2> QED
    BY <1>3, <2>2 DEF PlacesOfFirst
<1> QED
  BY <1>1, <1>6, <1>7

\* The steps of a graph fit when nothing of it is done.
LEMMA GraphStepsFit ==
    ASSUME PlacesRules, NEW g, IsGraph(g), IsShared(g), IsPlain(g), NEW registry
    PROVE  \E at : /\ StepsFit(GraphSteps(g), at, {}, {}, g, registry)
                   /\ AllDone(GraphSteps(g), at, {}, registry) = PlacesOfGraph(g, registry)
<1>1. PICK a, b, n : a = Len(g.lets) /\ b = Len(g.body) /\ n = GraphLength(g)
  OBVIOUS
<1>2. a \in Nat /\ b \in Nat /\ n = a + b /\ n \in Nat
  BY <1>1, ExprsOfGraph DEF GraphLength
<1>3. PICK steps : steps = GraphSteps(g)
  OBVIOUS
<1>4. /\ IsSeq(steps) /\ Len(steps) = n
      /\ \A i \in 1..n : steps[i] = IF i <= a THEN [step |-> "let", binding |-> g.lets[i]]
                                    ELSE LowerExpr(g.body[i - a])
  BY <1>1, <1>2, <1>3, GraphStepsAre
<1>5. PICK at : at = [i \in 1..n |-> PlaceAt(g, i)]
  OBVIOUS
<1>6. IsSeq(at) /\ Len(at) = n /\ \A i \in 1..n : at[i] = PlaceAt(g, i)
  <2>1. at = [i \in 1..n |-> at[i]] /\ \A i \in 1..n : at[i] = PlaceAt(g, i)
    BY <1>5
  <2> QED
    BY <1>2, <2>1, ListIsSeq
<1>7. PICK es, ps : es = GraphExprs(g) /\ ps = GraphPlaces(g)
  OBVIOUS
<1>8. ListFits(es, ps, n, {}, {}, g, registry)
  BY <1>1, <1>7, GraphFits
<1>9. ASSUME NEW i \in 1..n PROVE StandsFor(steps[i], at[i], es[i], ps[i], g, registry)
  <2>1. PICK e, p, s : e = ExprAt(g, i) /\ p = PlaceAt(g, i) /\ s = steps[i]
    OBVIOUS
  <2>2. /\ es[i] = IF i <= a THEN Core(e) ELSE e
        /\ ps[i] = IF i <= a THEN CoreAt(e, p) ELSE p
    BY <1>1, <1>7, <2>1 DEF GraphExprs, GraphPlaces
  <2>3. at[i] = p
    BY <1>6, <2>1
  <2>4. CASE i <= a
    <3>1. e = g.lets[i].value
      BY <1>1, <2>1, <2>4 DEF ExprAt
    <3>2. s.step = "let" /\ s.binding.value = e
      BY <1>4, <2>1, <2>4, <3>1
    <3>3. Core(e).kind # "Node"
      <4>1. i \in 1..Len(g.lets)
        BY <1>1, <1>2, <2>4
      <4>2. e.kind = "Node" => e.value.kind # "Node"
        BY <2>1, <4>1, NodeOfLet
      <4> QED
        BY <4>2 DEF Core
    <3>4. StandsFor(s, p, Core(e), CoreAt(e, p), g, registry)
      BY <3>2, <3>3, LetStands
    <3> QED
      BY <2>1, <2>2, <2>3, <2>4, <3>4
  <2>5. CASE ~(i <= a)
    <3>1. s = LowerExpr(e)
      BY <1>1, <1>4, <2>1, <2>5 DEF ExprAt
    <3>2. StandsFor(s, p, e, p, g, registry)
      BY <3>1, ExprStands
    <3> QED
      BY <2>1, <2>2, <2>3, <2>5, <3>2
  <2> QED
    BY <2>4, <2>5
<1>10. PICK none : none = {}
  OBVIOUS
<1>11. /\ StepsFit(steps, at, none, none, g, registry)
       /\ AllDone(steps, at, none, registry) = none \cup PlacesOfFirst(es, ps, n, registry)
       /\ AllKept(steps, none) = none \cup KeysOfFirst(es, n)
  <2>1. ListFits(es, ps, n, none, none, g, registry)
    BY <1>8, <1>10
  <2> QED
    BY <1>4, <1>6, <1>9, <2>1, ListStepsFit
<1>12. PlacesOfFirst(es, ps, n, registry) = PlacesOfGraph(g, registry)
  BY <1>1, <1>7, PlacesOfAll
<1>13. /\ StepsFit(GraphSteps(g), at, {}, {}, g, registry)
       /\ AllDone(GraphSteps(g), at, {}, registry) = PlacesOfGraph(g, registry)
  BY <1>3, <1>10, <1>11, <1>12
<1> QED
  BY <1>13

------------------------------------------------------------------------------
(* Counting places *)

\* A place more.
LEMMA OneMorePlace ==
    ASSUME NEW done, IsFiniteSet(done), NEW p, p \notin done, NEW more, more = done \cup {p}
    PROVE  /\ IsFiniteSet(more) /\ Cardinality(done) \in Nat
           /\ Cardinality(more) = Cardinality(done) + 1
BY FS_AddElement, FS_CardinalityType

\* The places of a call that is bare: as many as the graph that is called needs.
LEMMA CallPlacesCount ==
    ASSUME NEW done, IsFiniteSet(done), NEW p, IsSeq(p), Bare(p, done), NEW name, NEW registry,
           NEW within, within = PlacesOfGraph(registry[name], registry), IsFiniteSet(within),
           NEW more, more = done \cup PlacesOfCall(name, p, registry)
    PROVE  /\ IsFiniteSet(more) /\ Cardinality(done) \in Nat /\ Cardinality(within) \in Nat
           /\ Cardinality(more) = Cardinality(done) + Cardinality(within)
<1>1. PICK T : T = PlacesOfCall(name, p, registry)
  OBVIOUS
<1>2. T = {CalleePlace(p, d) : d \in within}
  BY <1>1 DEF PlacesOfCall, CalleePlace
<1>3. PICK F : F = [d \in within |-> CalleePlace(p, d)]
  OBVIOUS
<1>4. F \in [within -> T] /\ \A d \in within : F[d] = CalleePlace(p, d)
  BY <1>2, <1>3
<1>5. ASSUME NEW a \in within, NEW b \in within, F[a] = F[b] PROVE a = b
  <2>1. CalleePlace(p, a) = CalleePlace(p, b)
    BY <1>4, <1>5
  <2>2. CalleePlace(p, a)[Len(p) + 2] = a
    BY CalleePlaceIs
  <2>3. CalleePlace(p, b)[Len(p) + 2] = b
    BY CalleePlaceIs
  <2> QED
    BY <2>1, <2>2, <2>3
<1>6. \A c \in T : \E d \in within : F[d] = c
  BY <1>2, <1>4
<1>7. F \in Bijection(within, T)
  BY <1>4, <1>5, <1>6, Fun_IsBij
<1>8. ExistsBijection(within, T)
  BY <1>7 DEF ExistsBijection
<1>9. IsFiniteSet(T) /\ Cardinality(T) = Cardinality(within)
  BY <1>8, FS_Bijection
<1>10. done \cap T = {}
  <2>1. SUFFICES ASSUME NEW c \in done, c \in T PROVE FALSE
    OBVIOUS
  <2>2. PICK d \in within : c = CalleePlace(p, d)
    BY <1>2, <2>1
  <2>3. Extends(c, InCall(p))
    BY <2>2, CalleePlaceIs
  <2> QED
    BY <2>1, <2>3 DEF Bare, Fresh
<1>11. Cardinality(done) \in Nat /\ Cardinality(within) \in Nat /\ Cardinality({}) = 0
  BY FS_CardinalityType, FS_EmptySet
<1>12. IsFiniteSet(done \cup T)
  BY <1>9, FS_Union
<1>13. Cardinality(done \cup T) = Cardinality(done) + Cardinality(T) - Cardinality(done \cap T)
  BY <1>9, FS_Union
<1>14. Cardinality(done \cup T) = Cardinality(done) + Cardinality(within)
  <2>1. PICK a, b, c : /\ a = Cardinality(done) /\ b = Cardinality(within)
                       /\ c = Cardinality(done \cap T)
    OBVIOUS
  <2>2. c = 0
    BY <1>10, <1>11, <2>1
  <2>3. Cardinality(done \cup T) = a + b - c
    BY <1>9, <1>13, <2>1
  <2>4. a \in Nat /\ b \in Nat /\ a + b - 0 = a + b
    BY <1>11, <2>1
  <2> QED
    BY <2>1, <2>2, <2>3, <2>4
<1> QED
  BY <1>1, <1>11, <1>12, <1>14

------------------------------------------------------------------------------
(* The nodes and tuples that are kept in a scope *)

KeysIn(nv, tv, scope) ==
    {<<2, key[2]>> : key \in {k \in DOMAIN nv : k = <<scope, k[2]>>}}
      \cup {<<3, key[2]>> : key \in {k \in DOMAIN tv : k = <<scope, k[2]>>}}

\* A node or a tuple that is kept.
LEMMA KeptAt ==
    ASSUME NEW nv, NEW tv, NEW scope, NEW id
    PROVE  /\ <<2, id>> \in KeysIn(nv, tv, scope) <=> <<scope, id>> \in DOMAIN nv
           /\ <<3, id>> \in KeysIn(nv, tv, scope) <=> <<scope, id>> \in DOMAIN tv
<1>1. ASSUME NEW map, NEW c, NEW d
      PROVE  <<c, id>> \in {<<d, key[2]>> : key \in {k \in DOMAIN map : k = <<scope, k[2]>>}}
               <=> c = d /\ <<scope, id>> \in DOMAIN map
  <2>1. ASSUME NEW key \in {k \in DOMAIN map : k = <<scope, k[2]>>}, <<c, id>> = <<d, key[2]>>
        PROVE  c = d /\ <<scope, id>> \in DOMAIN map
    BY <2>1
  <2>2. ASSUME c = d, <<scope, id>> \in DOMAIN map
        PROVE  \E key \in {k \in DOMAIN map : k = <<scope, k[2]>>} : <<c, id>> = <<d, key[2]>>
    <3>1. PICK key : key = <<scope, id>>
      OBVIOUS
    <3>2. key \in DOMAIN map /\ key = <<scope, key[2]>> /\ key[2] = id
      BY <2>2, <3>1
    <3> QED
      BY <2>2, <3>2
  <2> QED
    BY <2>1, <2>2
<1> QED
  BY <1>1 DEF KeysIn

\* Maps that agree on a scope.
LEMMA SameKeys ==
    ASSUME NEW nv, NEW tv, NEW nv2, NEW tv2, NEW scope,
           \A id : <<scope, id>> \in DOMAIN nv <=> <<scope, id>> \in DOMAIN nv2,
           \A id : <<scope, id>> \in DOMAIN tv <=> <<scope, id>> \in DOMAIN tv2
    PROVE  KeysIn(nv2, tv2, scope) = KeysIn(nv, tv, scope)
<1>1. ASSUME NEW a, NEW b, \A id : <<scope, id>> \in DOMAIN a <=> <<scope, id>> \in DOMAIN b
      PROVE  {k \in DOMAIN a : k = <<scope, k[2]>>} = {k \in DOMAIN b : k = <<scope, k[2]>>}
  BY <1>1
<1>2. /\ {k \in DOMAIN nv : k = <<scope, k[2]>>} = {k \in DOMAIN nv2 : k = <<scope, k[2]>>}
      /\ {k \in DOMAIN tv : k = <<scope, k[2]>>} = {k \in DOMAIN tv2 : k = <<scope, k[2]>>}
  BY <1>1
<1> QED
  BY <1>2 DEF KeysIn

\* A node or tuple more.
OneKept(nv, tv, scope, id, key) ==
    /\ \A nv2 : DOMAIN nv2 = DOMAIN nv \cup {key} =>
         KeysIn(nv2, tv, scope) = KeysIn(nv, tv, scope) \cup {<<2, id>>}
    /\ \A tv2 : DOMAIN tv2 = DOMAIN tv \cup {key} =>
         KeysIn(nv, tv2, scope) = KeysIn(nv, tv, scope) \cup {<<3, id>>}

\* That it is kept.
LEMMA KeepsOne ==
    ASSUME NEW nv, NEW tv, NEW scope, NEW id, NEW key, key = <<scope, id>>
    PROVE  OneKept(nv, tv, scope, id, key)
<1>1. key[2] = id
  OBVIOUS
<1>2. ASSUME NEW old, NEW new, DOMAIN new = DOMAIN old \cup {key}
      PROVE  {k \in DOMAIN new : k = <<scope, k[2]>>}
               = {k \in DOMAIN old : k = <<scope, k[2]>>} \cup {key}
  BY <1>1, <1>2
<1>3. ASSUME NEW nv2, DOMAIN nv2 = DOMAIN nv \cup {key}
      PROVE  KeysIn(nv2, tv, scope) = KeysIn(nv, tv, scope) \cup {<<2, id>>}
  BY <1>1, <1>2, <1>3 DEF KeysIn
<1>4. ASSUME NEW tv2, DOMAIN tv2 = DOMAIN tv \cup {key}
      PROVE  KeysIn(nv, tv2, scope) = KeysIn(nv, tv, scope) \cup {<<3, id>>}
  BY <1>1, <1>2, <1>4 DEF KeysIn
<1> QED
  BY <1>3, <1>4 DEF OneKept

------------------------------------------------------------------------------
(***************************************************************************)
(* The inductive invariant.  Each graph being lowered has a record h: the  *)
(* places h.at of its steps, what of it is done, how many operations there *)
(* were before it, and, while it waits for a graph it calls, the place of  *)
(* that call.  Its steps fit, and lead to all the places of the graph.     *)
(***************************************************************************)
FrameFits(steps, h, settled, keys, g, registry) ==
    /\ IsGraph(g) /\ IsShared(g) /\ IsPlain(g) /\ IsFiniteSet(h.done) /\ h.before \in Nat
    /\ StepsFit(steps, h.at, settled, keys, g, registry)
    /\ AllDone(steps, h.at, settled, registry) = PlacesOfGraph(g, registry)

GraphOf(k) == IF k = 1 THEN graph ELSE graphs[call_stack[k]]
KeysHere(k) == KeysIn(node_values, tuple_values, tuple_scope_stack[k])

\* What will be done when the graph goes on.
Settled(H, k) ==
    IF k < Len(todo) THEN H[k].done \cup PlacesOfCall(call_stack[k + 1], H[k].call, graphs)
    ELSE H[k].done

Waits(h, next) ==
    IsSeq(h.call) /\ Bare(h.call, h.done) /\ next.before = h.before + Cardinality(h.done)

SharingFrames(H) ==
    /\ \A k \in 1..Len(todo) :
         FrameFits(todo[k], H[k], Settled(H, k), KeysHere(k), GraphOf(k), graphs)
    /\ \A k \in 1..Len(todo) : k < Len(todo) => Waits(H[k], H[k + 1])
    /\ H[1].before = 0
    /\ Len(block) = H[Len(todo)].before + Cardinality(H[Len(todo)].done)

SharingInv ==
    /\ status # "idle" => \E p \in Programs : graph = p.graph /\ graphs = p.graphs
    /\ status = "idle" => block = << >>
    /\ status = "lowering" => IsSeq(block) /\ \E H : SharingFrames(H)
    /\ SharedWorkIsEmittedOnce

\* The innermost frame.
LEMMA TopFits ==
    ASSUME LowererInv, status = "lowering", NEW H, SharingFrames(H), NEW n, n = Len(todo)
    PROVE  /\ n \in Nat \ {0} /\ Todo = todo[n] /\ current_tuple_scope = tuple_scope_stack[n]
           /\ FrameFits(todo[n], H[n], H[n].done, KeysHere(n), GraphOf(n), graphs)
           /\ Len(block) = H[n].before + Cardinality(H[n].done)
           /\ Todo # << >> => /\ Top = Head(todo[n])
                              /\ StepFits(Top, Head(H[n].at), H[n].done, KeysHere(n), GraphOf(n), graphs)
<1>1. n \in Nat \ {0} /\ Todo = todo[n] /\ current_tuple_scope = tuple_scope_stack[n] /\ n \in 1..Len(todo)
  <2>1. n \in Nat \ {0} /\ Todo = todo[n] /\ current_tuple_scope = tuple_scope_stack[n]
    BY TopIsScoped
  <2> QED
    BY <2>1
<1>2. Settled(H, n) = H[n].done
  BY <1>1 DEF Settled
<1>3. FrameFits(todo[n], H[n], H[n].done, KeysHere(n), GraphOf(n), graphs)
  BY <1>1, <1>2 DEF SharingFrames
<1>4. Len(block) = H[n].before + Cardinality(H[n].done)
  BY DEF SharingFrames
<1>5. ASSUME Todo # << >>
      PROVE  /\ Top = Head(todo[n])
             /\ StepFits(Top, Head(H[n].at), H[n].done, KeysHere(n), GraphOf(n), graphs)
  <2>1. PICK steps, at, done, keys, g : /\ steps = todo[n] /\ at = H[n].at /\ done = H[n].done
                                        /\ keys = KeysHere(n) /\ g = GraphOf(n)
    OBVIOUS
  <2>2. Top = Head(steps) /\ steps # << >>
    BY <1>1, <1>5, <2>1 DEF Top
  <2>3. StepsFit(steps, at, done, keys, g, graphs)
    BY <1>3, <2>1 DEF FrameFits
  <2>4. PICK more, kept : /\ more = done \cup PlacesAt(Head(steps), Head(at), graphs)
                          /\ kept = keys \cup KeysAt(Head(steps))
    OBVIOUS
  <2>5. /\ StepFits(Head(steps), Head(at), done, keys, g, graphs)
        /\ StepsFit(Tail(steps), Tail(at), more, kept, g, graphs)
        /\ AllDone(Tail(steps), Tail(at), more, graphs) = AllDone(steps, at, done, graphs)
    BY <2>2, <2>3, <2>4, StepsFitOn
  <2> QED
    BY <2>1, <2>2, <2>5
<1> QED
  BY <1>1, <1>3, <1>4, <1>5

\* Only the innermost frame changes.
LEMMA TopGoesOn ==
    ASSUME LowererInv, status = "lowering", NEW H, SharingFrames(H), NEW n, n = Len(todo),
           UNCHANGED <<graph, graphs, call_stack, tuple_scope_stack>>,
           NEW steps, IsChanged(todo', todo, n, steps),
           \A k \in 1..n : k # n => KeysHere(k)' = KeysHere(k),
           NEW h, h.before = H[n].before,
           FrameFits(steps, h, h.done, KeysHere(n)', GraphOf(n), graphs),
           Len(block') = h.before + Cardinality(h.done)
    PROVE  \E H1 : SharingFrames(H1)'
<1>1. n \in Nat \ {0}
  BY TopFits
<1>2. Len(todo') = n /\ todo'[n] = steps /\ \A k \in 1..n : k # n => todo'[k] = todo[k]
  BY <1>1 DEF IsChanged
<1>3. PICK H1 : H1 = [k \in 1..n |-> IF k = n THEN h ELSE H[k]]
  OBVIOUS
<1>4. H1[n] = h /\ \A k \in 1..n : k # n => H1[k] = H[k]
  BY <1>1, <1>3
<1>5. \A k : GraphOf(k)' = GraphOf(k)
  BY DEF GraphOf
<1>6. graphs' = graphs /\ call_stack' = call_stack
  OBVIOUS
<1>7. Settled(H1, n)' = h.done
  BY <1>1, <1>2, <1>4 DEF Settled
<1>8. ASSUME NEW k \in 1..n, k # n PROVE Settled(H1, k)' = Settled(H, k)
  BY <1>2, <1>4, <1>6, <1>8 DEF Settled
<1>9. ASSUME NEW k \in 1..n
      PROVE  FrameFits(todo'[k], H1[k], Settled(H1, k)', KeysHere(k)', GraphOf(k)', graphs')
  <2>1. CASE k = n
    BY <1>2, <1>4, <1>5, <1>6, <1>7, <2>1
  <2>2. CASE k # n
    <3>1. FrameFits(todo[k], H[k], Settled(H, k), KeysHere(k), GraphOf(k), graphs)
      BY DEF SharingFrames
    <3>2. /\ todo'[k] = todo[k] /\ H1[k] = H[k] /\ Settled(H1, k)' = Settled(H, k)
          /\ KeysHere(k)' = KeysHere(k) /\ GraphOf(k)' = GraphOf(k) /\ graphs' = graphs
      BY <1>2, <1>4, <1>5, <1>6, <1>8, <2>2
    <3> QED
      BY <3>1, <3>2
  <2> QED
    BY <2>1, <2>2
<1>10. \A k \in 1..n : H1[k].before = H[k].before
  BY <1>4
<1>11. ASSUME NEW k \in 1..n, k < n PROVE Waits(H1[k], H1[k + 1])
  <2>1. Waits(H[k], H[k + 1])
    BY <1>11 DEF SharingFrames
  <2>2. H1[k] = H[k] /\ k + 1 \in 1..n
    BY <1>1, <1>4, <1>11
  <2>3. H1[k + 1].before = H[k + 1].before
    BY <1>10, <2>2
  <2> QED
    BY <2>1, <2>2, <2>3 DEF Waits
<1>12. H1[1].before = 0
  BY <1>1, <1>10 DEF SharingFrames
<1>13. Len(block') = H1[n].before + Cardinality(H1[n].done)
  BY <1>4
<1>14. SharingFrames(H1)'
  BY <1>2, <1>9, <1>11, <1>12, <1>13 DEF SharingFrames
<1> QED
  BY <1>14

\* The step at the top is done: its places are done and its keys are kept.
LEMMA TopIsDone ==
    ASSUME LowererInv, status = "lowering", Todo # << >>, StepDone, NEW H, SharingFrames(H),
           NEW n, n = Len(todo), UNCHANGED <<graph, graphs, call_stack, tuple_scope_stack>>,
           \A k \in 1..n : k # n => KeysHere(k)' = KeysHere(k),
           KeysHere(n)' = KeysHere(n) \cup KeysAt(Top),
           NEW more, more = H[n].done \cup PlacesAt(Top, Head(H[n].at), graphs), IsFiniteSet(more),
           Len(block') = H[n].before + Cardinality(more)
    PROVE  \E H1 : SharingFrames(H1)'
<1>1. PICK steps, at, done, keys, g : /\ steps = todo[n] /\ at = H[n].at /\ done = H[n].done
                                      /\ keys = KeysHere(n) /\ g = GraphOf(n)
  OBVIOUS
<1>2. /\ n \in Nat \ {0} /\ FrameFits(steps, H[n], done, keys, g, graphs)
      /\ Top = Head(steps) /\ steps # << >>
  BY <1>1, TopFits
<1>3. StepsFit(steps, at, done, keys, g, graphs)
  BY <1>1, <1>2 DEF FrameFits
<1>4. PICK kept : kept = keys \cup KeysAt(Head(steps))
  OBVIOUS
<1>5. more = done \cup PlacesAt(Head(steps), Head(at), graphs)
  BY <1>1, <1>2
<1>6. /\ StepFits(Head(steps), Head(at), done, keys, g, graphs)
      /\ StepsFit(Tail(steps), Tail(at), more, kept, g, graphs)
      /\ AllDone(Tail(steps), Tail(at), more, graphs) = AllDone(steps, at, done, graphs)
  BY <1>2, <1>3, <1>4, <1>5, StepsFitOn
<1>7. PICK rest : rest = Tail(steps)
  OBVIOUS
<1>8. PICK h : h = [at |-> Tail(at), done |-> more, before |-> H[n].before, call |-> << >>]
  OBVIOUS
<1>9. h.at = Tail(at) /\ h.done = more /\ h.before = H[n].before
  BY <1>8
<1>10. FrameFits(rest, h, h.done, kept, g, graphs)
  BY <1>1, <1>2, <1>6, <1>7, <1>9 DEF FrameFits
<1>11. KeysHere(n)' = kept
  BY <1>1, <1>2, <1>4
<1>12. FrameFits(rest, h, h.done, KeysHere(n)', GraphOf(n), graphs)
  BY <1>1, <1>10, <1>11
<1>13. IsChanged(todo', todo, n, rest)
  BY <1>1, <1>7, TodoIs
<1> QED
  BY <1>9, <1>12, <1>13, TopGoesOn

\* The step at the top is replaced by others.
LEMMA TopExpands ==
    ASSUME LowererInv, status = "lowering", Todo # << >>, NEW H, SharingFrames(H),
           NEW n, n = Len(todo), UNCHANGED <<graph, graphs, call_stack, tuple_scope_stack>>,
           UNCHANGED caches, block' = block, NEW R, IsSeq(R), Continue(R),
           \E RQ : Expands(R, RQ, Top, Head(H[n].at), H[n].done, KeysHere(n), GraphOf(n), graphs)
    PROVE  \E H1 : SharingFrames(H1)'
<1>1. PICK steps, at, done, keys, g : /\ steps = todo[n] /\ at = H[n].at /\ done = H[n].done
                                      /\ keys = KeysHere(n) /\ g = GraphOf(n)
  OBVIOUS
<1>2. /\ n \in Nat \ {0} /\ FrameFits(steps, H[n], done, keys, g, graphs)
      /\ Top = Head(steps) /\ steps # << >>
      /\ Len(block) = H[n].before + Cardinality(H[n].done)
  BY <1>1, TopFits
<1>3. StepsFit(steps, at, done, keys, g, graphs)
  BY <1>1, <1>2 DEF FrameFits
<1>4. PICK RQ : Expands(R, RQ, Head(steps), Head(at), done, keys, g, graphs)
  BY <1>1, <1>2
<1>5. /\ StepsFit(R \o Tail(steps), RQ \o Tail(at), done, keys, g, graphs)
      /\ AllDone(R \o Tail(steps), RQ \o Tail(at), done, graphs) = AllDone(steps, at, done, graphs)
  BY <1>2, <1>3, <1>4, ReplaceFits
<1>6. PICK rest : rest = R \o Tail(steps)
  OBVIOUS
<1>7. PICK h : h = [at |-> RQ \o Tail(at), done |-> done, before |-> H[n].before, call |-> << >>]
  OBVIOUS
<1>8. h.at = RQ \o Tail(at) /\ h.done = done /\ h.before = H[n].before
  BY <1>7
<1>9. FrameFits(rest, h, h.done, keys, g, graphs)
  BY <1>1, <1>2, <1>5, <1>6, <1>8 DEF FrameFits
<1>10. \A k : KeysHere(k)' = KeysHere(k)
  BY DEF KeysHere, caches
<1>11. FrameFits(rest, h, h.done, KeysHere(n)', GraphOf(n), graphs)
  BY <1>1, <1>9, <1>10
<1>12. IsChanged(todo', todo, n, rest)
  BY <1>1, <1>6, TodoIs
<1>13. Len(block') = h.before + Cardinality(h.done)
  BY <1>1, <1>2, <1>8
<1> QED
  BY <1>8, <1>10, <1>11, <1>12, <1>13, TopGoesOn

------------------------------------------------------------------------------
(* The steps of an expression *)

\* What a step of lowering must show.
LEMMA SharingGoesOn ==
    ASSUME SharingInv, status = "lowering", UNCHANGED <<status, graph, graphs>>, IsSeq(block'),
           \E H : SharingFrames(H)'
    PROVE  SharingInv'
<1>1. status' = "lowering" /\ graph' = graph /\ graphs' = graphs
  OBVIOUS
<1>2. \E p \in Programs : graph' = p.graph /\ graphs' = p.graphs
  BY <1>1 DEF SharingInv
<1>3. SharedWorkIsEmittedOnce'
  BY <1>1 DEF SharedWorkIsEmittedOnce
<1> QED
  BY <1>1, <1>2, <1>3 DEF SharingInv

\* A step that needs nothing that is not done, and keeps nothing more.
AddsNothing ==
    \A H : SharingFrames(H) =>
        /\ PlacesAt(Top, Head(H[Len(todo)].at), graphs) \subseteq H[Len(todo)].done
        /\ KeysAt(Top) \subseteq KeysHere(Len(todo))

\* Such a step leaves what its graph has done and kept as it is.
LEMMA NothingMore ==
    ASSUME LowererInv, SharingInv, status = "lowering", Todo # << >>, StepDone,
           UNCHANGED <<status, graph, graphs, call_stack, tuple_scope_stack>>,
           UNCHANGED caches, block' = block, AddsNothing
    PROVE  SharingInv'
<1>1. IsSeq(block) /\ \E H : SharingFrames(H)
  BY DEF SharingInv
<1>2. PICK H : SharingFrames(H)
  BY <1>1
<1>3. PICK n : n = Len(todo)
  OBVIOUS
<1>4. /\ FrameFits(todo[n], H[n], H[n].done, KeysHere(n), GraphOf(n), graphs)
      /\ Len(block) = H[n].before + Cardinality(H[n].done)
  BY <1>2, <1>3, TopFits
<1>5. PICK more : more = H[n].done \cup PlacesAt(Top, Head(H[n].at), graphs)
  OBVIOUS
<1>6. more = H[n].done /\ KeysHere(n) \cup KeysAt(Top) = KeysHere(n)
  BY <1>2, <1>3, <1>5 DEF AddsNothing
<1>7. IsFiniteSet(more)
  BY <1>4, <1>6 DEF FrameFits
<1>8. \A k : KeysHere(k)' = KeysHere(k)
  BY DEF KeysHere, caches
<1>9. KeysHere(n)' = KeysHere(n) \cup KeysAt(Top)
  BY <1>6, <1>8
<1>10. Len(block') = H[n].before + Cardinality(more)
  BY <1>4, <1>6
<1>11. \E H1 : SharingFrames(H1)'
  BY <1>2, <1>3, <1>5, <1>7, <1>8, <1>9, <1>10, TopIsDone
<1> QED
  BY <1>1, <1>11, SharingGoesOn

\* A step that emits one operation, at its place, and keeps nothing.
EmitsOne ==
    /\ KeysAt(Top) = {}
    /\ \A H : SharingFrames(H) =>
         LET p == Head(H[Len(todo)].at)
         IN  PlacesAt(Top, p, graphs) = {p} /\ p \notin H[Len(todo)].done

\* Such a step adds its place to those that are done.
LEMMA OneMore ==
    ASSUME LowererInv, SharingInv, status = "lowering", Todo # << >>, StepDone,
           UNCHANGED <<status, graph, graphs, call_stack, tuple_scope_stack>>,
           UNCHANGED caches, NEW operation, block' = Append(block, operation), EmitsOne
    PROVE  SharingInv'
<1>1. IsSeq(block) /\ \E H : SharingFrames(H)
  BY DEF SharingInv
<1>2. PICK H : SharingFrames(H)
  BY <1>1
<1>3. PICK n : n = Len(todo)
  OBVIOUS
<1>4. /\ FrameFits(todo[n], H[n], H[n].done, KeysHere(n), GraphOf(n), graphs)
      /\ Len(block) = H[n].before + Cardinality(H[n].done)
  BY <1>2, <1>3, TopFits
<1>5. PICK p, done, before : p = Head(H[n].at) /\ done = H[n].done /\ before = H[n].before
  OBVIOUS
<1>6. PICK more : more = done \cup PlacesAt(Top, p, graphs)
  OBVIOUS
<1>7. more = done \cup {p} /\ p \notin done /\ KeysAt(Top) = {}
  BY <1>2, <1>3, <1>5, <1>6 DEF EmitsOne
<1>8. IsFiniteSet(done) /\ before \in Nat
  BY <1>4, <1>5 DEF FrameFits
<1>9. /\ IsFiniteSet(more) /\ Cardinality(done) \in Nat
      /\ Cardinality(more) = Cardinality(done) + 1
  BY <1>7, <1>8, OneMorePlace
<1>10. IsSeq(block') /\ Len(block') = Len(block) + 1
  BY <1>1, AppendIsSeq
<1>11. Len(block') = before + Cardinality(more)
  BY <1>4, <1>5, <1>8, <1>9, <1>10
<1>12. \A k : KeysHere(k)' = KeysHere(k)
  BY DEF KeysHere, caches
<1>13. KeysHere(n)' = KeysHere(n) \cup KeysAt(Top)
  BY <1>7, <1>12
<1>14. \E H1 : SharingFrames(H1)'
  BY <1>2, <1>3, <1>5, <1>6, <1>9, <1>11, <1>12, <1>13, TopIsDone
<1> QED
  BY <1>10, <1>14, SharingGoesOn

\* A step that is replaced.
ExpandsTo(R) ==
    /\ IsSeq(R)
    /\ \A H : SharingFrames(H) =>
         \E RQ : Expands(R, RQ, Top, Head(H[Len(todo)].at), H[Len(todo)].done, KeysHere(Len(todo)),
                         GraphOf(Len(todo)), graphs)

\* Such a step leaves to its graph the same places.
LEMMA StepExpands ==
    ASSUME LowererInv, SharingInv, status = "lowering", Todo # << >>,
           UNCHANGED <<status, graph, graphs, call_stack, tuple_scope_stack>>,
           UNCHANGED caches, block' = block, NEW R, Continue(R), ExpandsTo(R)
    PROVE  SharingInv'
<1>1. IsSeq(block) /\ \E H : SharingFrames(H)
  BY DEF SharingInv
<1>2. PICK H : SharingFrames(H)
  BY <1>1
<1>3. PICK n : n = Len(todo)
  OBVIOUS
<1>4. /\ IsSeq(R)
      /\ \E RQ : Expands(R, RQ, Top, Head(H[n].at), H[n].done, KeysHere(n), GraphOf(n), graphs)
  BY <1>2, <1>3 DEF ExpandsTo
<1>5. \E H1 : SharingFrames(H1)'
  BY <1>2, <1>3, <1>4, TopExpands
<1> QED
  BY <1>1, <1>5, SharingGoesOn

\* The step at the top, at its place.
LEMMA TopFitsAt ==
    ASSUME LowererInv, status = "lowering", Todo # << >>, NEW H, SharingFrames(H),
           NEW n, n = Len(todo), NEW p, p = Head(H[n].at)
    PROVE  /\ StepFits(Top, p, H[n].done, KeysHere(n), GraphOf(n), graphs)
           /\ IsGraph(GraphOf(n)) /\ IsShared(GraphOf(n)) /\ IsPlain(GraphOf(n))
<1>1. StepFits(Top, Head(H[n].at), H[n].done, KeysHere(n), GraphOf(n), graphs)
  BY TopFits
<1>2. FrameFits(todo[n], H[n], H[n].done, KeysHere(n), GraphOf(n), graphs)
  BY TopFits
<1> QED
  BY <1>1, <1>2 DEF FrameFits

\* What an expression at the top fits.
LEMMA ExprFitsAt ==
    ASSUME LowererInv, status = "lowering", Todo # << >>, NEW H, SharingFrames(H),
           Top.step = "lower_expr", NEW e, e = Top.expr,
           NEW n, n = Len(todo), NEW p, p = Head(H[n].at)
    PROVE  /\ ExprFits(e, p, H[n].done, KeysHere(n), GraphOf(n), graphs) /\ e \in Exprs
           /\ PlacesAt(Top, p, graphs) = PlacesOf(e, p, graphs) /\ KeysAt(Top) = SharedPlaces(e)
<1>1. ExprFits(e, p, H[n].done, KeysHere(n), GraphOf(n), graphs)
  BY TopFitsAt DEF StepFits
<1>2. PlacesAt(Top, p, graphs) = PlacesOf(e, p, graphs) /\ KeysAt(Top) = SharedPlaces(e)
  BY DEF PlacesAt, KeysAt
<1> QED
  BY <1>1, <1>2 DEF ExprFits

\* Names and constants share nothing.
LEMMA LeafSharesNothing ==
    ASSUME NEW e \in Exprs, e.kind \in {"Var", "Const"}
    PROVE  SharedPlaces(e) = {}
<1>1. ASSUME NEW x \in SharedIn(e) PROVE FALSE
  <2>1. x \in Parts[e] /\ x.kind \in {"Node", "TupleGet"}
    BY DEF SharedIn
  <2>2. x = e \/ \E y \in Children(e) : x \in Parts[y]
    BY <2>1, ExprsAssumption
  <2>3. Children(e) = {}
    BY DEF Children
  <2> QED
    BY <2>1, <2>2, <2>3
<1> QED
  BY <1>1 DEF SharedPlaces

\* LowerVar.
LEMMA VarSharing ==
    ASSUME PlacesRules, LowererInv, SharingInv, LowerVar
    PROVE  SharingInv'
<1>1. /\ status = "lowering" /\ Todo # << >> /\ Top.step = "lower_expr" /\ Top.expr.kind = "Var"
      /\ StepDone /\ UNCHANGED caches /\ block' = block
      /\ UNCHANGED <<status, graph, graphs, call_stack, tuple_scope_stack>>
  BY DEF LowerVar, AtExpr, At, Return, Unscoped, scopes
<1>2. ASSUME NEW H, SharingFrames(H)
      PROVE  /\ PlacesAt(Top, Head(H[Len(todo)].at), graphs) \subseteq H[Len(todo)].done
             /\ KeysAt(Top) \subseteq KeysHere(Len(todo))
  <2>1. PICK p, e : p = Head(H[Len(todo)].at) /\ e = Top.expr
    OBVIOUS
  <2>2. /\ e \in Exprs /\ e.kind = "Var"
        /\ PlacesAt(Top, p, graphs) = PlacesOf(e, p, graphs) /\ KeysAt(Top) = SharedPlaces(e)
    BY <1>1, <1>2, <2>1, ExprFitsAt
  <2>3. PlacesOf(e, p, graphs) = {}
    BY <2>2, PlacesAre
  <2>4. SharedPlaces(e) = {}
    BY <2>2, LeafSharesNothing
  <2> QED
    BY <2>1, <2>2, <2>3, <2>4
<1>3. AddsNothing
  BY <1>2 DEF AddsNothing
<1> QED
  BY <1>1, <1>3, NothingMore

\* LowerConst.
LEMMA ConstSharing ==
    ASSUME PlacesRules, LowererInv, SharingInv, LowerConst
    PROVE  SharingInv'
<1>1. /\ status = "lowering" /\ Todo # << >> /\ Top.step = "lower_expr" /\ Top.expr.kind = "Const"
      /\ StepDone /\ UNCHANGED caches /\ block' = Append(block, Call(Top.expr.value, << >>))
      /\ UNCHANGED <<status, graph, graphs, call_stack, tuple_scope_stack>>
  BY DEF LowerConst, AtExpr, At, Return, Unscoped, scopes
<1>2. PICK operation : operation = Call(Top.expr.value, << >>)
  OBVIOUS
<1>3. ASSUME NEW H, SharingFrames(H), NEW p, p = Head(H[Len(todo)].at)
      PROVE  PlacesAt(Top, p, graphs) = {p} /\ p \notin H[Len(todo)].done /\ KeysAt(Top) = {}
  <2>1. PICK e : e = Top.expr
    OBVIOUS
  <2>2. /\ e \in Exprs /\ e.kind = "Const"
        /\ ExprFits(e, p, H[Len(todo)].done, KeysHere(Len(todo)), GraphOf(Len(todo)), graphs)
        /\ PlacesAt(Top, p, graphs) = PlacesOf(e, p, graphs) /\ KeysAt(Top) = SharedPlaces(e)
    BY <1>1, <1>3, <2>1, ExprFitsAt
  <2>3. PlacesOf(e, p, graphs) = {p}
    BY <2>2, PlacesAre
  <2>4. SharedPlaces(e) = {}
    BY <2>2, LeafSharesNothing
  <2>5. IsSeq(p) /\ Fresh(p, H[Len(todo)].done)
    BY <2>2 DEF ExprFits, IsPlace
  <2>6. Extends(p, p)
    BY <2>5, ExtendsSelf
  <2>7. p \notin H[Len(todo)].done
    BY <2>5, <2>6 DEF Fresh
  <2> QED
    BY <2>2, <2>3, <2>4, <2>7
<1>4. KeysAt(Top) = {}
  <2>1. \E H : SharingFrames(H)
    BY <1>1 DEF SharingInv
  <2> QED
    BY <1>3, <2>1
<1>5. EmitsOne
  BY <1>3, <1>4 DEF EmitsOne
<1>6. block' = Append(block, operation)
  BY <1>1, <1>2
<1> QED
  BY <1>1, <1>5, <1>6, OneMore

\* LowerCall.
LEMMA CallSharing ==
    ASSUME PlacesRules, LowererInv, SharingInv, LowerCall
    PROVE  SharingInv'
<1>1. PICK R : R = Append(CallSteps(Top.expr), [step |-> "single"])
  OBVIOUS
<1>2. /\ status = "lowering" /\ Todo # << >> /\ Top.step = "lower_expr"
      /\ Top.expr.kind \in {"Call", "Graph"}
      /\ Continue(R) /\ UNCHANGED caches /\ block' = block
      /\ UNCHANGED <<status, graph, graphs, call_stack, tuple_scope_stack>>
  BY <1>1 DEF LowerCall, AtExpr, At, Unscoped, scopes
<1>3. Top.expr \in Exprs
  BY <1>2, TopIsScoped DEF ScopedStep
<1>4. IsSeq(R)
  BY <1>1, <1>2, <1>3, CallStepsAre, AppendIsSeq
<1>5. ASSUME NEW H, SharingFrames(H)
      PROVE  \E RQ : Expands(R, RQ, Top, Head(H[Len(todo)].at), H[Len(todo)].done,
                             KeysHere(Len(todo)), GraphOf(Len(todo)), graphs)
  <2>1. PICK n, p, e, s, g, keys, done :
          /\ n = Len(todo) /\ p = Head(H[n].at) /\ e = Top.expr /\ s = Top /\ g = GraphOf(n)
          /\ keys = KeysHere(n) /\ done = H[n].done
    OBVIOUS
  <2>2. StepFits(s, p, done, keys, g, graphs) /\ IsShared(g)
    BY <1>2, <1>5, <2>1, TopFitsAt
  <2>3. \E RQ : Expands(R, RQ, s, p, done, keys, g, graphs)
    BY <1>1, <1>2, <1>3, <2>1, <2>2, CallExpands
  <2> QED
    BY <2>1, <2>3
<1>6. ExpandsTo(R)
  BY <1>4, <1>5 DEF ExpandsTo
<1> QED
  BY <1>2, <1>6, StepExpands

\* A node or tuple that is kept adds nothing.
LEMMA KeptAddsNothing ==
    ASSUME PlacesRules, LowererInv, status = "lowering", Todo # << >>, Top.step = "lower_expr",
           Top.expr.kind \in {"Node", "TupleGet"}, NEW n, n = Len(todo),
           SharedPlace(Top.expr) \in KeysHere(n)
    PROVE  AddsNothing
<1>1. ASSUME NEW H, SharingFrames(H)
      PROVE  /\ PlacesAt(Top, Head(H[Len(todo)].at), graphs) \subseteq H[Len(todo)].done
             /\ KeysAt(Top) \subseteq KeysHere(Len(todo))
  <2>1. PICK p, e : p = Head(H[n].at) /\ e = Top.expr
    OBVIOUS
  <2>2. PICK g, keys, done : g = GraphOf(n) /\ keys = KeysHere(n) /\ done = H[n].done
    OBVIOUS
  <2>3. ExprFits(e, p, done, keys, g, graphs) /\ e \in Exprs
    BY <1>1, <2>1, <2>2, ExprFitsAt
  <2>4. PlacesAt(Top, p, graphs) = PlacesOf(e, p, graphs) /\ KeysAt(Top) = SharedPlaces(e)
    BY <1>1, <2>1, ExprFitsAt
  <2>5. e.kind \in {"Node", "TupleGet"} /\ SharedPlace(e) \in keys
    BY <2>1, <2>2
  <2>6. PlacesOf(e, p, graphs) \subseteq done /\ SharedPlaces(e) \subseteq keys
    BY <2>3, <2>5, KeptIsDone
  <2> QED
    BY <2>1, <2>2, <2>4, <2>6
<1> QED
  BY <1>1 DEF AddsNothing

\* A node or tuple that is not kept: its value, and the step that keeps it.
LEMMA NewlyShared ==
    ASSUME PlacesRules, LowererInv, status = "lowering", Todo # << >>, Top.step = "lower_expr",
           NEW e, e = Top.expr, e.kind \in {"Node", "TupleGet"}, NEW n, n = Len(todo),
           SharedPlace(e) \notin KeysHere(n),
           NEW keep, keep.step \in {"keep_node", "keep_tuple"},
           keep.key = <<keep.key[1], keep.key[2]>>, KeysAt(keep) = {SharedPlace(e)},
           NEW R, R = IF e.kind = "Node" THEN <<LowerExpr(e.value), keep>>
                      ELSE <<LowerLetValues(e.value), keep>>
    PROVE  ExpandsTo(R)
<1>1. IsSeq(R)
  <2>1. PICK t : R = <<t, keep>>
    OBVIOUS
  <2> QED
    BY <2>1, PairIsSeq
<1>2. ASSUME NEW H, SharingFrames(H)
      PROVE  \E RQ : Expands(R, RQ, Top, Head(H[Len(todo)].at), H[Len(todo)].done,
                             KeysHere(Len(todo)), GraphOf(Len(todo)), graphs)
  <2>1. PICK p, s, g, keys, done :
          /\ p = Head(H[n].at) /\ s = Top /\ g = GraphOf(n)
          /\ keys = KeysHere(n) /\ done = H[n].done
    OBVIOUS
  <2>2. StepFits(s, p, done, keys, g, graphs) /\ IsShared(g) /\ IsPlain(g)
    BY <1>2, <2>1, TopFitsAt
  <2>3. e \in Exprs
    BY TopIsScoped DEF ScopedStep
  <2>4. StepFits(keep, p, {}, {}, g, graphs)
    BY DEF StepFits
  <2>5. s.step = "lower_expr" /\ s.expr = e /\ SharedPlace(e) \notin keys
    BY <2>1
  <2>6. \E RQ : Expands(R, RQ, s, p, done, keys, g, graphs)
    BY <2>2, <2>3, <2>4, <2>5, SharedExpands
  <2> QED
    BY <2>1, <2>6
<1> QED
  BY <1>1, <1>2 DEF ExpandsTo

\* LowerNode: once in each call of its graph.
LEMMA NodeSharing ==
    ASSUME PlacesRules, LowererInv, SharingInv, LowerNode
    PROVE  SharingInv'
<1>1. PICK e, key, n : e = Top.expr /\ key = <<current_tuple_scope, e.node_id>> /\ n = Len(todo)
  OBVIOUS
<1>2. /\ status = "lowering" /\ Todo # << >> /\ Top.step = "lower_expr" /\ e.kind = "Node"
      /\ UNCHANGED caches /\ block' = block
      /\ UNCHANGED <<status, graph, graphs, call_stack, tuple_scope_stack>>
      /\ IF key \in DOMAIN node_values
         THEN StepDone
         ELSE Continue(<<LowerExpr(e.value), [step |-> "keep_node", key |-> key]>>)
  BY <1>1 DEF LowerNode, AtExpr, At, Return, Unscoped, scopes, scoped_key
<1>3. PICK scope : scope = tuple_scope_stack[n]
  OBVIOUS
<1>4. key = <<scope, e.node_id>>
  BY <1>1, <1>2, <1>3, TopIsScoped
<1>5. SharedPlace(e) = <<2, e.node_id>>
  BY <1>2 DEF SharedPlace
<1>6. SharedPlace(e) \in KeysHere(n) <=> key \in DOMAIN node_values
  <2>1. <<2, e.node_id>> \in KeysIn(node_values, tuple_values, scope)
          <=> <<scope, e.node_id>> \in DOMAIN node_values
    BY KeptAt
  <2> QED
    BY <1>3, <1>4, <1>5, <2>1 DEF KeysHere
<1>7. CASE key \in DOMAIN node_values
  <2>1. AddsNothing
    BY <1>1, <1>2, <1>6, <1>7, KeptAddsNothing
  <2> QED
    BY <1>2, <1>7, <2>1, NothingMore
<1>8. CASE key \notin DOMAIN node_values
  <2>1. PICK keep : keep = [step |-> "keep_node", key |-> key]
    OBVIOUS
  <2>2. keep.step = "keep_node" /\ keep.key = key
    BY <2>1
  <2>3. key[1] = scope /\ key[2] = e.node_id
    BY <1>4
  <2>4. keep.key = <<keep.key[1], keep.key[2]>>
    BY <1>4, <2>2, <2>3
  <2>5. KeysAt(keep) = {SharedPlace(e)}
    BY <1>5, <2>2, <2>3 DEF KeysAt
  <2>6. PICK R : R = <<LowerExpr(e.value), keep>>
    OBVIOUS
  <2>7. Continue(R)
    BY <1>2, <1>8, <2>1, <2>6
  <2>8. ExpandsTo(R)
    BY <1>1, <1>2, <1>6, <1>8, <2>2, <2>4, <2>5, <2>6, NewlyShared
  <2> QED
    BY <1>2, <2>7, <2>8, StepExpands
<1> QED
  BY <1>7, <1>8

\* LowerTupleGet: the tuple once in each call of its graph.
LEMMA TupleGetSharing ==
    ASSUME PlacesRules, LowererInv, SharingInv, LowerTupleGet
    PROVE  SharingInv'
<1>1. PICK e, key, n : e = Top.expr /\ key = <<current_tuple_scope, e.tuple_id>> /\ n = Len(todo)
  OBVIOUS
<1>2. /\ status = "lowering" /\ Todo # << >> /\ Top.step = "lower_expr" /\ e.kind = "TupleGet"
      /\ UNCHANGED caches /\ block' = block
      /\ UNCHANGED <<status, graph, graphs, call_stack, tuple_scope_stack>>
      /\ IF key \in DOMAIN tuple_values
         THEN StepDone
         ELSE Continue(<<LowerLetValues(e.value), [step |-> "keep_tuple", key |-> key, index |-> e.index]>>)
  BY <1>1 DEF LowerTupleGet, AtExpr, At, Return, Unscoped, scopes, scoped_key
<1>3. PICK scope : scope = tuple_scope_stack[n]
  OBVIOUS
<1>4. key = <<scope, e.tuple_id>>
  BY <1>1, <1>2, <1>3, TopIsScoped
<1>5. SharedPlace(e) = <<3, e.tuple_id>>
  BY <1>2 DEF SharedPlace
<1>6. SharedPlace(e) \in KeysHere(n) <=> key \in DOMAIN tuple_values
  <2>1. <<3, e.tuple_id>> \in KeysIn(node_values, tuple_values, scope)
          <=> <<scope, e.tuple_id>> \in DOMAIN tuple_values
    BY KeptAt
  <2> QED
    BY <1>3, <1>4, <1>5, <2>1 DEF KeysHere
<1>7. CASE key \in DOMAIN tuple_values
  <2>1. AddsNothing
    BY <1>1, <1>2, <1>6, <1>7, KeptAddsNothing
  <2> QED
    BY <1>2, <1>7, <2>1, NothingMore
<1>8. CASE key \notin DOMAIN tuple_values
  <2>1. PICK keep : keep = [step |-> "keep_tuple", key |-> key, index |-> e.index]
    OBVIOUS
  <2>2. keep.step = "keep_tuple" /\ keep.key = key
    BY <2>1
  <2>3. key[1] = scope /\ key[2] = e.tuple_id
    BY <1>4
  <2>4. keep.key = <<keep.key[1], keep.key[2]>>
    BY <1>4, <2>2, <2>3
  <2>5. KeysAt(keep) = {SharedPlace(e)}
    BY <1>5, <2>2, <2>3 DEF KeysAt
  <2>6. PICK R : R = <<LowerLetValues(e.value), keep>>
    OBVIOUS
  <2>7. Continue(R)
    BY <1>2, <1>8, <2>1, <2>6
  <2>8. ExpandsTo(R)
    BY <1>1, <1>2, <1>6, <1>8, <2>2, <2>4, <2>5, <2>6, NewlyShared
  <2> QED
    BY <1>2, <2>7, <2>8, StepExpands
<1> QED
  BY <1>7, <1>8

\* Scopes of different graphs are different.
LEMMA ScopesDiffer ==
    ASSUME LowererInv, NEW n, n = Len(todo), NEW k \in 1..n, NEW j \in 1..n, j # k
    PROVE  tuple_scope_stack[k] # tuple_scope_stack[j]
<1>1. DOMAIN tuple_scope_stack = 1..n
  BY SeqIsSeq, SeqShape DEF LowererInv, StackTypes, StacksAgree
<1>2. k \in DOMAIN tuple_scope_stack /\ j \in DOMAIN tuple_scope_stack
  BY <1>1
<1> QED
  BY <1>2 DEF LowererInv, CachedScopesAreLive, IsInjective

\* A key more in one of the maps.
KeepsKey ==
    \/ /\ Top.step = "keep_node" /\ tuple_values' = tuple_values
       /\ DOMAIN node_values' = DOMAIN node_values \cup {Top.key}
    \/ /\ Top.step = "keep_tuple" /\ node_values' = node_values
       /\ DOMAIN tuple_values' = DOMAIN tuple_values \cup {Top.key}

\* Such a key is kept in the innermost scope, and changes no other.
LEMMA KeyIsKept ==
    ASSUME LowererInv, status = "lowering", Todo # << >>, NEW n, n = Len(todo), KeepsKey,
           Top.key = <<Top.key[1], Top.key[2]>>, tuple_scope_stack' = tuple_scope_stack
    PROVE  /\ KeysHere(n)' = KeysHere(n) \cup KeysAt(Top)
           /\ \A k \in 1..n : k # n => KeysHere(k)' = KeysHere(k)
<1>1. PICK key, scope, id : key = Top.key /\ scope = tuple_scope_stack[n] /\ id = key[2]
  OBVIOUS
<1>2. key = <<scope, id>>
  <2>1. Top.key[1] = tuple_scope_stack[Len(todo)]
    BY KeyIsInnermost DEF KeepsKey
  <2> QED
    BY <1>1, <2>1
<1>3. PICK nv, tv : nv = node_values' /\ tv = tuple_values'
  OBVIOUS
<1>4. /\ KeysAt(Top) = IF Top.step = "keep_node" THEN {<<2, id>>} ELSE {<<3, id>>}
  BY <1>1 DEF KeysAt, KeepsKey
<1>5. KeysIn(nv, tv, scope) = KeysIn(node_values, tuple_values, scope) \cup KeysAt(Top)
  <2>1. PICK a, b : a = node_values /\ b = tuple_values
    OBVIOUS
  <2>2. OneKept(a, b, scope, id, key)
    BY <1>2, KeepsOne
  <2>3. CASE Top.step = "keep_node"
    <3>1. tv = b /\ DOMAIN nv = DOMAIN a \cup {key}
      BY <1>1, <1>3, <2>1, <2>3 DEF KeepsKey
    <3> QED
      BY <1>4, <2>1, <2>2, <2>3, <3>1 DEF OneKept
  <2>4. CASE Top.step # "keep_node"
    <3>1. nv = a /\ DOMAIN tv = DOMAIN b \cup {key}
      BY <1>1, <1>3, <2>1, <2>4 DEF KeepsKey
    <3> QED
      BY <1>4, <2>1, <2>2, <2>4, <3>1 DEF OneKept
  <2> QED
    BY <2>3, <2>4
<1>6. KeysHere(n)' = KeysHere(n) \cup KeysAt(Top)
  BY <1>1, <1>3, <1>5 DEF KeysHere
<1>7. ASSUME NEW k \in 1..n, k # n PROVE KeysHere(k)' = KeysHere(k)
  <2>1. PICK other : other = tuple_scope_stack[k]
    OBVIOUS
  <2>2. other # scope
    <3>1. n \in 1..n
      BY <1>7
    <3> QED
      BY <1>1, <1>7, <2>1, <3>1, ScopesDiffer
  <2>3. \A i : <<other, i>> # key
    BY <1>2, <2>2
  <2>4. DOMAIN nv \subseteq DOMAIN node_values \cup {key} /\ DOMAIN node_values \subseteq DOMAIN nv
    BY <1>1, <1>3 DEF KeepsKey
  <2>5. DOMAIN tv \subseteq DOMAIN tuple_values \cup {key} /\ DOMAIN tuple_values \subseteq DOMAIN tv
    BY <1>1, <1>3 DEF KeepsKey
  <2>6. KeysIn(nv, tv, other) = KeysIn(node_values, tuple_values, other)
    BY <2>3, <2>4, <2>5, SameKeys
  <2> QED
    BY <1>3, <2>1, <2>6 DEF KeysHere
<1> QED
  BY <1>6, <1>7

\* A step that keeps a node or a tuple.
LEMMA KeepSharing ==
    ASSUME LowererInv, SharingInv, status = "lowering", Todo # << >>, StepDone, KeepsKey,
           UNCHANGED <<status, graph, graphs, call_stack, tuple_scope_stack>>, block' = block
    PROVE  SharingInv'
<1>1. IsSeq(block) /\ \E H : SharingFrames(H)
  BY DEF SharingInv
<1>2. PICK H : SharingFrames(H)
  BY <1>1
<1>3. PICK n : n = Len(todo)
  OBVIOUS
<1>4. /\ FrameFits(todo[n], H[n], H[n].done, KeysHere(n), GraphOf(n), graphs)
      /\ Len(block) = H[n].before + Cardinality(H[n].done)
  BY <1>2, <1>3, TopFits
<1>5. PICK p, more : p = Head(H[n].at) /\ more = H[n].done \cup PlacesAt(Top, Head(H[n].at), graphs)
  OBVIOUS
<1>6. StepFits(Top, p, H[n].done, KeysHere(n), GraphOf(n), graphs)
  BY <1>2, <1>3, <1>5, TopFitsAt
<1>7. Top.step \in {"keep_node", "keep_tuple"}
  BY DEF KeepsKey
<1>8. Top.key = <<Top.key[1], Top.key[2]>>
  BY <1>6, <1>7 DEF StepFits
<1>9. more = H[n].done
  BY <1>5, <1>7 DEF PlacesAt
<1>10. IsFiniteSet(more)
  BY <1>4, <1>9 DEF FrameFits
<1>11. /\ KeysHere(n)' = KeysHere(n) \cup KeysAt(Top)
       /\ \A k \in 1..n : k # n => KeysHere(k)' = KeysHere(k)
  BY <1>3, <1>8, KeyIsKept
<1>12. Len(block') = H[n].before + Cardinality(more)
  BY <1>4, <1>9
<1>13. \E H1 : SharingFrames(H1)'
  BY <1>2, <1>3, <1>5, <1>10, <1>11, <1>12, TopIsDone
<1> QED
  BY <1>1, <1>13, SharingGoesOn

\* KeepNode.
LEMMA KeepNodeSharing ==
    ASSUME LowererInv, SharingInv, KeepNode
    PROVE  SharingInv'
<1>1. /\ status = "lowering" /\ Todo # << >> /\ Top.step = "keep_node" /\ StepDone
      /\ node_values' = MapInsert(node_values, Top.key, Result[1]) /\ tuple_values' = tuple_values
      /\ block' = block /\ UNCHANGED <<status, graph, graphs, call_stack, tuple_scope_stack>>
  BY DEF KeepNode, At, Unscoped, scopes
<1>2. DOMAIN node_values' = DOMAIN node_values \cup {Top.key}
  BY <1>1 DEF MapInsert
<1>3. KeepsKey
  BY <1>1, <1>2 DEF KeepsKey
<1> QED
  BY <1>1, <1>3, KeepSharing

\* KeepTuple.
LEMMA KeepTupleSharing ==
    ASSUME LowererInv, SharingInv, KeepTuple
    PROVE  SharingInv'
<1>1. /\ status = "lowering" /\ Todo # << >> /\ Top.step = "keep_tuple" /\ StepDone
      /\ tuple_values' = MapInsert(tuple_values, Top.key, Result) /\ node_values' = node_values
      /\ block' = block /\ UNCHANGED <<status, graph, graphs, call_stack, tuple_scope_stack>>
  BY DEF KeepTuple, At, Return, Unscoped, scopes
<1>2. DOMAIN tuple_values' = DOMAIN tuple_values \cup {Top.key}
  BY <1>1 DEF MapInsert
<1>3. KeepsKey
  BY <1>1, <1>2 DEF KeepsKey
<1> QED
  BY <1>1, <1>3, KeepSharing

\* CheckSingle and BindValues.
LEMMA PlainSharing ==
    ASSUME LowererInv, SharingInv, CheckSingle \/ BindValues
    PROVE  SharingInv'
<1>1. /\ status = "lowering" /\ Todo # << >> /\ Top.step \in {"single", "bind_values"} /\ StepDone
      /\ UNCHANGED caches /\ block' = block
      /\ UNCHANGED <<status, graph, graphs, call_stack, tuple_scope_stack>>
  BY DEF CheckSingle, BindValues, At, Unscoped, scopes
<1>2. KeysAt(Top) = {} /\ \A p : PlacesAt(Top, p, graphs) = {}
  BY <1>1 DEF KeysAt, PlacesAt
<1>3. AddsNothing
  BY <1>2 DEF AddsNothing
<1> QED
  BY <1>1, <1>3, NothingMore

\* Emit: the operation of a call, at a place where none is yet.
LEMMA EmitSharing ==
    ASSUME LowererInv, SharingInv, Emit
    PROVE  SharingInv'
<1>1. PICK operation : operation = Call(Top.op, Latest(Top.count))
  OBVIOUS
<1>2. /\ status = "lowering" /\ Todo # << >> /\ Top.step = "emit" /\ StepDone
      /\ UNCHANGED caches /\ block' = Append(block, operation)
      /\ UNCHANGED <<status, graph, graphs, call_stack, tuple_scope_stack>>
  BY <1>1 DEF Emit, At, Return, Unscoped, scopes
<1>3. KeysAt(Top) = {} /\ \A p : PlacesAt(Top, p, graphs) = {p}
  BY <1>2 DEF KeysAt, PlacesAt
<1>4. ASSUME NEW H, SharingFrames(H), NEW p, p = Head(H[Len(todo)].at)
      PROVE  p \notin H[Len(todo)].done
  <2>1. StepFits(Top, p, H[Len(todo)].done, KeysHere(Len(todo)), GraphOf(Len(todo)), graphs)
    BY <1>2, <1>4, TopFitsAt
  <2> QED
    BY <1>2, <2>1 DEF StepFits, Bare
<1>5. EmitsOne
  BY <1>3, <1>4 DEF EmitsOne
<1> QED
  BY <1>2, <1>5, OneMore

\* LowerLet.
LEMMA LetSharing ==
    ASSUME LowererInv, SharingInv, LowerLet
    PROVE  SharingInv'
<1>1. PICK names, R : /\ names = Top.binding.names
                      /\ R = <<LowerLetValues(Top.binding.value), [step |-> "bind_values", names |-> names]>>
  OBVIOUS
<1>2. /\ status = "lowering" /\ Todo # << >> /\ Top.step = "let" /\ Continue(R)
      /\ UNCHANGED caches /\ block' = block
      /\ UNCHANGED <<status, graph, graphs, call_stack, tuple_scope_stack>>
  BY <1>1 DEF LowerLet, At, Unscoped, scopes
<1>3. IsSeq(R)
  BY <1>1, PairIsSeq
<1>4. ASSUME NEW H, SharingFrames(H)
      PROVE  \E RQ : Expands(R, RQ, Top, Head(H[Len(todo)].at), H[Len(todo)].done,
                             KeysHere(Len(todo)), GraphOf(Len(todo)), graphs)
  <2>1. PICK n, p, s, g, keys, done :
          /\ n = Len(todo) /\ p = Head(H[n].at) /\ s = Top /\ g = GraphOf(n)
          /\ keys = KeysHere(n) /\ done = H[n].done
    OBVIOUS
  <2>2. StepFits(s, p, done, keys, g, graphs)
    BY <1>2, <1>4, <2>1, TopFitsAt
  <2>3. s.step = "let"
        /\ R = <<LowerLetValues(s.binding.value), [step |-> "bind_values", names |-> names]>>
    BY <1>1, <1>2, <2>1
  <2>4. \E RQ : Expands(R, RQ, s, p, done, keys, g, graphs)
    BY <2>2, <2>3, LetExpands
  <2> QED
    BY <2>1, <2>4
<1>5. ExpandsTo(R)
  BY <1>3, <1>4 DEF ExpandsTo
<1> QED
  BY <1>2, <1>5, StepExpands

\* LowerLetOrTuple.
LEMMA LetOrTupleSharing ==
    ASSUME PlacesRules, LowererInv, SharingInv, LowerLetOrTuple
    PROVE  SharingInv'
<1>1. PICK e, R : /\ e = Top.expr
                  /\ R = CASE e.kind = "Node" -> <<LowerLetValues(e.value)>>
                           [] e.kind \in {"Call", "Graph"} -> CallSteps(e)
                           [] OTHER -> <<LowerExpr(e)>>
  OBVIOUS
<1>2. /\ status = "lowering" /\ Todo # << >> /\ Top.step = "lower_let_values" /\ Continue(R)
      /\ UNCHANGED caches /\ block' = block
      /\ UNCHANGED <<status, graph, graphs, call_stack, tuple_scope_stack>>
  BY <1>1 DEF LowerLetOrTuple, At, Unscoped, scopes
<1>3. e \in Exprs
  BY <1>1, <1>2, TopIsScoped DEF ScopedStep
<1>4. IsSeq(R)
  <2>1. CASE e.kind \in {"Call", "Graph"}
    <3>1. R = CallSteps(e)
      BY <1>1, <2>1
    <3> QED
      BY <1>3, <2>1, <3>1, CallStepsAre
  <2>2. CASE e.kind \notin {"Call", "Graph"}
    <3>1. PICK t : t = IF e.kind = "Node" THEN LowerLetValues(e.value) ELSE LowerExpr(e)
      OBVIOUS
    <3>2. R = <<t>>
      BY <1>1, <2>2, <3>1
    <3> QED
      BY <3>2, OneStep
  <2> QED
    BY <2>1, <2>2
<1>5. ASSUME NEW H, SharingFrames(H)
      PROVE  \E RQ : Expands(R, RQ, Top, Head(H[Len(todo)].at), H[Len(todo)].done,
                             KeysHere(Len(todo)), GraphOf(Len(todo)), graphs)
  <2>1. PICK n, p, s, g, keys, done :
          /\ n = Len(todo) /\ p = Head(H[n].at) /\ s = Top /\ g = GraphOf(n)
          /\ keys = KeysHere(n) /\ done = H[n].done
    OBVIOUS
  <2>2. StepFits(s, p, done, keys, g, graphs) /\ IsShared(g)
    BY <1>2, <1>5, <2>1, TopFitsAt
  <2>3. s.step = "lower_let_values" /\ s.expr = e
    BY <1>1, <1>2, <2>1
  <2>4. \E RQ : Expands(R, RQ, s, p, done, keys, g, graphs)
    BY <1>1, <2>2, <2>3, LetOrTupleExpands
  <2> QED
    BY <2>1, <2>4
<1>6. ExpandsTo(R)
  BY <1>4, <1>5 DEF ExpandsTo
<1> QED
  BY <1>2, <1>6, StepExpands

------------------------------------------------------------------------------
(* Inlined graphs *)

\* The graph that calls another goes on after the call.
LEMMA CallerWaits ==
    ASSUME NEW steps, NEW h, NEW keys, NEW g, NEW registry,
           FrameFits(steps, h, h.done, keys, g, registry), steps # << >>,
           Head(steps).step = "inline_graph", NEW name, name = Head(steps).name,
           NEW p, p = Head(h.at), NEW settled, settled = h.done \cup PlacesOfCall(name, p, registry),
           NEW h1, h1.at = Tail(h.at), h1.done = h.done, h1.before = h.before
    PROVE  FrameFits(Tail(steps), h1, settled, keys, g, registry) /\ IsSeq(p) /\ Bare(p, h.done)
<1>1. PICK at, done, s : at = h.at /\ done = h.done /\ s = Head(steps)
  OBVIOUS
<1>2. StepsFit(steps, at, done, keys, g, registry)
  BY <1>1 DEF FrameFits
<1>3. settled = done \cup PlacesAt(Head(steps), Head(at), registry)
  BY <1>1 DEF PlacesAt
<1>4. PICK kept : kept = keys \cup KeysAt(Head(steps))
  OBVIOUS
<1>8. kept = keys
  BY <1>4 DEF KeysAt
<1>5. /\ StepFits(Head(steps), Head(at), done, keys, g, registry)
      /\ StepsFit(Tail(steps), Tail(at), settled, kept, g, registry)
      /\ AllDone(Tail(steps), Tail(at), settled, registry) = AllDone(steps, at, done, registry)
  BY <1>2, <1>3, <1>4, StepsFitOn
<1>6. IsSeq(p) /\ Bare(p, h.done)
  BY <1>1, <1>5 DEF StepFits
<1>7. FrameFits(Tail(steps), h1, settled, keys, g, registry)
  BY <1>1, <1>5, <1>8 DEF FrameFits
<1> QED
  BY <1>6, <1>7

\* The graph that is called has everything to do.
LEMMA CalleeFits ==
    ASSUME PlacesRules, NEW g, IsGraph(g), IsShared(g), IsPlain(g), NEW registry,
           NEW before \in Nat
    PROVE  \E h : /\ h.before = before /\ h.done = {}
                  /\ FrameFits(GraphSteps(g), h, {}, {}, g, registry)
<1>1. \E at : /\ StepsFit(GraphSteps(g), at, {}, {}, g, registry)
              /\ AllDone(GraphSteps(g), at, {}, registry) = PlacesOfGraph(g, registry)
  BY GraphStepsFit
<1>2. PICK at : /\ StepsFit(GraphSteps(g), at, {}, {}, g, registry)
                /\ AllDone(GraphSteps(g), at, {}, registry) = PlacesOfGraph(g, registry)
  BY <1>1
<1>3. PICK h : h = [at |-> at, done |-> {}, before |-> before, call |-> << >>]
  OBVIOUS
<1>4. h.at = at /\ h.done = {} /\ h.before = before
  BY <1>3
<1>5. IsFiniteSet({})
  BY FS_EmptySet
<1>6. FrameFits(GraphSteps(g), h, {}, {}, g, registry)
  BY <1>2, <1>4, <1>5 DEF FrameFits
<1> QED
  BY <1>4, <1>6

\* inline_graph_values enters typed graphs only.
LEMMA CalleeIsTyped ==
    ASSUME LowererInv, ScopesInv, SharingInv, status = "lowering", NEW name, NEW count,
           MayInline(name, count)
    PROVE  IsGraph(graphs[name]) /\ IsShared(graphs[name]) /\ IsPlain(graphs[name])
<1>1. ~Contains(call_stack, name) /\ name \in DOMAIN graphs
  BY DEF MayInline
<1>2. call_stack[1] = graph.name
  BY DEF ScopesInv
<1>3. 1 \in 1..Len(call_stack)
  <2>1. Len(todo) \in Nat \ {0}
    BY TopIsScoped
  <2>2. Len(call_stack) = Len(todo)
    BY DEF LowererInv, StacksAgree
  <2> QED
    BY <2>1, <2>2
<1>4. name # graph.name
  BY <1>1, <1>2, <1>3 DEF Contains
<1>5. PICK p \in Programs : graph = p.graph /\ graphs = p.graphs
  BY DEF SharingInv
<1>6. name \in DOMAIN p.graphs \ {p.graph.name}
  BY <1>1, <1>4, <1>5
<1>7. IsShared(graphs[name])
  BY <1>5, <1>6, GraphsAssumption
<1>8. IsPlain(graphs[name])
  BY <1>1, <1>5, PlainAssumption
<1>9. IsGraph(graphs[name])
  BY <1>1, <1>5, ProgramsAssumption
<1> QED
  BY <1>7, <1>8, <1>9

\* What EnterGraph does to the stacks.
StacksGrow(n, callee, name) ==
    /\ n \in Nat \ {0} /\ Len(call_stack) = n /\ Len(todo') = n + 1
    /\ todo'[n + 1] = GraphSteps(callee) /\ todo'[n] = Tail(todo[n])
    /\ \A k \in 1..n : k # n => todo'[k] = todo[k]
    /\ call_stack'[n + 1] = name /\ tuple_scope_stack'[n + 1] = next_tuple_scope
    /\ \A k \in 1..n : call_stack'[k] = call_stack[k] /\ tuple_scope_stack'[k] = tuple_scope_stack[k]

\* That it does.
LEMMA EnterGrows ==
    ASSUME LowererInv, EnterGraph, NEW n, n = Len(todo), NEW name, name = Top.name,
           NEW callee, callee = graphs[name]
    PROVE  StacksGrow(n, callee, name)
<1>1. /\ status = "lowering" /\ Todo # << >>
      /\ call_stack' = Append(call_stack, name)
      /\ tuple_scope_stack' = Append(tuple_scope_stack, next_tuple_scope)
      /\ todo' = Append([todo EXCEPT ![n] = Tail(todo[n])], GraphSteps(callee))
  BY DEF EnterGraph, At
<1>2. n \in Nat \ {0} /\ IsSeq(todo)
  BY <1>1, TodoIs
<1>3. IsSeq(call_stack) /\ Len(call_stack) = n
  BY DEF LowererInv, StackTypes, StacksAgree
<1>4. IsSeq(tuple_scope_stack) /\ Len(tuple_scope_stack) = n
  BY SeqIsSeq DEF LowererInv, StackTypes, StacksAgree
<1>5. /\ tuple_scope_stack'[n + 1] = next_tuple_scope
      /\ \A k \in 1..n : tuple_scope_stack'[k] = tuple_scope_stack[k]
  BY <1>1, <1>4, AppendIsSeq
<1>6. call_stack'[n + 1] = name /\ \A k \in 1..n : call_stack'[k] = call_stack[k]
  BY <1>1, <1>3, AppendIsSeq
<1>7. PICK x, y, new : x = Tail(todo[n]) /\ y = GraphSteps(callee) /\ new = todo'
  OBVIOUS
<1>8. new = Append([todo EXCEPT ![n] = x], y)
  BY <1>1, <1>7
<1>9. IsGrown(new, todo, n, x, y)
  BY <1>2, <1>8, ChangedAndAdded
<1>10. /\ Len(todo') = n + 1 /\ todo'[n + 1] = GraphSteps(callee) /\ todo'[n] = Tail(todo[n])
       /\ \A k \in 1..n : k # n => todo'[k] = todo[k]
  BY <1>7, <1>9 DEF IsGrown
<1> QED
  BY <1>2, <1>3, <1>5, <1>6, <1>10 DEF StacksGrow

\* Nothing is kept in a new scope.
LEMMA NewScopeKeepsNothing ==
    ASSUME LowererInv
    PROVE  KeysIn(node_values, tuple_values, next_tuple_scope) = {}
<1>1. PICK scope : scope = next_tuple_scope
  OBVIOUS
<1>2. ASSUME NEW map, \A key \in DOMAIN map : key[1] # scope
      PROVE  {k \in DOMAIN map : k = <<scope, k[2]>>} = {}
  <2>1. ASSUME NEW k \in DOMAIN map, k = <<scope, k[2]>> PROVE FALSE
    <3>1. k[1] = scope
      BY <2>1
    <3> QED
      BY <1>2, <3>1
  <2> QED
    BY <2>1
<1>3. \A key \in DOMAIN node_values \cup DOMAIN tuple_values : key[1] # scope
  BY <1>1, NextScopeIsEmpty
<1>4. /\ {k \in DOMAIN node_values : k = <<scope, k[2]>>} = {}
      /\ {k \in DOMAIN tuple_values : k = <<scope, k[2]>>} = {}
  BY <1>2, <1>3
<1> QED
  BY <1>1, <1>4 DEF KeysIn

\* EnterGraph: the caller's frame waits, and the callee's is new.
LEMMA EnterSharing ==
    ASSUME PlacesRules, LowererInv, ScopesInv, SharingInv, EnterGraph
    PROVE  SharingInv'
<1>1. PICK n, name, callee : n = Len(todo) /\ name = Top.name /\ callee = graphs[name]
  OBVIOUS
<1>2. /\ status = "lowering" /\ Todo # << >> /\ Top.step = "inline_graph"
      /\ MayInline(name, Top.count) /\ UNCHANGED caches /\ block' = block
      /\ UNCHANGED <<status, graph, graphs>>
  BY <1>1 DEF EnterGraph, At
<1>3. StacksGrow(n, callee, name)
  BY <1>1, EnterGrows
<1>4. IsSeq(block) /\ \E H : SharingFrames(H)
  BY <1>2 DEF SharingInv
<1>5. PICK H : SharingFrames(H)
  BY <1>4
<1>6. PICK p, h : p = Head(H[n].at) /\ h = H[n]
  OBVIOUS
<1>7. /\ n \in Nat \ {0} /\ FrameFits(todo[n], h, h.done, KeysHere(n), GraphOf(n), graphs)
      /\ Len(block) = h.before + Cardinality(h.done) /\ todo[n] # << >> /\ Top = Head(todo[n])
  BY <1>1, <1>2, <1>5, <1>6, TopFits, TodoIs
<1>8. PICK h1 : h1 = [at |-> Tail(h.at), done |-> h.done, before |-> h.before, call |-> p]
  OBVIOUS
<1>9. h1.at = Tail(h.at) /\ h1.done = h.done /\ h1.before = h.before /\ h1.call = p
  BY <1>8
<1>10. PICK settled : settled = h.done \cup PlacesOfCall(name, p, graphs)
  OBVIOUS
<1>11. FrameFits(Tail(todo[n]), h1, settled, KeysHere(n), GraphOf(n), graphs)
       /\ IsSeq(p) /\ Bare(p, h.done)
  <2>1. PICK steps, keys, g, registry :
          steps = todo[n] /\ keys = KeysHere(n) /\ g = GraphOf(n) /\ registry = graphs
    OBVIOUS
  <2>2. /\ FrameFits(steps, h, h.done, keys, g, registry) /\ steps # << >>
        /\ Head(steps).step = "inline_graph" /\ name = Head(steps).name
        /\ p = Head(h.at) /\ settled = h.done \cup PlacesOfCall(name, p, registry)
    BY <1>1, <1>2, <1>6, <1>7, <1>10, <2>1
  <2>3. FrameFits(Tail(steps), h1, settled, keys, g, registry) /\ IsSeq(p) /\ Bare(p, h.done)
    BY <1>9, <2>2, CallerWaits
  <2> QED
    BY <2>1, <2>3
<1>12. PICK before : before = h.before + Cardinality(h.done)
  OBVIOUS
<1>13. before \in Nat
  <2>1. h.before \in Nat /\ IsFiniteSet(h.done)
    BY <1>7 DEF FrameFits
  <2>2. Cardinality(h.done) \in Nat
    BY <2>1, FS_CardinalityType
  <2> QED
    BY <1>12, <2>1, <2>2
<1>14. IsGraph(callee) /\ IsShared(callee) /\ IsPlain(callee)
  BY <1>1, <1>2, CalleeIsTyped
<1>15. \E h2 : /\ h2.before = before /\ h2.done = {}
               /\ FrameFits(GraphSteps(callee), h2, {}, {}, callee, graphs)
  BY <1>13, <1>14, CalleeFits
<1>16. PICK h2 : /\ h2.before = before /\ h2.done = {}
                 /\ FrameFits(GraphSteps(callee), h2, {}, {}, callee, graphs)
  BY <1>15
<1>17. PICK m, H1 : m = n + 1 /\ H1 = [k \in 1..m |-> IF k = m THEN h2 ELSE IF k = n THEN h1 ELSE H[k]]
  OBVIOUS
<1>18. H1[m] = h2 /\ H1[n] = h1 /\ \A k \in 1..n : k # n => H1[k] = H[k]
  BY <1>7, <1>17
<1>19. Settled(H1, m)' = {} /\ Settled(H1, n)' = settled
  <2>1. Len(todo') = m /\ call_stack'[n + 1] = name /\ graphs' = graphs
    BY <1>2, <1>3, <1>17 DEF StacksGrow
  <2>2. Settled(H1, m)' = H1[m].done
    BY <1>7, <1>17, <2>1 DEF Settled
  <2>3. Settled(H1, n)' = H1[n].done \cup PlacesOfCall(name, H1[n].call, graphs)
    BY <1>7, <1>17, <2>1 DEF Settled
  <2> QED
    BY <1>9, <1>10, <1>16, <1>18, <2>2, <2>3
<1>20. ASSUME NEW k \in 1..n, k # n PROVE Settled(H1, k)' = Settled(H, k)
  <2>1. k < n /\ k < n + 1 /\ k + 1 \in 1..n
    BY <1>7, <1>20
  <2>2. Len(todo') = n + 1 /\ call_stack'[k + 1] = call_stack[k + 1] /\ graphs' = graphs
    BY <1>2, <1>3, <2>1 DEF StacksGrow
  <2>3. H1[k] = H[k]
    BY <1>18, <1>20
  <2> QED
    BY <1>1, <2>1, <2>2, <2>3 DEF Settled
<1>21. KeysHere(m)' = {} /\ \A k \in 1..n : KeysHere(k)' = KeysHere(k)
  BY <1>2, <1>3, <1>17, NewScopeKeepsNothing DEF KeysHere, StacksGrow, caches
<1>22. GraphOf(m)' = callee /\ \A k \in 1..n : GraphOf(k)' = GraphOf(k)
  <2>1. m # 1
    BY <1>7, <1>17
  <2> QED
    BY <1>1, <1>2, <1>3, <1>17, <2>1 DEF GraphOf, StacksGrow
<1>23. ASSUME NEW k \in 1..m
       PROVE  FrameFits(todo'[k], H1[k], Settled(H1, k)', KeysHere(k)', GraphOf(k)', graphs')
  <2>1. CASE k = m
    <3>1. todo'[m] = GraphSteps(callee) /\ graphs' = graphs
      BY <1>2, <1>3, <1>17 DEF StacksGrow
    <3> QED
      BY <1>16, <1>18, <1>19, <1>21, <1>22, <2>1, <3>1
  <2>2. CASE k = n
    <3>1. todo'[n] = Tail(todo[n]) /\ graphs' = graphs /\ n \in 1..n
      BY <1>2, <1>3 DEF StacksGrow
    <3>2. KeysHere(n)' = KeysHere(n) /\ GraphOf(n)' = GraphOf(n)
      BY <1>21, <1>22, <3>1
    <3> QED
      BY <1>11, <1>18, <1>19, <2>2, <3>1, <3>2
  <2>3. CASE k # m /\ k # n
    <3>1. k \in 1..n /\ k # n
      BY <1>7, <1>17, <2>3
    <3>2. FrameFits(todo[k], H[k], Settled(H, k), KeysHere(k), GraphOf(k), graphs)
      BY <1>1, <1>5, <3>1 DEF SharingFrames
    <3>3. todo'[k] = todo[k] /\ graphs' = graphs
      BY <1>2, <1>3, <3>1 DEF StacksGrow
    <3>4. /\ H1[k] = H[k] /\ Settled(H1, k)' = Settled(H, k)
          /\ KeysHere(k)' = KeysHere(k) /\ GraphOf(k)' = GraphOf(k)
      BY <1>18, <1>20, <1>21, <1>22, <3>1
    <3> QED
      BY <3>2, <3>3, <3>4
  <2> QED
    BY <2>1, <2>2, <2>3
<1>24. \A k \in 1..n : H1[k].before = H[k].before
  BY <1>6, <1>9, <1>18
<1>25. ASSUME NEW k \in 1..m, k < m PROVE Waits(H1[k], H1[k + 1])
  <2>1. CASE k = n
    <3>1. H1[k] = h1 /\ H1[k + 1] = h2
      BY <1>17, <1>18, <2>1
    <3> QED
      BY <1>9, <1>11, <1>12, <1>16, <3>1 DEF Waits
  <2>2. CASE k # n
    <3>1. k \in 1..n /\ k < n /\ k + 1 \in 1..n
      BY <1>7, <1>17, <1>25, <2>2
    <3>2. Waits(H[k], H[k + 1])
      BY <1>1, <1>5, <3>1 DEF SharingFrames
    <3>3. H1[k] = H[k]
      BY <1>18, <2>2, <3>1
    <3>4. H1[k + 1].before = H[k + 1].before
      BY <1>24, <3>1
    <3> QED
      BY <3>2, <3>3, <3>4 DEF Waits
  <2> QED
    BY <2>1, <2>2
<1>26. H1[1].before = 0
  BY <1>5, <1>7, <1>24 DEF SharingFrames
<1>27. Len(block') = H1[m].before + Cardinality(H1[m].done)
  <2>1. Cardinality({}) = 0
    BY FS_EmptySet
  <2>2. before + 0 = before
    BY <1>13
  <2> QED
    BY <1>2, <1>7, <1>12, <1>16, <1>18, <2>1, <2>2
<1>28. SharingFrames(H1)'
  <2>1. Len(todo') = m
    BY <1>3, <1>17 DEF StacksGrow
  <2> QED
    BY <1>23, <1>25, <1>26, <1>27, <2>1 DEF SharingFrames
<1>29. \E H3 : SharingFrames(H3)'
  BY <1>28
<1>30. IsSeq(block')
  BY <1>2, <1>4
<1> QED
  BY <1>2, <1>29, <1>30, SharingGoesOn

\* A graph with nothing left to do has all its operations.
LEMMA AllIsDone ==
    ASSUME NEW steps, steps = << >>, NEW h, NEW keys, NEW g, NEW registry,
           FrameFits(steps, h, h.done, keys, g, registry)
    PROVE  h.done = PlacesOfGraph(g, registry)
<1>1. PlacesDone(steps, h.at, 0, h.done, registry) = h.done
  BY DoneFirst
<1>2. Len(steps) = 0
  OBVIOUS
<1>3. AllDone(steps, h.at, h.done, registry) = h.done
  BY <1>1, <1>2 DEF AllDone
<1> QED
  BY <1>3 DEF FrameFits

\* Then its caller goes on with those operations too.
GoesOnWith(steps, h, next, done, name, keys, g, registry, h1) ==
    /\ FrameFits(steps, h, done, keys, g, registry) /\ Waits(h, next) /\ IsFiniteSet(next.done)
    /\ next.done = PlacesOfGraph(registry[name], registry)
    /\ done = h.done \cup PlacesOfCall(name, h.call, registry)
    /\ h1.at = h.at /\ h1.done = done /\ h1.before = h.before

\* It is as far as it was expected to be.
LEMMA CallerGoesOn ==
    ASSUME NEW steps, NEW h, NEW next, NEW done, NEW name, NEW keys, NEW g, NEW registry, NEW h1,
           GoesOnWith(steps, h, next, done, name, keys, g, registry, h1)
    PROVE  /\ FrameFits(steps, h1, done, keys, g, registry)
           /\ next.before + Cardinality(next.done) = h1.before + Cardinality(h1.done)
<1>0. /\ FrameFits(steps, h, done, keys, g, registry) /\ Waits(h, next) /\ IsFiniteSet(next.done)
      /\ next.done = PlacesOfGraph(registry[name], registry)
      /\ done = h.done \cup PlacesOfCall(name, h.call, registry)
      /\ h1.at = h.at /\ h1.done = done /\ h1.before = h.before
  BY DEF GoesOnWith
<1>1. PICK old, p, within : old = h.done /\ p = h.call /\ within = next.done
  OBVIOUS
<1>2. IsFiniteSet(old) /\ h.before \in Nat
  BY <1>0, <1>1 DEF FrameFits
<1>3. IsSeq(p) /\ Bare(p, old)
  BY <1>0, <1>1 DEF Waits
<1>4. done = old \cup PlacesOfCall(name, p, registry) /\ within = PlacesOfGraph(registry[name], registry)
      /\ IsFiniteSet(within)
  BY <1>0, <1>1
<1>5. /\ IsFiniteSet(done) /\ Cardinality(old) \in Nat /\ Cardinality(within) \in Nat
      /\ Cardinality(done) = Cardinality(old) + Cardinality(within)
  BY <1>2, <1>3, <1>4, CallPlacesCount
<1>6. next.before = h.before + Cardinality(old)
  BY <1>0, <1>1 DEF Waits
<1>7. next.before + Cardinality(within) = h.before + Cardinality(done)
  BY <1>2, <1>5, <1>6
<1>8. FrameFits(steps, h1, done, keys, g, registry)
  BY <1>0, <1>2, <1>5 DEF FrameFits
<1> QED
  BY <1>0, <1>1, <1>7, <1>8

\* What LeaveGraph does to the stacks.
StacksShrink(m) ==
    /\ m \in Nat \ {0} /\ Len(todo) = m + 1 /\ Len(todo') = m
    /\ \A k \in 1..m : /\ todo'[k] = todo[k] /\ call_stack'[k] = call_stack[k]
                       /\ tuple_scope_stack'[k] = tuple_scope_stack[k]

\* That it does.
LEMMA LeaveShrinks ==
    ASSUME LowererInv, status # "idle", Len(todo) > 1, LeaveScope, todo' = Front(todo),
           NEW m, m = Len(todo) - 1
    PROVE  StacksShrink(m)
<1>1. Len(todo) \in Nat \ {0}
  BY TopIsScoped
<1>2. IsSeq(todo) /\ IsSeq(call_stack) /\ IsSeq(tuple_scope_stack)
  BY SeqIsSeq DEF LowererInv, StackTypes
<1>3. Len(call_stack) = Len(todo) /\ Len(tuple_scope_stack) = Len(todo)
  BY DEF LowererInv, StacksAgree
<1>4. call_stack' = Front(call_stack) /\ tuple_scope_stack' = Front(tuple_scope_stack)
  BY DEF LeaveScope
<1>5. Len(todo') = m /\ \A k \in 1..m : todo'[k] = todo[k]
  BY <1>1, <1>2, FrontIsSeq
<1>6. \A k \in 1..m : call_stack'[k] = call_stack[k]
  BY <1>1, <1>2, <1>3, <1>4, FrontIsSeq
<1>7. \A k \in 1..m : tuple_scope_stack'[k] = tuple_scope_stack[k]
  BY <1>1, <1>2, <1>3, <1>4, FrontIsSeq
<1>8. m \in Nat \ {0} /\ Len(todo) = m + 1
  BY <1>1
<1> QED
  BY <1>5, <1>6, <1>7, <1>8 DEF StacksShrink

\* What is kept in other scopes stays.
LEMMA RetainedElsewhere ==
    ASSUME NEW nv, NEW tv, NEW scope, NEW other, other # scope,
           NEW nv2, nv2 = Retain(nv, OtherScopes(nv, scope)),
           NEW tv2, tv2 = Retain(tv, OtherScopes(tv, scope))
    PROVE  KeysIn(nv2, tv2, other) = KeysIn(nv, tv, other)
<1>1. DOMAIN nv2 = {key \in DOMAIN nv : key[1] # scope}
  BY DEF Retain, OtherScopes
<1>2. DOMAIN tv2 = {key \in DOMAIN tv : key[1] # scope}
  BY DEF Retain, OtherScopes
<1>3. \A id : <<other, id>>[1] = other
  OBVIOUS
<1>4. \A id : <<other, id>> \in DOMAIN nv <=> <<other, id>> \in DOMAIN nv2
  BY <1>1, <1>3
<1>5. \A id : <<other, id>> \in DOMAIN tv <=> <<other, id>> \in DOMAIN tv2
  BY <1>2, <1>3
<1> QED
  BY <1>4, <1>5, SameKeys

\* LeaveGraph: the operations of the callee become those of the call.
LEMMA LeaveSharing ==
    ASSUME LowererInv, SharingInv, LeaveGraph
    PROVE  SharingInv'
<1>1. /\ status = "lowering" /\ Len(todo) > 1 /\ Todo = << >> /\ LeaveScope
      /\ todo' = Front(todo) /\ UNCHANGED <<status, graph, graphs>> /\ block' = block
  BY DEF LeaveGraph
<1>2. IsSeq(block) /\ \E H : SharingFrames(H)
  BY <1>1 DEF SharingInv
<1>3. PICK H : SharingFrames(H)
  BY <1>2
<1>4. PICK n, m : n = Len(todo) /\ m = Len(todo) - 1
  OBVIOUS
<1>5. StacksShrink(m)
  BY <1>1, <1>4, LeaveShrinks
<1>6. m \in Nat \ {0} /\ n = m + 1 /\ n # 1 /\ m < n /\ m \in 1..n
  BY <1>4, <1>5 DEF StacksShrink
<1>7. PICK name, h, next : name = call_stack[n] /\ h = H[m] /\ next = H[n]
  OBVIOUS
<1>8. /\ FrameFits(todo[n], next, next.done, KeysHere(n), GraphOf(n), graphs)
      /\ Len(block) = next.before + Cardinality(next.done) /\ todo[n] = << >>
      /\ current_tuple_scope = tuple_scope_stack[n]
  BY <1>1, <1>3, <1>4, <1>7, TopFits
<1>9. GraphOf(n) = graphs[name]
  BY <1>6, <1>7 DEF GraphOf
<1>10. next.done = PlacesOfGraph(graphs[name], graphs) /\ IsFiniteSet(next.done)
  <2>1. next.done = PlacesOfGraph(GraphOf(n), graphs)
    BY <1>8, AllIsDone
  <2> QED
    BY <1>8, <1>9, <2>1 DEF FrameFits
<1>11. Waits(h, next)
  BY <1>3, <1>4, <1>6, <1>7 DEF SharingFrames
<1>12. PICK done : done = h.done \cup PlacesOfCall(name, h.call, graphs)
  OBVIOUS
<1>13. Settled(H, m) = done
  BY <1>4, <1>6, <1>7, <1>12 DEF Settled
<1>14. FrameFits(todo[m], h, done, KeysHere(m), GraphOf(m), graphs)
  BY <1>3, <1>4, <1>6, <1>7, <1>13 DEF SharingFrames
<1>15. PICK h1 : h1 = [at |-> h.at, done |-> done, before |-> h.before, call |-> << >>]
  OBVIOUS
<1>16. h1.at = h.at /\ h1.done = done /\ h1.before = h.before
  BY <1>15
<1>17. /\ FrameFits(todo[m], h1, done, KeysHere(m), GraphOf(m), graphs)
       /\ next.before + Cardinality(next.done) = h1.before + Cardinality(h1.done)
  <2>1. PICK steps, keys, g, registry :
          steps = todo[m] /\ keys = KeysHere(m) /\ g = GraphOf(m) /\ registry = graphs
    OBVIOUS
  <2>2. /\ FrameFits(steps, h, done, keys, g, registry) /\ IsFiniteSet(next.done)
        /\ next.done = PlacesOfGraph(registry[name], registry)
        /\ done = h.done \cup PlacesOfCall(name, h.call, registry)
    BY <1>10, <1>12, <1>14, <2>1
  <2>3. GoesOnWith(steps, h, next, done, name, keys, g, registry, h1)
    BY <1>11, <1>16, <2>2 DEF GoesOnWith
  <2>4. /\ FrameFits(steps, h1, done, keys, g, registry)
        /\ next.before + Cardinality(next.done) = h1.before + Cardinality(h1.done)
    BY <2>3, CallerGoesOn
  <2> QED
    BY <2>1, <2>4
<1>18. PICK H1 : H1 = [k \in 1..m |-> IF k = m THEN h1 ELSE H[k]]
  OBVIOUS
<1>19. H1[m] = h1 /\ \A k \in 1..m : k # m => H1[k] = H[k]
  BY <1>6, <1>18
<1>20. \A k \in 1..m : KeysHere(k)' = KeysHere(k)
  <2>1. ASSUME NEW k \in 1..m PROVE KeysHere(k)' = KeysHere(k)
    <3>1. PICK scope, other : scope = tuple_scope_stack[n] /\ other = tuple_scope_stack[k]
      OBVIOUS
    <3>2. k \in 1..n /\ n \in 1..n /\ n # k
      BY <1>6, <2>1
    <3>3. other # scope
      BY <1>4, <3>1, <3>2, ScopesDiffer
    <3>4. PICK nv2, tv2 : nv2 = node_values' /\ tv2 = tuple_values'
      OBVIOUS
    <3>5. /\ nv2 = Retain(node_values, OtherScopes(node_values, scope))
          /\ tv2 = Retain(tuple_values, OtherScopes(tuple_values, scope))
      BY <1>1, <1>8, <3>1, <3>4 DEF LeaveScope
    <3>6. KeysIn(nv2, tv2, other) = KeysIn(node_values, tuple_values, other)
      BY <3>3, <3>5, RetainedElsewhere
    <3>7. tuple_scope_stack'[k] = other
      BY <1>5, <2>1, <3>1 DEF StacksShrink
    <3> QED
      BY <3>1, <3>4, <3>6, <3>7 DEF KeysHere
  <2> QED
    BY <2>1
<1>21. \A k \in 1..m : GraphOf(k)' = GraphOf(k)
  BY <1>1, <1>5 DEF GraphOf, StacksShrink
<1>22. Settled(H1, m)' = done
  BY <1>5, <1>6, <1>16, <1>19 DEF Settled, StacksShrink
<1>23. ASSUME NEW k \in 1..m, k # m PROVE Settled(H1, k)' = Settled(H, k)
  <2>1. k < m /\ k < n /\ k + 1 \in 1..m
    BY <1>6, <1>23
  <2>2. Len(todo') = m /\ call_stack'[k + 1] = call_stack[k + 1] /\ graphs' = graphs
    BY <1>1, <1>5, <2>1 DEF StacksShrink
  <2>3. H1[k] = H[k]
    BY <1>19, <1>23
  <2> QED
    BY <1>4, <2>1, <2>2, <2>3 DEF Settled
<1>24. ASSUME NEW k \in 1..m
       PROVE  FrameFits(todo'[k], H1[k], Settled(H1, k)', KeysHere(k)', GraphOf(k)', graphs')
  <2>1. todo'[k] = todo[k] /\ graphs' = graphs
    BY <1>1, <1>5 DEF StacksShrink
  <2>2. KeysHere(k)' = KeysHere(k) /\ GraphOf(k)' = GraphOf(k)
    BY <1>20, <1>21
  <2>3. CASE k = m
    BY <1>17, <1>19, <1>22, <2>1, <2>2, <2>3
  <2>4. CASE k # m
    <3>1. k \in 1..Len(todo)
      BY <1>4, <1>6
    <3>2. FrameFits(todo[k], H[k], Settled(H, k), KeysHere(k), GraphOf(k), graphs)
      BY <1>3, <3>1 DEF SharingFrames
    <3>3. H1[k] = H[k] /\ Settled(H1, k)' = Settled(H, k)
      BY <1>19, <1>23, <2>4
    <3> QED
      BY <2>1, <2>2, <3>2, <3>3
  <2> QED
    BY <2>3, <2>4
<1>25. \A k \in 1..m : H1[k].before = H[k].before
  BY <1>7, <1>16, <1>19
<1>26. ASSUME NEW k \in 1..m, k < m PROVE Waits(H1[k], H1[k + 1])
  <2>1. k \in 1..Len(todo) /\ k < Len(todo) /\ k + 1 \in 1..m
    BY <1>4, <1>6, <1>26
  <2>2. Waits(H[k], H[k + 1])
    BY <1>3, <2>1 DEF SharingFrames
  <2>3. H1[k] = H[k] /\ H1[k + 1].before = H[k + 1].before
    BY <1>19, <1>25, <1>26, <2>1
  <2> QED
    BY <2>2, <2>3 DEF Waits
<1>27. H1[1].before = 0
  BY <1>3, <1>6, <1>25 DEF SharingFrames
<1>28. Len(block') = H1[m].before + Cardinality(H1[m].done)
  BY <1>1, <1>8, <1>17, <1>19
<1>29. SharingFrames(H1)'
  <2>1. Len(todo') = m
    BY <1>5 DEF StacksShrink
  <2> QED
    BY <1>24, <1>26, <1>27, <1>28, <2>1 DEF SharingFrames
<1>30. \E H2 : SharingFrames(H2)'
  BY <1>29
<1>31. IsSeq(block')
  BY <1>1, <1>2
<1> QED
  BY <1>1, <1>30, <1>31, SharingGoesOn

------------------------------------------------------------------------------
(* Start and end *)

\* ReturnOutputs: everything the graph needs is in the block, once.
LEMMA OutputsSharing ==
    ASSUME LowererInv, SharingInv, ReturnOutputs
    PROVE  SharingInv'
<1>1. /\ status = "lowering" /\ Len(todo) = 1 /\ Todo = << >> /\ status' = "done"
      /\ graph' = graph /\ graphs' = graphs /\ block' = block
  BY DEF ReturnOutputs
<1>2. \E H : SharingFrames(H)
  BY <1>1 DEF SharingInv
<1>3. PICK H : SharingFrames(H)
  BY <1>2
<1>4. PICK n, h : n = 1 /\ h = H[n]
  OBVIOUS
<1>5. /\ FrameFits(todo[n], h, h.done, KeysHere(n), GraphOf(n), graphs)
      /\ Len(block) = h.before + Cardinality(h.done) /\ todo[n] = << >>
  BY <1>1, <1>3, <1>4, TopFits
<1>6. h.before = 0
  BY <1>3, <1>4 DEF SharingFrames
<1>7. GraphOf(n) = graph
  BY <1>4 DEF GraphOf
<1>8. h.done = PlacesOfGraph(graph, graphs)
  BY <1>5, <1>7, AllIsDone
<1>9. Cardinality(h.done) \in Nat
  BY <1>5, FS_CardinalityType DEF FrameFits
<1>10. PICK size : size = Cardinality(PlacesOfGraph(graph, graphs))
  OBVIOUS
<1>11. Len(block) = size
  BY <1>5, <1>6, <1>8, <1>9, <1>10
<1>12. Cardinality(PlacesOfGraph(graph', graphs')) = size
  BY <1>1, <1>10
<1>13. SharedWorkIsEmittedOnce'
  BY <1>1, <1>11, <1>12 DEF SharedWorkIsEmittedOnce
<1>14. \E p \in Programs : graph' = p.graph /\ graphs' = p.graphs
  BY <1>1 DEF SharingInv
<1> QED
  BY <1>1, <1>13, <1>14 DEF SharingInv

\* Nothing is promised of a block that is not returned.
LEMMA FailureSharing ==
    ASSUME SharingInv, Fail \/ Unwind \/ GiveUp
    PROVE  SharingInv'
<1>1. /\ status # "idle" /\ status' \in {"failing", "failed"} /\ graph' = graph /\ graphs' = graphs
  BY DEF Fail, StepFails, AtExpr, At, Unwind, GiveUp
<1>2. \E p \in Programs : graph' = p.graph /\ graphs' = p.graphs
  BY <1>1 DEF SharingInv
<1> QED
  BY <1>1, <1>2 DEF SharingInv, SharedWorkIsEmittedOnce

\* New: nothing of the graph is done.
LEMMA NewSharing ==
    ASSUME PlacesRules, LowererInv, SharingInv, NEW p \in Programs, New(p.graph, p.graphs)
    PROVE  SharingInv'
<1>1. PICK g, registry : g = p.graph /\ registry = p.graphs
  OBVIOUS
<1>2. /\ status = "idle" /\ status' = "lowering" /\ graph' = g /\ graphs' = registry
      /\ tuple_scope_stack' = <<0>> /\ todo' = <<GraphSteps(g)>> /\ block' = block
      /\ node_values' = node_values /\ tuple_values' = tuple_values
  BY <1>1 DEF New, caches
<1>3. IsGraph(g) /\ IsShared(g) /\ IsPlain(g)
  BY <1>1, ProgramsAssumption, GraphsAssumption, PlainAssumption
<1>4. block = << >>
  BY <1>2 DEF SharingInv
<1>5. IsSeq(block') /\ Len(block') = 0
  <2>1. << >> \in Seq({}) /\ Len(<< >>) = 0
    OBVIOUS
  <2> QED
    BY <1>2, <1>4, <2>1, SeqIsSeq
<1>6. DOMAIN node_values = {} /\ DOMAIN tuple_values = {}
  <2>1. Len(todo) = 0 /\ Len(tuple_scope_stack) = 0 /\ tuple_scope_stack \in Seq(Nat)
    BY <1>2 DEF LowererInv, StackTypes, StacksAgree
  <2>2. DOMAIN tuple_scope_stack = {}
    BY <2>1
  <2> QED
    BY <2>2 DEF LowererInv, CachedScopesAreLive, ToSet
<1>7. PICK none : none = 0
  OBVIOUS
<1>8. none \in Nat
  BY <1>7
<1>9. \E h : /\ h.before = none /\ h.done = {}
             /\ FrameFits(GraphSteps(g), h, {}, {}, g, registry)
  BY <1>3, <1>8, CalleeFits
<1>10. PICK h : /\ h.before = none /\ h.done = {}
                /\ FrameFits(GraphSteps(g), h, {}, {}, g, registry)
  BY <1>9
<1>11. PICK H : H = <<h>>
  OBVIOUS
<1>12. H[1] = h
  BY <1>11
<1>13. Len(todo') = 1 /\ todo'[1] = GraphSteps(g)
  <2>1. PICK steps : steps = GraphSteps(g)
    OBVIOUS
  <2> QED
    BY <1>2, <2>1
<1>14. Settled(H, 1)' = {}
  BY <1>10, <1>12, <1>13 DEF Settled
<1>15. KeysHere(1)' = {}
  BY <1>2, <1>6 DEF KeysHere, KeysIn
<1>16. GraphOf(1)' = g
  BY <1>2 DEF GraphOf
<1>17. FrameFits(todo'[1], H[1], Settled(H, 1)', KeysHere(1)', GraphOf(1)', graphs')
  BY <1>2, <1>10, <1>12, <1>13, <1>14, <1>15, <1>16
<1>18. \A k \in 1..Len(todo') : k = 1
  BY <1>13
<1>19. Len(block') = H[1].before + Cardinality(H[1].done)
  <2>1. Cardinality({}) = 0
    BY FS_EmptySet
  <2>2. H[1].before = 0 /\ H[1].done = {}
    BY <1>7, <1>10, <1>12
  <2>3. Cardinality(H[1].done) = 0
    BY <2>1, <2>2
  <2>4. Len(block') = 0
    BY <1>5
  <2> QED
    BY <2>2, <2>3, <2>4
<1>20. SharingFrames(H)'
  <2>1. \A k \in 1..Len(todo') : ~(k < Len(todo'))
    BY <1>13
  <2>2. H[1].before = 0
    BY <1>7, <1>10, <1>12
  <2>3. \A k \in 1..Len(todo') :
           FrameFits(todo'[k], H[k], Settled(H, k)', KeysHere(k)', GraphOf(k)', graphs')
    BY <1>17, <1>18
  <2> QED
    BY <1>13, <1>19, <2>1, <2>2, <2>3 DEF SharingFrames
<1>21. \E H1 : SharingFrames(H1)'
  BY <1>20
<1>22. \E q \in Programs : graph' = q.graph /\ graphs' = q.graphs
  BY <1>1, <1>2
<1> QED
  BY <1>2, <1>5, <1>21, <1>22 DEF SharingInv, SharedWorkIsEmittedOnce

\* Nothing happens.
LEMMA SameSharing ==
    ASSUME SharingInv, UNCHANGED lowererVars
    PROVE  SharingInv'
<1>1. /\ status' = status /\ graph' = graph /\ graphs' = graphs /\ block' = block
      /\ todo' = todo /\ call_stack' = call_stack /\ tuple_scope_stack' = tuple_scope_stack
      /\ node_values' = node_values /\ tuple_values' = tuple_values
  BY DEF lowererVars, scopes, caches
<1>2. ASSUME status = "lowering" PROVE IsSeq(block') /\ \E H : SharingFrames(H)'
  <2>1. IsSeq(block) /\ \E H : SharingFrames(H)
    BY <1>2 DEF SharingInv
  <2>2. PICK H : SharingFrames(H)
    BY <2>1
  <2>3. \A k : /\ Settled(H, k)' = Settled(H, k) /\ KeysHere(k)' = KeysHere(k)
               /\ GraphOf(k)' = GraphOf(k)
    BY <1>1 DEF Settled, KeysHere, GraphOf
  <2>4. SharingFrames(H)'
    BY <1>1, <2>2, <2>3 DEF SharingFrames
  <2> QED
    BY <1>1, <2>1, <2>4
<1>3. SharedWorkIsEmittedOnce'
  BY <1>1 DEF SharingInv, SharedWorkIsEmittedOnce
<1> QED
  BY <1>1, <1>2, <1>3 DEF SharingInv

------------------------------------------------------------------------------

\* Every step of lowering keeps the places it has done and those it still needs.
LEMMA NextSharing ==
    ASSUME PlacesRules, LowererInv, ScopesInv, SharingInv, [Next]_lowererVars
    PROVE  SharingInv'
<1>1. CASE status = "idle" /\ \E p \in Programs : New(p.graph, p.graphs)
  BY <1>1, NewSharing
<1>2. CASE LowerVar \/ LowerConst \/ LowerCall \/ CheckSingle \/ LowerNode \/ KeepNode
  BY <1>2, VarSharing, ConstSharing, CallSharing, PlainSharing, NodeSharing, KeepNodeSharing
<1>3. CASE LowerTupleGet \/ KeepTuple \/ LowerLetOrTuple \/ Emit \/ LowerLet \/ BindValues
  BY <1>3, TupleGetSharing, KeepTupleSharing, LetOrTupleSharing, EmitSharing, LetSharing, PlainSharing
<1>4. CASE EnterGraph \/ LeaveGraph \/ ReturnOutputs \/ Fail \/ Unwind \/ GiveUp
  BY <1>4, EnterSharing, LeaveSharing, OutputsSharing, FailureSharing
<1>5. CASE Finished \/ UNCHANGED lowererVars
  BY <1>5, SameSharing DEF Finished
<1> QED
  BY <1>1, <1>2, <1>3, <1>4, <1>5 DEF Next, Lower

\* In each of the graphs being lowered, what is done and what the steps still
\* to do need are together the places of that graph, each of them once: through
\* inlining, cached nodes and tuples, and bindings.
THEOREM SharingInvariant ==
    ASSUME PlacesRules
    PROVE  Spec => [](LowererInv /\ ScopesInv /\ SharingInv)
<1>1. Init => LowererInv /\ ScopesInv /\ SharingInv
  <2>1. Init => LowererInv
    BY InitInvariant
  <2>2. Init => ScopesInv
    BY DEF Init, ScopesInv
  <2>3. Init => SharingInv
    BY DEF Init, SharingInv, SharedWorkIsEmittedOnce
  <2> QED
    BY <2>1, <2>2, <2>3
<1>2. LowererInv /\ ScopesInv /\ SharingInv /\ [Next]_lowererVars
        => (LowererInv /\ ScopesInv /\ SharingInv)'
  BY NextInvariant, NextScopes, NextSharing
<1> QED
  BY <1>1, <1>2, PTL DEF Spec

\* The caches of lower_node and lower_tuple_get lose nothing and repeat
\* nothing: the function of any typed graph has one operation for each place
\* that needs one, a node or a tuple being at one place in each call of its
\* graph (lowerer.rs, scoped_key and push_inline_scope).
THEOREM SharedWorkIsAlwaysEmittedOnce ==
    ASSUME PlacesRules
    PROVE  Spec => []SharedWorkIsEmittedOnce
<1>1. LowererInv /\ ScopesInv /\ SharingInv => SharedWorkIsEmittedOnce
  BY DEF SharingInv
<1> QED
  BY <1>1, SharingInvariant, PTL
===============================================================================
