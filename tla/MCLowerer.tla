------------------------------ MODULE MCLowerer ------------------------------
(***************************************************************************)
(* Programs for the lowerer.  Names are reused between graphs and within   *)
(* them, a callee is called from several places and at several depths,     *)
(* nodes and tuples have the same identifiers in different graphs.         *)
(***************************************************************************)
EXTENDS LowererProps

Names == {"x", "y"}
X == Var("x")
Y == Var("y")
Z == Var("z")
Relu(e) == Call("relu", <<e>>)
Add(a, b) == Call("add", <<a, b>>)
Split(e) == Call("split", <<e>>)

MCResults == [op \in {"relu", "add", "split", "sort"} |-> IF op = "split" THEN 2 ELSE 1]
MCUnsupported == {"sort"}

\* Callees: a shared node and tuple, an input overwritten by a let, two
\* outputs, and calls of further graphs, some of which come round again.
Inner == Graph("inner", <<"x">>, << >>,
    <<Add(Node(1, Relu(X)), Add(Node(1, Relu(X)),
        Add(TupleGet(1, Split(X), 1), TupleGet(1, Split(X), 2))))>>)
Rebinds(arg) == Graph("rebinds", <<"x">>,
    <<Let(<<"x">>, arg), Let(<<"z">>, Relu(X)), Let(<<"z">>, Add(X, Z))>>, <<Add(X, Z)>>)
Pair(e) == Graph("pair", <<"y", "x">>, << >>, <<e, X>>)
Loop(call) == Graph("loop", <<"x">>, <<Let(<<"y">>, call)>>, <<Y>>)

\* Arguments and bodies.
ArgList == <<X, Y, Node(1, Add(X, Y)), TupleGet(1, Split(Y), 2)>>
Args == ToSet(ArgList)
Calls == {GraphCall(name, <<a>>) : name \in {"inner", "rebinds", "loop"}, a \in Args}
         \cup {TupleGet(10 + i, GraphCall("pair", <<ArgList[i], Y>>), index) :
                 index \in 1..2, i \in DOMAIN ArgList}
Bodies == Args \cup Calls \cup
          {TupleGet(11, GraphCall("pair", <<X, Y>>), 3), GraphCall("pair", <<X, Y>>),
           GraphCall("inner", <<X, Y>>), GraphCall("missing", <<X>>),
           Call("sort", <<GraphCall("rebinds", <<X>>)>>), Z, Const("one")}

\* Lets of the graph itself: none, a shadowed input, a node, both outputs of a
\* tuple, and too few values for the names.
Lets == {<< >>,
         <<Let(<<"x">>, Relu(Y))>>,
         <<Let(<<"x">>, Node(2, Relu(Y)))>>,
         <<Let(<<"y", "x">>, Split(X))>>,
         <<Let(<<"y", "x">>, GraphCall("pair", <<X, Y>>))>>,
         <<Let(<<"x", "y">>, Relu(X))>>}

\* The registry holds every graph of the script, the one to lower included.
Registries ==
    {[inner |-> Inner, rebinds |-> Rebinds(c[1]), pair |-> Pair(GraphCall("rebinds", <<Y>>)),
      loop |-> Loop(c[2])] :
        c \in {<<Relu(X), GraphCall("main", <<X, X>>)>>,
               <<GraphCall("inner", <<X>>), GraphCall("rebinds", <<X>>)>>,
               <<Call("sort", <<X>>), GraphCall("loop", <<X>>)>>}}

MCPrograms ==
    LET inputs == <<"x", "y">>
        Main(lets, a, b) == Graph("main", inputs, lets, <<Add(a, b), a>>)
        Second == {X, ArgList[3], GraphCall("inner", <<ArgList[4]>>), GraphCall("loop", <<Y>>)}
    IN  {[graph |-> Main(lets, a, b),
          graphs |-> MapInsert(registry, "main", Main(lets, a, b))] :
            lets \in Lets, a \in Bodies, b \in Second, registry \in Registries}

\* The meaning and the places of an expression, by their equations.  (Under LET,
\* as TLC with -coverage follows constants that are bound to operators forever.)
RECURSIVE MCMeaningOf(_, _, _, _), MCEnvAfter(_, _, _, _, _), MCPlacesOf(_, _, _)
MCMeaningOf(expr, env, registry, path) ==
    LET vals == MeaningStep(expr, env, registry, path) IN vals
MCEnvAfter(g, args, registry, path, n) ==
    LET env == EnvStep(g, args, registry, path, n) IN env
MCPlacesOf(expr, here, registry) ==
    LET places == PlacesStep(expr, here, registry) IN places

RECURSIVE Subexprs(_), DepthOf(_)
Subexprs(e) == {e} \cup UNION {Subexprs(x) : x \in Children(e)}
DepthOf(e) == IF Children(e) = {} THEN 0 ELSE 1 + Max({DepthOf(x) : x \in Children(e)})

MCGraphs == {g : g \in UNION {{p.graph} \cup {p.graphs[name] : name \in DOMAIN p.graphs} :
                                 p \in MCPrograms}}
MCRoots == {e : e \in UNION {ToSet(g.body) \cup {g.lets[i].value : i \in DOMAIN g.lets} :
                                 g \in MCGraphs}}
MCExprs == {e : e \in UNION {Subexprs(e) : e \in MCRoots}}
MCParts == [e \in MCExprs |-> Subexprs(e)]
MCDepth == [e \in MCExprs |-> DepthOf(e)]

\* The loops of the code: bindings are made one at a time, and undone one at a
\* time from the latest to the earliest (restore_values).
OneByOne(map, names, vals) ==
    FoldLeftDomain(LAMBDA m, i : MapInsert(m, names[i], vals[i]), map, names)
UndoneOneByOne(map, old) ==
    FoldRight(LAMBDA o, m : IF o.old = << >> THEN MapRemove(m, o.name)
                            ELSE MapInsert(m, o.name, o.old[1]), old, map)

ASSUME LoopsAssumption ==
    \A map \in UNION {[D -> {"a"}] : D \in SUBSET {"x", "y", "z"}}, names \in SeqOf({"x", "y"}, 3) :
        LET vals == <<1, 2, 3>>
            bound == Bound(map, names, vals)
        IN  /\ bound.map = OneByOne(map, names, vals)
            /\ \A more \in SeqOf({"x", "z"}, 2) :
                 LET last == Bound(bound.map, more, vals)
                     old == bound.old \o last.old
                 IN  PutBack(last.map, old, Earliest(old)) = UndoneOneByOne(last.map, old)

==============================================================================
