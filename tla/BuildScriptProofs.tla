---------------------------- MODULE BuildScriptProofs ----------------------------
(***************************************************************************)
(* Proofs about BuildScript, for any scripts, items and compiler builds,   *)
(* and however often sources, scripts and compiler change and runs fail:   *)
(* what Cargo lets the target crate embed is whole, matching and current.  *)
(***************************************************************************)
EXTENDS BuildScript, SequenceTheorems, TLAPS

\* The emits of a script write different files, and different artifacts into
\* the VMFBs they name.
ScriptsAreClear ==
    \A s \in Scripts : \A i, k \in DOMAIN s :
        /\ s[i].file = s[k].file => i = k
        /\ \A g \in ToSet(s[i].items), h \in ToSet(s[k].items) :
             VmfbName(s[i], g) = VmfbName(s[k], h) =>
                 g = h /\ s[i].kind = s[k].kind /\ s[i].stub = s[k].stub /\ s[i].extra = s[k].extra

\* A file that was cut off is not a whole one.
TornIsNone == \A e, g, v, lib : Torn # Artifact(e, g, v, lib)

Emits == UNION {ToSet(s) : s \in Scripts}
Modules == {Module(e, g, v) : e \in Emits, g \in Items, v \in Nat}
Runs ==
    [step : {"compile", "codegen", "output"}, script : Scripts, version : [Sources -> Nat], emit : Nat,
     item : Nat, generated : Seq(Modules), declared : SUBSET ({Library} \cup Sources)]

(***************************************************************************)
(* The inductive invariant.  What the running script has written so far is *)
(* current but for what has changed since it started, and so is everything *)
(* once it has succeeded.                                                  *)
(***************************************************************************)
\* The input whose change makes an item's source another.
Origin(e, g) == IF e.kind = "mlir" THEN Source(e, g) ELSE BuildRs

\* The artifact of an item, of now or of what has changed since.
Fresh(e, g, a) ==
    \E v \in Nat, lib \in Libraries :
        /\ a = Artifact(e, g, v, lib)
        /\ lib = library \/ Library \in changed
        /\ v = version[Source(e, g)] \/ Origin(e, g) \in changed

Stored(e, g) == VmfbName(e, g) \in DOMAIN vmfb /\ Fresh(e, g, vmfb[VmfbName(e, g)])

ModulesOf(e, versions) ==
    [j \in DOMAIN e.items |-> Module(e, e.items[j], versions[Source(e, e.items[j])])]

Written(e, versions) == e.file \in DOMAIN wrapper /\ wrapper[e.file] = ModulesOf(e, versions)

\* Item j of emit i has been compiled in this run.
Compiled(i, j) ==
    \/ i < run.emit
    \/ i = run.emit /\ (run.step = "output" \/ j < run.item \/ (run.step = "codegen" /\ j = run.item))

Generated == IF run.step = "output" THEN Len(Emit.items) ELSE run.item - 1

TypesHold ==
    /\ script \in Scripts /\ version \in [Sources -> Nat] /\ library \in Libraries
    /\ changed \subseteq {BuildRs, Library} \cup Sources
    /\ tracked \subseteq {Library} \cup Sources
    /\ succeeded \in BOOLEAN /\ built \in BOOLEAN
    /\ run.step \in {"idle", "compile", "codegen", "output"}

RunHolds ==
    /\ run \in Runs /\ ~succeeded
    /\ run.emit \in DOMAIN run.script
    /\ run.step # "output" => run.item \in DOMAIN Emit.items
    /\ run.step = "output" => run.item = 1
    /\ Len(run.generated) = Generated
    /\ \A j \in 1..Generated : run.generated[j] = ModulesOf(Emit, run.version)[j]

\* The script that runs is build.rs, or build.rs has changed since.
RunIsRecent ==
    /\ run.script = script \/ BuildRs \in changed
    /\ \A g \in Items : run.version[<<"traced", g>>] = version[<<"traced", g>>] \/ BuildRs \in changed

RunStores ==
    /\ \A i \in DOMAIN run.script, e \in Emits : e = run.script[i] =>
         \A j \in DOMAIN e.items, g \in Items : (g = e.items[j] /\ Compiled(i, j)) =>
             Stored(e, g) /\ Declares(e, g) \subseteq run.declared
    /\ \A i \in 1..run.emit - 1 : Written(run.script[i], run.version)

OutDirIsCurrent ==
    \A e \in ToSet(script) :
        /\ Written(e, version)
        /\ \A g \in ToSet(e.items) : Stored(e, g) /\ Declares(e, g) \subseteq tracked

\* What the crate is to hold of an emit.
Exact(e) ==
    [j \in DOMAIN e.items |->
        [module |-> Module(e, e.items[j], version[Source(e, e.items[j])]),
         artifact |-> Artifact(e, e.items[j], version[Source(e, e.items[j])], library)]]

BuildInv ==
    /\ TypesHold
    /\ Running => RunHolds /\ RunIsRecent /\ RunStores
    /\ (~Running /\ succeeded /\ BuildRs \notin changed) => OutDirIsCurrent
    /\ CrateIsCurrent
    /\ ModulesEmbedTheirOwn
    /\ VariantsRecordFlags
------------------------------------------------------------------------------
(* Scripts, files and modules *)

\* Emits and items by their places.
LEMMA ScriptShape ==
    ASSUME NEW s \in Scripts
    PROVE  /\ Len(s) \in Nat /\ DOMAIN s = 1..Len(s) /\ 1 \in DOMAIN s
           /\ \A i \in DOMAIN s :
                /\ s[i] \in Emits /\ s[i].kind \in {"graph", "grad", "mlir"}
                /\ Len(s[i].items) \in Nat /\ DOMAIN s[i].items = 1..Len(s[i].items)
                /\ s[i].items = <<>> <=> Len(s[i].items) = 0
                /\ \A j \in DOMAIN s[i].items : s[i].items[j] \in Items /\ s[i].items[j] \in ToSet(s[i].items)
<1>1. s \in Seq(ToSet(s)) /\ s # <<>>
  BY BuildAssumption
<1>2. Len(s) \in Nat /\ DOMAIN s = 1..Len(s) /\ 1 \in DOMAIN s
  BY <1>1
<1>3. ASSUME NEW i \in DOMAIN s
      PROVE  /\ s[i] \in Emits /\ s[i].kind \in {"graph", "grad", "mlir"}
             /\ Len(s[i].items) \in Nat /\ DOMAIN s[i].items = 1..Len(s[i].items)
             /\ s[i].items = <<>> <=> Len(s[i].items) = 0
             /\ \A j \in DOMAIN s[i].items : s[i].items[j] \in Items /\ s[i].items[j] \in ToSet(s[i].items)
  <2>1. s[i] \in ToSet(s)
    BY <1>3 DEF ToSet
  <2>2. s[i].kind \in {"graph", "grad", "mlir"} /\ s[i].items \in Seq(Items)
    BY <2>1, BuildAssumption
  <2> QED
    BY <2>1, <2>2 DEF Emits, ToSet
<1> QED
  BY <1>2, <1>3

\* The items of an emit of a script.
LEMMA ItemsOfScript ==
    ASSUME NEW s \in Scripts, NEW e \in ToSet(s), NEW g \in ToSet(e.items)
    PROVE  e \in Emits /\ g \in Items
BY ScriptShape DEF ToSet

\* Put writes one file and leaves the others.
LEMMA PutIs ==
    ASSUME NEW files, NEW name, NEW content
    PROVE  /\ DOMAIN Put(files, name, content) = DOMAIN files \cup {name}
           /\ Put(files, name, content)[name] = content
           /\ \A n \in DOMAIN files \ {name} : Put(files, name, content)[n] = files[n]
BY DEF Put

\* The source of an item, and the input it is known to Cargo by.
LEMMA SourceIs ==
    ASSUME NEW e, NEW g \in Items
    PROVE  /\ Source(e, g) \in Sources
           /\ e.kind # "mlir" => Source(e, g) = <<"traced", g>> /\ Origin(e, g) = BuildRs
           /\ e.kind = "mlir" => /\ Source(e, g) = <<"model", g>> /\ Origin(e, g) = <<"model", g>>
                                 /\ Origin(e, g) \in Declares(e, g)
BY DEF Source, Sources, Origin, Declares

\* Of a model, the module does not depend on its file.
LEMMA ModulesOfVersions ==
    ASSUME NEW e, NEW v, NEW w, \A j \in DOMAIN e.items : e.items[j] \in Items,
           e.kind = "mlir" \/ \A g \in Items : v[<<"traced", g>>] = w[<<"traced", g>>]
    PROVE  ModulesOf(e, v) = ModulesOf(e, w)
<1>1. ASSUME NEW j \in DOMAIN e.items
      PROVE  Module(e, e.items[j], v[Source(e, e.items[j])]) = Module(e, e.items[j], w[Source(e, e.items[j])])
  <2>1. CASE e.kind = "mlir"
    BY <2>1 DEF Module
  <2>2. CASE e.kind # "mlir"
    BY <2>2, SourceIs, <1>1
  <2> QED
    BY <2>1, <2>2
<1> QED
  BY <1>1 DEF ModulesOf
------------------------------------------------------------------------------
(* Each action keeps the invariant *)

\* OUT_DIR is empty and nothing is built.
THEOREM InitInv == Init => BuildInv
<1> SUFFICES ASSUME Init PROVE BuildInv
  OBVIOUS
<1>1. TypesHold /\ ~Running /\ ~succeeded
  BY DEF Init, TypesHold, Running, NotRunning
<1>2. CrateIsCurrent
  BY <1>1 DEF CrateIsCurrent, Dirty
<1>3. ModulesEmbedTheirOwn /\ VariantsRecordFlags
  BY DEF Init, ModulesEmbedTheirOwn, VariantsRecordFlags, Embedded
<1> QED
  BY <1>1, <1>2, <1>3 DEF BuildInv

\* A crate that is not rebuilt is as whole and matching as it was.
LEMMA CrateStays ==
    ASSUME BuildInv, UNCHANGED crate
    PROVE  ModulesEmbedTheirOwn' /\ VariantsRecordFlags'
BY DEF BuildInv, ModulesEmbedTheirOwn, VariantsRecordFlags, Embedded

\* A run that starts has compiled nothing and everything it will use is of now.
LEMMA StartScriptKeeps == BuildInv /\ StartScript => BuildInv'
<1> SUFFICES ASSUME BuildInv, StartScript PROVE BuildInv'
  OBVIOUS
<1>1. /\ ~Running /\ changed' = {} /\ succeeded' = FALSE
      /\ UNCHANGED <<script, version, library, vmfb, wrapper, tracked, crate, built>>
      /\ run' = [step |-> FirstStep(script[1]), script |-> script, version |-> version,
                 emit |-> 1, item |-> 1, generated |-> <<>>, declared |-> {}]
  BY DEF StartScript, outDir
<1>2. script \in Scripts /\ version \in [Sources -> Nat]
  BY DEF BuildInv, TypesHold
<1>3. FirstStep(script[1]) \in {"compile", "output"} /\ (FirstStep(script[1]) = "output" <=> script[1].items = <<>>)
  BY DEF FirstStep
<1>4. TypesHold' /\ Running'
  BY <1>1, <1>3 DEF BuildInv, TypesHold, Running
<1>5. RunHolds'
  <2>1. run' \in Runs
    BY <1>1, <1>2, <1>3 DEF Runs
  <2>2. /\ run'.emit \in DOMAIN run'.script /\ Generated' = 0 /\ Len(run'.generated) = 0
        /\ run'.step # "output" => run'.item \in DOMAIN Emit'.items
    BY <1>1, <1>2, <1>3, ScriptShape DEF Generated, Emit
  <2> QED
    BY <1>1, <2>1, <2>2 DEF RunHolds
<1>6. RunIsRecent'
  BY <1>1, <1>2 DEF RunIsRecent
<1>7. RunStores'
  <2>1. ASSUME NEW i \in DOMAIN script, NEW e \in Emits, e = script[i], NEW j \in DOMAIN e.items
        PROVE  ~Compiled(i, j)'
    <3>1. /\ i \in Nat \ {0} /\ j \in Nat \ {0} /\ DOMAIN e.items = 1..Len(e.items)
          /\ e.items = <<>> <=> Len(e.items) = 0
      BY <1>2, <2>1, ScriptShape
    <3>2. i = 1 => FirstStep(script[1]) # "output"
      BY <1>3, <2>1, <3>1
    <3> QED
      BY <1>1, <1>3, <3>1, <3>2 DEF Compiled
  <2>2. 1..run'.emit - 1 = {}
    BY <1>1
  <2> QED
    BY <1>1, <2>1, <2>2 DEF RunStores
<1>8. CrateIsCurrent'
  BY <1>4 DEF CrateIsCurrent
<1> QED
  BY <1>1, <1>4, <1>5, <1>6, <1>7, <1>8, CrateStays DEF BuildInv

\* What is compiled now is current but for what changes later.
LEMMA CompiledIsFresh ==
    ASSUME BuildInv, Running, run.item \in DOMAIN Emit.items
    PROVE  Fresh(Emit, Item, Artifact(Emit, Item, SourceVersion, library))
<1>1. RunHolds /\ RunIsRecent /\ run \in Runs /\ run.script \in Scripts
  BY DEF BuildInv, RunHolds, Runs
<1>2. Item \in Items
  BY <1>1, ScriptShape DEF Item, Emit, RunHolds
<1>3. version \in [Sources -> Nat] /\ run.version \in [Sources -> Nat] /\ library \in Libraries
  BY <1>1 DEF BuildInv, TypesHold, Runs
<1>4. SourceVersion \in Nat
  BY <1>2, <1>3, SourceIs DEF SourceVersion
<1>5. SourceVersion = version[Source(Emit, Item)] \/ Origin(Emit, Item) \in changed
  BY <1>1, <1>2, SourceIs DEF SourceVersion, RunIsRecent
<1> QED
  BY <1>3, <1>4, <1>5 DEF Fresh

\* Emits alike but for their files make the same artifact of an item.
LEMMA AlikeEmits ==
    ASSUME NEW e, NEW f, NEW g, NEW a, e.kind = f.kind, e.stub = f.stub, e.extra = f.extra, Fresh(e, g, a)
    PROVE  Fresh(f, g, a)
BY DEF Fresh, Artifact, FlagsOf, Source, Origin

\* What is fresh stays so while nothing changes.
LEMMA FreshStays ==
    ASSUME NEW e, NEW g, NEW a, UNCHANGED <<version, library, changed>>
    PROVE  Fresh(e, g, a)' <=> Fresh(e, g, a)
BY DEF Fresh

\* An item is compiled: its VMFB is replaced by one that is as fresh.
LEMMA CompileItemKeeps ==
    ASSUME ScriptsAreClear, BuildInv, CompileItem
    PROVE  BuildInv'
<1> DEFINE name == VmfbName(Emit, Item)
           art == Artifact(Emit, Item, SourceVersion, library)
<1>1. /\ Running /\ run.step = "compile" /\ vmfb' = Put(vmfb, name, art)
      /\ run' = [run EXCEPT !.step = "codegen", !.declared = run.declared \cup Declares(Emit, Item)]
      /\ UNCHANGED <<script, version, library, changed, wrapper, tracked, succeeded, crate, built>>
  BY DEF CompileItem, Running, inputs, cargo
<1>2. RunHolds /\ RunIsRecent /\ RunStores /\ run \in Runs /\ run.script \in Scripts
  BY <1>1 DEF BuildInv, RunHolds, Runs
<1>3. /\ run.emit \in DOMAIN run.script /\ run.item \in DOMAIN Emit.items /\ Item \in Items
      /\ Item \in ToSet(Emit.items)
  BY <1>1, <1>2, ScriptShape DEF RunHolds, Emit, Item
<1>4. Fresh(Emit, Item, art)
  BY <1>1, <1>3, CompiledIsFresh
<1>5. Declares(Emit, Item) \subseteq {Library} \cup Sources
  BY <1>3, SourceIs DEF Declares
<1> HIDE DEF name, art
<1>6. DOMAIN vmfb' = DOMAIN vmfb \cup {name} /\ vmfb'[name] = art /\ \A n \in DOMAIN vmfb \ {name} : vmfb'[n] = vmfb[n]
  <2>1. vmfb' = Put(vmfb, name, art)
    BY <1>1
  <2> QED
    BY <2>1 DEF Put
<1>7. /\ run' \in Runs /\ run'.step = "codegen" /\ run'.script = run.script /\ run'.version = run.version
      /\ run'.emit = run.emit /\ run'.item = run.item /\ run'.generated = run.generated
      /\ run'.declared = run.declared \cup Declares(Emit, Item)
  BY <1>1, <1>2, <1>5 DEF Runs
<1>8. TypesHold' /\ Running' /\ Emit' = Emit /\ Generated' = Generated
  BY <1>1, <1>7 DEF BuildInv, TypesHold, Running, Emit, Generated
<1>9. RunHolds'
  BY <1>1, <1>2, <1>3, <1>7, <1>8 DEF RunHolds
<1>10. RunIsRecent'
  BY <1>1, <1>2, <1>7 DEF RunIsRecent
<1>11. ASSUME NEW i \in DOMAIN run.script, NEW e \in Emits, e = run.script[i],
              NEW j \in DOMAIN e.items, NEW g \in Items, g = e.items[j], Compiled(i, j)'
       PROVE  Stored(e, g)' /\ Declares(e, g) \subseteq run'.declared
  <2>1. g \in ToSet(e.items) /\ i \in Nat /\ j \in Nat /\ run.emit \in Nat /\ run.item \in Nat
    BY <1>2, <1>11, ScriptShape DEF Runs
  <2>2. CASE i = run.emit /\ j = run.item
    <3>1. e = Emit /\ g = Item
      BY <1>11, <2>2 DEF Emit, Item
    <3>2. VmfbName(e, g) = name /\ Fresh(e, g, art)
      BY <1>4, <3>1 DEF name
    <3> QED
      BY <1>1, <1>6, <1>7, <3>1, <3>2, FreshStays DEF Stored
  <2>3. CASE ~(i = run.emit /\ j = run.item)
    <3>1. Compiled(i, j)
      BY <1>1, <1>7, <1>11, <2>1, <2>3 DEF Compiled
    <3>2. Stored(e, g) /\ Declares(e, g) \subseteq run.declared
      BY <1>2, <1>11, <3>1 DEF RunStores
    <3>3. CASE VmfbName(e, g) # name
      BY <1>1, <1>6, <1>7, <3>2, <3>3, FreshStays DEF Stored
    <3>4. CASE VmfbName(e, g) = name
      <4>1. g = Item /\ Emit.kind = e.kind /\ Emit.stub = e.stub /\ Emit.extra = e.extra
        BY <1>2, <1>3, <1>11, <2>1, <3>4 DEF ScriptsAreClear, Emit, name
      <4>2. Fresh(e, g, art)
        BY <1>4, <4>1, AlikeEmits
      <4> QED
        BY <1>1, <1>6, <1>7, <3>2, <3>4, <4>2, FreshStays DEF Stored
    <3> QED
      BY <3>3, <3>4
  <2> QED
    BY <2>2, <2>3
<1>12. \A i \in 1..run.emit - 1 : Written(run.script[i], run.version)'
  BY <1>1, <1>2, <1>7 DEF RunStores, Written, ModulesOf
<1>13. RunStores'
  BY <1>7, <1>11, <1>12 DEF RunStores
<1>14. CrateIsCurrent'
  BY <1>8 DEF CrateIsCurrent
<1> QED
  BY <1>1, <1>8, <1>9, <1>10, <1>13, <1>14, CrateStays DEF BuildInv

\* The module of an item is generated from what the script traced.
LEMMA GenerateModuleKeeps == BuildInv /\ GenerateModule => BuildInv'
<1> SUFFICES ASSUME BuildInv, GenerateModule PROVE BuildInv'
  OBVIOUS
<1> DEFINE m == Module(Emit, Item, run.version[Source(Emit, Item)])
           last == run.item = Len(Emit.items)
<1>1. /\ Running /\ run.step = "codegen"
      /\ run' = [run EXCEPT !.step = IF last THEN "output" ELSE "compile",
                            !.item = IF last THEN 1 ELSE run.item + 1,
                            !.generated = Append(run.generated, m)]
      /\ UNCHANGED <<script, version, library, changed, vmfb, wrapper, tracked, succeeded, crate, built>>
  BY DEF GenerateModule, Running, inputs, outDir, cargo
<1>2. RunHolds /\ RunIsRecent /\ RunStores /\ run \in Runs /\ run.script \in Scripts
  BY <1>1 DEF BuildInv, RunHolds, Runs
<1>3. /\ run.emit \in DOMAIN run.script /\ run.item \in DOMAIN Emit.items /\ Item \in Items /\ Emit \in Emits
      /\ DOMAIN Emit.items = 1..Len(Emit.items) /\ Len(Emit.items) \in Nat
  BY <1>1, <1>2, ScriptShape DEF RunHolds, Emit, Item
<1>4. m \in Modules
  BY <1>2, <1>3, SourceIs DEF Modules, Runs
<1>5. m = ModulesOf(Emit, run.version)[run.item]
  BY <1>3 DEF ModulesOf, Item
<1> HIDE DEF m
<1>6. /\ run' \in Runs /\ run'.script = run.script /\ run'.version = run.version
      /\ run'.emit = run.emit /\ run'.declared = run.declared /\ run'.generated = Append(run.generated, m)
      /\ last => run'.step = "output" /\ run'.item = 1
      /\ ~last => run'.step = "compile" /\ run'.item = run.item + 1
  <2>1. Append(run.generated, m) \in Seq(Modules) /\ run.item \in Nat
    BY <1>2, <1>4 DEF Runs
  <2> HIDE DEF last
  <2>2. (IF last THEN "output" ELSE "compile") \in {"compile", "codegen", "output"}
        /\ (IF last THEN 1 ELSE run.item + 1) \in Nat
    BY <2>1
  <2> QED
    BY <1>1, <1>2, <2>1, <2>2 DEF Runs
<1>7. TypesHold' /\ Running' /\ Emit' = Emit
  BY <1>1, <1>6 DEF BuildInv, TypesHold, Running, Emit
<1>8. Generated' = run.item /\ Generated = run.item - 1 /\ run.item \in Nat \ {0} /\ Generated' \in Nat
  BY <1>1, <1>3, <1>6, <1>7 DEF Generated
<1>9. RunHolds'
  <2>1. run.generated \in Seq(Modules) /\ Len(run.generated) = run.item - 1
    BY <1>2, <1>8 DEF RunHolds, Runs
  <2>2. /\ Len(run'.generated) = run.item /\ run'.generated[run.item] = m
        /\ \A j \in 1..run.item - 1 : run'.generated[j] = run.generated[j]
    BY <1>4, <1>6, <1>8, <2>1
  <2>3. \A j \in 1..run.item : run'.generated[j] = ModulesOf(Emit, run.version)[j]
    BY <1>2, <1>5, <1>8, <2>2 DEF RunHolds
  <2>4. run'.step # "output" => run'.item \in DOMAIN Emit.items
    BY <1>3, <1>6, <1>8
  <2>5. \A j \in 1..Generated' : run'.generated[j] = ModulesOf(Emit, run.version)[j]
    BY <1>8, <2>3
  <2>6. ModulesOf(Emit, run.version)' = ModulesOf(Emit, run.version)
    BY <1>6, <1>7 DEF ModulesOf
  <2> QED
    BY <1>1, <1>2, <1>3, <1>6, <1>7, <1>8, <2>2, <2>4, <2>5, <2>6 DEF RunHolds
<1>10. RunIsRecent'
  BY <1>1, <1>2, <1>6 DEF RunIsRecent
<1>11. ASSUME NEW i \in DOMAIN run.script, NEW e \in Emits, e = run.script[i],
              NEW j \in DOMAIN e.items, NEW g \in Items, g = e.items[j], Compiled(i, j)'
       PROVE  Stored(e, g)' /\ Declares(e, g) \subseteq run'.declared
  <2>1. i \in Nat /\ run.emit \in Nat /\ DOMAIN e.items = 1..Len(e.items) /\ Len(e.items) \in Nat
    BY <1>2, <1>11, ScriptShape DEF Runs
  <2>2. i = run.emit => e = Emit
    BY <1>11 DEF Emit
  <2>3. Compiled(i, j)
    BY <1>1, <1>3, <1>6, <1>11, <2>1, <2>2 DEF Compiled
  <2> QED
    BY <1>1, <1>2, <1>6, <1>11, <2>3, FreshStays DEF RunStores, Stored
<1>12. \A i \in 1..run.emit - 1 : Written(run.script[i], run.version)'
  BY <1>1, <1>2, <1>6 DEF RunStores, Written, ModulesOf
<1>13. RunStores'
  BY <1>6, <1>11, <1>12 DEF RunStores
<1>14. CrateIsCurrent'
  BY <1>7 DEF CrateIsCurrent
<1> QED
  BY <1>1, <1>7, <1>9, <1>10, <1>13, <1>14, CrateStays DEF BuildInv

\* A wrapper is written with the modules of all its items, and leaves the
\* wrappers of earlier emits alone.
LEMMA WriteOutputWrites ==
    ASSUME ScriptsAreClear, BuildInv, WriteOutput
    PROVE  \A i \in 1..run.emit : LET e == run.script[i] IN
               e.file \in DOMAIN wrapper' /\ wrapper'[e.file] = ModulesOf(e, run.version)
<1>1. Running /\ run.step = "output" /\ wrapper' = Put(wrapper, Emit.file, run.generated)
  BY DEF WriteOutput, Running
<1>2. RunHolds /\ RunStores /\ run \in Runs /\ run.script \in Scripts
  BY <1>1 DEF BuildInv, RunHolds, Runs
<1>3. /\ run.emit \in DOMAIN run.script /\ run.emit \in Nat /\ DOMAIN run.script = 1..Len(run.script)
      /\ Len(run.script) \in Nat
      /\ DOMAIN Emit.items = 1..Len(Emit.items) /\ Len(Emit.items) \in Nat
  BY <1>2, ScriptShape DEF RunHolds, Emit, Runs
<1>4. run.generated = ModulesOf(Emit, run.version)
  <2>1. /\ Generated = Len(Emit.items) /\ Len(run.generated) = Len(Emit.items) /\ run.generated \in Seq(Modules)
        /\ \A j \in 1..Len(Emit.items) : run.generated[j] = ModulesOf(Emit, run.version)[j]
    BY <1>1, <1>2 DEF RunHolds, Generated, Runs
  <2>2. /\ DOMAIN ModulesOf(Emit, run.version) = 1..Len(Emit.items)
        /\ ModulesOf(Emit, run.version) = [j \in 1..Len(Emit.items) |-> ModulesOf(Emit, run.version)[j]]
    BY <1>3 DEF ModulesOf
  <2>3. run.generated = [j \in 1..Len(Emit.items) |-> run.generated[j]]
    BY <2>1
  <2> QED
    BY <2>1, <2>2, <2>3
<1>5. /\ DOMAIN wrapper' = DOMAIN wrapper \cup {Emit.file} /\ wrapper'[Emit.file] = run.generated
      /\ \A n \in DOMAIN wrapper \ {Emit.file} : wrapper'[n] = wrapper[n]
  BY <1>1 DEF Put
<1>6. ASSUME NEW i \in 1..run.emit
      PROVE  run.script[i].file \in DOMAIN wrapper' /\ wrapper'[run.script[i].file] = ModulesOf(run.script[i], run.version)
  <2>1. CASE i = run.emit
    BY <1>4, <1>5, <2>1 DEF Emit
  <2>2. CASE i # run.emit
    <3>1. i \in 1..run.emit - 1 /\ i \in DOMAIN run.script
      BY <1>3, <1>6, <2>2
    <3>2. run.script[i].file # Emit.file
      BY <1>2, <1>3, <2>2, <3>1 DEF ScriptsAreClear, Emit
    <3> QED
      BY <1>2, <1>5, <3>1, <3>2 DEF RunStores, Written
  <2> QED
    BY <2>1, <2>2
<1> QED
  BY <1>6

\* The next emit starts with nothing of its own compiled.
LEMMA WriteOutputGoesOn ==
    ASSUME ScriptsAreClear, BuildInv, WriteOutput, run.emit < Len(run.script)
    PROVE  BuildInv'
<1> DEFINE next == run.script[run.emit + 1]
<1>1. /\ Running /\ run.step = "output"
      /\ run' = [run EXCEPT !.step = FirstStep(next), !.emit = run.emit + 1, !.generated = <<>>]
      /\ UNCHANGED <<script, version, library, changed, vmfb, tracked, succeeded, crate, built>>
  BY DEF WriteOutput, Running, inputs, cargo
<1>2. RunHolds /\ RunIsRecent /\ RunStores /\ run \in Runs /\ run.script \in Scripts
  BY <1>1 DEF BuildInv, RunHolds, Runs
<1>3. /\ run.emit + 1 \in DOMAIN run.script /\ run.emit \in Nat /\ run.item = 1 /\ run.emit \in DOMAIN run.script
      /\ DOMAIN next.items = 1..Len(next.items) /\ Len(next.items) \in Nat
      /\ next.items = <<>> <=> Len(next.items) = 0
  <2>1. /\ run.emit \in DOMAIN run.script /\ DOMAIN run.script = 1..Len(run.script) /\ Len(run.script) \in Nat
        /\ run.emit \in Nat /\ run.item = 1
    BY <1>1, <1>2, ScriptShape DEF RunHolds, Runs
  <2>2. run.emit + 1 \in DOMAIN run.script
    BY <2>1
  <2> QED
    BY <1>2, <2>1, <2>2, ScriptShape
<1>4. FirstStep(next) \in {"compile", "output"} /\ (FirstStep(next) = "output" <=> next.items = <<>>)
  BY DEF FirstStep
<1> HIDE DEF next
<1>5. /\ run' \in Runs /\ run'.script = run.script /\ run'.version = run.version /\ run'.declared = run.declared
      /\ run'.emit = run.emit + 1 /\ run'.generated = <<>> /\ run'.item = 1 /\ run'.step = FirstStep(next)
  <2>1. <<>> \in Seq(Modules) /\ run.emit + 1 \in Nat /\ FirstStep(next) \in {"compile", "codegen", "output"}
    BY <1>3, <1>4
  <2> QED
    BY <1>1, <1>2, <1>3, <2>1 DEF Runs
<1>6. TypesHold' /\ Running' /\ Emit' = next
  BY <1>1, <1>4, <1>5 DEF BuildInv, TypesHold, Running, Emit, next
<1>7. Generated' = 0
  BY <1>3, <1>4, <1>5, <1>6 DEF Generated
<1>8. RunHolds'
  <2>1. run'.step # "output" => run'.item \in DOMAIN next.items
    BY <1>3, <1>4, <1>5
  <2> QED
    BY <1>1, <1>2, <1>3, <1>5, <1>6, <1>7, <2>1 DEF RunHolds
<1>9. RunIsRecent'
  BY <1>1, <1>2, <1>5 DEF RunIsRecent
<1>10. ASSUME NEW i \in DOMAIN run.script, NEW e \in Emits, e = run.script[i],
              NEW j \in DOMAIN e.items, NEW g \in Items, g = e.items[j], Compiled(i, j)'
       PROVE  Stored(e, g)' /\ Declares(e, g) \subseteq run'.declared
  <2>1. i \in Nat /\ DOMAIN e.items = 1..Len(e.items) /\ j \in Nat \ {0}
    BY <1>2, <1>10, ScriptShape
  <2>2. i = run.emit + 1 => e = next
    BY <1>10 DEF next
  <2>3. i # run.emit + 1
    BY <1>3, <1>4, <1>5, <1>10, <2>1, <2>2 DEF Compiled
  <2>4. Compiled(i, j)
    BY <1>1, <1>3, <1>5, <1>10, <2>1, <2>3 DEF Compiled
  <2> QED
    BY <1>1, <1>2, <1>5, <1>10, <2>4, FreshStays DEF RunStores, Stored
<1>11. \A i \in 1..run.emit : Written(run.script[i], run.version)'
  BY <1>5, WriteOutputWrites DEF Written, ModulesOf
<1>12. RunStores'
  <2>1. run'.emit - 1 = run.emit
    BY <1>3, <1>5
  <2> QED
    BY <1>5, <1>10, <1>11, <2>1 DEF RunStores
<1>13. CrateIsCurrent'
  BY <1>6 DEF CrateIsCurrent
<1> QED
  BY <1>1, <1>6, <1>8, <1>9, <1>12, <1>13, CrateStays DEF BuildInv

\* After the last emit OUT_DIR holds what the script of now asks for, unless
\* build.rs changed meanwhile.
LEMMA WriteOutputEnds ==
    ASSUME ScriptsAreClear, BuildInv, WriteOutput, ~(run.emit < Len(run.script))
    PROVE  BuildInv'
<1>1. /\ Running /\ run.step = "output" /\ run' = NotRunning /\ tracked' = run.declared
      /\ succeeded' = TRUE /\ built' = FALSE
      /\ UNCHANGED <<script, version, library, changed, vmfb, crate>>
  BY DEF WriteOutput, Running, inputs
<1>2. RunHolds /\ RunIsRecent /\ RunStores /\ run \in Runs /\ run.script \in Scripts
  BY <1>1 DEF BuildInv, RunHolds, Runs
<1>3. /\ DOMAIN run.script = 1..Len(run.script) /\ Len(run.script) \in Nat /\ run.emit = Len(run.script)
  <2>1. run.emit \in DOMAIN run.script /\ DOMAIN run.script = 1..Len(run.script) /\ Len(run.script) \in Nat
    BY <1>2, ScriptShape DEF RunHolds
  <2> QED
    BY <2>1
<1>4. TypesHold' /\ ~Running'
  BY <1>1, <1>2 DEF BuildInv, TypesHold, Running, NotRunning, Runs
<1>5. ASSUME BuildRs \notin changed, NEW e \in ToSet(script)
      PROVE  Written(e, version)' /\ \A g \in ToSet(e.items) : Stored(e, g)' /\ Declares(e, g) \subseteq tracked'
  <2>1. run.script = script /\ \A g \in Items : run.version[<<"traced", g>>] = version[<<"traced", g>>]
    BY <1>2, <1>5 DEF RunIsRecent
  <2>2. PICK i \in DOMAIN run.script : e = run.script[i]
    BY <2>1, <1>5 DEF ToSet
  <2>3. e \in Emits /\ \A j \in DOMAIN e.items : e.items[j] \in Items
    BY <1>2, <2>2, ScriptShape
  <2>4. ModulesOf(e, run.version) = ModulesOf(e, version)
    BY <2>1, <2>3, ModulesOfVersions
  <2>5. e.file \in DOMAIN wrapper' /\ wrapper'[e.file] = ModulesOf(e, version)
    BY <1>3, <2>2, <2>4, WriteOutputWrites
  <2>6. Written(e, version)'
    BY <1>1, <2>5 DEF Written, ModulesOf
  <2>7. ASSUME NEW g \in ToSet(e.items)
        PROVE  Stored(e, g)' /\ Declares(e, g) \subseteq tracked'
    <3>1. PICK j \in DOMAIN e.items : g = e.items[j]
      BY <2>7 DEF ToSet
    <3>2. Compiled(i, j)
      BY <1>1, <1>3, <2>2 DEF Compiled
    <3>3. Stored(e, g) /\ Declares(e, g) \subseteq run.declared
      BY <1>2, <2>2, <2>3, <3>1, <3>2 DEF RunStores
    <3> QED
      BY <1>1, <3>3, FreshStays DEF Stored
  <2> QED
    BY <2>6, <2>7
<1>6. BuildRs \notin changed' => OutDirIsCurrent'
  BY <1>1, <1>5 DEF OutDirIsCurrent
<1>7. CrateIsCurrent'
  BY <1>1 DEF CrateIsCurrent
<1> QED
  BY <1>1, <1>4, <1>6, <1>7, CrateStays DEF BuildInv

\* A run that fails has not succeeded, whatever it leaves in OUT_DIR.
LEMMA FailureKeeps ==
    ASSUME BuildInv, Running, run' = NotRunning, UNCHANGED <<inputs, cargo>>
    PROVE  BuildInv'
<1>1. /\ TypesHold' /\ ~Running' /\ ~succeeded' /\ UNCHANGED crate
  BY DEF BuildInv, RunHolds, TypesHold, Running, NotRunning, inputs, cargo
<1>2. CrateIsCurrent'
  BY <1>1 DEF CrateIsCurrent, Dirty
<1> QED
  BY <1>1, <1>2, CrateStays DEF BuildInv

\* The property by the emits that build.rs makes.
LEMMA CrateIsExact ==
    CrateIsCurrent <=> ((~Running /\ ~Dirty /\ built) => \A e \in ToSet(script) : crate[e.file] = Exact(e))
BY DEF CrateIsCurrent, Exact, ToSet

\* What is exact stays so while sources and compiler do.
LEMMA ExactStays ==
    ASSUME NEW e, UNCHANGED <<version, library>>
    PROVE  Exact(e)' = Exact(e)
BY DEF Exact

\* What OUT_DIR holds of an item is exact when Cargo sees nothing to rebuild.
LEMMA StoredIsExact ==
    ASSUME BuildInv, ~Running, ~Dirty, NEW e \in ToSet(script), NEW g \in ToSet(e.items)
    PROVE  /\ VmfbName(e, g) \in DOMAIN vmfb
           /\ vmfb[VmfbName(e, g)] = Artifact(e, g, version[Source(e, g)], library)
<1>1. BuildRs \notin changed /\ changed \cap tracked = {} /\ OutDirIsCurrent
  BY DEF BuildInv, Dirty
<1>2. Stored(e, g) /\ Declares(e, g) \subseteq tracked /\ g \in Items
  BY <1>1, ItemsOfScript DEF OutDirIsCurrent, BuildInv, TypesHold
<1>3. PICK v \in Nat, lib \in Libraries :
          /\ vmfb[VmfbName(e, g)] = Artifact(e, g, v, lib)
          /\ lib = library \/ Library \in changed
          /\ v = version[Source(e, g)] \/ Origin(e, g) \in changed
  BY <1>2 DEF Stored, Fresh
<1>4. v = version[Source(e, g)]
  BY <1>1, <1>2, <1>3, SourceIs
<1>5. Artifact(e, g, v, lib) = Artifact(e, g, v, library)
  <2>1. CASE e.stub
    BY <2>1 DEF Artifact
  <2>2. CASE ~e.stub
    BY <1>1, <1>2, <1>3, <2>2 DEF Declares
  <2> QED
    BY <2>1, <2>2
<1> QED
  BY <1>2, <1>3, <1>4, <1>5 DEF Stored

\* The crate takes in what is current, whole and its own.
LEMMA BuildCrateKeeps ==
    ASSUME TornIsNone, BuildInv, BuildCrate
    PROVE  BuildInv'
<1>1. /\ ~Running /\ ~Dirty
      /\ crate' = [f \in Files(script) |->
                    [i \in DOMAIN wrapper[f] |->
                        [module |-> wrapper[f][i], artifact |-> vmfb[wrapper[f][i].vmfb]]]]
      /\ UNCHANGED <<script, version, library, changed, run, vmfb, wrapper, tracked, succeeded>> /\ built' = TRUE
  BY DEF BuildCrate, inputs, outDir
<1>2. OutDirIsCurrent /\ BuildRs \notin changed /\ succeeded /\ script \in Scripts
  BY <1>1 DEF BuildInv, Dirty, TypesHold
<1>3. ASSUME NEW e \in ToSet(script)
      PROVE  crate'[e.file] = Exact(e)
  <2>1. e.file \in Files(script) /\ wrapper[e.file] = ModulesOf(e, version)
    BY <1>2, <1>3 DEF OutDirIsCurrent, Written, Files, ToSet
  <2>2. DOMAIN wrapper[e.file] = DOMAIN e.items
    BY <2>1 DEF ModulesOf
  <2>3. crate'[e.file] = [j \in DOMAIN e.items |->
            [module |-> wrapper[e.file][j], artifact |-> vmfb[wrapper[e.file][j].vmfb]]]
    BY <1>1, <2>1, <2>2
  <2>4. ASSUME NEW j \in DOMAIN e.items
        PROVE  /\ wrapper[e.file][j] = Module(e, e.items[j], version[Source(e, e.items[j])])
               /\ vmfb[wrapper[e.file][j].vmfb] = Artifact(e, e.items[j], version[Source(e, e.items[j])], library)
    <3>1. wrapper[e.file][j] = Module(e, e.items[j], version[Source(e, e.items[j])])
      BY <2>1 DEF ModulesOf
    <3>2. wrapper[e.file][j].vmfb = VmfbName(e, e.items[j])
      BY <3>1 DEF Module
    <3>3. e.items[j] \in ToSet(e.items)
      BY DEF ToSet
    <3> QED
      BY <1>1, <1>3, <3>1, <3>2, <3>3, StoredIsExact
  <2> QED
    BY <2>3, <2>4 DEF Exact
<1>4. TypesHold' /\ ~Running'
  BY <1>1 DEF BuildInv, TypesHold, Running
<1>5. OutDirIsCurrent'
  BY <1>1, <1>2, FreshStays DEF OutDirIsCurrent, Written, Stored, ModulesOf
<1>6. CrateIsCurrent'
  <2>1. ASSUME NEW i \in DOMAIN script, NEW e, e = script[i]
        PROVE  crate'[e.file] = Exact(e)'
    BY <1>1, <1>3, <2>1, ExactStays DEF ToSet
  <2> QED
    BY <1>1, <2>1 DEF CrateIsCurrent, Exact
<1>7. ASSUME NEW m, m \in Embedded'
      PROVE  \E e \in ToSet(script), g \in Items, v \in Nat :
                m.module = Module(e, g, v) /\ m.artifact = Artifact(e, g, v, library)
  <2>1. PICK f \in Files(script) : m \in ToSet(crate'[f])
    BY <1>1, <1>7 DEF Embedded
  <2>2. PICK e \in ToSet(script) : f = e.file
    BY <2>1 DEF Files, ToSet
  <2>3. PICK j \in DOMAIN e.items :
            /\ m.module = Module(e, e.items[j], version[Source(e, e.items[j])])
            /\ m.artifact = Artifact(e, e.items[j], version[Source(e, e.items[j])], library)
    <3>1. PICK j \in DOMAIN crate'[e.file] : m = crate'[e.file][j]
      BY <2>1, <2>2 DEF ToSet
    <3>2. crate'[e.file] = Exact(e)
      BY <1>3
    <3> QED
      BY <3>1, <3>2 DEF Exact
  <2>4. e.items[j] \in Items
    BY <1>2, ItemsOfScript DEF ToSet
  <2>5. version[Source(e, e.items[j])] \in Nat
    BY <2>4, SourceIs DEF BuildInv, TypesHold
  <2> QED
    BY <2>3, <2>4, <2>5
<1>8. ASSUME NEW m, m \in Embedded'
      PROVE  /\ m.artifact # Torn
             /\ m.artifact.kind # "stub" =>
                  /\ m.artifact.kind = m.module.kind /\ m.artifact.item = m.module.item
                  /\ m.module.kind # "mlir" => m.artifact.version = m.module.version
                  /\ m.artifact.flags = m.module.flags
  <2>1. PICK e \in ToSet(script), g \in Items, v \in Nat :
            m.module = Module(e, g, v) /\ m.artifact = Artifact(e, g, v, library)
    BY <1>7, <1>8
  <2>2. m.artifact # Torn
    BY <2>1 DEF TornIsNone
  <2>3. m.artifact.kind # "stub" => ~e.stub
    BY <2>1 DEF Artifact
  <2> QED
    BY <2>1, <2>2, <2>3 DEF Artifact, Module
<1>9. ModulesEmbedTheirOwn' /\ VariantsRecordFlags'
  BY <1>8 DEF ModulesEmbedTheirOwn, VariantsRecordFlags
<1> QED
  BY <1>4, <1>5, <1>6, <1>9 DEF BuildInv

\* What may have become another is known to Cargo as changed.
ChangesAreSeen ==
    /\ changed \subseteq changed'
    /\ script' = script \/ BuildRs \in changed'
    /\ library' = library \/ Library \in changed'
    /\ \A g \in Items :
         /\ version'[<<"model", g>>] = version[<<"model", g>>] \/ <<"model", g>> \in changed'
         /\ version'[<<"traced", g>>] = version[<<"traced", g>>] \/ BuildRs \in changed'

\* What is in OUT_DIR is as fresh after a change as before.
LEMMA StoredThroughChange ==
    ASSUME ChangesAreSeen, TypesHold', UNCHANGED vmfb, NEW e, NEW g \in Items, Stored(e, g)
    PROVE  Stored(e, g)'
<1>1. PICK v \in Nat, lib \in Libraries :
          /\ vmfb[VmfbName(e, g)] = Artifact(e, g, v, lib)
          /\ lib = library \/ Library \in changed
          /\ v = version[Source(e, g)] \/ Origin(e, g) \in changed
  BY DEF Stored, Fresh
<1>2. lib = library' \/ Library \in changed'
  BY <1>1 DEF ChangesAreSeen
<1>3. v = version'[Source(e, g)] \/ Origin(e, g) \in changed'
  BY <1>1, SourceIs DEF ChangesAreSeen
<1> QED
  BY <1>1, <1>2, <1>3 DEF Stored, Fresh

\* What is exact stays so through a change of nothing it was made from.
LEMMA ExactThroughChange ==
    ASSUME BuildInv, ChangesAreSeen, ~Running, succeeded, BuildRs \notin changed', changed' \cap tracked = {},
           NEW e \in ToSet(script)
    PROVE  Exact(e)' = Exact(e)
<1>1. OutDirIsCurrent /\ BuildRs \notin changed
  BY DEF BuildInv, ChangesAreSeen
<1>2. ASSUME NEW j \in DOMAIN e.items
      PROVE  /\ Module(e, e.items[j], version'[Source(e, e.items[j])])
                  = Module(e, e.items[j], version[Source(e, e.items[j])])
             /\ Artifact(e, e.items[j], version'[Source(e, e.items[j])], library')
                  = Artifact(e, e.items[j], version[Source(e, e.items[j])], library)
  <2> DEFINE g == e.items[j]
  <2>1. g \in ToSet(e.items) /\ g \in Items
    BY ItemsOfScript DEF ToSet, BuildInv, TypesHold
  <2>2. Declares(e, g) \subseteq tracked
    BY <1>1, <2>1 DEF OutDirIsCurrent
  <2> HIDE DEF g
  <2>3. version'[Source(e, g)] = version[Source(e, g)]
    BY <2>1, <2>2, SourceIs DEF ChangesAreSeen
  <2>4. Artifact(e, g, version[Source(e, g)], library') = Artifact(e, g, version[Source(e, g)], library)
    <3>1. CASE e.stub
      BY <3>1 DEF Artifact
    <3>2. CASE ~e.stub
      BY <2>2, <3>2 DEF ChangesAreSeen, Declares
    <3> QED
      BY <3>1, <3>2
  <2> QED
    BY <2>3, <2>4 DEF g
<1> QED
  BY <1>2 DEF Exact

\* A change, seen, keeps the invariant.
LEMMA ChangeKeeps ==
    ASSUME BuildInv, ChangesAreSeen, TypesHold', UNCHANGED <<run, vmfb, wrapper, tracked, succeeded, crate, built>>
    PROVE  BuildInv'
<1>1. Running' <=> Running
  BY DEF Running
<1>2. ASSUME Running PROVE RunHolds' /\ RunIsRecent' /\ RunStores'
  <2>1. RunHolds /\ RunIsRecent /\ RunStores
    BY <1>2 DEF BuildInv
  <2>2. RunHolds'
    <3>1. Emit' = Emit /\ Generated' = Generated
      BY DEF Emit, Generated
    <3>2. ModulesOf(Emit, run.version)' = ModulesOf(Emit, run.version)
      BY <3>1 DEF ModulesOf
    <3> QED
      BY <2>1, <3>1, <3>2 DEF RunHolds
  <2>3. RunIsRecent'
    BY <2>1 DEF RunIsRecent, ChangesAreSeen
  <2>4. ASSUME NEW i \in DOMAIN run.script, NEW e \in Emits, e = run.script[i],
               NEW j \in DOMAIN e.items, NEW g \in Items, g = e.items[j], Compiled(i, j)'
        PROVE  Stored(e, g)' /\ Declares(e, g) \subseteq run'.declared
    <3>1. Compiled(i, j)
      BY <2>4 DEF Compiled
    <3> QED
      BY <2>1, <2>4, <3>1, StoredThroughChange DEF RunStores
  <2>5. \A i \in 1..run.emit - 1 : Written(run.script[i], run.version)'
    BY <2>1 DEF RunStores, Written, ModulesOf
  <2>6. RunStores'
    BY <2>4, <2>5 DEF RunStores
  <2> QED
    BY <2>2, <2>3, <2>6
<1>3. ASSUME ~Running, succeeded, BuildRs \notin changed' PROVE OutDirIsCurrent'
  <2>1. OutDirIsCurrent /\ script' = script /\ \A g \in Items : version'[<<"traced", g>>] = version[<<"traced", g>>]
    BY <1>3 DEF BuildInv, ChangesAreSeen
  <2>2. ASSUME NEW e \in ToSet(script)
        PROVE  Written(e, version)' /\ \A g \in ToSet(e.items) : Stored(e, g)' /\ Declares(e, g) \subseteq tracked'
    <3>1. ModulesOf(e, version) = ModulesOf(e, version)'
      <4>1. \A j \in DOMAIN e.items : e.items[j] \in Items
        BY ItemsOfScript DEF ToSet, BuildInv, TypesHold
      <4>2. ModulesOf(e, version) = ModulesOf(e, version')
        BY <2>1, <4>1, ModulesOfVersions
      <4> QED
        BY <4>2 DEF ModulesOf
    <3>2. Written(e, version)'
      BY <2>1, <3>1 DEF OutDirIsCurrent, Written
    <3>3. ASSUME NEW g \in ToSet(e.items) PROVE Stored(e, g)' /\ Declares(e, g) \subseteq tracked'
      BY <2>1, ItemsOfScript, StoredThroughChange DEF OutDirIsCurrent, BuildInv, TypesHold
    <3> QED
      BY <3>2, <3>3
  <2> QED
    BY <2>1, <2>2 DEF OutDirIsCurrent
<1>4. CrateIsCurrent'
  <2> SUFFICES ASSUME ~Running', ~Dirty', built',
                      NEW i \in DOMAIN script', NEW e, e = script'[i]
               PROVE  crate'[e.file] = Exact(e)'
    BY DEF CrateIsCurrent, Exact
  <2>1. succeeded /\ ~Running /\ BuildRs \notin changed' /\ changed' \cap tracked = {}
    BY <1>1 DEF Dirty
  <2>2. script' = script /\ ~Dirty /\ built /\ e \in ToSet(script)
    BY <2>1 DEF ChangesAreSeen, Dirty, ToSet
  <2>3. crate[e.file] = Exact(e)
    BY <2>1, <2>2, CrateIsExact DEF BuildInv
  <2> QED
    BY <2>1, <2>2, <2>3, ExactThroughChange
<1> QED
  BY <1>1, <1>2, <1>3, <1>4, CrateStays DEF BuildInv

\* The changes of sources, of build.rs and of the compiler are seen.
LEMMA ChangesKeep ==
    /\ \A s \in Scripts : BuildInv /\ EditScript(s) => BuildInv'
    /\ \A src \in Sources : BuildInv /\ EditSource(src) => BuildInv'
    /\ \A lib \in Libraries : BuildInv /\ UpgradeCompiler(lib) => BuildInv'
<1>1. ASSUME NEW s \in Scripts, BuildInv, EditScript(s) PROVE BuildInv'
  <2>1. ChangesAreSeen
    BY <1>1 DEF EditScript, Change, ChangesAreSeen
  <2>2. TypesHold'
    BY <1>1 DEF EditScript, Change, BuildInv, TypesHold, outDir, cargo
  <2> QED
    BY <1>1, <2>1, <2>2, ChangeKeeps DEF EditScript, Change, outDir, cargo
<1>2. ASSUME NEW src \in Sources, BuildInv, EditSource(src) PROVE BuildInv'
  <2>1. version \in [Sources -> Nat] /\ version' \in [Sources -> Nat]
    BY <1>2 DEF EditSource, BuildInv, TypesHold
  <2>2. ChangesAreSeen
    BY <1>2, <2>1 DEF EditSource, Change, ChangesAreSeen, Sources
  <2>3. TypesHold'
    BY <1>2, <2>1 DEF EditSource, Change, BuildInv, TypesHold, outDir, cargo
  <2> QED
    BY <1>2, <2>2, <2>3, ChangeKeeps DEF EditSource, Change, outDir, cargo
<1>3. ASSUME NEW lib \in Libraries, BuildInv, UpgradeCompiler(lib) PROVE BuildInv'
  <2>1. ChangesAreSeen
    BY <1>3 DEF UpgradeCompiler, Change, ChangesAreSeen
  <2>2. TypesHold'
    BY <1>3 DEF UpgradeCompiler, Change, BuildInv, TypesHold, outDir, cargo
  <2> QED
    BY <1>3, <2>1, <2>2, ChangeKeeps DEF UpgradeCompiler, Change, outDir, cargo
<1> QED
  BY <1>1, <1>2, <1>3

\* Every step keeps the invariant.
THEOREM NextKeeps ==
    ASSUME ScriptsAreClear, TornIsNone, BuildInv, [Next]_vars
    PROVE  BuildInv'
<1>1. CASE StartScript
  BY <1>1, StartScriptKeeps
<1>2. CASE CompileItem
  BY <1>2, CompileItemKeeps
<1>3. CASE GenerateModule
  BY <1>3, GenerateModuleKeeps
<1>4. CASE WriteOutput
  BY <1>4, WriteOutputGoesOn, WriteOutputEnds
<1>5. CASE Abort
  BY <1>5, FailureKeeps DEF Abort
<1>6. CASE RejectOptions
  BY <1>6, FailureKeeps DEF RejectOptions
<1>7. CASE BuildCrate
  BY <1>7, BuildCrateKeeps
<1>8. CASE \E s \in Scripts : EditScript(s)
  BY <1>8, ChangesKeep
<1>9. CASE \E src \in SourcesOf(script) : EditSource(src)
  <2>1. SourcesOf(script) \subseteq Sources
    BY ItemsOfScript, SourceIs DEF SourcesOf, BuildInv, TypesHold
  <2> QED
    BY <1>9, <2>1, ChangesKeep
<1>10. CASE \E lib \in Libraries : UpgradeCompiler(lib)
  BY <1>10, ChangesKeep
<1>11. CASE UNCHANGED vars
  <2>1. ChangesAreSeen
    BY <1>11 DEF vars, ChangesAreSeen
  <2>2. TypesHold'
    BY <1>11 DEF vars, BuildInv, TypesHold
  <2> QED
    BY <1>11, <2>1, <2>2, ChangeKeeps DEF vars
<1> QED
  BY <1>1, <1>2, <1>3, <1>4, <1>5, <1>6, <1>7, <1>8, <1>9, <1>10, <1>11 DEF Next
------------------------------------------------------------------------------
(* Theorems *)

\* The invariant holds of every run of the specification.
THEOREM BuildInvariant ==
    ASSUME ScriptsAreClear, TornIsNone
    PROVE  Spec => []BuildInv
<1>1. BuildInv /\ [Next]_vars => BuildInv'
  BY NextKeeps
<1> QED
  BY <1>1, InitInv, PTL DEF Spec

\* The types of the variables.
THEOREM BuildTypeCorrect ==
    ASSUME ScriptsAreClear, TornIsNone
    PROVE  Spec => []TypeOK
<1>1. BuildInv => TypeOK
  BY DEF BuildInv, TypesHold, RunHolds, TypeOK, Running
<1> QED
  BY <1>1, BuildInvariant, PTL

\* docs/compiler.md:78: when Cargo sees nothing to rebuild, the crate holds
\* what the sources, options and compiler of now give, whatever was edited,
\* upgraded or cut off before.
THEOREM CrateIsAlwaysCurrent ==
    ASSUME ScriptsAreClear, TornIsNone
    PROVE  Spec => []CrateIsCurrent
<1>1. BuildInv => CrateIsCurrent
  BY DEF BuildInv
<1> QED
  BY <1>1, BuildInvariant, PTL

\* A module of the crate embeds a whole artifact of its own item.
THEOREM ModulesAlwaysEmbedTheirOwn ==
    ASSUME ScriptsAreClear, TornIsNone
    PROVE  Spec => []ModulesEmbedTheirOwn
<1>1. BuildInv => ModulesEmbedTheirOwn
  BY DEF BuildInv
<1> QED
  BY <1>1, BuildInvariant, PTL

\* docs/compiler.md:66: a module records the flags its artifact was compiled with.
THEOREM VariantsAlwaysRecordFlags ==
    ASSUME ScriptsAreClear, TornIsNone
    PROVE  Spec => []VariantsRecordFlags
<1>1. BuildInv => VariantsRecordFlags
  BY DEF BuildInv
<1> QED
  BY <1>1, BuildInvariant, PTL
------------------------------------------------------------------------------
(* Options *)

\* backend_flags puts the backend first, then those defaults that the script
\* does not set, then the script's own flags.
LEMMA DefaultsComeBetween ==
    ASSUME NEW backend, NEW extra
    PROVE  \E between \in Seq([opt : {"opt-level", "llvmcpu-target-triple"}, val : {OptLevel, Target}]) :
             /\ backend_flags(backend, extra)
                  = <<Flag("hal-target-backends", backend)>> \o between \o extra
             /\ \A i \in DOMAIN between : ~Sets(extra, between[i].opt)
<1> DEFINE S == [opt : {"opt-level", "llvmcpu-target-triple"}, val : {OptLevel, Target}]
           default(opt, val) == IF backend = "llvm-cpu" /\ val # Nothing /\ ~Sets(extra, opt)
                                THEN <<Flag(opt, val)>> ELSE <<>>
           level == default("opt-level", OptLevel)
           triple == default("llvmcpu-target-triple", Target)
           first == <<Flag("hal-target-backends", backend)>>
<1>1. ASSUME NEW opt \in {"opt-level", "llvmcpu-target-triple"}, NEW val \in {OptLevel, Target}
      PROVE  /\ default(opt, val) \in Seq(S)
             /\ \A i \in DOMAIN default(opt, val) : ~Sets(extra, default(opt, val)[i].opt)
  <2>1. Flag(opt, val) \in S /\ Flag(opt, val).opt = opt
    BY DEF Flag
  <2> HIDE DEF S
  <2>2. CASE default(opt, val) = <<>>
    <3>1. <<>> \in Seq(S) /\ DOMAIN <<>> = {}
      OBVIOUS
    <3> QED
      BY <2>2, <3>1
  <2>3. CASE default(opt, val) = <<Flag(opt, val)>> /\ ~Sets(extra, opt)
    <3>1. <<Flag(opt, val)>> \in Seq(S) /\ \A i \in DOMAIN <<Flag(opt, val)>> : <<Flag(opt, val)>>[i] = Flag(opt, val)
      BY <2>1
    <3> QED
      BY <2>1, <2>3, <3>1
  <2> QED
    BY <2>2, <2>3
<1>2. /\ level \in Seq(S) /\ \A i \in DOMAIN level : ~Sets(extra, level[i].opt)
      /\ triple \in Seq(S) /\ \A i \in DOMAIN triple : ~Sets(extra, triple[i].opt)
  BY <1>1
<1>3. backend_flags(backend, extra) = first \o level \o triple \o extra
  BY DEF backend_flags
<1> DEFINE between == level \o triple
<1> HIDE DEF S, default, level, triple
<1>4. /\ between \in Seq(S) /\ Len(between) = Len(level) + Len(triple)
      /\ \A i \in 1..Len(level) + Len(triple) :
            between[i] = IF i <= Len(level) THEN level[i] ELSE triple[i - Len(level)]
  BY <1>2, ConcatProperties
<1>5. \A i \in DOMAIN between : ~Sets(extra, between[i].opt)
  BY <1>2, <1>4
<1>6. first \o level \o triple = first \o between
  <2>1. first \in Seq({Flag("hal-target-backends", backend)})
    OBVIOUS
  <2> DEFINE T == S \cup {Flag("hal-target-backends", backend)}
  <2>2. first \in Seq(T) /\ level \in Seq(T) /\ triple \in Seq(T)
    BY <1>2, <2>1, SeqMonotonic
  <2> HIDE DEF T
  <2> QED
    BY <2>2, ConcatAssociative
<1>7. backend_flags(backend, extra) = first \o between \o extra
  BY <1>3, <1>6
<1> QED
  BY <1>4, <1>5, <1>7 DEF S

\* What OptionsAreRespected asks of a module's flags.
Respected(flags, own, backend) ==
    LET others == Len(flags) - Len(own)
    IN  /\ flags[1] = Flag("hal-target-backends", backend)
        /\ \A i \in DOMAIN flags : flags[i].opt = "hal-target-backends" => i = 1
        /\ \A k \in DOMAIN own : flags[others + k] = own[k]
        /\ \A i \in 1..others : ~Sets(own, flags[i].opt)

\* The flags of an emit whose options are valid respect them.
LEMMA ValidOptionsAreRespected ==
    ASSUME NEW e, e.extra \in Seq(ToSet(e.extra)), OptionsAreValid(e), NEW backend
    PROVE  Respected(backend_flags(backend, e.extra), e.extra, backend)
<1> DEFINE own == e.extra
           flags == backend_flags(backend, own)
           D == [opt : {"opt-level", "llvmcpu-target-triple"}, val : {OptLevel, Target}]
           b == Flag("hal-target-backends", backend)
<1>1. PICK between \in Seq(D) :
         flags = <<b>> \o between \o own /\ \A i \in DOMAIN between : ~Sets(own, between[i].opt)
  BY DefaultsComeBetween
<1>2. b.opt = "hal-target-backends" /\ ~Sets(own, "hal-target-backends")
  BY DEF Flag, OptionsAreValid
<1>3. \A d \in D : d.opt # "hal-target-backends"
  OBVIOUS
<1> DEFINE S == {b} \cup D \cup ToSet(own)
<1>4. <<b>> \in Seq(S) /\ between \in Seq(S) /\ own \in Seq(S)
  <2>1. <<b>> \in Seq({b})
    OBVIOUS
  <2> QED
    BY <2>1, SeqMonotonic
<1> HIDE DEF own, flags, D, b, S
<1> DEFINE n == Len(between)
           before == <<b>> \o between
<1>5. n \in Nat /\ Len(own) \in Nat /\ DOMAIN between = 1..n /\ DOMAIN own = 1..Len(own)
  BY <1>4
<1>6. /\ before \in Seq(S) /\ Len(before) = 1 + n
      /\ before[1] = b /\ \A i \in 2..1 + n : before[i] = between[i - 1]
  <2>1. before \in Seq(S) /\ Len(before) = Len(<<b>>) + n
    BY <1>4, ConcatProperties
  <2>2. \A i \in 1..Len(<<b>>) + n : before[i] = IF i <= Len(<<b>>) THEN <<b>>[i] ELSE between[i - Len(<<b>>)]
    BY <1>4, ConcatProperties
  <2>3. Len(<<b>>) = 1 /\ <<b>>[1] = b
    OBVIOUS
  <2> HIDE DEF before, n
  <2> QED
    BY <1>5, <2>1, <2>2, <2>3
<1> HIDE DEF before, n
<1>7. /\ Len(flags) = 1 + n + Len(own) /\ DOMAIN flags = 1..1 + n + Len(own)
      /\ \A i \in 1..1 + n + Len(own) : flags[i] = IF i <= 1 + n THEN before[i] ELSE own[i - (1 + n)]
  <2>1. flags = before \o own
    BY <1>1 DEF before
  <2>2. flags \in Seq(S) /\ Len(flags) = Len(before) + Len(own)
    BY <1>4, <1>6, <2>1, ConcatProperties
  <2>3. \A i \in 1..Len(before) + Len(own) : flags[i] = IF i <= Len(before) THEN before[i] ELSE own[i - Len(before)]
    BY <1>4, <1>6, <2>1, ConcatProperties
  <2> QED
    BY <1>6, <2>2, <2>3
<1> DEFINE others == Len(flags) - Len(own)
<1>8. others = 1 + n
  BY <1>5, <1>7
<1>9. flags[1] = b
  BY <1>5, <1>6, <1>7
<1>10. ASSUME NEW i \in 2..1 + n
       PROVE  flags[i].opt # "hal-target-backends" /\ ~Sets(own, flags[i].opt)
  <2>1. i - 1 \in 1..n /\ flags[i] = between[i - 1]
    BY <1>5, <1>6, <1>7
  <2>2. between[i - 1] \in D
    BY <1>5, <2>1
  <2> QED
    BY <1>1, <1>3, <1>5, <2>1, <2>2
<1>11. ASSUME NEW k \in 1..Len(own)
       PROVE  flags[others + k] = own[k] /\ own[k].opt # "hal-target-backends"
  <2> DEFINE p == others + k
  <2>1. p \in 1..1 + n + Len(own) /\ ~(p <= 1 + n) /\ p - (1 + n) = k
    BY <1>5, <1>8
  <2>2. own[k].opt # "hal-target-backends"
    BY <1>2, <1>5 DEF Sets
  <2> HIDE DEF p
  <2>3. flags[p] = own[k]
    BY <1>7, <2>1
  <2> QED
    BY <2>2, <2>3 DEF p
<1>12. ASSUME NEW i \in DOMAIN flags, flags[i].opt = "hal-target-backends" PROVE i = 1
  <2>1. i \in 1..1 + n + Len(own)
    BY <1>7
  <2>2. CASE i > 1 + n
    <3>1. i - (1 + n) \in 1..Len(own) /\ others + (i - (1 + n)) = i
      BY <1>5, <1>8, <2>1, <2>2
    <3> QED
      BY <1>11, <1>12, <3>1
  <2>3. CASE i \in 2..1 + n
    BY <1>10, <1>12, <2>3
  <2> QED
    BY <1>5, <2>1, <2>2, <2>3
<1>13. ASSUME NEW i \in 1..others PROVE ~Sets(own, flags[i].opt)
  BY <1>2, <1>5, <1>8, <1>9, <1>10
<1> HIDE DEF others
<1>14. \A k \in DOMAIN own : flags[others + k] = own[k]
  BY <1>5, <1>11
<1> QED
  BY <1>9, <1>12, <1>13, <1>14 DEF Respected, others, own, flags, b

\* Modules are generated only of emits whose options are valid.
OptionsInv == Running /\ run.generated # <<>> => OptionsAreValid(Emit)

\* Each step keeps that: the options are looked at before a module is made.
LEMMA OptionsKept ==
    ASSUME BuildInv, OptionsInv, [Next]_vars
    PROVE  OptionsInv'
<1>1. CASE StartScript
  BY <1>1 DEF StartScript, OptionsInv
<1>2. CASE CompileItem
  BY <1>2 DEF CompileItem, OptionsInv, Running, Emit, BuildInv, RunHolds, Runs
<1>3. CASE GenerateModule
  <2>1. Running /\ run \in Runs /\ OptionsAreValid(Emit)
    BY <1>3 DEF GenerateModule, Running, BuildInv, RunHolds
  <2>2. Emit' = Emit
    BY <1>3, <2>1 DEF GenerateModule, Emit, Runs
  <2> QED
    BY <2>1, <2>2 DEF OptionsInv, OptionsAreValid
<1>4. CASE WriteOutput
  <2>1. Running /\ run \in Runs
    BY <1>4 DEF WriteOutput, Running, BuildInv, RunHolds
  <2>2. run' = NotRunning \/ run'.generated = <<>>
    BY <1>4, <2>1 DEF WriteOutput, Runs
  <2> QED
    BY <2>2 DEF OptionsInv, Running, NotRunning
<1>5. CASE Abort \/ RejectOptions
  BY <1>5 DEF Abort, RejectOptions, OptionsInv, Running, NotRunning
<1>6. CASE UNCHANGED run
  BY <1>6 DEF OptionsInv, Running, Emit
<1> QED
  BY <1>1, <1>2, <1>3, <1>4, <1>5, <1>6
     DEF Next, BuildCrate, EditScript, EditSource, UpgradeCompiler, Change, vars

\* The backend of a module is the graph's, and no default of Cargo's joins an
\* option the script has set, for any scripts and options.
THEOREM OptionsAlwaysRespected ==
    ASSUME ScriptsAreClear, TornIsNone
    PROVE  Spec => []OptionsAreRespected
<1>1. BuildInv /\ OptionsInv /\ [Next]_vars => OptionsInv'
  BY OptionsKept
<1>2. Init => OptionsInv
  BY DEF Init, OptionsInv, Running, NotRunning
<1>3. BuildInv /\ OptionsInv => OptionsAreRespected
  <2> SUFFICES ASSUME BuildInv, OptionsInv, Running, NEW m \in ToSet(run.generated)
               PROVE  Respected(m.flags, Emit.extra, BackendOf[m.item])
    BY DEF OptionsAreRespected, Respected
  <2>1. RunHolds /\ run \in Runs /\ run.script \in Scripts /\ run.emit \in DOMAIN run.script
    BY DEF BuildInv, RunHolds, Runs
  <2>2. PICK j \in DOMAIN run.generated : m = run.generated[j]
    BY DEF ToSet
  <2>3. j \in 1..Generated /\ Generated \in Nat
    BY <2>1, <2>2 DEF RunHolds, Runs
  <2>4. OptionsAreValid(Emit)
    <3>1. run.generated # <<>>
      BY <2>2
    <3> QED
      BY <3>1 DEF OptionsInv
  <2>5. Emit.extra \in Seq(ToSet(Emit.extra))
    <3>1. Emit \in ToSet(run.script)
      BY <2>1 DEF Emit, ToSet
    <3> QED
      BY <2>1, <3>1, BuildAssumption
  <2>6. Generated <= Len(Emit.items) /\ DOMAIN Emit.items = 1..Len(Emit.items) /\ Len(Emit.items) \in Nat
    <3>1. DOMAIN Emit.items = 1..Len(Emit.items) /\ Len(Emit.items) \in Nat
      BY <2>1, ScriptShape DEF Emit
    <3>2. CASE run.step = "output"
      BY <3>1, <3>2 DEF Generated
    <3>3. CASE run.step # "output"
      BY <2>1, <3>1, <3>3 DEF RunHolds, Generated
    <3> QED
      BY <3>1, <3>2, <3>3
  <2>7. m = Module(Emit, Emit.items[j], run.version[Source(Emit, Emit.items[j])])
    <3>1. j \in DOMAIN Emit.items
      BY <2>3, <2>6
    <3>2. m = ModulesOf(Emit, run.version)[j]
      BY <2>1, <2>2, <2>3 DEF RunHolds
    <3> QED
      BY <3>1, <3>2 DEF ModulesOf
  <2>8. m.item = Emit.items[j] /\ m.flags = backend_flags(BackendOf[m.item], Emit.extra)
    BY <2>7 DEF Module, FlagsOf
  <2> QED
    BY <2>4, <2>5, <2>8, ValidOptionsAreRespected
<1> QED
  BY <1>1, <1>2, <1>3, BuildInvariant, PTL DEF Spec
==============================================================================
