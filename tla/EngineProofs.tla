------------------------------ MODULE EngineProofs ------------------------------
(***************************************************************************)
(* Proofs about Engine, for any engines, artifacts, VMFBs and signatures,  *)
(* and whatever an invocation returns: an engine loads each VMFB once and  *)
(* models run their own, and outputs are checked before they are copied.   *)
(***************************************************************************)
EXTENDS Engine, SequenceTheorems, TLAPS

AllEngines == Engines \cup {Once}
OutputTypes == UNION {ToSet(types) : types \in Typings \cup Returns}
Tensors == {Tensor(inv, i, type) : inv \in Nat, i \in Nat, type \in OutputTypes}

Calls ==
    [op : {"load", "run", "run_into", "once"}, engine : AllEngines, graph : Handles,
     step : {"module", "function", "invoke", "validate", "read"},
     program : DOMAIN Exports \cup {Nothing}, returned : Returns \cup {<<>>}, tensors : Seq(Tensors)]

(***************************************************************************)
(* The inductive invariant.  A call takes what it found in one step to the *)
(* next, so the invariant says of each step what the ones before it have   *)
(* made sure of.                                                           *)
(***************************************************************************)
\* A handle's types are those its artifact declares.
GraphsMatch == graphs \subseteq Handles /\ \A g \in graphs : g.types = g.artifact.outputs

\* A module is under its own key, and counted as loaded while it is there.
EnginesHold ==
    /\ engine \in [AllEngines -> EngineStates \cup {Nothing}]
    /\ loads \in [AllEngines -> [DOMAIN Exports -> Nat]]
    /\ ModulesLoadOnce
    /\ \A e \in AllEngines : engine[e] # Nothing =>
         \A v \in DOMAIN Exports :
            /\ ModuleKey(v) \in DOMAIN engine[e].modules => engine[e].modules[ModuleKey(v)] = v
            /\ ModuleKey(v) \notin DOMAIN engine[e].modules => loads[e][v] = 0

\* This program is of a variant that runs on this driver.
Selected(a, driver, program) ==
    \E i \in DOMAIN a.variants :
        program = a.variants[i].vmfb /\ supports_driver(a.variants[i].backend, driver)

ModelReady(m) ==
    /\ m.engine \in Engines /\ m.graph \in graphs /\ m.program \in DOMAIN Exports
    /\ engine[m.engine] # Nothing
    /\ Selected(m.graph.artifact, engine[m.engine].driver, m.program)
    /\ m.graph.artifact.function \in Exports[m.program]

ModelsReady == \A m \in models : ModelReady(m)

CallStarted ==
    /\ call \in Calls /\ call.graph \in graphs
    /\ engine[call.engine] # Nothing
    /\ call.op = "once" <=> call.engine = Once
    /\ call.op = "once" =>
         /\ call.graph.artifact.variants # <<>>
         /\ engine[Once].driver = default_driver(Head(call.graph.artifact.variants).backend)
    /\ result = NoResult
    /\ call.step = "function" =>
         /\ call.program \in DOMAIN Exports
         /\ Selected(call.graph.artifact, engine[call.engine].driver, call.program)

\* What is copied so far are the first outputs of the newest invocation.
CallReads ==
    /\ call.step # "read" => call.tensors = <<>>
    /\ call.step \in {"validate", "read"} => call.returned \in Returns /\ invocations > 0
    /\ call.step = "read" =>
         /\ call.returned = call.graph.types
         /\ Len(call.tensors) <= Len(call.graph.types)
         /\ \A i \in 1 .. Len(call.tensors) :
               /\ call.tensors[i] = Tensor(invocations, i, call.graph.types[i])
               /\ call.op = "run_into" => outputs[call.graph][i] = call.tensors[i]

OutputsFit == \A g \in Handles : IsList(outputs[g]) /\ Len(outputs[g]) = Len(g.types)

EngineInv ==
    /\ TypeOK
    /\ GraphsMatch
    /\ EnginesHold
    /\ ModelsReady
    /\ Busy => CallStarted /\ CallReads
    /\ OutputsFit
    /\ SuccessIsWhole
------------------------------------------------------------------------------
(* Keys, variants and signatures *)

\* VMFBs at one place are told apart by their lengths.
LEMMA KeysAreOwn ==
    ASSUME NEW v \in Vmfbs, NEW w \in Vmfbs, ModuleKey(v) = ModuleKey(w)
    PROVE  v = w
BY DEF ModuleKey, Vmfbs

\* The modules of an engine, as a function on some of the keys.
LEMMA ModuleMapsAre ==
    ASSUME NEW f
    PROVE  f \in ModuleMaps <=> DOMAIN f \subseteq ModuleKeys /\ f \in [DOMAIN f -> DOMAIN Exports]
BY DEF ModuleMaps

\* A variant that was found is of the artifact and runs on the driver.
LEMMA VariantFits ==
    ASSUME NEW a \in Artifacts, NEW driver, NEW v, v = variant_for_driver(a, driver), v # Nothing
    PROVE  v.vmfb \in Vmfbs /\ Selected(a, driver, v.vmfb)
<1>1. PICK i \in DOMAIN a.variants : v = a.variants[i] /\ supports_driver(v.backend, driver)
  <2>1. \E i \in DOMAIN a.variants : IsFirstFit(a, driver, i)
    BY DEF variant_for_driver
  <2> DEFINE first == CHOOSE i \in DOMAIN a.variants : IsFirstFit(a, driver, i)
  <2>2. first \in DOMAIN a.variants /\ IsFirstFit(a, driver, first)
    BY <2>1
  <2>3. v = a.variants[first]
    BY <2>1 DEF variant_for_driver
  <2> HIDE DEF first
  <2> QED
    BY <2>2, <2>3 DEF IsFirstFit
<1> QED
  BY <1>1, EngineAssumption DEF Selected

\* The driver of the first variant selects the first variant.
LEMMA FirstVariantFits ==
    ASSUME NEW a \in Artifacts, a.variants # <<>>, NEW driver,
           driver = default_driver(Head(a.variants).backend)
    PROVE  variant_for_driver(a, driver) = Head(a.variants)
<1>1. IsList(a.variants)
  BY EngineAssumption
<1>2. 1 \in DOMAIN a.variants /\ Head(a.variants) = a.variants[1] /\ DOMAIN a.variants \subseteq Nat \ {0}
  BY <1>1 DEF IsList
<1>3. IsFirstFit(a, driver, 1)
  BY <1>2 DEF IsFirstFit, supports_driver
<1>4. \A i \in DOMAIN a.variants : IsFirstFit(a, driver, i) => i = 1
  BY <1>2, <1>3 DEF IsFirstFit
<1> DEFINE first == CHOOSE i \in DOMAIN a.variants : IsFirstFit(a, driver, i)
<1>5. first = 1
  BY <1>2, <1>3, <1>4
<1>6. variant_for_driver(a, driver) = a.variants[first]
  BY <1>2, <1>3 DEF variant_for_driver
<1> HIDE DEF first
<1> QED
  BY <1>2, <1>5, <1>6

\* It is a driver: backends are those of Backend.
LEMMA FirstDriver ==
    ASSUME NEW a \in Artifacts, a.variants # <<>>
    PROVE  default_driver(Head(a.variants).backend) \in Drivers
<1>1. IsList(a.variants)
  BY EngineAssumption
<1>2. 1 \in DOMAIN a.variants /\ Head(a.variants) = a.variants[1]
  BY <1>1 DEF IsList
<1>3. a.variants[1].backend \in Backends
  BY <1>2, EngineAssumption
<1> QED
  BY <1>2, <1>3 DEF default_driver, Backends, Drivers

\* Lists of one length with the same elements are one list.
LEMMA ListsAreEqual ==
    ASSUME NEW s, IsList(s), NEW t, IsList(t), Len(s) = Len(t), \A i \in 1..Len(s) : s[i] = t[i]
    PROVE  s = t
<1> DEFINE S == ToSet(s) \cup ToSet(t)
<1>1. s \in Seq(S) /\ t \in Seq(S)
  BY SeqMonotonic DEF IsList
<1> HIDE DEF S
<1> QED
  BY <1>1, SeqEqual

\* Outputs that were validated are those of the handle.
LEMMA ValidOutputsMatch ==
    ASSUME NEW types \in Typings, NEW returned \in Returns, validate_raw_outputs(types, returned)
    PROVE  returned = types
<1>1. IsList(types) /\ IsList(returned)
  BY EngineAssumption
<1>2. DOMAIN types = 1..Len(types)
  BY <1>1 DEF IsList
<1> QED
  BY <1>1, <1>2, ListsAreEqual DEF validate_raw_outputs
------------------------------------------------------------------------------
(* Each action keeps the invariant *)

\* Before the first engine nothing is loaded and nothing runs.
THEOREM InitInv == Init => EngineInv
<1> SUFFICES ASSUME Init PROVE EngineInv
  OBVIOUS
<1>1. TypeOK
  BY EngineAssumption DEF Init, TypeOK, NoCall, Handles
<1>2. GraphsMatch /\ ModelsReady
  BY DEF Init, GraphsMatch, ModelsReady
<1>3. EnginesHold
  BY DEF Init, EnginesHold, AllEngines, ModulesLoadOnce
<1>4. ~Busy /\ SuccessIsWhole
  BY DEF Init, Busy, NoCall, SuccessIsWhole, NoResult
<1>5. OutputsFit
  <2> SUFFICES ASSUME NEW g \in Handles PROVE IsList(outputs[g]) /\ Len(outputs[g]) = Len(g.types)
    BY DEF OutputsFit
  <2>1. g.types \in Typings
    BY DEF Handles, Handle
  <2>2. IsList(g.types)
    BY <2>1, EngineAssumption
  <2>3. g.types \in Seq(ToSet(g.types)) /\ DOMAIN g.types = 1..Len(g.types) /\ Len(g.types) \in Nat
    BY <2>2 DEF IsList
  <2>4. outputs[g] = [i \in 1..Len(g.types) |-> Tensor(0, i, g.types[i])]
    BY <2>3 DEF Init, Blank
  <2> DEFINE b == [i \in 1..Len(g.types) |-> Tensor(0, i, g.types[i])]
  <2>5. b \in Seq(ToSet(b)) /\ Len(b) = Len(g.types)
    BY <2>3 DEF ToSet
  <2> QED
    BY <2>4, <2>5 DEF IsList
<1> QED
  BY <1>1, <1>2, <1>3, <1>4, <1>5 DEF EngineInv

\* A handle that passed Graph::new.
LEMMA GraphNewKeeps ==
    ASSUME EngineInv, NEW a \in Artifacts, NEW types \in Typings, GraphNew(a, types)
    PROVE  EngineInv'
<1>1. ~Busy /\ UNCHANGED <<engine, models, loads, call, outputs, result, invocations>>
  BY DEF GraphNew, runtime
<1>2. graphs \subseteq graphs' /\ GraphsMatch'
  BY DEF EngineInv, GraphsMatch, GraphNew, Handles, Handle, signatures_match
<1>3. TypeOK'
  BY <1>1, <1>2 DEF EngineInv, TypeOK, Busy, GraphsMatch
<1>4. EnginesHold' /\ ModelsReady'
  BY <1>1, <1>2 DEF EngineInv, EnginesHold, ModelsReady, ModelReady, ModulesLoadOnce
<1>5. ~Busy' /\ OutputsFit' /\ SuccessIsWhole'
  BY <1>1 DEF EngineInv, Busy, OutputsFit, SuccessIsWhole
<1> QED
  BY <1>2, <1>3, <1>4, <1>5 DEF EngineInv

\* An engine without modules that has loaded nothing.
LEMMA FreshEngineHolds ==
    ASSUME EngineInv, NEW e \in AllEngines, NEW fresh, DOMAIN fresh.modules = {},
           engine'[e] = fresh, \A v \in DOMAIN Exports : loads'[e][v] = 0,
           \A f \in AllEngines \ {e} : engine'[f] = engine[f] /\ loads'[f] = loads[f],
           engine' \in [AllEngines -> EngineStates \cup {Nothing}],
           loads' \in [AllEngines -> [DOMAIN Exports -> Nat]]
    PROVE  EnginesHold'
<1>1. \A f \in AllEngines, v \in DOMAIN Exports : loads'[f][v] <= 1
  BY DEF EngineInv, EnginesHold, ModulesLoadOnce
<1>2. ASSUME NEW f \in AllEngines, engine'[f] # Nothing, NEW v \in DOMAIN Exports
      PROVE  /\ ModuleKey(v) \in DOMAIN engine'[f].modules => engine'[f].modules[ModuleKey(v)] = v
             /\ ModuleKey(v) \notin DOMAIN engine'[f].modules => loads'[f][v] = 0
  <2>1. CASE f = e
    BY <2>1
  <2>2. CASE f # e
    BY <1>2, <2>2 DEF EngineInv, EnginesHold
  <2> QED
    BY <2>1, <2>2
<1> QED
  BY <1>1, <1>2 DEF EnginesHold, ModulesLoadOnce, ModuleKey

\* A new engine has no modules and has loaded nothing; no model is of it yet.
LEMMA EngineNewKeeps ==
    ASSUME EngineInv, NEW e \in Engines, NEW driver \in Drivers, EngineNew(e, driver)
    PROVE  EngineInv'
<1>1. ~Busy /\ engine[e] = Nothing /\ UNCHANGED <<graphs, models, call, outputs, result, invocations>>
  BY DEF EngineNew
<1> DEFINE fresh == [driver |-> driver, modules |-> <<>>]
<1>2. fresh \in EngineStates /\ fresh # Nothing /\ DOMAIN fresh.modules = {}
  <2>1. DOMAIN <<>> = {}
    OBVIOUS
  <2>2. <<>> \in [{} -> DOMAIN Exports]
    OBVIOUS
  <2>3. <<>> \in ModuleMaps
    BY <2>1, <2>2, ModuleMapsAre
  <2> QED
    BY <2>1, <2>3, NothingAssumption DEF EngineStates
<1>3. engine \in [AllEngines -> EngineStates \cup {Nothing}] /\ e \in AllEngines /\ e # Once
  BY EngineAssumption DEF EngineInv, EnginesHold, AllEngines
<1> DEFINE none == [v \in DOMAIN Exports |-> 0]
<1>4. /\ engine' = [engine EXCEPT ![e] = fresh]
      /\ loads' = [loads EXCEPT ![e] = none]
      /\ none \in [DOMAIN Exports -> Nat]
  BY DEF EngineNew
<1>5. /\ engine'[e] = fresh /\ \A v \in DOMAIN Exports : loads'[e][v] = 0
      /\ \A f \in AllEngines \ {e} : engine'[f] = engine[f] /\ loads'[f] = loads[f]
      /\ engine' \in [AllEngines -> EngineStates \cup {Nothing}]
      /\ loads' \in [AllEngines -> [DOMAIN Exports -> Nat]]
  BY <1>2, <1>3, <1>4 DEF EngineInv, EnginesHold
<1> HIDE DEF fresh, none
<1>6. EnginesHold'
  BY <1>2, <1>3, <1>5, FreshEngineHolds
<1>7. ModelsReady'
  BY <1>1, <1>3, <1>5 DEF EngineInv, ModelsReady, ModelReady, AllEngines
<1>8. TypeOK'
  <2>1. \A f \in AllEngines : engine'[f] # Nothing => engine'[f].driver \in Drivers
    BY <1>5 DEF EngineStates
  <2>2. engine'[Once] = engine[Once] /\ DOMAIN engine' = AllEngines
    BY <1>3, <1>5 DEF AllEngines
  <2> QED
    BY <1>1, <2>1, <2>2 DEF EngineInv, TypeOK, Busy
<1>9. GraphsMatch' /\ ~Busy' /\ OutputsFit' /\ SuccessIsWhole'
  BY <1>1 DEF EngineInv, GraphsMatch, Busy, OutputsFit, SuccessIsWhole
<1> QED
  BY <1>6, <1>7, <1>8, <1>9 DEF EngineInv

\* An engine is dropped when no model borrows it and no call is in progress.
LEMMA EngineDropKeeps ==
    ASSUME EngineInv, NEW e \in Engines, EngineDrop(e)
    PROVE  EngineInv'
<1>1. ~Busy /\ UNCHANGED <<graphs, models, call, outputs, result, loads, invocations>>
  BY DEF EngineDrop
<1>2. engine \in [AllEngines -> EngineStates \cup {Nothing}] /\ e \in AllEngines /\ e # Once
  BY EngineAssumption DEF EngineInv, EnginesHold, AllEngines
<1>3. /\ engine'[e] = Nothing
      /\ \A f \in AllEngines \ {e} : engine'[f] = engine[f]
      /\ engine' \in [AllEngines -> EngineStates \cup {Nothing}]
  BY <1>2 DEF EngineDrop
<1>4. EnginesHold'
  BY <1>1, <1>3 DEF EngineInv, EnginesHold, ModulesLoadOnce
<1>5. ModelsReady'
  BY <1>1, <1>2, <1>3 DEF EngineInv, ModelsReady, ModelReady, EngineDrop, AllEngines
<1>6. TypeOK'
  <2>1. \A f \in AllEngines : engine'[f] # Nothing => engine'[f].driver \in Drivers
    BY <1>3 DEF EngineStates
  <2>2. engine'[Once] = engine[Once] /\ DOMAIN engine' = AllEngines
    BY <1>2, <1>3 DEF AllEngines
  <2> QED
    BY <1>1, <2>1, <2>2 DEF EngineInv, TypeOK, Busy
<1>7. GraphsMatch' /\ ~Busy' /\ OutputsFit' /\ SuccessIsWhole'
  BY <1>1 DEF EngineInv, GraphsMatch, Busy, OutputsFit, SuccessIsWhole
<1> QED
  BY <1>4, <1>5, <1>6, <1>7 DEF EngineInv

\* A model is dropped; its module stays.
LEMMA ModelDropKeeps ==
    ASSUME EngineInv, NEW m \in models, ModelDrop(m)
    PROVE  EngineInv'
<1>1. ~Busy /\ models' \subseteq models
      /\ UNCHANGED <<engine, graphs, call, outputs, result, loads, invocations>>
  BY DEF ModelDrop
<1>2. TypeOK' /\ ModelsReady'
  BY <1>1 DEF EngineInv, TypeOK, ModelsReady, ModelReady, Busy
<1>3. GraphsMatch' /\ EnginesHold' /\ ~Busy' /\ OutputsFit' /\ SuccessIsWhole'
  BY <1>1 DEF EngineInv, GraphsMatch, EnginesHold, ModulesLoadOnce, Busy, OutputsFit, SuccessIsWhole
<1> QED
  BY <1>2, <1>3 DEF EngineInv

\* A call on an engine begins with its module to find.
LEMMA CallGraphKeeps ==
    ASSUME EngineInv, NEW op \in {"load", "run", "run_into"}, NEW e \in Engines, NEW g \in graphs,
           CallGraph(op, e, g)
    PROVE  EngineInv'
<1>1. /\ ~Busy /\ engine[e] # Nothing /\ result' = NoResult
      /\ UNCHANGED <<engine, models, loads, graphs, outputs, invocations>>
  BY DEF CallGraph, Start, runtime
<1>2. call' = [op |-> op, engine |-> e, graph |-> g, step |-> "module", program |-> Nothing,
               returned |-> <<>>, tensors |-> <<>>]
  BY DEF CallGraph, Start
<1>3. g \in Handles /\ e # Once /\ e \in AllEngines /\ <<>> \in Seq(Tensors)
  BY EngineAssumption DEF EngineInv, GraphsMatch, AllEngines
<1>4. CallStarted'
  BY <1>1, <1>2, <1>3 DEF CallStarted, Calls
<1>5. CallReads'
  BY <1>2 DEF CallReads
<1>6. TypeOK'
  BY <1>1, <1>2 DEF EngineInv, TypeOK, Busy
<1>7. GraphsMatch' /\ EnginesHold' /\ ModelsReady' /\ OutputsFit'
  BY <1>1 DEF EngineInv, GraphsMatch, EnginesHold, ModulesLoadOnce, ModelsReady, ModelReady, OutputsFit
<1>8. SuccessIsWhole'
  BY <1>1 DEF SuccessIsWhole, NoResult
<1> QED
  BY <1>4, <1>5, <1>6, <1>7, <1>8 DEF EngineInv

\* A call of a prepared model begins with what its load found.
LEMMA CallModelKeeps ==
    ASSUME EngineInv, NEW m \in models, NEW op \in {"run", "run_into"}, CallModel(op, m)
    PROVE  EngineInv'
<1>1. /\ ~Busy /\ result' = NoResult
      /\ UNCHANGED <<engine, models, loads, graphs, outputs, invocations>>
  BY DEF CallModel, Start, runtime
<1>2. call' = [op |-> op, engine |-> m.engine, graph |-> m.graph, step |-> "invoke", program |-> m.program,
               returned |-> <<>>, tensors |-> <<>>]
  BY DEF CallModel, Start
<1>3. /\ m.engine \in Engines /\ m.graph \in graphs /\ m.program \in DOMAIN Exports
      /\ engine[m.engine] # Nothing
  BY DEF EngineInv, ModelsReady, ModelReady
<1>4. m.graph \in Handles /\ m.engine # Once /\ m.engine \in AllEngines /\ <<>> \in Seq(Tensors)
  BY <1>3, EngineAssumption DEF EngineInv, GraphsMatch, AllEngines
<1>5. CallStarted'
  BY <1>1, <1>2, <1>3, <1>4 DEF CallStarted, Calls
<1>6. CallReads'
  BY <1>2 DEF CallReads
<1>7. TypeOK'
  BY <1>1, <1>2 DEF EngineInv, TypeOK, Busy
<1>8. GraphsMatch' /\ EnginesHold' /\ ModelsReady' /\ OutputsFit'
  BY <1>1 DEF EngineInv, GraphsMatch, EnginesHold, ModulesLoadOnce, ModelsReady, ModelReady, OutputsFit
<1>9. SuccessIsWhole'
  BY <1>1 DEF SuccessIsWhole, NoResult
<1> QED
  BY <1>5, <1>6, <1>7, <1>8, <1>9 DEF EngineInv

\* run_once makes an engine on the driver of the first variant.
LEMMA RunOnceKeeps ==
    ASSUME EngineInv, NEW g \in graphs, RunOnce(g)
    PROVE  EngineInv'
<1> DEFINE first == Head(g.artifact.variants)
           fresh == [driver |-> default_driver(first.backend), modules |-> <<>>]
           none == [v \in DOMAIN Exports |-> 0]
<1>1. /\ ~Busy /\ result' = NoResult /\ g.artifact.variants # <<>>
      /\ UNCHANGED <<models, graphs, outputs, invocations>>
      /\ engine' = [engine EXCEPT ![Once] = fresh]
      /\ loads' = [loads EXCEPT ![Once] = none]
  BY DEF RunOnce, Start
<1>2. call' = [op |-> "once", engine |-> Once, graph |-> g, step |-> "module", program |-> Nothing,
               returned |-> <<>>, tensors |-> <<>>]
  BY DEF RunOnce, Start
<1>3. g \in Handles /\ g.artifact \in Artifacts /\ Once \in AllEngines /\ <<>> \in Seq(Tensors)
  BY DEF EngineInv, GraphsMatch, Handles, Handle, AllEngines
<1>4. fresh \in EngineStates /\ fresh # Nothing /\ DOMAIN fresh.modules = {}
  <2>1. DOMAIN <<>> = {} /\ <<>> \in [{} -> DOMAIN Exports]
    OBVIOUS
  <2>2. <<>> \in ModuleMaps
    BY <2>1, ModuleMapsAre
  <2>3. default_driver(first.backend) \in Drivers
    BY <1>1, <1>3, FirstDriver
  <2> QED
    BY <2>1, <2>2, <2>3, NothingAssumption DEF EngineStates
<1>5. none \in [DOMAIN Exports -> Nat]
  OBVIOUS
<1>6. fresh.driver = default_driver(first.backend) /\ \A v \in DOMAIN Exports : none[v] = 0
  OBVIOUS
<1> HIDE DEF fresh, none
<1>7. /\ engine'[Once] = fresh /\ \A v \in DOMAIN Exports : loads'[Once][v] = 0
      /\ \A f \in AllEngines \ {Once} : engine'[f] = engine[f] /\ loads'[f] = loads[f]
      /\ engine' \in [AllEngines -> EngineStates \cup {Nothing}]
      /\ loads' \in [AllEngines -> [DOMAIN Exports -> Nat]]
  BY <1>1, <1>3, <1>4, <1>5, <1>6 DEF EngineInv, EnginesHold
<1>8. EnginesHold'
  BY <1>4, <1>7, FreshEngineHolds, <1>3
<1>9. CallStarted'
  BY <1>1, <1>2, <1>3, <1>4, <1>6, <1>7 DEF CallStarted, Calls
<1>10. CallReads'
  BY <1>2 DEF CallReads
<1>11. TypeOK'
  <2>1. \A f \in AllEngines : engine'[f] # Nothing => engine'[f].driver \in Drivers
    BY <1>7 DEF EngineStates
  <2>2. DOMAIN engine' = AllEngines
    BY <1>7
  <2> QED
    BY <1>1, <1>2, <2>1, <2>2 DEF EngineInv, TypeOK, Busy
<1>12. ModelsReady'
  BY <1>1, <1>7, EngineAssumption DEF EngineInv, ModelsReady, ModelReady, AllEngines
<1>13. GraphsMatch' /\ OutputsFit' /\ SuccessIsWhole'
  BY <1>1 DEF EngineInv, GraphsMatch, OutputsFit, SuccessIsWhole, NoResult
<1> QED
  BY <1>8, <1>9, <1>10, <1>11, <1>12, <1>13 DEF EngineInv

\* run_once of an artifact without variants fails at once.
LEMMA RunOnceFailsKeeps ==
    ASSUME EngineInv, NEW g \in graphs, RunOnceFails(g)
    PROVE  EngineInv'
<1>1. /\ ~Busy /\ result'.status = "MissingDefaultArtifactVariant"
      /\ UNCHANGED <<engine, models, loads, graphs, call, outputs, invocations>>
  BY DEF RunOnceFails, runtime
<1>2. TypeOK' /\ ~Busy'
  BY <1>1 DEF EngineInv, TypeOK, Busy
<1>3. GraphsMatch' /\ EnginesHold' /\ ModelsReady' /\ OutputsFit' /\ SuccessIsWhole'
  BY <1>1 DEF EngineInv, GraphsMatch, EnginesHold, ModulesLoadOnce, ModelsReady, ModelReady, OutputsFit,
              SuccessIsWhole
<1> QED
  BY <1>2, <1>3 DEF EngineInv

\* A call returns: run_once loses its engine, the others leave theirs, and what
\* is returned as a success is all of the outputs.
LEMMA ReturnKeeps ==
    ASSUME EngineInv, Busy, NEW status, Return(status),
           UNCHANGED <<loads, graphs, outputs, invocations>>,
           \A m \in models' : ModelReady(m),
           (status = "ok" /\ call.op # "load") =>
               call.step = "read" /\ Len(call.tensors) = Len(call.graph.types)
    PROVE  EngineInv'
<1>1. engine' = [engine EXCEPT ![Once] = Nothing] /\ call' = [step |-> "idle"]
  BY DEF Return, NoCall
<1>2. engine \in [AllEngines -> EngineStates \cup {Nothing}] /\ Once \in AllEngines
  BY DEF EngineInv, EnginesHold, AllEngines
<1>3. /\ engine'[Once] = Nothing
      /\ \A f \in AllEngines \ {Once} : engine'[f] = engine[f]
      /\ engine' \in [AllEngines -> EngineStates \cup {Nothing}]
  BY <1>1, <1>2
<1>4. EnginesHold'
  BY <1>3 DEF EngineInv, EnginesHold, ModulesLoadOnce
<1>5. ModelsReady'
  BY <1>3, EngineAssumption DEF ModelsReady, ModelReady, AllEngines
<1>6. TypeOK'
  <2>1. \A f \in AllEngines : engine'[f] # Nothing => engine'[f].driver \in Drivers
    BY <1>3 DEF EngineStates
  <2>2. DOMAIN engine' = AllEngines
    BY <1>3
  <2>3. \A m \in models' : m.engine \in Engines /\ m.graph \in graphs'
    BY DEF ModelReady
  <2> QED
    BY <1>1, <1>3, <2>1, <2>2, <2>3 DEF EngineInv, TypeOK
<1>7. GraphsMatch' /\ OutputsFit' /\ ~Busy'
  BY <1>1 DEF EngineInv, GraphsMatch, OutputsFit, Busy
<1>8. SuccessIsWhole'
  <2> DEFINE g == call.graph
             types == call.graph.types
  <2> SUFFICES ASSUME status = "ok", call.op # "load" PROVE SuccessIsWhole'
    BY DEF SuccessIsWhole, Return
  <2>1. /\ result'.status = "ok" /\ result'.op = call.op /\ result'.graph = g
        /\ result'.tensors = call.tensors
    BY DEF Return
  <2>2. CallStarted /\ CallReads /\ call.step = "read" /\ Len(call.tensors) = Len(types)
    BY DEF EngineInv
  <2>3. g \in Handles /\ types = g.artifact.outputs /\ IsList(types)
    BY <2>2, EngineAssumption DEF EngineInv, CallStarted, GraphsMatch, Handles, Handle
  <2>4. call.tensors \in Seq(Tensors) /\ types \in Seq(ToSet(types))
    BY <2>2, <2>3 DEF CallStarted, Calls, IsList
  <2>5. call.tensors = [i \in DOMAIN types |-> Tensor(invocations, i, types[i])]
    BY <2>2, <2>4 DEF CallReads
  <2>6. invocations \in 1..invocations
    BY <2>2 DEF EngineInv, TypeOK, CallReads
  <2>7. call.tensors = <<>> => types = <<>>
    BY <2>2, <2>4
  <2>8. call.op = "run_into" => outputs[g] = call.tensors
    <3> SUFFICES ASSUME call.op = "run_into" PROVE outputs[g] = call.tensors
      OBVIOUS
    <3>1. IsList(outputs[g]) /\ Len(outputs[g]) = Len(call.tensors)
      BY <2>2, <2>3 DEF EngineInv, OutputsFit
    <3>2. \A i \in 1..Len(outputs[g]) : outputs[g][i] = call.tensors[i]
      BY <2>2, <3>1 DEF CallReads
    <3>3. IsList(call.tensors)
      BY <2>4 DEF IsList, ToSet
    <3> QED
      BY <3>1, <3>2, <3>3, ListsAreEqual
  <2> HIDE DEF g, types
  <2> QED
    BY <2>1, <2>3, <2>5, <2>6, <2>7, <2>8 DEF SuccessIsWhole
<1> QED
  BY <1>4, <1>5, <1>6, <1>7, <1>8 DEF EngineInv

\* A call without its variant returns.
LEMMA NoVariantKeeps == EngineInv /\ NoVariant => EngineInv'
<1> SUFFICES ASSUME EngineInv, NoVariant PROVE EngineInv'
  OBVIOUS
<1>1. Busy /\ \A m \in models' : ModelReady(m)
  BY DEF NoVariant, Busy, EngineInv, ModelsReady
<1> QED
  BY <1>1, ReturnKeeps DEF NoVariant

\* A call whose loading fails returns, and keeps no module.
LEMMA LoadFailsKeeps == EngineInv /\ LoadFails => EngineInv'
<1> SUFFICES ASSUME EngineInv, LoadFails PROVE EngineInv'
  OBVIOUS
<1>1. Busy /\ \A m \in models' : ModelReady(m)
  BY DEF LoadFails, Busy, EngineInv, ModelsReady
<1> QED
  BY <1>1, ReturnKeeps DEF LoadFails

\* A call whose copy fails returns.
LEMMA ReadFailsKeeps == EngineInv /\ ReadFails => EngineInv'
<1> SUFFICES ASSUME EngineInv, ReadFails PROVE EngineInv'
  OBVIOUS
<1>1. Busy /\ \A m \in models' : ModelReady(m)
  BY DEF ReadFails, Busy, EngineInv, ModelsReady
<1> QED
  BY <1>1, ReturnKeeps DEF ReadFails

\* A call that has copied every output returns them.
LEMMA ReadAllKeeps == EngineInv /\ ReadAll => EngineInv'
<1> SUFFICES ASSUME EngineInv, ReadAll PROVE EngineInv'
  OBVIOUS
<1>1. Busy /\ \A m \in models' : ModelReady(m)
  BY DEF ReadAll, Busy, EngineInv, ModelsReady
<1> QED
  BY <1>1, ReturnKeeps DEF ReadAll, Read

\* A call goes on without writing: it has what its next step needs.
LEMMA StepKeeps ==
    ASSUME EngineInv, Busy, CallStarted', CallReads', call'.op = call.op, invocations' \in 0..Limit,
           UNCHANGED <<engine, loads, models, graphs, outputs, result>>
    PROVE  EngineInv'
<1>1. call'.step \in {"module", "function", "invoke", "validate", "read"}
  BY DEF CallStarted, Calls
<1>2. TypeOK'
  BY <1>1 DEF EngineInv, TypeOK, Busy
<1>3. GraphsMatch' /\ EnginesHold' /\ ModelsReady' /\ OutputsFit'
  BY DEF EngineInv, GraphsMatch, EnginesHold, ModulesLoadOnce, ModelsReady, ModelReady, OutputsFit
<1>4. SuccessIsWhole'
  BY DEF CallStarted, SuccessIsWhole, NoResult
<1> QED
  BY <1>2, <1>3, <1>4 DEF EngineInv

\* The module under the key of a variant's bytes is of those bytes.
LEMMA FindModuleKeeps == EngineInv /\ FindModule => EngineInv'
<1> SUFFICES ASSUME EngineInv, FindModule PROVE EngineInv'
  OBVIOUS
<1> DEFINE key == ModuleKey(Variant.vmfb)
<1>1. /\ Busy /\ call.step = "module" /\ Variant # Nothing /\ key \in DOMAIN Modules
      /\ call' = [call EXCEPT !.step = "function", !.program = Modules[key]]
      /\ UNCHANGED <<engine, loads, models, graphs, outputs, result, invocations>>
  BY DEF FindModule, Busy, runtime
<1>2. CallStarted /\ CallReads /\ call \in Calls /\ engine[call.engine] \in EngineStates
  BY <1>1 DEF EngineInv, CallStarted, EnginesHold, Calls
<1>3. Variant.vmfb \in Vmfbs /\ Selected(call.graph.artifact, Driver, Variant.vmfb)
  <2>1. call.graph.artifact \in Artifacts
    BY <1>2 DEF Calls, Handles, Handle
  <2> QED
    BY <1>1, <2>1, VariantFits DEF Variant
<1>4. Modules \in ModuleMaps
  BY <1>2 DEF EngineStates, Modules
<1>5. PICK v \in DOMAIN Exports : key = ModuleKey(v)
  BY <1>1, <1>4, ModuleMapsAre DEF ModuleKeys
<1>6. v = Variant.vmfb
  BY <1>3, <1>5, KeysAreOwn, EngineAssumption
<1>7. Modules[key] = v
  <2>1. ModuleKey(v) \in DOMAIN engine[call.engine].modules
    BY <1>1, <1>5 DEF Modules
  <2>2. call.engine \in AllEngines /\ engine[call.engine] # Nothing
    BY <1>2 DEF CallStarted, Calls
  <2> QED
    BY <1>5, <2>1, <2>2 DEF EngineInv, EnginesHold, Modules
<1> HIDE DEF key
<1>8. CallStarted'
  BY <1>1, <1>2, <1>3, <1>6, <1>7 DEF CallStarted, Calls, Driver
<1>9. CallReads' /\ call'.op = call.op
  BY <1>1, <1>2 DEF CallReads, Calls
<1> QED
  BY <1>1, <1>8, <1>9, StepKeeps DEF EngineInv, TypeOK

\* The invocation returns something, or the call fails.
LEMMA InvokeKeeps == EngineInv /\ Invoke => EngineInv'
<1> SUFFICES ASSUME EngineInv, Invoke PROVE EngineInv'
  OBVIOUS
<1>1. /\ Busy /\ call.step = "invoke" /\ CallStarted /\ CallReads /\ call \in Calls
      /\ UNCHANGED <<loads, models, graphs, outputs>>
  BY DEF Invoke, Busy, EngineInv, CallStarted
<1>2. CASE Return("Runtime") /\ UNCHANGED invocations
  <2>1. \A m \in models' : ModelReady(m)
    BY <1>1 DEF EngineInv, ModelsReady
  <2> QED
    BY <1>1, <1>2, <2>1, ReturnKeeps
<1>3. ASSUME NEW returned \in Returns, invocations < Limit, invocations' = invocations + 1,
             call' = [call EXCEPT !.step = "validate", !.returned = returned], UNCHANGED <<engine, result>>
      PROVE  EngineInv'
  <2>1. CallStarted'
    BY <1>1, <1>3 DEF CallStarted, Calls
  <2>2. invocations' \in 0..Limit /\ invocations' > 0
    BY <1>3, EngineAssumption DEF EngineInv, TypeOK
  <2>3. CallReads' /\ call'.op = call.op
    BY <1>1, <1>3, <2>2 DEF CallReads, Calls
  <2> QED
    BY <1>1, <1>3, <2>1, <2>2, <2>3, StepKeeps
<1> QED
  BY <1>2, <1>3 DEF Invoke

\* Outputs that pass are those of the handle, others end the call.
LEMMA ValidateKeeps == EngineInv /\ Validate => EngineInv'
<1> SUFFICES ASSUME EngineInv, Validate PROVE EngineInv'
  OBVIOUS
<1>1. /\ Busy /\ call.step = "validate" /\ CallStarted /\ CallReads /\ call \in Calls
      /\ UNCHANGED <<loads, models, graphs, outputs, invocations>>
  BY DEF Validate, Busy, EngineInv, CallStarted
<1>2. CASE ~validate_raw_outputs(call.graph.types, call.returned)
  <2>1. \A m \in models' : ModelReady(m)
    BY <1>1 DEF EngineInv, ModelsReady
  <2>2. Return("Mismatch")
    BY <1>2 DEF Validate
  <2> QED
    BY <1>1, <2>1, <2>2, ReturnKeeps
<1>3. CASE validate_raw_outputs(call.graph.types, call.returned)
  <2>1. call' = [call EXCEPT !.step = "read"] /\ UNCHANGED <<engine, result>>
    BY <1>3 DEF Validate
  <2>2. call.returned = call.graph.types
    <3>1. call.graph.types \in Typings /\ call.returned \in Returns
      BY <1>1 DEF Calls, Handles, Handle, CallReads
    <3> QED
      BY <1>3, <3>1, ValidOutputsMatch
  <2>3. CallStarted'
    BY <1>1, <2>1 DEF CallStarted, Calls
  <2>4. Len(call.graph.types) \in Nat /\ Len(<<>>) = 0 /\ call.tensors = <<>>
    <3>1. IsList(call.graph.types)
      BY <1>1, EngineAssumption DEF Calls, Handles, Handle
    <3> QED
      BY <1>1, <3>1 DEF IsList, CallReads
  <2>5. CallReads' /\ call'.op = call.op
    BY <1>1, <2>1, <2>2, <2>4 DEF CallReads, Calls
  <2> QED
    BY <1>1, <2>1, <2>3, <2>5, StepKeeps DEF EngineInv, TypeOK
<1> QED
  BY <1>2, <1>3

\* The bytes of a variant are loaded and kept under their key, unless they were.
LEMMA LoadModuleKeeps == EngineInv /\ LoadModule => EngineInv'
<1> SUFFICES ASSUME EngineInv, LoadModule PROVE EngineInv'
  OBVIOUS
<1> DEFINE e == call.engine
           w == Variant.vmfb
           key == ModuleKey(w)
           modules == WithModule(w)
           loaded == [driver |-> Driver, modules |-> modules]
           counts == LoadedAgain(w)
<1>1. /\ Busy /\ call.step = "module" /\ Variant # Nothing /\ key \notin DOMAIN Modules
      /\ w \in DOMAIN Exports
      /\ call' = [call EXCEPT !.step = "function", !.program = w]
      /\ UNCHANGED <<models, graphs, outputs, result, invocations>>
  BY DEF LoadModule, Busy
<1>2. /\ CallStarted /\ CallReads /\ call \in Calls /\ engine[e] \in EngineStates /\ e \in AllEngines
      /\ engine[e] # Nothing
  BY <1>1 DEF EngineInv, CallStarted, EnginesHold, Calls
<1>3. /\ engine \in [AllEngines -> EngineStates \cup {Nothing}]
      /\ loads \in [AllEngines -> [DOMAIN Exports -> Nat]]
  BY DEF EngineInv, EnginesHold
<1>4. engine' = [engine EXCEPT ![e] = loaded] /\ loads' = [loads EXCEPT ![e] = counts]
  BY DEF LoadModule
<1>5. w \in Vmfbs /\ Selected(call.graph.artifact, Driver, w)
  <2>1. call.graph.artifact \in Artifacts
    BY <1>2 DEF Calls, Handles, Handle
  <2> QED
    BY <1>1, <2>1, VariantFits DEF Variant
<1>6. modules \in ModuleMaps /\ DOMAIN modules = DOMAIN Modules \cup {key}
  <2>1. Modules \in ModuleMaps
    BY <1>2 DEF EngineStates, Modules
  <2>2. DOMAIN Modules \subseteq ModuleKeys /\ Modules \in [DOMAIN Modules -> DOMAIN Exports] /\ key \in ModuleKeys
    BY <1>1, <2>1, ModuleMapsAre DEF ModuleKeys
  <2>3. DOMAIN modules \subseteq ModuleKeys /\ modules \in [DOMAIN modules -> DOMAIN Exports]
    BY <1>1, <2>2 DEF WithModule
  <2>4. DOMAIN modules = DOMAIN Modules \cup {key}
    BY DEF WithModule
  <2> HIDE DEF modules
  <2> QED
    BY <2>3, <2>4, ModuleMapsAre
<1>7. modules[key] = w /\ \A k \in DOMAIN Modules : modules[k] = Modules[k]
  BY <1>1 DEF WithModule
<1> HIDE DEF modules
<1>8. loaded \in EngineStates /\ loaded # Nothing /\ loaded.modules = modules /\ loaded.driver = engine[e].driver
  <2>1. loaded \in EngineStates /\ loaded.modules = modules /\ loaded.driver = engine[e].driver
    BY <1>2, <1>6 DEF EngineStates, Driver
  <2> HIDE DEF loaded
  <2> QED
    BY <2>1, NothingAssumption
<1>9. loads[e][w] = 0
  BY <1>1, <1>2 DEF EngineInv, EnginesHold, Modules
<1>10. /\ counts \in [DOMAIN Exports -> Nat] /\ counts[w] = 1
       /\ \A v \in DOMAIN Exports \ {w} : counts[v] = loads[e][v]
  BY <1>1, <1>2, <1>3, <1>9 DEF LoadedAgain
<1> HIDE DEF loaded, counts
<1>11. /\ engine'[e] = loaded /\ loads'[e] = counts
       /\ \A f \in AllEngines \ {e} : engine'[f] = engine[f] /\ loads'[f] = loads[f]
       /\ engine' \in [AllEngines -> EngineStates \cup {Nothing}]
       /\ loads' \in [AllEngines -> [DOMAIN Exports -> Nat]]
  BY <1>2, <1>3, <1>4, <1>8, <1>10
<1>12. EnginesHold'
  <2>1. ASSUME NEW f \in AllEngines, NEW v \in DOMAIN Exports
        PROVE  loads'[f][v] <= 1
    BY <1>1, <1>3, <1>10, <1>11 DEF EngineInv, EnginesHold, ModulesLoadOnce
  <2>2. ASSUME NEW f \in AllEngines, engine'[f] # Nothing, NEW v \in DOMAIN Exports
        PROVE  /\ ModuleKey(v) \in DOMAIN engine'[f].modules => engine'[f].modules[ModuleKey(v)] = v
               /\ ModuleKey(v) \notin DOMAIN engine'[f].modules => loads'[f][v] = 0
    <3>1. CASE f # e
      BY <1>11, <2>2, <3>1 DEF EngineInv, EnginesHold
    <3>2. CASE f = e /\ v = w
      BY <1>6, <1>7, <1>8, <1>11, <3>2
    <3>3. CASE f = e /\ v # w
      <4>1. v \in Vmfbs /\ ModuleKey(v) # key
        BY <1>5, <3>3, KeysAreOwn, EngineAssumption
      <4>2. /\ ModuleKey(v) \in DOMAIN Modules => Modules[ModuleKey(v)] = v
            /\ ModuleKey(v) \notin DOMAIN Modules => loads[e][v] = 0
        BY <1>2 DEF EngineInv, EnginesHold, Modules
      <4> HIDE DEF key, e, w
      <4>3. engine'[f].modules = modules /\ loads'[f][v] = loads[e][v]
        BY <1>8, <1>10, <1>11, <3>3
      <4> QED
        BY <1>6, <1>7, <4>1, <4>2, <4>3
    <3> QED
      BY <3>1, <3>2, <3>3
  <2> QED
    BY <1>11, <2>1, <2>2 DEF EnginesHold, ModulesLoadOnce, ModuleKey
<1>13. \A f \in AllEngines : (engine'[f] = Nothing <=> engine[f] = Nothing) /\
                              (engine[f] # Nothing => engine'[f].driver = engine[f].driver)
  BY <1>2, <1>8, <1>11
<1> HIDE DEF key, e, w
<1>14. ModelsReady'
  BY <1>1, <1>13 DEF EngineInv, ModelsReady, ModelReady, AllEngines
<1>15. CallStarted'
  <2>1. call' \in Calls /\ call'.engine = call.engine /\ call'.op = call.op /\ call'.graph = call.graph
        /\ call'.program = w /\ call'.step = "function"
    BY <1>1, <1>2 DEF Calls
  <2>2. Once \in AllEngines /\ call.engine \in AllEngines
    BY <1>2 DEF AllEngines, e
  <2>3. Selected(call.graph.artifact, engine'[call.engine].driver, w)
    BY <1>2, <1>5, <1>13, <2>2 DEF Driver, e
  <2> QED
    BY <1>1, <1>2, <1>13, <2>1, <2>2, <2>3 DEF CallStarted
<1>16. CallReads'
  BY <1>1, <1>2 DEF CallReads, Calls
<1>17. TypeOK'
  <2>1. call'.step = "function" /\ call'.op = call.op /\ Once \in AllEngines /\ DOMAIN engine' = AllEngines
    BY <1>1, <1>2, <1>11 DEF Calls, AllEngines
  <2>2. \A f \in AllEngines : engine'[f] # Nothing => engine'[f].driver \in Drivers
    BY <1>11 DEF EngineStates
  <2> QED
    BY <1>1, <1>13, <2>1, <2>2 DEF EngineInv, TypeOK, Busy
<1>18. GraphsMatch' /\ OutputsFit' /\ SuccessIsWhole'
  BY <1>1, <1>2 DEF EngineInv, GraphsMatch, OutputsFit, SuccessIsWhole, CallStarted, NoResult
<1> QED
  BY <1>12, <1>14, <1>15, <1>16, <1>17, <1>18 DEF EngineInv

\* A function that is there becomes a model or is invoked.
LEMMA ResolveFunctionKeeps == EngineInv /\ ResolveFunction => EngineInv'
<1> SUFFICES ASSUME EngineInv, ResolveFunction PROVE EngineInv'
  OBVIOUS
<1> DEFINE m == [engine |-> call.engine, graph |-> call.graph, program |-> call.program]
<1>1. /\ Busy /\ call.step = "function" /\ CallStarted /\ CallReads /\ call \in Calls
      /\ UNCHANGED <<loads, graphs, outputs, invocations>>
      /\ \A n \in models : ModelReady(n)
  BY DEF ResolveFunction, Busy, EngineInv, CallStarted, ModelsReady
<1>2. CASE call.graph.artifact.function \notin Exports[call.program]
  <2>1. Return("Runtime") /\ UNCHANGED models
    BY <1>2 DEF ResolveFunction
  <2> QED
    BY <1>1, <2>1, ReturnKeeps
<1>3. CASE call.graph.artifact.function \in Exports[call.program] /\ call.op = "load"
  <2>1. Return("ok") /\ models' = models \cup {m}
    BY <1>3 DEF ResolveFunction
  <2>2. call.engine \in Engines
    BY <1>1, <1>3 DEF CallStarted, Calls, AllEngines
  <2>3. ModelReady(m)
    BY <1>1, <1>3, <2>2 DEF ModelReady, CallStarted
  <2> HIDE DEF m
  <2> QED
    BY <1>1, <1>3, <2>1, <2>3, ReturnKeeps
<1>4. CASE call.graph.artifact.function \in Exports[call.program] /\ call.op # "load"
  <2>1. call' = [call EXCEPT !.step = "invoke"] /\ UNCHANGED <<engine, models, result>>
    BY <1>4 DEF ResolveFunction
  <2>2. CallStarted' /\ CallReads' /\ call'.op = call.op
    BY <1>1, <2>1 DEF CallStarted, CallReads, Calls
  <2> QED
    BY <1>1, <2>1, <2>2, StepKeeps DEF EngineInv, TypeOK
<1> QED
  BY <1>2, <1>3, <1>4

\* One more output is copied, and written where it belongs.
LEMMA ReadOutputKeeps == EngineInv /\ ReadOutput => EngineInv'
<1> SUFFICES ASSUME EngineInv, ReadOutput PROVE EngineInv'
  OBVIOUS
<1> DEFINE g == call.graph
           i == Read + 1
           tensor == Tensor(invocations, i, call.returned[i])
<1>1. /\ Busy /\ call.step = "read" /\ Read < Len(g.types) /\ CallStarted /\ CallReads /\ call \in Calls
      /\ call' = [call EXCEPT !.tensors = Append(call.tensors, tensor)]
      /\ outputs' = IF Writes THEN [outputs EXCEPT ![g] = [outputs[g] EXCEPT ![i] = tensor]] ELSE outputs
      /\ UNCHANGED <<engine, models, loads, graphs, result, invocations>>
  BY DEF ReadOutput, Busy, EngineInv, CallStarted, runtime
<1>2. /\ g \in Handles /\ g.types \in Typings /\ call.returned = g.types /\ result = NoResult
      /\ call.tensors \in Seq(Tensors)
  BY <1>1 DEF Calls, Handles, Handle, CallReads, CallStarted
<1>3. g.types \in Seq(ToSet(g.types))
  BY <1>2, EngineAssumption DEF IsList
<1>4. Read \in Nat /\ i \in 1..Len(g.types) /\ Len(call.tensors) = Read
  BY <1>1, <1>2, <1>3 DEF Read
<1>5. tensor \in Tensors /\ tensor = Tensor(invocations, i, g.types[i])
  <2>1. g.types[i] \in OutputTypes
    BY <1>2, <1>3, <1>4 DEF OutputTypes
  <2>2. i \in Nat /\ invocations \in Nat
    BY <1>4, EngineAssumption DEF EngineInv, TypeOK
  <2> QED
    BY <1>2, <2>1, <2>2 DEF Tensors
<1> HIDE DEF tensor, i, g
<1>6. /\ Append(call.tensors, tensor) \in Seq(Tensors)
      /\ Len(Append(call.tensors, tensor)) = i
      /\ Append(call.tensors, tensor)[i] = tensor
      /\ \A k \in 1..Read : Append(call.tensors, tensor)[k] = call.tensors[k]
  <2>1. Len(call.tensors) + 1 = i
    BY <1>4 DEF i
  <2> QED
    BY <1>2, <1>4, <1>5, <2>1, AppendProperties
<1>7. /\ call' \in Calls /\ call'.tensors = Append(call.tensors, tensor)
      /\ call'.engine = call.engine /\ call'.op = call.op /\ call'.graph = g /\ call'.step = "read"
      /\ call'.returned = call.returned
  BY <1>1, <1>6 DEF Calls, g
<1>8. OutputsFit' /\ DOMAIN outputs' = Handles
      /\ (call.op = "run_into" => /\ outputs'[g][i] = tensor
                                  /\ \A k \in 1..Read : outputs'[g][k] = outputs[g][k])
  <2>1. IsList(outputs[g]) /\ Len(outputs[g]) = Len(g.types) /\ DOMAIN outputs = Handles
    BY <1>2 DEF EngineInv, OutputsFit, TypeOK
  <2>2. CASE ~Writes
    BY <1>1, <2>1, <2>2 DEF EngineInv, OutputsFit, Writes
  <2>3. CASE Writes
    <3> DEFINE t == [outputs[g] EXCEPT ![i] = tensor]
               S == ToSet(outputs[g]) \cup {tensor}
    <3>1. outputs[g] \in Seq(S) /\ tensor \in S
      BY <2>1, SeqMonotonic DEF IsList
    <3>2. i \in 1..Len(outputs[g])
      BY <1>4, <2>1
    <3> HIDE DEF S
    <3>3. t \in Seq(S) /\ Len(t) = Len(outputs[g])
      BY <3>1, <3>2
    <3>4. t[i] = tensor /\ \A k \in 1..Read : t[k] = outputs[g][k]
      BY <1>4, <3>1, <3>2 DEF i
    <3> HIDE DEF t
    <3>5. IsList(t)
      BY <3>3 DEF IsList, ToSet
    <3>6. outputs' = [outputs EXCEPT ![g] = t]
      BY <1>1, <2>3 DEF t
    <3>7. DOMAIN outputs' = Handles /\ outputs'[g] = t /\ \A h \in Handles \ {g} : outputs'[h] = outputs[h]
      BY <1>2, <2>1, <3>6
    <3> QED
      BY <2>1, <3>3, <3>4, <3>5, <3>7 DEF EngineInv, OutputsFit
  <2> QED
    BY <2>2, <2>3
<1>9. CallStarted'
  BY <1>1, <1>7 DEF CallStarted, g
<1>10. CallReads'
  <2>1. i = Read + 1 /\ Len(call'.tensors) = i /\ i <= Len(g.types)
    BY <1>3, <1>4, <1>6, <1>7 DEF i
  <2>2. ASSUME NEW k \in 1..i
        PROVE  /\ call'.tensors[k] = Tensor(invocations, k, g.types[k])
               /\ call.op = "run_into" => outputs'[g][k] = call'.tensors[k]
    <3>1. CASE k = i
      BY <1>5, <1>6, <1>7, <1>8, <3>1
    <3>2. CASE k # i
      <4>1. k \in 1..Read
        BY <1>4, <2>1, <3>2
      <4>2. /\ call.tensors[k] = Tensor(invocations, k, g.types[k])
            /\ call.op = "run_into" => outputs[g][k] = call.tensors[k]
        BY <1>1, <1>4, <4>1 DEF CallReads, g
      <4> QED
        BY <1>6, <1>7, <1>8, <4>1, <4>2
    <3> QED
      BY <3>1, <3>2
  <2>3. call'.returned = g.types /\ call'.returned \in Returns /\ invocations' > 0
    BY <1>1, <1>2, <1>7 DEF CallReads
  <2> QED
    BY <1>1, <1>7, <2>1, <2>2, <2>3 DEF CallReads
<1>11. TypeOK'
  BY <1>1, <1>7, <1>8 DEF EngineInv, TypeOK, Busy
<1>12. GraphsMatch' /\ EnginesHold' /\ ModelsReady' /\ SuccessIsWhole'
  BY <1>1, <1>2 DEF EngineInv, GraphsMatch, EnginesHold, ModulesLoadOnce, ModelsReady, ModelReady,
                   SuccessIsWhole, NoResult
<1> QED
  BY <1>8, <1>9, <1>10, <1>11, <1>12 DEF EngineInv
------------------------------------------------------------------------------
(* The theorems *)

\* Every step keeps the invariant.
THEOREM NextKeeps == EngineInv /\ [Next]_vars => EngineInv'
<1> SUFFICES ASSUME EngineInv, [Next]_vars PROVE EngineInv'
  OBVIOUS
<1>1. CASE UNCHANGED vars
  BY <1>1 DEF vars, EngineInv, TypeOK, GraphsMatch, EnginesHold, ModulesLoadOnce, ModelsReady, ModelReady,
              CallStarted, CallReads, OutputsFit, SuccessIsWhole, Busy
<1>2. CASE \E a \in Artifacts, types \in Typings : GraphNew(a, types)
  BY <1>2, GraphNewKeeps
<1>3. CASE \E e \in Engines : EngineDrop(e) \/ \E driver \in Drivers : EngineNew(e, driver)
  BY <1>3, EngineDropKeeps, EngineNewKeeps
<1>4. CASE \E m \in models : ModelDrop(m) \/ \E op \in {"run", "run_into"} : CallModel(op, m)
  BY <1>4, ModelDropKeeps, CallModelKeeps
<1>5. CASE \E g \in graphs : \/ RunOnce(g) \/ RunOnceFails(g)
                             \/ \E op \in {"load", "run", "run_into"}, e \in Engines : CallGraph(op, e, g)
  BY <1>5, RunOnceKeeps, RunOnceFailsKeeps, CallGraphKeeps
<1>6. CASE NoVariant \/ FindModule \/ LoadModule \/ LoadFails \/ ResolveFunction
  BY <1>6, NoVariantKeeps, FindModuleKeeps, LoadModuleKeeps, LoadFailsKeeps, ResolveFunctionKeeps
<1>7. CASE Invoke \/ Validate \/ ReadOutput \/ ReadFails \/ ReadAll
  BY <1>7, InvokeKeeps, ValidateKeeps, ReadOutputKeeps, ReadFailsKeeps, ReadAllKeeps
<1> QED
  BY <1>1, <1>2, <1>3, <1>4, <1>5, <1>6, <1>7 DEF Next

\* The inductive invariant holds throughout.
THEOREM EngineInvariant == Spec => []EngineInv
BY InitInv, NextKeeps, PTL DEF Spec

\* The engine of run_once is never left behind, and models and handles are of
\* what exists.
THEOREM EngineTypeCorrect == Spec => []TypeOK
<1>1. EngineInv => TypeOK
  BY DEF EngineInv
<1> QED
  BY <1>1, EngineInvariant, PTL

\* runtime.rs, Engine::load: however calls and failures alternate, a model runs
\* the bytes its artifact embeds for a backend that the driver executes.
THEOREM ModelsAlwaysRunTheirArtifact == Spec => []ModelsRunTheirArtifact
<1>1. EngineInv => ModelsRunTheirArtifact
  BY DEF EngineInv, ModelsReady, ModelReady, Selected, ModelsRunTheirArtifact
<1> QED
  BY <1>1, EngineInvariant, PTL

\* runtime.rs, the module map: an engine loads a VMFB once at most.
THEOREM ModulesAlwaysLoadOnce == Spec => []ModulesLoadOnce
<1>1. EngineInv => ModulesLoadOnce
  BY DEF EngineInv, EnginesHold
<1> QED
  BY <1>1, EngineInvariant, PTL

\* graph.rs, run and run_into: a success is all of the outputs of one invocation.
THEOREM SuccessIsAlwaysWhole == Spec => []SuccessIsWhole
<1>1. EngineInv => SuccessIsWhole
  BY DEF EngineInv
<1> QED
  BY <1>1, EngineInvariant, PTL

\* runtime.rs, for_artifact: the driver chosen for run_once selects the variant
\* that it was chosen for.
THEOREM RunOnceAlwaysFindsItsVariant == Spec => []RunOnceFindsItsVariant
<1>1. EngineInv => RunOnceFindsItsVariant
  <2> SUFFICES ASSUME EngineInv, Busy, call.op = "once"
               PROVE  Variant = Head(call.graph.artifact.variants)
    BY DEF RunOnceFindsItsVariant
  <2>1. CallStarted /\ call.graph.artifact \in Artifacts
    BY DEF EngineInv, CallStarted, Calls, Handles, Handle
  <2>2. /\ call.engine = Once /\ call.graph.artifact.variants # <<>>
        /\ Driver = default_driver(Head(call.graph.artifact.variants).backend)
    BY <2>1 DEF CallStarted, Driver
  <2> QED
    BY <2>1, <2>2, FirstVariantFits DEF Variant
<1> QED
  BY <1>1, EngineInvariant, PTL

\* graph.rs, read_raw_outputs_into: a tensor of the caller is written only with
\* outputs that were found to be what the artifact declares.
THEOREM OutputsAreAlwaysCheckedFirst == Spec => OutputsAreCheckedFirst
<1> DEFINE Checked == \A g \in Handles : outputs'[g] # outputs[g] =>
                         call.graph = g /\ call.returned = g.artifact.outputs
<1>1. EngineInv /\ [Next]_vars => [Checked]_vars
  <2> SUFFICES ASSUME EngineInv, Next PROVE Checked
    OBVIOUS
  <2>1. ReadOutput \/ UNCHANGED outputs
    BY DEF Next, GraphNew, EngineDrop, EngineNew, ModelDrop, CallModel, RunOnce, RunOnceFails, CallGraph, NoVariant,
           FindModule, LoadModule, LoadFails, ResolveFunction, Invoke, Validate, ReadFails, ReadAll
  <2>2. CASE ReadOutput
    <3>1. CallStarted /\ CallReads /\ call.step = "read" /\ DOMAIN outputs = Handles
      BY <2>2 DEF ReadOutput, EngineInv, Busy, TypeOK
    <3>2. call.graph \in Handles /\ call.returned = call.graph.artifact.outputs
      BY <3>1 DEF CallStarted, CallReads, EngineInv, GraphsMatch
    <3>3. \A g \in Handles \ {call.graph} : outputs'[g] = outputs[g]
      BY <2>2, <3>1 DEF ReadOutput
    <3> QED
      BY <3>2, <3>3
  <2> QED
    BY <2>1, <2>2
<1> QED
  BY <1>1, EngineInvariant, PTL DEF Spec, OutputsAreCheckedFirst
==============================================================================
