-------------------------------- MODULE Engine ---------------------------------
(***************************************************************************)
(* The hosted runtime of the target crate (crates/knok/src/runtime.rs,     *)
(* graph.rs, artifact.rs, backend.rs, private.rs).                         *)
(*                                                                         *)
(* An engine loads embedded VMFBs for its driver, each once, and keeps     *)
(* them; a model is a function resolved in a loaded module.  An invocation *)
(* may return anything, and is checked against the types of the handle     *)
(* before its outputs are copied one by one, into new tensors (run) or the *)
(* caller's (run_into).  Loading, invoking and each copy may fail.         *)
(* Engines stay on their thread, so the calls of a thread come one after   *)
(* another; the model is one thread with its engines.                      *)
(***************************************************************************)
EXTENDS Integers, SequencesExt

CONSTANTS
    Engines,     \* engines the thread creates
    Once,        \* the engine a run_once creates for itself
    Artifacts,   \* embedded artifacts: [function, outputs, variants]
    Typings,     \* output signatures handles are typed with
    Exports,     \* the functions of each VMFB that is loadable
    Returns,     \* output lists that an invocation may return
    Limit,       \* bound on the invocations
    Nothing

Backends == {"llvm-cpu", "metal-spirv", "vulkan-spirv", "cuda"}

\* The static bytes that an artifact embeds: where they are and how many.
Vmfbs == [addr : Nat, len : Nat]
IsList(s) == s \in Seq(ToSet(s))

ASSUME EngineAssumption ==
    /\ Once \notin Engines
    /\ Limit \in Nat
    /\ DOMAIN Exports \subseteq Vmfbs
    /\ \A a \in Artifacts : IsList(a.variants) /\ \A i \in DOMAIN a.variants :
         /\ a.variants[i].backend \in Backends /\ a.variants[i].vmfb \in Vmfbs
    /\ \A types \in Typings \cup Returns : IsList(types)

VARIABLES
    engine,      \* per engine, its driver and its modules, or Nothing
    graphs,      \* typed handles that passed Graph::new
    models,      \* prepared models
    call,        \* the call in progress
    outputs,     \* per handle, the caller's output tensors
    result,      \* how the last call ended
    loads,       \* how often each engine loaded each VMFB
    invocations

runtime == <<engine, models, loads>>
vars == <<engine, graphs, models, call, outputs, result, loads, invocations>>

-----------------------------------------------------------------------------
(* Backends, drivers and variants.                                         *)

Drivers == {"local-task", "local-sync", "metal", "vulkan", "cuda"}

default_driver(backend) ==
    CASE backend = "llvm-cpu" -> "local-task"
      [] backend = "metal-spirv" -> "metal"
      [] backend = "vulkan-spirv" -> "vulkan"
      [] backend = "cuda" -> "cuda"

supports_driver(backend, driver) ==
    driver = default_driver(backend) \/ (backend = "llvm-cpu" /\ driver = "local-sync")

IsFirstFit(a, driver, i) ==
    /\ supports_driver(a.variants[i].backend, driver)
    /\ \A j \in 1 .. i - 1 : ~supports_driver(a.variants[j].backend, driver)

\* The first variant that runs on the driver, or Nothing.
variant_for_driver(a, driver) ==
    IF \E i \in DOMAIN a.variants : IsFirstFit(a, driver, i)
    THEN a.variants[CHOOSE i \in DOMAIN a.variants : IsFirstFit(a, driver, i)]
    ELSE Nothing

\* Mutant: modules are told apart by their address only.
ModuleKey_AddrOnly(vmfb) == <<vmfb.addr, 0>>

\* The address and length of the static bytes.
ModuleKey(vmfb) == <<vmfb.addr, vmfb.len>>

\* An engine: its driver, and its modules by the key of their bytes.
ModuleKeys == {ModuleKey(v) : v \in DOMAIN Exports}
ModuleMaps == UNION {[keys -> DOMAIN Exports] : keys \in SUBSET ModuleKeys}
EngineStates == [driver : Drivers, modules : ModuleMaps]

ASSUME NothingAssumption == Nothing \notin EngineStates

\* Mutant: only the number of tensors is compared.
signatures_match_CountOnly(expected, actual) == Len(expected) = Len(actual)

signatures_match(expected, actual) == expected = actual

-----------------------------------------------------------------------------

Handle(a, types) == [artifact |-> a, types |-> types]
Handles == {Handle(a, types) : a \in Artifacts, types \in Typings}

\* A tensor holds what one output of one invocation was; 0 is the caller's own.
Tensor(inv, i, type) == [inv |-> inv, index |-> i, type |-> type]
Blank(g) == [i \in DOMAIN g.types |-> Tensor(0, i, g.types[i])]

NoResult == [status |-> "none"]
NoCall == [step |-> "idle"]
Busy == call.step # "idle"

Init ==
    /\ engine = [e \in Engines \cup {Once} |-> Nothing]
    /\ graphs = {}
    /\ models = {}
    /\ call = NoCall
    /\ outputs = [g \in Handles |-> Blank(g)]
    /\ result = NoResult
    /\ loads = [e \in Engines \cup {Once} |-> [v \in DOMAIN Exports |-> 0]]
    /\ invocations = 0

\* Graph::new: the handle's types against the artifact's declared ones.
GraphNew(a, types) ==
    /\ ~Busy
    /\ signatures_match(types, a.outputs)
    /\ graphs' = graphs \cup {Handle(a, types)}
    /\ UNCHANGED <<runtime, call, outputs, result, invocations>>

\* Engine::new on an available device; a failure leaves nothing behind.
EngineNew(e, driver) ==
    /\ ~Busy
    /\ engine[e] = Nothing
    /\ engine' = [engine EXCEPT ![e] = [driver |-> driver, modules |-> <<>>]]
    /\ loads' = [loads EXCEPT ![e] = [v \in DOMAIN Exports |-> 0]]
    /\ UNCHANGED <<graphs, models, call, outputs, result, invocations>>

\* A model borrows its engine, which outlives it.
EngineDrop(e) ==
    /\ ~Busy
    /\ engine[e] # Nothing
    /\ \A m \in models : m.engine # e
    /\ engine' = [engine EXCEPT ![e] = Nothing]
    /\ UNCHANGED <<graphs, models, call, outputs, result, loads, invocations>>

ModelDrop(m) ==
    /\ ~Busy
    /\ models' = models \ {m}
    /\ UNCHANGED <<engine, graphs, call, outputs, result, loads, invocations>>

-----------------------------------------------------------------------------
(* Calls.                                                                  *)

Start(op, e, g, step, program) ==
    /\ call' = [op |-> op, engine |-> e, graph |-> g, step |-> step, program |-> program,
                returned |-> <<>>, tensors |-> <<>>]
    /\ result' = NoResult

\* Graph::load, run and run_into on an engine.
CallGraph(op, e, g) ==
    /\ ~Busy
    /\ engine[e] # Nothing
    /\ Start(op, e, g, "module", Nothing)
    /\ UNCHANGED <<runtime, graphs, outputs, invocations>>

\* Model::run and run_into.
CallModel(op, m) ==
    /\ ~Busy
    /\ Start(op, m.engine, m.graph, "invoke", m.program)
    /\ UNCHANGED <<runtime, graphs, outputs, invocations>>

\* Mutant: the engine of run_once outlives the call.
Return_KeepsEngine(status) ==
    /\ engine' = engine
    /\ call' = NoCall
    /\ result' = [status |-> status, op |-> call.op, graph |-> call.graph,
                  tensors |-> IF status = "ok" THEN call.tensors ELSE <<>>]

\* run_once drops its engine when it returns.
Return(status) ==
    /\ engine' = [engine EXCEPT ![Once] = Nothing]
    /\ call' = NoCall
    /\ result' = [status |-> status, op |-> call.op, graph |-> call.graph,
                  tensors |-> IF status = "ok" THEN call.tensors ELSE <<>>]

\* Mutant: the engine of RuntimeConfig::auto.
RunOnce_Auto(g) ==
    /\ ~Busy
    /\ g.artifact.variants # <<>>
    /\ engine' = [engine EXCEPT ![Once] = [driver |-> "local-task", modules |-> <<>>]]
    /\ loads' = [loads EXCEPT ![Once] = [v \in DOMAIN Exports |-> 0]]
    /\ Start("once", Once, g, "module", Nothing)
    /\ UNCHANGED <<graphs, models, outputs, invocations>>

\* Graph::run_once: an engine of its own on the first variant's default driver.
RunOnce(g) ==
    /\ ~Busy
    /\ g.artifact.variants # <<>>
    /\ engine' = [engine EXCEPT ![Once] =
            [driver |-> default_driver(Head(g.artifact.variants).backend), modules |-> <<>>]]
    /\ loads' = [loads EXCEPT ![Once] = [v \in DOMAIN Exports |-> 0]]
    /\ Start("once", Once, g, "module", Nothing)
    /\ UNCHANGED <<graphs, models, outputs, invocations>>

\* for_artifact: there is no variant to take a driver from.
RunOnceFails(g) ==
    /\ ~Busy
    /\ g.artifact.variants = <<>>
    /\ result' = [status |-> "MissingDefaultArtifactVariant", op |-> "once", graph |-> g,
                  tensors |-> <<>>]
    /\ UNCHANGED <<runtime, graphs, call, outputs, invocations>>

Driver == engine[call.engine].driver
Modules == engine[call.engine].modules
Variant == variant_for_driver(call.graph.artifact, Driver)

NoVariant ==
    /\ call.step = "module"
    /\ Variant = Nothing
    /\ Return("MissingArtifactVariant")
    /\ UNCHANGED <<models, loads, graphs, outputs, invocations>>

\* A module that the engine holds already.
FindModule ==
    /\ call.step = "module"
    /\ Variant # Nothing
    /\ ModuleKey(Variant.vmfb) \in DOMAIN Modules
    /\ call' = [call EXCEPT !.step = "function", !.program = Modules[ModuleKey(Variant.vmfb)]]
    /\ UNCHANGED <<runtime, graphs, outputs, result, invocations>>

\* The modules and the counts of the engine once this VMFB is loaded.
WithModule(vmfb) ==
    [k \in DOMAIN Modules \cup {ModuleKey(vmfb)} |-> IF k \in DOMAIN Modules THEN Modules[k] ELSE vmfb]
LoadedAgain(vmfb) == [loads[call.engine] EXCEPT ![vmfb] = loads[call.engine][vmfb] + 1]

\* Mutant: a module that was loaded is not kept.
LoadModule_NotKept ==
    /\ call.step = "module"
    /\ Variant # Nothing
    /\ ModuleKey(Variant.vmfb) \notin DOMAIN Modules
    /\ Variant.vmfb \in DOMAIN Exports
    /\ loads' = [loads EXCEPT ![call.engine] = LoadedAgain(Variant.vmfb)]
    /\ call' = [call EXCEPT !.step = "function", !.program = Variant.vmfb]
    /\ UNCHANGED <<engine, graphs, models, outputs, result, invocations>>

\* The vacant entry: load the bytes, and keep the module only once they are.
LoadModule ==
    /\ call.step = "module"
    /\ Variant # Nothing
    /\ ModuleKey(Variant.vmfb) \notin DOMAIN Modules
    /\ Variant.vmfb \in DOMAIN Exports
    /\ loads' = [loads EXCEPT ![call.engine] = LoadedAgain(Variant.vmfb)]
    /\ engine' = [engine EXCEPT ![call.engine] = [driver |-> Driver, modules |-> WithModule(Variant.vmfb)]]
    /\ call' = [call EXCEPT !.step = "function", !.program = Variant.vmfb]
    /\ UNCHANGED <<graphs, models, outputs, result, invocations>>

\* load_vmfb fails: for good on bytes that are no module (a stub), or for now.
LoadFails ==
    /\ call.step = "module"
    /\ Variant # Nothing
    /\ ModuleKey(Variant.vmfb) \notin DOMAIN Modules
    /\ Return("Runtime")
    /\ UNCHANGED <<models, loads, graphs, outputs, invocations>>

\* The function by its name in the module.
ResolveFunction ==
    /\ call.step = "function"
    /\ IF call.graph.artifact.function \notin Exports[call.program]
       THEN Return("Runtime") /\ UNCHANGED models
       ELSE IF call.op = "load"
       THEN /\ models' = models \cup
                  {[engine |-> call.engine, graph |-> call.graph, program |-> call.program]}
            /\ Return("ok")
       ELSE /\ call' = [call EXCEPT !.step = "invoke"]
            /\ UNCHANGED <<engine, models, result>>
    /\ UNCHANGED <<graphs, outputs, loads, invocations>>

\* Inputs are copied to the device and the function runs; either may fail.
Invoke ==
    /\ call.step = "invoke"
    /\ \/ \E returned \in Returns :
             /\ invocations < Limit
             /\ invocations' = invocations + 1
             /\ call' = [call EXCEPT !.step = "validate", !.returned = returned]
             /\ UNCHANGED <<engine, result>>
       \/ Return("Runtime") /\ UNCHANGED invocations
    /\ UNCHANGED <<models, loads, graphs, outputs>>

\* Mutant: the reads are trusted to notice a wrong shape.
validate_raw_outputs_CountOnly(types, returned) == Len(returned) = Len(types)

\* check_count, then each output's dtype and shape against the handle's types.
validate_raw_outputs(types, returned) ==
    /\ Len(returned) = Len(types)
    /\ \A i \in DOMAIN types : returned[i] = types[i]

Validate ==
    /\ call.step = "validate"
    /\ IF validate_raw_outputs(call.graph.types, call.returned)
       THEN call' = [call EXCEPT !.step = "read"] /\ UNCHANGED <<engine, result>>
       ELSE Return("Mismatch")
    /\ UNCHANGED <<models, loads, graphs, outputs, invocations>>

Writes == call.op = "run_into"
Read == Len(call.tensors)

\* Copy the next output to the host.
ReadOutput ==
    /\ call.step = "read"
    /\ Read < Len(call.graph.types)
    /\ LET i == Read + 1
           tensor == Tensor(invocations, i, call.returned[i])
       IN  /\ call' = [call EXCEPT !.tensors = Append(@, tensor)]
           /\ outputs' = IF Writes
                         THEN [outputs EXCEPT ![call.graph] = [@ EXCEPT ![i] = tensor]]
                         ELSE outputs
    /\ UNCHANGED <<runtime, graphs, result, invocations>>

ReadFails ==
    /\ call.step = "read"
    /\ Read < Len(call.graph.types)
    /\ Return("Runtime")
    /\ UNCHANGED <<models, loads, graphs, outputs, invocations>>

ReadAll ==
    /\ call.step = "read"
    /\ Read = Len(call.graph.types)
    /\ Return("ok")
    /\ UNCHANGED <<models, loads, graphs, outputs, invocations>>

Next ==
    \/ \E a \in Artifacts, types \in Typings : GraphNew(a, types)
    \/ \E e \in Engines : EngineDrop(e) \/ \E driver \in Drivers : EngineNew(e, driver)
    \/ \E m \in models : ModelDrop(m) \/ \E op \in {"run", "run_into"} : CallModel(op, m)
    \/ \E g \in graphs : \/ RunOnce(g) \/ RunOnceFails(g)
                         \/ \E op \in {"load", "run", "run_into"}, e \in Engines :
                               CallGraph(op, e, g)
    \/ NoVariant \/ FindModule \/ LoadModule \/ LoadFails \/ ResolveFunction
    \/ Invoke \/ Validate \/ ReadOutput \/ ReadFails \/ ReadAll

Spec == Init /\ [][Next]_vars

-----------------------------------------------------------------------------
(* Properties.                                                             *)

TypeOK ==
    /\ \A e \in DOMAIN engine : engine[e] # Nothing => engine[e].driver \in Drivers
    /\ engine[Once] # Nothing => Busy /\ call.op = "once"
    /\ graphs \subseteq Handles
    /\ \A m \in models : m.engine \in Engines /\ m.graph \in graphs
    /\ call.step \in {"idle", "module", "function", "invoke", "validate", "read"}
    /\ DOMAIN outputs = Handles
    /\ invocations \in 0 .. Limit

\* runtime.rs:126: what a model runs comes from exactly the bytes that its
\* artifact embeds for a backend its engine's driver can execute.
ModelsRunTheirArtifact ==
    \A m \in models :
        /\ engine[m.engine] # Nothing
        /\ \E i \in DOMAIN m.graph.artifact.variants :
              LET v == m.graph.artifact.variants[i] IN
              /\ m.program = v.vmfb
              /\ supports_driver(v.backend, engine[m.engine].driver)
        /\ m.graph.artifact.function \in Exports[m.program]

\* docs/runtime.md:54: an engine loads a VMFB once, however many graphs share
\* it and however often functions are missing or invocations fail.
ModulesLoadOnce == \A e \in DOMAIN loads : \A v \in DOMAIN Exports : loads[e][v] <= 1

\* docs/runtime.md:39: no tensor of the caller is written before all outputs
\* of the invocation were found to be what the artifact declares.
OutputsAreCheckedFirst ==
    [][\A g \in Handles : outputs'[g] # outputs[g] =>
          call.graph = g /\ call.returned = g.artifact.outputs]_vars

\* A call that reports success leaves all of the declared outputs of one
\* invocation, in order, in what it returned or was given to write.
SuccessIsWhole ==
    (result.status = "ok" /\ result.op # "load") =>
        LET whole(tensors) == \E inv \in 1 .. invocations :
                tensors = [i \in DOMAIN result.graph.artifact.outputs |->
                              Tensor(inv, i, result.graph.artifact.outputs[i])]
        IN  /\ whole(result.tensors) \/ result.tensors = <<>>
            /\ result.tensors = <<>> => result.graph.artifact.outputs = <<>>
            /\ (result.op = "run_into" /\ ~Busy) => outputs[result.graph] = result.tensors

\* An embedded artifact always runs by run_once where its device is: the engine
\* chosen for the first variant selects that variant.
RunOnceFindsItsVariant ==
    (Busy /\ call.op = "once") => Variant = Head(call.graph.artifact.variants)
=============================================================================
