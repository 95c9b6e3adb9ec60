------------------------------ MODULE BuildScript ------------------------------
(***************************************************************************)
(* knok-build run by Cargo (crates/knok-build/src/lib.rs, codegen.rs, with *)
(* CompileOptions and backend_flags of knok-compile).                      *)
(*                                                                         *)
(* A build script is a sequence of emit_* calls.  Each compiles its items  *)
(* one by one, writes a VMFB per item into OUT_DIR and, last, one wrapper  *)
(* file whose modules name a VMFB and record its compile flags.  Cargo     *)
(* reruns the script when something it printed a rerun-if-changed for has  *)
(* changed or the last run failed, and then builds the target crate, which *)
(* embeds what OUT_DIR holds.  Sources, options and the compiler change,   *)
(* and runs fail or are killed, at any moment.  Compilation is taken at    *)
(* its word, CompileService.                                               *)
(***************************************************************************)
EXTENDS Integers, SequencesExt

CONSTANTS
    Scripts,     \* what build.rs may say: sequences of emits
    Items,       \* names of graphs and of MLIR models, which may share one
    Libraries,   \* builds of the compiler library
    OptLevel,    \* Cargo's OPT_LEVEL as an IREE level, or Nothing
    Target,      \* Cargo's TARGET
    BackendOf,   \* the backend selected for each item
    Limit,       \* how often each kind of event may happen
    Nothing,
    Torn         \* a file whose writing was cut off

Events == {"edit", "upgrade", "abort"}

\* What Cargo can see change.
BuildRs == <<"build.rs">>
Library == <<"library">>
Source(e, g) == IF e.kind = "mlir" THEN <<"model", g>> ELSE <<"traced", g>>
Sources == {"model", "traced"} \X Items

ASSUME BuildAssumption ==
    /\ BackendOf \in [Items -> {"llvm-cpu", "cuda"}]
    /\ Limit \in [Events -> Nat]
    /\ \A s \in Scripts :
         /\ s # <<>> /\ s \in Seq(ToSet(s))
         /\ \A e \in ToSet(s) :
              /\ e.kind \in {"graph", "grad", "mlir"} /\ e.stub \in BOOLEAN
              /\ e.items \in Seq(Items) /\ e.extra \in Seq(ToSet(e.extra))

VARIABLES
    script,      \* build.rs
    version,     \* the revision of each source
    library,     \* the compiler build at the library path
    changed,     \* inputs changed since the last run started
    run,         \* the running build script
    vmfb,        \* OUT_DIR/*.vmfb
    wrapper,     \* OUT_DIR/*.rs
    tracked,     \* the inputs the last successful run declared
    succeeded,   \* whether the last run succeeded
    crate,       \* per output file, the modules the target crate was built from
    built,       \* whether the crate was built since the last run
    used

outDir == <<vmfb, wrapper>>
cargo == <<tracked, succeeded, crate, built>>
inputs == <<script, version, library, changed>>
vars == <<script, version, library, changed, run, vmfb, wrapper, tracked, succeeded,
          crate, built, used>>

-----------------------------------------------------------------------------
(* Compile options.  A flag is [opt, val].                                 *)

Flag(opt, val) == [opt |-> opt, val |-> val]
Sets(flags, opt) == \E i \in DOMAIN flags : flags[i].opt = opt

\* Mutant: Cargo's profile overrides the script's own level.
backend_flags_ProfileWins(backend, extra) ==
    <<Flag("hal-target-backends", backend)>> \o extra
    \o (IF backend = "llvm-cpu" THEN <<Flag("opt-level", OptLevel)>> ELSE <<>>)

backend_flags(backend, extra) ==
    LET default(opt, val) ==
            IF backend = "llvm-cpu" /\ val # Nothing /\ ~Sets(extra, opt)
            THEN <<Flag(opt, val)>> ELSE <<>>
    IN <<Flag("hal-target-backends", backend)>>
       \o default("opt-level", OptLevel)
       \o default("llvmcpu-target-triple", Target)
       \o extra

\* CompileOptions::flags refuses to have the backend overridden.
OptionsAreValid(e) == ~Sets(e.extra, "hal-target-backends")

FlagsOf(e, g) == backend_flags(BackendOf[g], e.extra)

-----------------------------------------------------------------------------
(* What an emit writes for an item.  An emit is [kind, items, file, stub,  *)
(* extra] with kind "graph", "grad" or "mlir".                             *)

\* Mutant: external models are stored like traced graphs.
VmfbName_NoPrefix(e, g) ==
    IF e.kind = "grad" THEN g \o "_value_and_grad" ELSE g

VmfbName(e, g) ==
    CASE e.kind = "graph" -> g
      [] e.kind = "grad"  -> g \o "_value_and_grad"
      [] e.kind = "mlir"  -> "mlir-model-" \o g

Artifact(e, g, v, lib) ==
    IF e.stub THEN [kind |-> "stub"]
    ELSE [kind |-> e.kind, item |-> g, version |-> v, lib |-> lib, flags |-> FlagsOf(e, g)]

\* Mutant: the wrapper records the backend's defaults only.
Module_DefaultFlags(e, g, v) ==
    [kind |-> e.kind, item |-> g, vmfb |-> VmfbName(e, g),
     flags |-> backend_flags(BackendOf[g], <<>>),
     version |-> IF e.kind = "mlir" THEN Nothing ELSE v]

\* A wrapper's signature is the traced graph's; a model's is build.rs's own.
Module(e, g, v) ==
    [kind |-> e.kind, item |-> g, vmfb |-> VmfbName(e, g), flags |-> FlagsOf(e, g),
     version |-> IF e.kind = "mlir" THEN Nothing ELSE v]

\* Mutant: the library is tracked only if a graph had to be compiled anew.
Declares_MissesOnly(e, g) ==
    (IF e.kind = "mlir" THEN {Source(e, g)} ELSE {})
    \cup (IF ~e.stub /\ VmfbName(e, g) \notin DOMAIN vmfb THEN {Library} ELSE {})

\* rerun-if-changed: every model's file, and the library once one is loaded.
Declares(e, g) ==
    (IF e.kind = "mlir" THEN {Source(e, g)} ELSE {}) \cup (IF e.stub THEN {} ELSE {Library})

-----------------------------------------------------------------------------

NotRunning == [step |-> "idle"]

Init ==
    /\ script \in Scripts
    /\ version = [src \in Sources |-> 0]
    /\ library \in Libraries
    /\ changed = {}
    /\ run = NotRunning
    /\ vmfb = <<>> /\ wrapper = <<>>
    /\ tracked = {} /\ succeeded = FALSE
    /\ crate = <<>> /\ built = FALSE
    /\ used = [ev \in Events |-> 0]

Running == run.step # "idle"
Emit == run.script[run.emit]
Item == Emit.items[run.item]

\* Cargo runs a script that is new, has failed, or whose inputs changed; a
\* changed build.rs is a new script.
Dirty == ~succeeded \/ changed \cap (tracked \cup {BuildRs}) # {}

\* An emit of nothing writes its wrapper at once.
FirstStep(e) == IF e.items = <<>> THEN "output" ELSE "compile"

Put(files, name, content) ==
    [n \in DOMAIN files \cup {name} |-> IF n = name THEN content ELSE files[n]]

\* Cargo compiles build.rs and the graph functions in it, and starts it.
StartScript ==
    /\ ~Running
    /\ Dirty
    /\ run' = [step |-> FirstStep(script[1]), script |-> script, version |-> version,
               emit |-> 1, item |-> 1, generated |-> <<>>, declared |-> {}]
    /\ changed' = {}
    /\ succeeded' = FALSE
    /\ UNCHANGED <<script, version, library, outDir, tracked, crate, built, used>>

\* A model is read when its turn comes, a graph was traced by the script.
SourceVersion == (IF Emit.kind = "mlir" THEN version ELSE run.version)[Source(Emit, Item)]

\* Compile an item, or make a stub of it, and write its VMFB.
CompileItem ==
    /\ run.step = "compile"
    /\ OptionsAreValid(Emit) \/ Emit.stub
    /\ vmfb' = Put(vmfb, VmfbName(Emit, Item), Artifact(Emit, Item, SourceVersion, library))
    /\ run' = [run EXCEPT !.step = "codegen",
                          !.declared = @ \cup Declares(Emit, Item)]
    /\ UNCHANGED <<inputs, wrapper, cargo, used>>

\* Mutant: the next emit starts where this one ended.
GenerateModule_KeepItem ==
    /\ run.step = "codegen"
    /\ OptionsAreValid(Emit)
    /\ LET last == run.item = Len(Emit.items) IN
       run' = [run EXCEPT !.step = IF last THEN "output" ELSE "compile",
                          !.item = IF last THEN @ ELSE @ + 1,
                          !.generated = Append(@, Module(Emit, Item, run.version[Source(Emit, Item)]))]
    /\ UNCHANGED <<inputs, outDir, cargo, used>>

\* codegen::graph_module or mlir_model_module, and on to the next item.
GenerateModule ==
    /\ run.step = "codegen"
    /\ OptionsAreValid(Emit)
    /\ LET last == run.item = Len(Emit.items) IN
       run' = [run EXCEPT !.step = IF last THEN "output" ELSE "compile",
                          !.item = IF last THEN 1 ELSE @ + 1,
                          !.generated = Append(@, Module(Emit, Item, run.version[Source(Emit, Item)]))]
    /\ UNCHANGED <<inputs, outDir, cargo, used>>

\* The wrapper file is written last; then comes the next emit_* call.
WriteOutput ==
    /\ run.step = "output"
    /\ wrapper' = Put(wrapper, Emit.file, run.generated)
    /\ IF run.emit < Len(run.script)
       THEN /\ run' = [run EXCEPT !.step = FirstStep(run.script[run.emit + 1]), !.emit = @ + 1, !.generated = <<>>]
            /\ UNCHANGED cargo
       ELSE /\ run' = NotRunning
            /\ tracked' = run.declared
            /\ succeeded' = TRUE
            /\ built' = FALSE
            /\ UNCHANGED crate
    /\ UNCHANGED <<inputs, vmfb, used>>

\* An error of the compiler, codegen or a write, or the death of the script;
\* a file being written may be left cut off, and what was written before stays.
Abort ==
    /\ Running
    /\ used["abort"] < Limit["abort"]
    /\ used' = [used EXCEPT !["abort"] = @ + 1]
    /\ \/ UNCHANGED outDir
       \/ /\ run.step = "compile"
          /\ vmfb' = Put(vmfb, VmfbName(Emit, Item), Torn)
          /\ UNCHANGED wrapper
       \/ /\ run.step = "output"
          /\ wrapper' = Put(wrapper, Emit.file, Torn)
          /\ UNCHANGED vmfb
    /\ run' = NotRunning
    /\ UNCHANGED <<inputs, cargo>>

\* options.flags(..)? : the script panics whenever it is run.
RejectOptions ==
    /\ Running
    /\ run.step = IF Emit.stub THEN "codegen" ELSE "compile"
    /\ ~OptionsAreValid(Emit)
    /\ run' = NotRunning
    /\ UNCHANGED <<inputs, outDir, cargo, used>>

\* generated_graphs! and include_bytes!: the target crate takes in the files
\* that the script it was built with emits.
Files(s) == {s[i].file : i \in DOMAIN s}

BuildCrate ==
    /\ ~Running /\ ~Dirty /\ ~built
    /\ crate' = [f \in Files(script) |->
                    [i \in DOMAIN wrapper[f] |->
                        [module |-> wrapper[f][i], artifact |-> vmfb[wrapper[f][i].vmfb]]]]
    /\ built' = TRUE
    /\ UNCHANGED <<inputs, run, outDir, tracked, succeeded, used>>

Change(input, event) ==
    /\ used[event] < Limit[event]
    /\ used' = [used EXCEPT ![event] = @ + 1]
    /\ changed' = changed \cup {input}
    /\ UNCHANGED <<run, outDir, cargo>>

EditScript(s) ==
    /\ s # script
    /\ Change(BuildRs, "edit")
    /\ script' = s
    /\ UNCHANGED <<version, library>>

SourcesOf(s) == UNION {{Source(e, g) : g \in ToSet(e.items)} : e \in ToSet(s)}

\* A traced graph is part of the build script, a model is a file.
EditSource(src) ==
    /\ Change(IF src[1] = "model" THEN src ELSE BuildRs, "edit")
    /\ version' = [version EXCEPT ![src] = @ + 1]
    /\ UNCHANGED <<script, library>>

UpgradeCompiler(lib) ==
    /\ lib # library
    /\ Change(Library, "upgrade")
    /\ library' = lib
    /\ UNCHANGED <<script, version>>

Next ==
    \/ StartScript \/ CompileItem \/ GenerateModule \/ WriteOutput \/ Abort
    \/ RejectOptions \/ BuildCrate
    \/ \E s \in Scripts : EditScript(s)
    \/ \E src \in SourcesOf(script) : EditSource(src)
    \/ \E lib \in Libraries : UpgradeCompiler(lib)

Spec == Init /\ [][Next]_vars

-----------------------------------------------------------------------------
(* Properties.                                                             *)

TypeOK ==
    /\ script \in Scripts
    /\ version \in [Sources -> Nat]
    /\ library \in Libraries
    /\ changed \subseteq {BuildRs, Library} \cup Sources
    /\ run.step \in {"idle", "compile", "codegen", "output"}
    /\ Running => run.emit \in DOMAIN run.script
    /\ run.step \in {"compile", "codegen"} => run.item \in DOMAIN Emit.items
    /\ tracked \subseteq {Library} \cup Sources
    /\ succeeded \in BOOLEAN /\ built \in BOOLEAN

Embedded == UNION {ToSet(crate[f]) : f \in DOMAIN crate}

\* include_bytes! and COMPILE_FLAGS: whatever failed or was killed before, a
\* module of the crate embeds a whole artifact of its own item, at the version
\* its typed signature was traced from.
ModulesEmbedTheirOwn ==
    \A m \in Embedded :
        /\ m.artifact # Torn
        /\ m.artifact.kind # "stub" =>
              /\ m.artifact.kind = m.module.kind
              /\ m.artifact.item = m.module.item
              /\ m.module.kind # "mlir" => m.artifact.version = m.module.version

\* docs/compiler.md:66: the flags that a module records are the ones its
\* artifact was compiled with.
VariantsRecordFlags ==
    \A m \in Embedded :
        m.artifact.kind # "stub" => m.artifact.flags = m.module.flags

\* docs/compiler.md:78: when Cargo sees nothing to rebuild, there is nothing:
\* the crate holds exactly what the sources, options and compiler of now give.
CrateIsCurrent ==
    (~Running /\ ~Dirty /\ built) =>
        \A i \in DOMAIN script : LET e == script[i] IN
            crate[e.file] = [j \in DOMAIN e.items |->
                LET g == e.items[j]
                    v == version[Source(e, g)]
                IN  [module |-> Module(e, g, v), artifact |-> Artifact(e, g, v, library)]]

\* CompileOptions::flags: a module that is generated has its backend set once,
\* by the graph, and the script's own flags come last with nothing before them
\* set that they set, so no default of Cargo's joins a level or triple of theirs.
OptionsAreRespected ==
    Running => \A m \in ToSet(run.generated) :
        LET own == Emit.extra
            others == Len(m.flags) - Len(own)
        IN  /\ m.flags[1] = Flag("hal-target-backends", BackendOf[m.item])
            /\ \A i \in DOMAIN m.flags : m.flags[i].opt = "hal-target-backends" => i = 1
            /\ \A k \in DOMAIN own : m.flags[others + k] = own[k]
            /\ \A i \in 1..others : ~Sets(own, m.flags[i].opt)
=============================================================================
