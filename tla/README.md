# A verification project for knok

knok traces Rust functions in a build script, type-checks and differentiates
the traced graphs, lowers them to MLIR, compiles them with IREE into VMFB
artifacts that are embedded in the target crate, and runs them there. This
directory holds TLA+ models of its parts, TLC configurations that check them on
small instances, and TLAPS proofs about them.

## Inventory

| Component | Source | State | Operations | What is hard |
|---|---|---|---|---|
| Tracing | `knok-build/src/trace/` | `TraceContext`: inputs, node and tuple ids, let bindings | one function per operation, `finish`, normalization of shared nodes into lets | sharing (a node used twice is computed once), name collisions, nodes of another context |
| Build-script frontend | `knok-build/src/lib.rs`, `codegen.rs`, macros crate | files of `OUT_DIR`, what was printed to Cargo | `emit_*`, code generation | failure between writes, artifacts that overwrite one another, undeclared inputs |
| Type checker | `knok-core/src/typecheck.rs`, `ops/`, `ast.rs` | scopes of typed names, graph registry | inference per operation, calls between graphs | shape arithmetic, overflow, zero dimensions, recursion between graphs |
| Autograd | `knok-core/src/autograd/` | typed program, gradients by name, inlined callees | value-and-gradient transformation, reverse rules | shadowed lets, accumulation, calls, broadcast gradients |
| Lowerer | `knok-compile/src/lowering/lowerer.rs` | scope of values, node and tuple caches keyed by scope, call stack | lowering of each operation, inlining of graph calls | cache keys across scopes, restoring the scope on errors, recursion |
| Kernels of the lowerer | `lowering/` but `lowerer.rs` and `random.rs` | none | the operations emitted for each call | values of rank 0 in two kinds, reassociations, indexing maps, padded windows, empty axes, index normalization |
| Backend flags | `knok-compile/src/backend.rs`, `CompileOptions` | none | resolve flags | Cargo defaults against explicit options |
| VMFB cache | `knok-compile/src/compile.rs` | files of the cache directory, lock, temp counter | `compile_with_iree` | interleaving of processes, crashes, deletion, stale keys |
| Runtime engine | `knok/src/runtime.rs`, `graph.rs`, `artifact.rs` | modules of an engine, models, host outputs | `load`, `run`, `run_into`, `run_once` | failures half-way, module identity, checking before writing |
| Random numbers | `lowering/random.rs`, `ops/static_creation.rs` | the key, passed from draw to draw | counter-based generators, one in the graph and one in the build | 32/64-bit wrap-around, ranges, agreement of host and device |
| Tensors | `knok/src/tensor.rs` | a buffer per tensor | construction, indexing | index arithmetic |

How they interact: a build script traces graphs into a registry; the frontend
hands each graph to the type checker (on `finish`), to autograd for `grad_*`,
and to the lowerer; the MLIR and the resolved flags go through the cache; the
frontend writes the artifact and a wrapper module into `OUT_DIR`; Cargo builds
the target crate around them; at run time the engine loads the artifact and
runs it. Within a build script everything is sequential. Concurrency is between
build scripts (and other hosts of `knok-compile`) that share a cache directory.

For each component, what makes it correct:

* cache: transparent (a cached answer is what a compilation would have given),
  crash-safe, no duplicated work under the lock, no call blocked for ever;
* frontend: what the target crate embeds belongs together and is current;
* engine: a model runs its own artifact, checks before it writes, loads once;
* tracing: the typed program computes what the traced expression means, each
  node once;
* type checker: the type it infers is the shape rule's, and lowering produces it;
* kernels: what is emitted passes the compiler's verifiers, has the inferred
  type, and computes what the call means;
* autograd: the gradient program is typed, complete and linear in the seed;
* lowerer: a cached value is only used where it is in scope, and a scope is as
  it was after an inlined call, on errors too;
* random numbers: samples lie in range, a key is a position in one stream,
  host and device make the same numbers.

## Modules

| Module | Models | Kind |
|---|---|---|
| `CompileService` | what `compile_with_iree` promises, with no cache | abstract specification |
| `VmfbCache` | `compile_with_iree` and its surroundings | detailed specification |
| `VmfbCacheProps` | its properties, inductive invariant, refinement mapping | properties |
| `VmfbCacheProofs` | its theorems | TLAPS |
| `MCVmfbCache` | requests, builds and bounds | model values |
| `BuildScript`, `MCBuildScript` | the frontend run by Cargo, and its scripts | specification, model values |
| `BuildScriptProofs` | theorems about `BuildScript` | TLAPS |
| `Engine`, `MCEngine` | the hosted runtime, and its artifacts | specification, model values |
| `EngineProofs` | theorems about `Engine` | TLAPS |
| `GraphIR` | expressions and graphs of `ast.rs` | data |
| `Lowerer` | `lowering/lowerer.rs` | detailed specification |
| `LowererProps` | the meaning of a graph, and what lowering owes to it | properties |
| `LowererProofs` | theorems about the stacks, caches and names of `Lowerer` | TLAPS |
| `LowererRunsProofs` | lemmas about what the steps of a graph compute | TLAPS |
| `LowererMeaningProofs` | theorem that lowering keeps the meaning | TLAPS |
| `LowererSharingProofs` | theorem that shared work is emitted once | TLAPS |
| `MCLowerer` | programs to lower; the recursive definitions behind `LowererProps` | model values |
| `ShapeRules` | `knok-core/src/ops/`: the result types of a call | operators |
| `StaticCreation` | `ops/static_creation.rs`: literals, and the tensors made of them | operators |
| `Dialects` | the MLIR operations that are emitted (external), and `Value` | operators |
| `Emit` | `lowering/emit.rs`, broadcasting in `tensor_ops.rs` | operators |
| `TensorOps`, `Reductions`, `Contractions` | the kernels of `lowering/` | operators |
| `Kernels` | `lower_call`: which kernel lowers which call | operators |
| `Meanings` | what each call means, from `docs/semantics.md` | reference definition |
| `OpProgram` | programs of calls, type checked, lowered and run | specification |
| `MCOps` | inputs and calls, one family of programs per group of kernels | model values |
| `TypeCheck` | `typecheck.rs`: scopes, node types, lets, calls between graphs | operators |
| `Trace` | `knok-build/src/trace/`: handles, normalization to lets, `finish` | operators |
| `ReverseRules` | `autograd/reverse.rs`: the rules of elementwise calls and reductions | operators |
| `ReverseCalls` | the rest of `reverse.rs`: moves, products, windows, and which rule is whose | operators |
| `Autograd` | `autograd/mod.rs`, `flatten.rs`, `names.rs`: the builder | operators |
| `Derivatives` | the total derivative of a call | reference definition |
| `GradGraph` | a graph from tracing to the run of its gradient graph | specification, composing the six above with `Kernels` |
| `MCGradGraph` | functions to trace, graphs that call others | model values |
| `FloatBits` | IEEE numbers as bit patterns (external) | operators |
| `RandomNumbers` | both random generators | operators |
| `RandomStream`, `MCRandomStream` | draws that pass keys on, and static tensors | specification, model values |
| `RandomStreamProofs` | theorems about `RandomStream`, its floats and its hash | TLAPS |

A definition whose comment begins with "Mutant:" is a variant of the one after
it as a plausible bug would make it; no specification uses it. It documents
what the properties are sensitive to.

### VmfbCache

An activation of `compile_with_iree` is a record in `call`: its step, request,
descriptor of the lock file, loaded build, key, temporary-file number and
output. One action is one system call, or the code between two of them whose
effects nobody else sees: `create_dir_all`, open, flock, dlopen, stat, read,
compile, create, write, rename, reread. Every `?` and `bail!` is `Fail`, which
drops the lock and nothing else. `fs::write` is two actions, so that a reader
or a crash can fall between them. The lock is held per incarnation of
`iree-compiler.lock`: deleting the directory (`Clean`) makes a new one, and a
holder of the old one excludes nobody. The surroundings are crashes of
processes (with reuse of their process id), power loss (files lose data),
deletion of files or the directory, and installation of another compiler
library at the same path.

Data: a request has a backend, a list of flags, target variables and MLIR; a
flag is a sequence of tokens, so that two lists with the same concatenation
exist. `cache_key` concatenates as the code does, and blake3 is taken to be
injective. A file is what it was compiled from, by which build, and how much of
it is there.

`CompileService` has none of this: a call picks the installed build at some
moment and answers with what that build makes of the request, or fails.
`CacheIsTransparent` is the claim that VmfbCache implements it, under the
mapping `clientOf`.

### BuildScript

A build script is a sequence of `emit_*` calls over graphs, gradients or MLIR
models, with output file, options and stub flag. `CompileItem`,
`GenerateModule` and `WriteOutput` are the loop of the three emit functions;
`RejectOptions` is the error of `CompileOptions::flags`, and `Abort` any other
error or death of the script, which can leave the file it was writing torn.
Cargo is modelled from what the scripts print for it: a run starts when the
last one failed or something declared has changed, and the target crate is
built from `OUT_DIR` only after a successful run. Compilation is taken at the
word of `CompileService`. Flags are options with values.

### Engine

One thread with its engines (an `Engine` is neither `Send` nor `Sync`, so the
calls on it are sequential). A call goes through variant selection, the module
map, function lookup, invocation, validation and the copying of each output,
and can fail at each. The invoked function may return any list of typed
outputs, as an imported MLIR model may. A VMFB is an address and a length, and
two VMFBs may overlap in memory. Tensors are the output of an invocation they
hold; numbers are not modelled.

### Lowerer

The code is a recursion over the expression; the model makes its stack
explicit, without recursive operators, so that it can be proved about. Every
graph being lowered (the graph itself, then each inlined call) has a list of
steps to do in `todo` and a list of what its finished steps returned in
`results`; a step is one call of `lower_expr`, `lower_let_values` or
`inline_graph_values` that is about to begin, or the rest of one that waits for
another (`emit`, `single`, `keep_node`, `keep_tuple`, `bind_values`).
`overwritten` is the local variable of `inline_graph_values`, one list per
call; the other variables are the fields of `Lowerer`. An error is `Fail`, at
the conditions of `StepFails`; `Unwind` is `?` on its way out of each inlined
call, through `restore_values` and `pop_inline_scope`.

An MLIR value is the term it computes, so that two values are equal exactly
when the same operations of the same arguments made them; `block` lists the
operations emitted. Unary and binary arithmetic are calls of an operation;
their kernels may emit several MLIR operations, which count as one. Types are
left out, and with them the output checks of `output_value` and its splat of a
scalar output.

`LowererProps` gives a graph its meaning, every graph with names of its own, no
caches and no shared state. A module with a theorem can hold no recursive
operator, so the four operators that recurse over expressions (`MeaningOf`,
`EnvAfter`, `PlacesOf`, and `Parts` with `Depth`) are constants there, next to
the equations that define them, such as `MeaningStep`; `MCLowerer` gives them
their values by exactly these equations. The programs are
those a registry can hold: a node or tuple identifier has one payload in a
graph (`GraphsAssumption`), a let does not bind a node that is also used as an
expression (`lower_let_values` looks through a node and does not cache it), and
a tuple projects no node (`PlainAssumption`). All of it is what
`let_bind_nodes` produces. Callees have no free names; the type checker refuses
those, as one shared name map would let them see their caller's names.

### Calls and their kernels

`ShapeRules` to `Kernels` build on one another. They are pure algorithms: a type rule is a function from types to a set of at most
one result (the empty set is the error), a kernel a function from values to a
value. A value has a kind, `Scalar` or `Tensor`, as in `value.rs`, a type, an
element at each index, and `ok`: no `bail!` and no verifier has refused an
operation it was computed with. A kernel is the composition of the operations
it emits, each of which `Dialects` gives its meaning and its verifier's
conditions; slices, reassociation groups, indexing maps and the loops of
`linalg.generic` are those of the code, so that a group too many is refused and
an index map in the wrong order gives wrong elements.

`OpProgram` puts them together. A step is one call: `infer_call_results` on the
types of the arguments, `lower_call_values` on the lowered arguments, and the
execution of what was emitted. `lowered` holds the values, `meant` what
`Meanings` says they are; the two never read each other. Calls after the first
use the newest result, so that a kernel is tried on what another left behind: a
scalar where a tensor was, an empty tensor, a type broadcast or gathered.
`outcome` is "refused" when `canonicalize_and_verify` would fail and "trapped"
when the `cf.assert` of a gather does. The graph around a call (lets, nodes,
inlining) is `Lowerer`'s and left out here.

Elements are integers. `i32` and `i64` wrap at `IntBits` = 8 bits. Floats are
the field of `FieldSize` = 31 elements with an infinity at each end, where sums
and products are exact whatever their order, and quotients exist: a kernel that
adds, divides or counts wrongly gives another element, and rounding plays no
part. Order is that of the representatives, hence there are no negative floats
and no NaN; `relu` is checked on elements that it keeps, and `isnan` is false.
Infinities occur as the seeds of maxima, in the padding of `max_pool2d` and in
the inputs of `OpsArgmaxOfInfinity`. The functions of the math dialect are
polynomials that differ: only which one is called matters.

A creation call has no arguments: its literals and the bounds of its range
become a dense constant, spelt out by `StaticCreation`, which refuses what the
element type cannot hold.

`RefusedExactlyWhenUnsupported` names the three calls that the type checker
accepts and that cannot be lowered: a broadcast to a dimension smaller than the
argument's, a stack of values of rank 0, and a slice of a scalar. Every other
call lowers on every argument that the programs of `Ops` give it.

### Tracing and gradients

`GradGraph` takes one graph from its function to its gradients, `phase` by
`phase`:

| Phase | Actions | Code |
|---|---|---|
| tracing | `TraceCall`, `TraceSplit`, `FinishWithLoss`, `FinishWithLast` | the methods of handles, `TraceContext::finish` with `let_bind_nodes` |
| declared | `CheckDeclared` | graphs that call registered graphs, type checked against the registry |
| typed | `NewBuilder` | `ValueAndGradBuilder::new`: is the loss a float of rank 0, are the inputs floats |
| flattening | `FlattenLet`, `FlattenBody` | lets, and the bodies of the calls in them, to nodes with names of their own |
| reversing | `ReverseNode`, `FinishGradients` | one node at a time, last first; then the graph that is returned |
| done | `RunGraph` | `Lowerer`'s order over that graph, with `Kernels`, and the run of what came out |

A handle is an expression with the identifier of its node, taken from a counter
that a process shares between graphs. `TraceCall` makes any call on any handles
with at least one use of the newest; calls that the Rust types of the handles
refuse before anything runs are those the type rules refuse, and are not taken.
`Trace` then finds what is used twice and binds it, with names that avoid the
inputs; `TypeCheck` checks the result; `Autograd` gives every node a name in the
flat graph.

Two variables have no counterpart in the code. `loss` is what the traced
expression means, and `duals` what every flattened node means, each with its
total derivative with respect to every element of every input (`Derivatives`,
a rule per call, forwards, over the field of `Dialects`; exact, so there is no
tolerance). The reverse rules never read them. After each `ReverseNode`,
`PendingGradientsAddUp` demands that the gradients waiting at the nodes not yet
reversed, times the derivatives of those nodes, add up to the derivative of the
loss: the chain rule cut at that node. A rule that loses a contribution breaks it in
the very step. `ValueAndGradientsAreRight` demands the same of what the
finished graph returns when lowered and run.

A loss is a sum of the elements of the last result with weights 1, 2, 3 and so
on, so that gradients at different places differ and a transposed gradient is a
wrong one.

### Random numbers

`RandomNumbers` has both generators as they are written: the hash of splitmix64
on wrapping words, whose exclusive or is worked out bit by bit (`xor_i64`), the counter from key and row-major place, fractions from
the lowest bits of the hash, the clamp below `high` by the neighbour found in its
bits, and the checks and conversions of static bounds. `FloatBits` supplies the arithmetic: numbers
are patterns, sums and products round to nearest even, underflow gradually and
overflow to infinity. Words have 6 and 8 bits in place of 32 and 64: f32 has 3
bits of exponent and 2 of mantissa and ends at 14, f64 has 4 and 3 and ends at
240. The constants of splitmix64 keep their lowest 8 bits and stay odd, and its
shifts keep their proportions.

`RandomStream` draws: an action is one draw of the graph, from a key at hand
(the given one or any that was returned), or one static expansion from the
seed. A draw whose elements an `i64` does not count is an error of the build
(`counts_in_i64`). `StreamsContinue`, `NoNumberTwice` and `HostAgreesWithDevice` relate draws
to each other and the two generators to one another.

## Runs

| Run | Question | Bounds |
|---|---|---|
| `VmfbThreads` | temporary names and the inductive invariant when the lock file is replaced; own answers; every call returns | one process, two threads, two requests that differ in flags, three calls, a deletion and a crash; fairness on their steps |
| `VmfbProcesses` | whole answers, no redundant compilation, the refinement, stability of published files | two processes, one request, two builds of the compiler, three calls, and any two of a crash, a power loss, a deletion and an upgrade |
| `VmfbSharedRevision` | a violation: builds with one revision | see Findings |
| `BuildScript` | what a built crate embeds is whole, matching, current | five scripts, one with an emit of nothing; two edits, one upgrade, one abort |
| `BuildTwoTunings` | a violation: one graph, two tunings | see Findings |
| `Engine` | the right bytes for the right driver, loaded once; checking before writing | one engine of any driver, four artifacts (two functions of a VMFB, two VMFBs at an address, none), two invocations |
| `Lowerer` | lowering keeps the meaning, shares what is shared, restores what it changed | 2232 programs: six shapes of lets, two outputs with sharing between them, four callees and three registries, calls up to four deep |
| `Ops` | lowered calls compute what they mean, in chains | eight families of programs, below |
| `OpsArgmaxOfInfinity` | a violation: argmax of minus infinity | see Findings |
| `GradGraph` | gradients are those of the traced function, names are fresh, each call is computed once | 20-odd functions and graphs, below |
| `GradGraphNestedCalls` | a violation: a graph applied to its own result | see Findings |
| `RandomStream` | samples in range, streams, agreement of host and device | eight programs of up to three draws, below |

Two callers are enough for the cache because its state is per key and per lock
incarnation, and each of its hazards is a race of two; the theorems lift the
bound. Three calls let one caller come back after the other was answered. The
constraint `AtMostTwoFaults` of `VmfbProcesses` keeps the run to any pair of
faults, in any order and between any two steps: an entry is damaged by one fault
and exposed by at most another, as when a power loss tears a file and a deletion
replaces the lock under its reader. Two edits let a script change and change back; one abort is enough to
leave any prefix of the writes behind. Two invocations are enough for outputs of
different invocations to be mixed. In the programs of `Lowerer`, every graph
uses the names `x` and `y` and the identifiers 1, 11 and so on, so that any mix
of two scopes is a wrong term; four deep is the deepest chain the four callees
make, and it includes cycles of one, two and three graphs. `Limit` bounds every
counter; it is the only bound in the guards, with `results`, the number of
results of an `OpProgram`.

A family of `Ops` has inputs, calls and a bound: every elementwise call on 13
inputs of four element types that stretch each other (one call); values of
rank 0 in both kinds (4 inputs, three calls in a row); moves along every axis
(4 inputs, two); gathers with indices in and out of range (11 inputs, two);
reductions over one axis or all, with ties and empty axes (9 inputs, two);
products, stretched batches and diagonals (10 inputs, two); convolutions and
pools with padding that differs on each side, strides, dilations and groups (7
inputs, one). The tensors have up to a dozen elements and a unit or empty
dimension in every position, all elements different where they are moved or
ordered: an index map that swaps, skips or repeats a loop shows on dimensions 2 and 3. Two calls are
enough because a kernel sees nothing of its argument but its kind, type and
elements, and one call reaches every kind; values of rank 0 take three, as
their kind changes with each call. The family of creation calls has ranges up
and down, empty ones and ones with steps that do not divide them, spaced values
of one and of many points, identities, and literals at the edges of their
types.

The functions of `GradGraph` use every differentiable call, on axes of
different lengths so that a gradient that is summed, moved or padded along a
wrong axis has a wrong type or wrong elements: operands that stretch each other
on either side, extrema with and without ties, moves of moved tensors, sections
that are all or partly used, windows with uneven padding and strides, products
with batches. Others use handles twice, inputs named like generated
names, up to twelve inputs, and losses that are none. The declared graphs call others in turn, twice, inside
the arguments of others, with their own names exchanged, and recursively.

`RandomStream` tries every pair of finite f32 bounds and every pair of i32
bounds, f64 and i64 bounds at every edge (the largest, the smallest, zeros, the
last before one), keys that wrap around within a tensor, chains of three draws
with keys passed on or used again, and draws of 126, 127 and 2 numbers that
together take 255 or all 256 there are, beside one of 128 that is refused. Small words make these exhaustive; what they
cannot show is a property of the real constants, such as the quality of the
hash, and none is claimed. Deadlock checking is off where bounded events run out.

Fairness: `VmfbThreads` assumes weak fairness of each caller's `Advance`: a
thread that can take its next step does. Errors, crashes and events of the
surroundings are never assumed to happen. Weak fairness of the flock step is
justified as at most two threads compete and calls are bounded; with an
unbounded stream of callers it would have to be the kernel's queueing of flock
waiters.

## Proofs

`VmfbCacheProofs` proves for any numbers of callers, processes, requests and
builds, and any limits:

* `CacheInvAlways`: the inductive invariant `CacheInv`. It says what a caller
  knows at each step (`LocalsMatch`), that every file has the key in its name
  (`FilesMatchKeys`), that temporary names in use are distinct
  (`TempsAreExclusive`: it rests on `counter` being above every number handed
  out), that the temporary file of a caller about to rename is complete and its
  own (`TempsAreOwn`), and that one caller at most holds each incarnation of the
  lock (`LocksExclude`), from which `NoRedundantCompile` follows. None of these
  is inductive alone: wholeness of entries needs `TempsAreOwn`, that needs the
  names, and they need the counters.
* `TypeCorrect`, `AnswersAreOwnAlways`, `ServedEntriesAreWholeAlways`,
  `NoRedundantCompileAlways`, `PublishedIsStableAlways` from it.
* `VmfbCacheRefinesService`: the safety refinement of `CompileService`.

Assumptions: `CacheAssumption` (types of the constants), and as hypotheses of
each theorem `KeysSeparate` (requests and builds that differ have different
keys) and `"part" \notin LostWrites` (a file torn by a power loss is shorter
than 16 bytes). Both are exactly what the code does not ensure by itself.
`VmfbSharedRevision` shows what happens when builds break the first, and
"Met while modelling" below what happens when flags do; nothing is fsynced
before the rename for the second.

`LowererProofs` proves for any programs, registries and operations:

* `LowererInvariant`: the inductive invariant `LowererInv`. The three properties
  below are not inductive alone. That a cached value lands in a live scope
  depends on the step that will cache it, `keep_node` or `keep_tuple`, which was
  made when its key was looked up and may have waited for any number of inlined
  calls since. `LowererInv` therefore says of every step waiting at depth `k`
  that its key has the scope at depth `k` (`ScopedSteps`), and that the
  expressions it holds are expressions of the programs.
* `StacksAgreeAlways`, `CallsNeverRecurse`, `CachedScopesAlwaysLive` from it.
  `CallsNeverRecurse` bounds inlining by the size of the registry.

Its assumption is `ProgramsAssumption`: subexpressions of expressions are
expressions, and lists are lists. `LowererInv` was checked by TLC on the
programs of `MCLowerer` before it was proved; it is not in `Lowerer.cfg` as it
takes minutes to evaluate.

It also proves `ScopesAreAlwaysRestored`, whose invariant `ScopesInv`
has a ghost: a list of maps `V`, one for each graph being lowered, of which the
last is `values` and each other one is what `restore_values` makes of the next
with the list of overwritten names at that depth (`Layers`). A binding inside an
inlined graph changes the last map and its list together. That a name bound
twice comes back as it was rests on the order in which `restore_values` goes
through its list; the lemmas about `Bound`, `restore_values` and lists of
overwritten names (`BoundMapIs`, `RestoreIs`, ...) say what they do name by name.

`LowererMeaningProofs` proves `LoweringAlwaysKeepsTheMeaning`: the function that
is returned computes what the graph means, and lowering fails only on a graph
that means nothing. The meaning is the recursive one, the model goes step by
step, and caches, one shared map of names and errors lie between. The argument:

* Every step has an effect of its own on the results and names of its graph, in
  terms of the meaning of its expression (`Effect` in `LowererRunsProofs`), and a
  list of steps runs through them (`Runs`). Replacing a step by the smaller ones
  that the code makes of it leads to the same end (`CallEffect`, `RunsLets`,
  `RunsGraph`, ...).
* `MeaningInv` says that for each graph being lowered there is a frame (the
  graph, its arguments, the path of calls to it) and an environment of its own,
  such that: the steps left lead from its results to what the frame means
  (`Arrives`); `values` agrees with the environment on its names (`Agrees`), the
  outermost graph's being all of `values`; what is cached under its scope is the
  value of the node or tuple in that environment (`Cached`), and no step left
  binds a name that such a node uses (`Calm`, `Undisturbed`). A graph that waits
  for an inlined one is about to have that one's meaning pushed on its results
  (`ConfigAt`); one that has failed means nothing.
* The environment of a graph is only a part of `values`, in which its callers'
  names are still bound, so every name it looks up must be its own: this is
  where `IsScoped` is needed, and why the type checker's refusal of free names
  matters to the lowerer.

Assumptions: `ExprsAssumption` (what `Parts` and `Depth` are: subexpressions, and
a measure that decreases to them) and `GraphsAssumption` (an identifier has one
payload in a graph, names in a shared node are not bound again after it, and
graphs that are called have no free names), which TLC evaluates for `MCLowerer`;
and as hypotheses of the theorem `FailedIsNone` (`Failed` is no list and no map)
and `MeaningRules` (`MeaningOf` and `EnvAfter` obey their equations). The
equations have a solution for any programs: every one of them is strict, so
starting from `Failed` everywhere and applying them again and again gives each
expression its value; where recursion never ends the value stays `Failed`.

`LowererSharingProofs` proves `SharedWorkIsAlwaysEmittedOnce`: the function that
is returned has one operation for each place of the graph that needs one, where
everything below a node or a tuple is at the place of its identifier. So the
caches of `lower_node` and `lower_tuple_get` lose nothing and repeat nothing,
also when a graph is inlined twice and its identifiers are used again, under
another scope. The argument:

* Places are paths, and what an expression needs lies below its own place or at
  nodes and tuples in it (`PlacesAreNear`); two arguments of a call, or two
  bindings of a graph, can only meet at a node or tuple they share.
* A step fits (`StepFits`) when nothing below its place is done, and when every
  node and tuple in it is either kept, and then all it needs is done, or not, and
  then nothing of it is done (`ExprFits`). A list of steps fits when each fits
  after the ones before it (`StepsFit`). Replacing a step by the smaller ones of
  the code keeps that, and the places they lead to (`Expands`).
* `SharingInv` says that each graph being lowered has a record of what of it is
  done: its steps fit after that and lead to all its places, the operations of the
  block are those done in all of these graphs, and a graph that waits for a call
  has done nothing at the place of that call. What the caches hold of a graph is
  read off their keys (`KeysIn`). Leaving an inlined graph turns its places into
  places of the call (`CallPlacesCount`), and forgets the keys of its scope only.

It has the assumptions on the constants of the theorem before, and one more:
`PlainAssumption`, evaluated by TLC (a let that looks through a node is the only
use of that node, and a tuple is no node: `lower_let_values` does not keep the
node it looks through, and would emit it again). Its hypothesis is `PlacesRules`
(`PlacesOf` obeys its equations). The equations have a solution for any programs:
they only join sets, so the least one is reached from no places at all.

`EngineProofs` proves for any engines, artifacts, VMFBs and signatures, and
whatever an invocation returns:

* `EngineInvariant`: the inductive invariant `EngineInv`. A call of the runtime
  is a chain of steps that each rely on what an earlier one found, so the
  invariant says of every step what is known when it begins: from "function" on,
  that the program is of a variant for the engine's driver (`CallStarted`); from
  "read" on, that the returned types are the handle's and that the outputs copied
  so far are the first ones of this invocation (`CallReads`). For the module map
  it says more than that nothing is loaded twice (`EnginesHold`): every module is
  under its own key, which rests on two VMFBs at one address having different
  lengths (`KeysAreOwn`), and a key that is absent belongs to a VMFB not loaded yet.
* `EngineTypeCorrect`, `ModelsAlwaysRunTheirArtifact`, `ModulesAlwaysLoadOnce`,
  `SuccessIsAlwaysWhole`, `RunOnceAlwaysFindsItsVariant` and
  `OutputsAreAlwaysCheckedFirst` from it: every property of the run.

Its assumptions are `EngineAssumption` and `NothingAssumption`: types of the
constants, and that `Nothing` is none of the values that it stands in for.

`BuildScriptProofs` proves for any scripts, items and builds of the compiler,
and any number of edits, upgrades and failures:

* `BuildInvariant`: the inductive invariant `BuildInv`. That a crate is current
  is a statement about a moment at which nothing runs, and says nothing of how it
  came about. The invariant follows one run: what is compiled so far is in
  `OUT_DIR`, and is of now or of an input that has changed since the run started
  and that the run declares (`RunStores`, `Fresh`); the wrappers of the emits
  before this one are complete (`Written`); and after success, unless build.rs
  changed meanwhile, all of `OUT_DIR` is so (`OutDirIsCurrent`). A change then
  either makes Cargo run the script or is of something the artifact does not hold.
* `BuildTypeCorrect`, `CrateIsAlwaysCurrent`, `ModulesAlwaysEmbedTheirOwn` and
  `VariantsAlwaysRecordFlags` from it.
* `OptionsAlwaysRespected`: what the flags of an artifact say of each option is
  what the caller asked for, else Cargo's default, for any list of options.

Its assumption is `BuildAssumption` (types of the constants), and each theorem
has two hypotheses. `TornIsNone`: a file that was cut off is not a whole
artifact. `ScriptsAreClear`: the emits of a script have different output files,
and those that write one VMFB do so for one item, kind, stub flag and list of
flags. The code does not ensure it: `BuildTwoTunings` is a script without it,
and see the last edge case below for another.

`RandomStreamProofs` proves for words, floats, shifts, factors and programs of
any size:

* `StreamInvariant`: the inductive invariant `StreamInv`. The properties speak of
  elements, the actions of operations, so the invariant says of each draw and
  each static tensor what made it: its bounds passed the checks, and its elements
  and the key it returned are what its operation makes of the key it was given
  (`MadeByGraph`, `MadeByBuild`). Keys are only ever appended.
* `TypeOKHolds`, `SamplesLieInRangeHolds`, `StreamsContinueHolds`,
  `NoNumberTwiceHolds` and `HostAgreesWithDeviceHolds` from it: every property of
  the run. They rest on what the operators of the two generators compute:
  * `flattened_linalg_index`, which cuts the index to 64 bits at every axis, is
    the row-major position cut once, and positions are 0 up to the number of
    elements, each taken once (`FlattenedIs`, `PositionsDiffer`,
    `PositionsAreTaken`);
  * `SplitmixInjective`: no two counters have one hash. A word is got back from
    its exclusive or with itself shifted, from the top bit down
    (`ShiftedXorIsInjective`), and from its product with an odd factor, from the
    lowest up (`OddFactor`);
  * rounding to the nearest keeps the order of numbers and leaves floats alone
    (`NearestIs`, `NearestExact`), patterns are in the order of what they stand
    for (`MagnitudesOrdered`), and the pattern that `next_down_float` finds is the
    neighbour below on both sides of zero and at it (`NextDownIs`); so a fraction
    is below one (`UnitIs`), a sum is not below `low` (`SumGrows`), and a clamped
    one is below `high` (`ClampIs`);
  * the build scales its fraction by a product and the graph by a quotient, which
    are one number, since a power of two is a float (`UnitIs`, `LiteralIs`); the
    f64 literal of an f32 bound is rounded back to it (`RoundTrip`);
  * the remainder of a hash by the distance of two integers, which may be more
    than the largest integer, leads back into their range (`IntegerSampleIs`).

Its assumptions are `FormatsAssumption` and `NestAssumption` (formats as IEEE 754
has them: exponents reach past the mantissa, integers are as wide as floats,
every f32 is an f64), `MixAssumption` (shifts are not zero, factors are odd, as
those of splitmix64) and `ProgramsAssumption` (bounds are of the type they are
declared with). TLC evaluates all four, and `StreamInv` was checked on a part of
the run's programs before it was proved. Recursive operators it needs are
recursive functions for this reason, and their equations come from one lemma
(`Recursion`), proved by induction as a fact about sets.

Only model-checked:

* liveness, which is out of reach of the prover;
* `OpProgram` and `GradGraph`. Their properties compare what is computed with a
  reference by recursion over expressions and tensors: evaluators, folds over the
  elements of a tensor, the flattening of calls. `GradGraph` and the modules it is
  made of have them as RECURSIVE operators, which the prover does not take, and
  the rest needs an induction over data for each of dozens of calls.

## Findings

* `VmfbSharedRevision` (`CompilerChangesInvalidate`): the library is loaded, then
  its path is stat'ed. If it is replaced in between by a build that reports the
  same revision and API version, the loaded build's artifact is published under
  the key of the new file, and later served to calls that loaded the new build.
* `BuildTwoTunings` (`VariantsRecordFlags`): a VMFB is named after its graph, so
  emitting a graph twice with different options leaves the first wrapper with
  the second artifact and the first flags.

* `OpsArgmaxOfInfinity` (`ElementsAgree`): `argmax` starts from the smallest
  finite number at index 0, where `max` starts from minus infinity. Of
  `[-inf, f32::MIN]` it answers 0, the position of minus infinity. `argmin` is
  the mirror image.

* `GradGraphNestedCalls` (`RefusedExactlyWhenUnsupported`): a graph applied to a
  result of its own, `f(f(x))`, has no gradient graph. Its name is on the stack
  of graphs being inlined before its arguments are flattened, and the call among
  them is refused as recursive, which it is not; the lowerer accepts it.
  `docs/semantics.md:62-63` and the comment at `autograd/mod.rs:31-32` say that
  registered calls are inlined. Only graphs built directly on `knok-core` have
  such calls. The property is the one that `GradGraph` checks on every other
  program: that run has calls in the arguments of calls of other graphs, and
  this one the nested call alone.

Met while modelling, and kept out of the runs by a stated condition:

* `cache_key` feeds the flags to the hash with nothing between them
  (`compile.rs:286-288`). Lists that differ only in where one flag ends and the
  next begins, `["-a=x", "-b=y"]` and `["-a=x-b=y"]`, have one key, and the second
  is answered with the artifact of the first, where `docs/compiler.md:77-78`
  says that changed options invalidate the cache. With two such requests in
  `Requests`, `KeysSeparate` is false and one call after another violates
  `AnswersAreOwn`. Such a pair needs a flag whose value goes on with the text of
  another flag, which nothing in the repository writes; the requests of the runs
  differ by more.
* `RandomStream` claims the range of a compiled float sample only when
  `high - low` is finite. With an infinite span a hash whose fraction is 0 gives
  infinity times 0, a NaN, where `docs/semantics.md:106` promises `[low, high)`;
  the clamp catches every other sample. A static tensor with such bounds is an
  error in the build, as the literal is spelt `NaN.0`.
* Static and compiled i32 samples of one seed differ: the build takes the
  remainder of the whole hash, the graph cuts it to 32 bits first.
* The type checker accepts a stack of values of rank 0, which the lowering's
  `tensor.expand_shape` cannot express, though `docs/semantics.md:36` says that
  ranks are validated; `Unsupported` of `OpProgram` names it.
* `OptionsAreRespected` sees a flag as its option and its value. The code
  compares text, up to the `=` of `--iree-opt-level=` and of
  `--iree-llvmcpu-target-triple=`; a script that spells one of them otherwise
  (without `=`, or as another option with the same meaning) is outside the model.
* `clip` with low above high gives its gradient to both bounds; the gradients
  of `prod` with a zero and of `std` with no variance divide by zero. Programs
  of `GradGraph` do not ask for them.
* A graph named `f_value_and_grad` and the gradient of a graph `f` write the
  same VMFB (`graph_vmfb_name`, and the name at `autograd/mod.rs:155`), so a
  script that emits both embeds one of them twice. No script of the runs does,
  and `ScriptsAreClear` is false of one that does.

## Not modelled, and why

Token-level parts (the proc macros, identifier checks, Rust type text,
`type_parse.rs`), device enumeration and CI scripts hold no state worth a model.
Host tensors are a vector and a shape fixed by the type: their constructors
compare two lengths, the rest is formatting, conversion and delegation. IREE,
MLIR verification, the import of MLIR models and Cargo are external and appear
only as their interface. In kernels and gradients, rounding, NaN, negative
floats and the accuracy of math functions are left out: the field that replaces
the floats makes sums exact, and only random numbers, where rounding decides
the range, have floats bit by bit. Formatting of literals and of MLIR text is
left out but for what a parser would refuse.

## Plan

1. Done: cache with its theorems; frontend; engine; lowerer with its scope
   invariant proved; type rules and kernels; tracing, type checking and
   autograd in one specification; random numbers.
   The runtime and the frontend have their theorems too, and lowering is proved
   to keep the meaning of a graph and to emit once what is shared. So do random
   numbers: all properties of `RandomStream` are proved.
2. Next, proofs: lemmas about `ShapeRules` (the
   broadcast of two shapes is symmetric and bounded by its arguments), which
   need its folds written as quantified formulas; freshness of gradient names.
3. Then: floats with sign and NaN in `Dialects`, at the price of exact sums, for
   the comparisons and extrema that order them; types in `Lowerer`.
