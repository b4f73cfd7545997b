# A TLA+ model of gpufuck

gpufuck compiles small functional languages to linear-memory WebAssembly. A
frontend lowers its source to Functional Surface; the compiler links modules,
infers types on the CPU or on a WebGPU device, and emits Wasm, which a host
loads, calls and replaces. Around the pure translation stands a good deal of
machinery with state: queues, caches, pools of workers, device buffers, arenas.
That machinery is what these modules model. Paths below are relative to the root
of the repository: `src/functional/compiler_service.ts` here is
`src/src/functional/compiler_service.ts` in `PROJECT.json`.

The program is JavaScript: a piece of code between two awaits runs without
interruption, and everything else interleaves. An action of these modules is
therefore the code between two awaits (or one turn of a worker, or one step of
the device), with everything it changes; what happens between two actions is
whatever the code can meet there.

## 1. Inventory

### Components that keep state

| component | state | operations | hard behaviours | correct when |
|---|---|---|---|---|
| Admission queue `functional/compilation_admission.ts` | a doubly linked list of waiting compilations, count and bytes of the running ones | `admit`, settlement of a compilation, the abort listener, the drain loop | a heavy head blocks light requests; aborts race starts; four places adjust two counters | the device is never overcommitted, no wake-up is lost, nobody is overtaken |
| Dispatch scheduler `semantic/gpu_dispatch_scheduler.ts` | a list with an offset, a flag, microtasks, submissions in flight | `schedule`, two microtasks, `#flush`, `#submit` | a request arrives at any moment, every call of the device may throw, the device answers late or never well | each dispatch is executed at most once, and every promise settles truthfully |
| Compiler service `functional/compiler_service.ts` | three caches of promises; one resident GPU compiler with its device | `compileModule(s)`, `compileBatch`, `destroy` | caches hold promises chained on pending promises; `destroy` races creation | a cached answer is what a fresh compilation would give; an owned device is released once |
| Literal updates, rebinding, fingerprints `functional/incremental_module.ts`, `compiled_module_rebinding.ts`, `semantic_fingerprint.ts` | lineage of an updated module | register an update, apply it, rebind positions | the base of an update is itself an update, or was compiled for other positions | as above |
| Project compiler `functional/project_compiler.ts` | an LRU cache of units, and per call the interfaces so far | `compile`, `clear` | calls interleave over one cache at every await; an edit far down the imports changes interfaces on the way up; two paths with different orders | the program linked is made of the call's own sources |
| GPU compiler `functional/compiler.ts` | buffers of modules on the device | `compileBatch`, `compileBatchForLinking`, destroy | four ways through a batch, in other orders than the batch; failure half way | answers at their index, no buffer without an owner |
| Inference runner `semantic/gpu_type_inference_*.ts` and its kernels | arenas on the device, counters on both sides | dispatch, read back, grow, settle | an arena ends in the middle of a dispatch and moves; fuel and dispatches end anywhere | the answer does not depend on any of it; everything is destroyed |
| Parallel compiler `functional/parallel_compiler_service.ts` and its worker | one flag, one handler per worker | three batch calls, `terminate` | messages carry no identity; one part fails while the others run | every result is that of its own module |
| Wasm memory `functional/wasm_runtime_binary.ts`, `wasm_arena.ts`, `wasm_value_codec.ts` | heap top, free list, arenas, groups of blocks | allocate, free, arenas, scratch marks, encode, release | arenas are reset while values of before and after are alive; memory runs out half way | blocks never overlap, nothing is lost, no guard fires |
| Type inference `semantic/type_inference.ts` and `type_inference_shader.ts` | type variables and rigid parameters with what they are bound to, levels, an application cache, ghosts of unchecked bindings | infer a module, on the host or in the frames of the shader | refinements of a case arm are undone, generalisation in place, lazily copied instances, two implementations | accepted programs do not go wrong; both accept the same ones |
| Graph evaluator `semantic/evaluator_shader.ts`, `evaluator.ts` | heap of thunks and environments, stack of frames, control word, counters; the host's limits and snapshots | one transition per mode and frame, a dispatch, a snapshot | any limit ends it anywhere; thunks are shared, overwritten and recursive; input is decoded on demand | the answer is the program's, no work is done twice |
| Wasm backend `functional/wasm_codegen.ts` and its analyses | none of its own: analyses of the Core, environments of the emitter; then the heap, globals and closures of the module | emit a program in one of three forms; call its entry, encode an argument, decode the answer | a dozen optimisations that know something of a value (function, constructor, constant, demand, uniqueness) meet in one expression | the emitted module answers as the program means |
| Reload slot `functional/component_reload.ts` | the active version, calls in each version | `call`, `replace` | health checks await; calls nest in calls and in replacements | a version is disposed after its last call, exactly then |

How they interact: `FunctionalCompilerService` sends a compilation to the CPU
caches or to the resident `GpuCompiler`; that checks certificates, asks the
admission queue of its device for room, and hands the rest to the semantic
compiler, each of whose modules is a run of the inference runner; all runs of a
device share its dispatch scheduler. `FunctionalProjectCompiler` calls a batch
compiler wave by wave and links what it caches. `ParallelFunctionalCompilerService`
runs CPU compilers in workers. The Wasm that comes out brings its allocator along;
a host opens arenas over it and swaps components through a reload slot.

### Components that are pure, or not modelled yet

`PROJECT.json` lists them all with the reason. In short:

* **lowering to Core and the order of definitions** are pure, and modelled as
  the functions that connect inference and evaluation;
* **the rounds of the packed GPU batch (`semantic/gpu_batch_compiler.ts`), the
  definition wavefronts, the Gleam frontend service and the Gleam worker pools**
  keep state or run in rounds, and are next (the envelope of a batch, in
  `functional/compiler.ts`, is modelled);
* **certificates, the schema tables of the shader, and what a frontend may write
  beyond the core language** (recursive groups, defaults of a case, records) are
  pure too, and modelled as steps on the way of a program;
* **module and Core linking and effects** are algorithms that can be checked
  against a reference on bounded inputs;
* **the parsers and lowerings of Gleam, Lazuli and Sweep, and the Canonical ABI
  layout** translate unbounded programs without state of their own;
* **tracing, diagnostics, command lines, benchmarks, generated parsers, the
  playground and the examples** decide nothing in the compiler.

## 2. The modules

Names of actions and operators follow the source; `PROJECT.json` gives the
lines behind each. An operator called `Mutant...` is a plausible mistake in the
definition under it, for checking that a property can fail; no specification
uses one.

**`CompilationAdmission`** is the queue as a sequence. `AdmitNow`/`AdmitLater`
are the two ways through `admit`, `CancelWhileQueued` the abort listener,
`SettleCompilation` the continuation of a compilation; the last two end in
`StartQueuedCompilations`, the drain loop, which is part of the same handler.
`Abort` is separate from `CancelWhileQueued` because a listener added after the
abort never runs. **`AdmissionList`** EXTENDS it and carries the doubly linked
list of the code beside the sequence, relinked field by field; the next `queue`
is the walk along the links (a recursive function, so that it can be proved
about). `ImplementsAdmission` is the abstract
specification, as a property of the detailed one.

**`GpuDispatchScheduler`**: `Schedule`, `OuterMicrotask` (which queues the inner
one), `Flush` (take a batch, drop aborted lanes, encode, submit, or throw from
any of these), `ScopeAnswers` (the error scope answers clean, with an error, or
rejects). `executed` is history: what reached the device.

**`CompilerService`** composes **`CompilerCaches`**, **`ResidentGpu`** and
**`GpuBatchCompile`**. The first two share nothing but `destroyed`. Each call
chooses its backend, from those that the calls of the service name (`Backends`):
the run takes services whose calls agree, since the halves meet in `destroyed`
only, and the theorems cover any mixture. The batch of a GPU call has the name of the call and
runs while the call is `"compiling"` (`CompilerArrives`, `BatchGoesOn`,
`BatchEnds`). `DestroyEnds` takes an owned device with every buffer on it; a
batch it overtakes makes no more buffers, and fails or returns what it has.
In `CompilerCaches` a promise is a job; `CompileCpuModule` is the three-level
lookup, `Settle` the end of a job and `Publish` its callbacks, a microtask
later. A module is its shape, its literals and its positions, and the result of
a job is the module it really was compiled from. In `ResidentGpu` every await of
the compiler's promise is a step: it is awaited twice on the way to a
compilation and once by `destroy`.

**`ProjectCompiler`**: one action per loop iteration with an await, on the path
without declared interfaces and on the one with them. A unit is what it is
built from: its source, the interfaces of its direct imports, and the type
declarations of everything it depends on (`Closure`). That is what
`buildProjectUnit` encodes: it hands the interfaces of the whole closure to
`linkModules`, which keeps an interface module's values for the modules that
import it and, of all the others, the types only, since the bodies of an
interface are never reached (`module_linker.ts:323-700`, `745-800`). What a unit
exports is declared, or inferred from the unit: `Exports` and `Fault` are
arbitrary functions of it, so that an edit at the end of a chain of imports may
change the interface of every module on the way, or stop at any of them. Every
module of the closure must have an interface when a unit is built, although only
direct imports make it ready; where they differ the call ends `"unscheduled"`
(section 4). `Cancel` is the signal before a wave. Faults (a refused module, a
type error, diagnostics of the batch, effects that contradict the declaration, a
batch that throws, a copy that cannot be read) are constants of the instance or
choices of the step.

**`GpuBatchCompile`**: `CheckEnvelopes` sorts the modules of a batch into
refused, candidates for a certificate, and the rest, or throws for a malformed
module; then `ChecksReturn`,
`RestoreOne`, admission, `SemanticCompilerReturns`, `ResumeBatch` (which looks at
the signal again) and `PublishOne`. An abort rejects a batch at once only while
it waits for admission; everywhere else it is noticed at the next look at the
signal. `live` is the set of buffers on the device.
It is checked by itself with batches of two for the device and for linking, and
in the service with batches of one.

**`InferenceRun`**: the runner on the host, the state buffer, and the contents
of the workspace and output buffers word by word. The program is `Trace`, what
each transition asks of the four arenas; `Reference` is what an uninterrupted
run computes. The semantic pass, the head of `infer_lane`, transitions, growth
(a new buffer, copies of live regions to new bases, the failed transition again)
and every creation that may fail are actions. A transition tests all it needs
before it writes, as the shader's do (`require_type_slots` and the like come
first). The exit with diagnostics, which reads them through one more buffer, and
the throw for invalid input settle and clean up like a completed run and are not
told apart from it.

**`ParallelCompiler`**: `StartBatch` cuts a batch (`sizeBalancedBatches`) and posts
the parts; `CoreIsRead` posts the part of a batch of compiled modules when its
Core has been read, which may be after the batch was rejected; `Receive`,
`Answer`, `Break` are turns of a worker; `Deliver` runs the handler that is set
on the worker when its message arrives, whoever set it; `FinishBatch` and
`FailBatch` are the two ends of `Promise.all`.

**`WasmHeap`**: addresses are bytes and the headers of blocks are kept; whoever
receives a block may overwrite all the rest. `Encode` and `Release` are the
calls of the value codec (all blocks of a value or none), `Begin`/`Reset` the
arenas, `EnterTask`/`LeaveTask` the two ends of `withWasmArena`, whose body may
await, `MarkScratch`/`ResetScratch` the nested marks. A free list is the walk
along the links (`Chain`, `Follow`), and `Taken` writes the headers that the
unlinking writes. Its specification is `HeapSpec`, its type invariant
`HeapTypeOK`: proofs about it stand next to those about the reload slot.

**`ComponentReload`**: `Call`, `Return`, `Check` (compare the interface, start
the health check), `Swap` (replace, retire, perhaps dispose), `Disposed`. The
application's code is external: it may call and replace through the slot and
wait for that (`parent`).

**`SurfaceSyntax`** gives expressions, patterns, declarations and types a form;
**`DefinitionGraph`** the components of the definitions that refer to each other,
in the order both inferencers work in. **`TypeInference`** is the inferencer of
the host, function by function: a store of variables and rigid parameters is
passed through `Unify`, `Generalize`, `Instantiate`, `Infer` and
`InferComponent`; what `prune` compresses on its way through a refinement is
kept, as in the code, and noted in `shortened`. **`GpuTypeInference`** is the
same for the shader: levels, lazy instances, the application cache, and the
bindings it does not check, whose variables are `ghosts`. **`CoreLowering`**
resolves names to depths and indices, with its diagnostics in order.

**`GraphEvaluator`** is the machine of the evaluation shader: `control` is the
mode and its operands, `stack` the frames, `heap` the slots, and each action is
one transition (`EvaluateLet`, `EnterUnevaluated`, `ReturnUpdate`,
`MatchCaseArm`, `ContinueReification`, ...). Every push and allocation may
exceed its limit. The host is `Evaluate`, `Dispatch` and `ReadSnapshot`, which
rejects counters that contradict each other. **`CallByName`** is what a program
means: substitution-free evaluation by name, with nothing shared and nothing
updated. **`SurfaceElaboration`** is what a frontend may write beyond this
language and how the builder turns it into it: defaults are expanded into the
missing arms, recursive groups are lifted to the top level, applications are cut
to the arity of what they call, records become constructors with evidence.
**`TypedCertificate`** collects the equations between the terms of a Core whose
definitions are all annotated, solves them as the host does, and checks the
solution term by term as the device does. **`InferenceAbi`** is what the host
uploads for the shader (schemas as records that refer to each other, tables of
their roots, the Core) and how the shader decides that this is in order.
**`SemanticPipeline`** composes them: a program is lowered, evaluated
and answered, and the properties ask the inferencers and `CallByName` about the
answer.

**`WasmAnalyses`** is what is found out of a Core before code is emitted for it:
its lowering to functions of one parameter, free and demanded locals, the shape
of every function (strict and numeric parameters, loops, folds), join points,
definitions that are only called with all arguments, constructors whose memory
may be reused, and the solver of lambda sets with its queue and its order.
**`WasmCodegen`** is the emitter together with what its code does: an operator
stands for a function of the emitter (`ApplyExpression` for `compileApply`,
`InTailPosition` for `compileTailPosition`, ...), takes the environment of
bindings that the emitter keeps, and returns the machine `m` (heap, static
memory, last value, running function) after the code it emits. So every decision
of the emitter is there, and code that is emitted and never reached is not. A
binding that is a local of one Wasm function carries the frame it is valid in;
using it in another one, reading an object as one of another kind, or asking for
a local that has no place stops the machine as `corrupt` or `compiler-error`.
**`WasmPipeline`** adds the host's side of a call (which entries are valid,
arguments, results) and the three artifacts: with the runtime, compact without
one, and a direct export of integers. `ghosts` notes where one of four known
mistakes of the code is met (section 4); `WasmAnswersAreTheReference` holds
everywhere else.

**`Selections`** holds the loops that keep or drop members of an array, as a
recursive function, with what they compute proved. `MC...` modules give the
constants of the runs; `..._proofs` modules hold the theorems.

## 3. The runs

| run | instance | checks |
|---|---|---|
| `admission` | 4 requests of weights 1, 2 and 4 (alone), budget 3, 2 slots, 1 shared signal | `WithinBudget`, `HeadCannotStart` (no idle room), `NoOvertaking`, `ImplementsAdmission`, `EveryWaiterLeaves` |
| `dispatch` | 3 requests, batches of 2, 1 signal, every fault of the device | `ResolvedWasExecuted`, `AbortStopsItsLanes`, `EveryRequestSettles` |
| `service` | 6 modules (a base, two chained edits, a moved copy, an ill-typed pair), cache of 2, 3 promises; 2 GPU calls with a batch of 1 module each, 1 `destroy` | `CachesAreTransparent`, `RejectionIsForgotten`, `DeviceIsThere`, `OwnedDeviceIsReleased`, `EveryCallReturns` |
| `project` | 4 modules (`app` imports `mid` and `util`, `mid` imports `lib`), 2 calls with different sources of `lib`, cache of 2, 13 projects | `LinkedIsUpToDate`, `ReturnReleases`, `EveryCompileEnds` |
| `gpu_batch` | 2 batches of 2 modules, one for linking | `AnswersInPlace`, `RejectedCompilationsAreDestroyed`, `EveryBatchSettles` |
| `inference_run` | 8 transitions, 216 mixtures of fuel, dispatch length, capacities and limits | `ComputesTheReference`, `EverythingIsDestroyed`, `EveryRunSettles` |
| `parallel` | 3 workers; overlapping calls of 3 modes with termination, all batches of 4 modules of weights 1–3, a batch with faults | `ResultsAreOwn`, `EveryBatchSettles` |
| `wasm_heap` | 7 words of heap in 4 pages, 3 shapes of values, 2 tasks, 1 scratch mark | `BlocksAreDisjoint`, `GuardsNeverFire`, `NothingLeaks` |
| `reload` | 2 calls, 3 replacements (one of another interface, one without dispose) | `NoCallOnDisposed`, `DrainedIsDisposed`, `OneLiveVersion`, `InterfaceIsKept`, `EveryReplacementSettles` |
| `semantics` | 195 programs, 34 of them as a frontend writes them, evaluated with 12 budgets, emitted in 3 forms with and without inlining | `WorkIsShared`, `SnapshotsAreAccepted`, `AnswersAreTheReference`, `WellTypedProgramsDoNotGoWrong`, `HostAndGpuAgree`, `CertificatesAreSound`, `WasmAnswersAreTheReference`, `EveryEvaluationEnds` |

All of these pass. Deadlock is not checked: in each instance the calls that are
made come to an end, and then nothing happens.

### Why the bounds are enough

* `admission`: a head that cannot start, a lighter request behind it, a removal
  from the middle, and a fourth that queues meanwhile need four requests; weights
  below the minimum, fitting with another, and over the budget are all classes
  the arithmetic tells apart. The proofs cover every other size.
* `dispatch`: three requests over batches of two give a full batch, a rest, and
  a flush that is scheduled while another is in flight.
* `service`: a base, an edit of it and an edit of the edit are the chain that
  literal updates compose over; a cache of two evicts while three promises are
  pending. `MaxJobs` bounds the promises made. Two calls on the GPU are one that
  makes the compiler and one that joins it, or one on each side of `destroy`; a
  batch of one meets every stage, and the order within a batch is `gpu_batch`'s.
* `project`: `lib`, `mid`, `app` is a chain. Version 2 of `lib` edits its values,
  and the inferred interface of `mid` changes with it, so that `app` must be
  compiled again although neither its source nor that of `mid` changed; version 3
  edits only types, which reach `app` past an unchanged interface of `mid`. The
  13 projects declare no module, the first, the last ones, or those in between
  (`{"mid", "util"}` is the project whose schedule fails), with a fault of each
  kind. Two modules of a wave and a cache of two evict each other, and so do
  two calls.
* `inference_run`: the trace exhausts each arena at least once from the smallest
  capacities; fuel of one less than is needed, exactly enough and more; dispatches
  that end at every transition.
* `parallel`: three parts of up to four modules give ties, empty workers and
  parts of two; the threshold of sixteen is two, which only moves where the host
  compiles by itself.
* `wasm_heap`: blocks of 16, 24 and 32 bytes are the three outcomes of a fit
  (exact, too little left to split, split); four pages run out in the middle of
  a value of two blocks. `TaskSymmetry` permutes tasks, which differ in nothing.
* `reload`: two calls nest in one another or in a replacement; three
  replacements overlap pairwise with every outcome of the check.

* `semantics`: every expression, limit, diagnostic and frame of the machine is
  met by some program, and so is every way in which the emitter treats a call, a
  let, a case and a tail position (loops, folds, join points, workers with and
  without captures, inlined, fused and known functions, reused constructors).
  The emitter looks for known functions 6 deep instead of 64 (`StaticDepth`) and
  a result has at most 40 nodes (`MaximumResultNodes`), both more than a program
  of the run asks for; `WasmFuel` bounds the depth of the code and the rounds of
  a loop, and a program that ends comes nowhere near it. Integers have 8 bits.

### Fairness

Liveness is checked under weak fairness of what the platform does run: a queued
microtask, the continuation of a settled promise, a message that was posted, a
submitted dispatch, and, where the property needs it, that an operation of the
application or of the device comes to an end. Nothing is assumed of calls that
start something, of aborts, of `destroy`, `clear` or `terminate`, or of the way
something ends. A batch on a destroyed device is given no answer but may
always fail, so that it ends is fair there too (`BatchGoesOn`). A lost device answers its scopes by rejecting them
(`GpuDispatchScheduler`), so an answer is a fair assumption there. In
`ParallelCompiler` the answer of a worker is not fair after `terminate`, which is
why `EveryBatchSettles` excepts it: such a batch never settles. In
`SemanticPipeline` only the loop of the shader and the loop of the host are fair
(`WF(Machine \/ Host)`): nothing stops them while the device answers.

## 4. Disagreements

Two runs are expected to find a violation; the counterexamples are short.

* `parallel_stale` — `emitWasmBatch` rejects as soon as one Core cannot be read
  and clears `#active` while a request of another part is out. The next batch is
  accepted and takes the late answer for its own: its module gets the Wasm of
  another batch, against "preserves Core order and contents".
* `typing_scoped` — `prune` in `semantic/type_inference.ts` compresses the links
  of a variable through the refinement of a rigid parameter. When the arm ends
  the refinement is undone and the link is not: the host accepts
  `f : Tag a -> a -> Int` whose body returns its second argument, and
  `f TagBool True` is a Bool at type Int, against "Those equalities are scoped
  to the matching `case` arm" (`ARCHITECTURE.md`). The shader has the guard.

Known from modelling, with no run of their own; the properties of `semantics`
name the condition under which they do not apply (`shortened`, `ghosts`,
`Mismatched`, `QuantifiedAnnotations`):

* The shader's application cache is keyed by the last argument only
  (`type_inference_shader.ts:3943-3997`, `4043-4100`), so `f x 1` may take the
  result type of `f y 1`.
* A nullary constructor is materialised when it is generalised: bound by `let`
  it is monomorphic on the device and polymorphic on the host.
* A binding the shader leaves unchecked is not always checked later (comments
  near `type_inference_shader.ts:2060` and `2085`; `main = Just main`).
* Skolems of a rank-N annotation may escape on the device
  (`ARCHITECTURE.md:131-132`).
* A function or a call without parameters is inferred with `Unit`, which the
  evaluator does not apply: it reports a type error. The shader moreover adds an
  environment entry for it that lowering does not count (`3655-3670`).
* A pattern that binds a name twice is inferred for the last field on the host,
  for the first on the device and in Core.
* A case with at most one alternative reports `BAD_MODULE` where others report
  `NON_EXHAUSTIVE_CASE` (`evaluator_shader.ts:2356`).
* A lambda without parameters gets a parameter of type Unit in the environment
  of a certificate (`gpu_monomorphic_checker.ts:265-283`), which lowering does
  not count (`symbol_lookup.ts:396`): the certificate of
  `main : Bool -> Int -> Int = \b n. (\(). b)()` is confirmed, and inference
  rejects the module with F2102. Nor does a certificate check the declarations
  or how many arguments a named type has.
* A recursive binding of something that is no function is accepted by the host's
  inference and by certificates, refused by the shader's, by `compiler_shader.ts`
  and by the Wasm compiler, and `BAD_MODULE` for the evaluator
  (`evaluator_shader.ts:907`).
* `rewriteNames` (`recursive_groups.ts:256-397`) rewrites a name that is bound
  again inside the group; an application takes the arity of a global for a local
  of that name (`surface_builder.ts:1372`), so `f()()` becomes one call; and
  `force` in a module that never names `$Thunk` is refused.
* `project_compiler.ts:353`: the list of cache hits is made before a loop that
  awaits; an eviction or `clear()` in between stores `undefined` under the key,
  and that call throws a TypeError.
* `project_compiler.ts:238-240`: a module is ready when its direct imports have
  interfaces, and building it needs those of all it depends on. If `M`
  (undeclared) imports `D` (declared) and `D` imports `X` (undeclared), `M` is
  taken in the wave of `X` and `compile` throws "has no interface for dependency"
  (`806-811`), for a valid acyclic project. `EveryCompileEnds` says that a call
  ends so for no other kind of project.
* `compiler.ts:535`: modules restored from a certificate are held by a local
  array only; when admission is cancelled or a later step throws, their buffers
  are never destroyed, against "released on success, failure, and cancellation".
* Lambda sets: a function that reaches a variable after it became incomplete is
  not recorded (`wasm_lambda_sets.ts:496`), so the calls of that variable are
  not connected to it, and the set of one of its parameters may look complete
  without the function that arrives there: it is called as another one (ghost
  `astray`, one program of the run gives 22 instead of 20).
* A worker without captures is called without evaluating the expression of the
  callee, which may fault or not end (`wasm_codegen.ts:4250`, ghost `skipped`).
* A direct export looks for memory accesses in the body of its worker only, not
  in what that calls: `k = 5; g y = y + k; export f x = g x` reads the slot of
  `k` before it is initialised (`wasm_codegen.ts:1793`, ghost `uninitialised`).
  When a parameter is not strict the export is an invalid module (status
  `invalid`). Direct exports are moreover compiled before the slots of globals
  are reserved; the workers they cache force nothing.
* `j (j 1)` in a tail position asks for the value of a join point, and the
  emitter throws, against "Unreachable by construction"
  (`wasm_codegen.ts:8145`, ghost `escaped`).
* Read, not modelled: the memory of a constructor may be reused although an
  operand of a Store write still refers to it, and a closure applied to no
  argument counts its captures one off.
* A GPU compilation that `destroy()` overtakes may resolve with modules whose
  buffers went with the owned device (`compiler_service.ts:120-131`).
* Read, not modelled: in a packed batch a lane whose inference is exhausted is
  counted as finished without a result (`gpu_batch_compiler.ts:492-495`); when
  another lane needs one more round it is visited again with no progress and the
  whole batch throws "invalid progress" (`405-418`), against
  `ARCHITECTURE.md:138`. The check of a lane's read-back (`643-658`) leaves out
  the Core nodes that `allocateBatchBuffers` adds (`856-862`).
* A wave of more modules than the unit cache holds evicts its first modules
  before they are looked up, and `compile` throws "functional project compiler
  omitted cached module"; and when one unit of a batch is found to misdeclare its
  effects, the compiled modules after it are not destroyed. `ReturnReleases` is
  stated for calls that return.

## 5. What is proved

TLAPS checks the theorems that `PROJECT.json` lists, for all values of the
constants that satisfy the named assumptions of the modules. TLC evaluates each
assumption on the instance of a run. They say of the constants what the code
guarantees before the modelled part starts:

| assumption | says |
|---|---|
| `AdmissionAssumption`, `ListAssumption` | finitely many requests, named by numbers; estimates are natural, at least one slot |
| `SchedulerAssumption` | finitely many requests, a batch takes at least one |
| `CacheAssumption` | an update is registered for a module of the same shape and positions with other literals; the cache holds at least one |
| `BatchAssumption`, `ServiceAssumption` | a batch has modules; the batch of a call has its name and goes to the device; a call names one of the two backends |
| `ProjectAssumption` | imports are acyclic; what a module declares or inference finds is an interface, "not there yet" is none; the cache holds at least one |
| `InferenceAssumption`, `TraceAssumption` | limits are natural; a program reads only what it has written |
| `ParallelAssumption` | at least one worker, a threshold of at least one; only Core of compiled modules can be gone |
| `ReloadAssumption` | finitely many calls, disjoint names |
| `HeapAssumption` | the heap starts aligned, behind address 0 and within the memory; pages are whole words; an encoding asks for at least one block |

**`CompilationAdmission_proofs`**. `WithinBudget` alone is not inductive: the
budget is kept by two counters, so the counters must be what is in flight
(`CountersMatchInFlight`), and that no wake-up is lost depends on the list being
exactly the requests that wait, each once (`QueueHoldsTheWaiting`). `IInv` is
these with `TypeOK` and `HeadCannotStart`. Its heart is
`StartQueuedKeepsIInv`: draining from any point where the counters are right
keeps the budget and stops only at a head that cannot start. Sums are over
finite sets of requests with the library's facts on cardinality. From `IInv`:
`TypeCorrect`, `BudgetRespected`, `QueueSound`, `NoIdleRoom`, and the action
properties `AbortedNeverStarts` and `FirstInFirstOut`.

The second half proves that the linked list of the code implements this queue
(`ListImplementsAdmission`: initial states map to initial states, every step to
a step). The invariant `LInv` adds `IsList(list, queue)`: head, tail and the
links in both directions are those of the sequence. `EnqueueAppends` and
`RemoveTakesOut` say so of the two operations on the links, field by field;
`WalkIsTheSequence` that the walk along the links is then the sequence;
`OneTurn` and `LoopDrains` that one turn of the drain loop, and by induction all
of them, do what the abstract handler does at once. So the promises of the queue
are those of the list (`ListKeepsThePromises`).

**`GpuDispatchScheduler_proofs`**. That a resolved request was executed, and that
an abort takes its own lanes out of the flush to come and out of the answers,
and nobody else's, needs that a request is in exactly one place: not asked,
in the pending part of the list, in one batch in flight, or settled, with the
executed lanes those of the batches that reached the device. The filter loops
of `#flush` are `Selected`, whose properties (`SelectedProperties`) are proved
in `Selections`. `SchedulerInvariant`, `SuccessIsReal`, `AbortedLanesStay`.

**`CompilerService_proofs`**. One invariant, `ServiceInv`, for the composition,
of four parts: who owns the device and who still waits for it; which promise
each level of the caches holds and what it will settle to (the heart of
`CachesAreAlwaysTransparent`: a promise is a compilation of a module that has
the fingerprint it is stored under, also when it was chained on one that is
pending); for each batch, that exactly the modules still in its lists lack an
answer, that the lists repeat nothing, and that every buffer is that of a
published module or of one about to be; and that there are buffers only on a
device whose compiler was built. `AnswersAreInPlace`, `RejectedBatchesRelease`
and `DeviceIsAlwaysThere` follow; `BatchesKeepTheirPromises` is the same for the
GPU compiler without the service, whose batches may be for linking.

**`ProjectCompiler_proofs`**. `LinkedIsUpToDate` needs that a cached unit is what
its key names, for all calls that share the cache, and that what a call holds
was compiled for the interfaces it has collected; `ReturnReleases` that every
module the batch compiler handed out is on the list that the destroying loop of
its call walks. A linked unit was built from the interfaces that its call had
then (`Linking`), and an interface is the declared one or that of the linked unit
(`Interfacing`). Both stay true because an interface never changes once it is
set and a unit is built only when all it depends on has one (`Buildable`); so at
the end each unit stands against what its own imports export, however far down
an edit was. This needs no rank of the modules: `Exports` is any function of a
unit. The order matters in `ScheduleAdvances`: a call ends for want of a
schedule only in a project in which a module outruns what it imports through a
declared one. `ProjectInvariant`, `LinkedProgramIsUpToDate`,
`ReturningReleases`, `ScheduleAdvances`.

The same module proves `ResultsAreOwn` of `ParallelCompiler`, for any batches,
any number of workers and any interleaving with `terminate`, while the service
is `Quiet`: no module fails, or one batch alone is made. The restriction is the
edge of the truth, `parallel_stale` shows what happens beyond it. Messages carry
no identity, so `PoolInv` says where the one request of a worker can be
(`Traffic`: in its inbox, at work, answered or broken, and always that of the
call that set the handlers), and why there is none when a batch starts
(`AllSilent`): a part that is open belongs to a call that still runs. That the
batch is whole is `CutCovers`: the greedy loop of `sizeBalancedBatches` puts
every module into one of its parts, by induction over its turns. That `#active`
is set exactly while a batch runs needs no such restriction (`PoolIsTyped`).

**`InferenceRun_proofs`**. For every program, all limits and every point at which
a dispatch may end: what the device has computed when it says it has finished is
what an uninterrupted run computes (`TheReferenceIsComputed`), and when the run
settles every buffer is destroyed (`BuffersAreDestroyed`). The first is far from
inductive: the scratch arena has no top, a grown workspace is a copy at other
bases, and the counters of both sides decide what happens next. The invariant
has one conjunct each for the words of the arenas (they hold `Reference[n]` at
the transition reached), the counters of host and device in each status, the
buffers that exist at each place of the host, and the result. `MovedHolds` and
`GrowthHolds` are the copies; `OneTransition` one step of the device;
`Settling` the ways out.

**`HostRuntime_proofs`** has two parts, the reload slot and the linear memory.

The slot counts calls per version, and disposal depends on the count: `IInv`
says that the counter of each version is the number of operations that run in it
(`CallsCounted`), that a version without `dispose` is retired and drained and the
converse, that candidates are fresh until they are swapped in, and that a
candidate that passed the check has the interface of the active version. From
it: `SlotTypeCorrect`, `NeverDisposedInUse`, `NeverForgotten`,
`SingleLiveVersion`, `InterfaceKept`.

The memory: for every size of memory and of its pages, any set of encodings of
any number of blocks, any number of tasks and any nesting of arenas, blocks in
use and free never overlap (`HeapBlocksAreDisjoint`), the guards of `allocate`
and `free` never fire (`HeapGuardsNeverFire`), and nothing is lost
(`HeapNothingLeaks`). Lists exist in memory only as links, so `HeapInv` says that
there are lists `L`, one for each open arena (what it set aside) and the current
one, with which the memory is `Well`:

* the links from each head are its list (`IsChain`), no block is on two lists,
  and no block of a value is on any (`SavedAre`, `ValuesAre`, `Mem`);
* all these blocks are aligned, long enough for a header and apart from each
  other (`Spread`). The header of a block of a value says that it is in use and
  how long it is, so that `free` will accept it (`Holds`);
* no block lies across the mark of an arena, and what an arena set aside lies
  below its mark (`MarksAre`). Without this a reset would cut a block in two, or
  lose the links of the list that it restores;
* until something older than an arena is released inside it (`crossed`), the
  blocks fill the heap, the current list has blocks above the innermost mark
  only, and a value is wholly above or wholly below each mark (`IsWhole`). This
  is why a reset, which forgets whole values and the current list, forgets
  nothing below the mark.

The proof goes up with the code. `AllocateIsRight`: the first fit, taken whole or
split, or the top, gives one new block and otherwise keeps what there is
(`Grown`). `AllocateAllIsRight` and `FreeAllIsRight` carry that through the loops
of the codec, so that an encoding has all its blocks or, when memory runs out,
leaves none behind (`EncodeIsRight`). `WellGrows`, `WellFrees`, `WellOpens` and
`WellResets` lift this to values and arenas, one for each kind of step. That the
walk along the links returns the list is `ChainIs`: the walk of `allocate` has as
many turns as there are addresses, and a list without repetition is not longer.

**`GraphEvaluator_proofs`**. For every module whose indices are in range
(`WellFormed`, which is what lowering produces), every input and all limits: the
host never meets a snapshot whose counters contradict each other or a dispatch
without progress (`HostAcceptsEverySnapshot`), and a thunk that is being
evaluated has exactly one frame that will update it, while no other thunk has
one (`WorkIsNeverDoneTwice`). Neither is inductive: an update frame is found by
the thunk it names, so every index in control, stack and heap must be valid and
of the right kind, and the counters must stand below their limits in every mode.
`IInv` is these facts; one lemma per transition shows that it is kept, over the
lemmas on `Push`, `Pop` and `Allocate`.

Loops of the code are recursive functions on the natural numbers. The library's
induction theorems take an operator as a parameter, which the provers cannot
instantiate; `InductionOnSet` (a set of numbers with 0 and the successor of each
member has all, from well-foundedness) takes a set instead, and every induction
here is an application of it.

Only model-checked: liveness under fairness, which is outside the prover; and
everything about inference, certificates, the answers of the evaluator and the
Wasm backend, whose references are recursive operators over programs. Every
other property that a passing run checks is stated by a theorem.

## 6. Plan

Done, in this order: the admission queue and its proof; the dispatch scheduler;
the compiler service; the project compiler; the GPU batch envelope; the
inference run; the reload slot and its proof; the Wasm heap; the parallel
compiler; inference on host and device; lowering, the graph evaluator and its
proof, and their composition; the Wasm backend; certificates, the tables of the
shader and the surface builder; the proofs of the scheduler, the service with
its batches, the project compiler, the parallel compiler, the inference run, the
linked list and the Wasm heap.

Next modules:

1. `GleamFrontendService`: parsed, lowered and linked caches with literal
   lineages, implementing a frontend without caches.
2. `GleamWorkers`: the pools and the three phases of a project, with overlapping
   calls, next to `ParallelCompiler`.
3. `GpuSemanticBatch`: rounds of `gpu_batch_compiler.ts` and the fallback to
   single modules, composed with `InferenceRun` as the run of one lane.
4. `ModuleGraph`: components and waves (`definition_wavefront.ts`,
   `dependencySchedule`, `recursive_groups.ts`), effects as a least fixed point,
   and linking order, as functions checked over all small graphs.

No safety property of a run is left to prove but those over programs. A theorem
about these would need induction over expressions, which the provers lack.

### Not modelled

The parsers and lowerings of Gleam, Lazuli and Sweep, the Canonical ABI layout and the examples (a whole JavaScript frontend and the Blot
playground among them) are pure translations of unbounded programs between
languages of their own; a faithful model would be the program again. Tracing,
diagnostics, tools and generated parsers decide nothing. Of the Wasm backend,
Store, text, bytes, arrays, resources, SIMD, host operations and exports of
several parameters are left out: the programs of the run are functional ones
over integers, Booleans and data. The other components
that `PROJECT.json` calls not modelled are in the plan above.
