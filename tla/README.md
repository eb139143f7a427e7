# Verification of PolyJIT

PolyJIT extends LLVM and Polly with run-time specialization. At compile time it
finds the regions of a program that a polyhedral optimizer could handle if it
knew their parameters, extracts each region into a function, stores the
function's IR as a *prototype* string in the program and replaces its body by a
call of the runtime. At run time the runtime reads the arguments of a call,
specializes the prototype for them in a background thread and runs the result as
soon as it is there; until then the program runs the original code. A second
set of passes and a library measure how much time is spent in such regions.

This directory holds TLA+ models of the program, TLC configurations and TLAPS
proofs. All source positions are relative to `src/`.

## Inventory

| Component | State | Operations | Interaction | Correct when |
|---|---|---|---|---|
| **PolyJIT runtime** `lib/pjit/libpjit.cpp` | request queue `Work`, flags `ShouldStart` and `ShuttingDown`, two `BlockingMap`s (`IRFunctionCache`, `CompileCache`) | `pjit_main`, `addRequest`, `BlockingMap::{count,insert,blocking_at,operator[]}`, the generator thread, `~PolyJIT` | called by instrumented code on every application thread; shares queue and maps with the generator | a call runs its own function on its own arguments, once; no queued request is lost; calls return; the process can exit |
| **Function dispatch and variants** `include/polli/FunctionDispatcher.h`, `lib/Runtime/*` | `FMap` by function name, `VariantFunctions`, the `Variants` of each function by hash of the run-time values | `setPrototypeMapping`, `getOrCreateVariantFunction`, `getOrCreateVariant`, `createVariant` | called by the generator only | a variant is made from the function and for the values it is stored under; its module has one owner |
| **Module extraction** `lib/Extract/ModuleExtraction.cpp` | the module being rewritten, the prototype module, the order of globals and arguments | `ModuleExtractor::runOnFunction`, the cloner policies, `InstrumentEndpoint::Apply` | emits the code that calls `pjit_main` and runs the fallback | slots of `params` and arguments of the prototype agree; the fallback does what the function did |
| **Scop detection** `lib/Analysis/*`, `lib/Transform/ScopMapper.cpp` | `AccumulatedScops`, `JitableScops`, the reject log | `JitScopDetection::runOnFunction`, `ScopMapper::runOnFunction` | reads Polly's reject log, hands regions to the extraction | a region is accepted only if every reason against it goes away at run time; accepted regions do not overlap |
| **Region instrumentation** `lib/Transform/InstrumentRegions.cpp` | the control flow graph, the event counter | `processRegion`, `instrumentRegion`, `InsertProfilingInitCall` | emits calls of the profiling runtime | on every path through a region enters and exits alternate and carry the region's id |
| **Profiling runtime** `lib/pprof/libpprof.cpp` | event lists of the threads, the map of region names, the thread counter | `papi_region_enter/exit`, `papi_region_setup`, the exit handler | called by instrumented code on every thread; stores events at exit | every event recorded is stored, under the thread that made it |
| **Profile analysis** `lib/pprof/pprof.cpp`, `tools/pprof/analyze` | none (reads event lists) | `getMatchingExit`, `simplify`, `getTimeInSCoPs`, `SanitizeRun`, `aggregate` | reads what the runtime stored | each enter is paired with its own exit; time in regions never exceeds total time |
| **Profile storage** `lib/pprof/libpprof-file.cpp`, `libpprof-pgsql.cpp` | a file, a database | `StoreRun`, `ReadRun`, `StoreRunMetrics` | one transaction per operation | what is read is what was stored; a crash loses no run |
| **Regression test store** `lib/Persist/Schema.cpp` | a table of prototypes | `Session::commit` | called by concurrent compilers | no test case is stored twice |
| **Tracing** `lib/Runtime/LikwidMarker.cpp`, `include/pprof/Tracing.h`, the end of `lib/Runtime/RuntimeOptimizer.cpp` | the tracer, chosen when the process starts; the marks in the variants | the two marker passes, the tracer's six functions, initialization and `do_shutdown` | called by the runtime and by variants on every thread; calls the profiling runtime or LIKWID | marks open and close with the code they measure, on every thread; the analysis can pair them; the data are complete when they are stored |
| The LLVM pipeline of the runtime optimizer, options, pass registration, tools | LLVM's | | | not modelled, see the end |

Hard to test in this code, and listed in `PROJECT.json` with their lines: the
order of steps of the application threads, the generator and the destructor;
lookups that take no lock; addresses of dead stack frames in queued requests;
notifications that arrive too early or at the wrong thread; a mutex that is left
locked; caches keyed by hashes and by names; passes that edit the graph they
walk; events of several threads in unsynchronised lists; storage that is updated
in several transactions; weak symbols that two units name alike; marks whose ids
are shared, and exit handlers that depend on each other's order.

## Modules

| Module | What it is |
|---|---|
| `PolyJIT` | the runtime: application threads, generator, destructor, maps, dispatcher |
| `ScopCall` | what the runtime promises to the program: the abstract specification |
| `PolyJITProperties` | the runtime's properties and the refinement mapping to `ScopCall` |
| `PolyJIT_proofs` | theorems about the runtime |
| `MCPolyJIT` | instances for TLC |
| `ModuleExtraction` | the compile-time extraction, the linker, and what a call then reaches |
| `ModuleExtractionProperties` | the properties of the extraction |
| `ModuleExtraction_proofs` | theorems about the extraction |
| `MCModuleExtraction` | instances for TLC |
| `JitScopDetection` | which regions of a function are accepted and which the filter leaves |
| `InstrumentRegions` | detection and instrumentation of a function, and walks over the result |
| `InstrumentRegionsProperties` | the properties of both |
| `InstrumentRegions_proofs` | theorems about the filter and about the types of the graph |
| `MCInstrumentRegions` | instances for TLC |
| `PprofAnalysis` | matching and measuring of events |
| `Pprof` | the profiling runtime: threads that record, the exit handler |
| `ProfileLog` | what the profiling runtime promises: an abstract specification |
| `PprofProperties` | the properties of both, and the refinement mapping to `ProfileLog` |
| `PprofAnalysis_proofs` | what the analysis computes, for runs of any length |
| `Pprof_proofs` | theorems about the profiling runtime: its types, what it stores, the refinement, and the times of stored runs |
| `MCPprof` | instances for TLC |
| `PprofStore` | the database of runs, processes that store and analyses that delete and measure |
| `PprofStoreProperties` | its properties |
| `PprofStore_proofs` | theorems about the store |
| `MCPprofStore` | instances for TLC |
| `Tracing` | the marker passes, and the threads that run marked code, from start to exit |
| `TracingProperties` | its properties |
| `Tracing_proofs` | theorems about tracing |
| `MCTracing` | instances for TLC |
| `DataLemmas` | lemmas about numbers, sequences, folds and sorting that all proofs share |

### PolyJIT

One action is one access to state that another thread can observe. The code
between two such accesses, and everything a thread does while it holds
`GeneratorRequestMutex` without touching other shared state, is part of the
action.

*State.* `pc`, `on`, `call`, `newF` are the control state and the local variables
of the threads in `pjit_main` (`on` says which of the two maps the thread is
using, `newF` what its call has run). `work` is the `CodeGenQueue`; a request
holds the prototype and, in place of the copied addresses, what can be read
through them: the values of its owner's call until that call returns, then
nothing that is known (`Dangling`). `gpc`, `gmap`, `gvals` are the generator's
control state, the map it is inserting into and the `RunValueList` it has read.
`ir` and `code` are the contents of the two maps, `mutex` the owner of each map's
`WriteMutex`. `fmap`, `variants` and `engines` are the dispatcher: `FMap`, the
variants by hash, and how many engines were made for each variant's module.
`mpc` is the thread that runs the destructor, `fault` what ended the process
abnormally.

*Application threads.* `Call` is the emitted code up to the call of `pjit_main`;
`AddRequest` and `NotifyGenerator` are `addRequest`; `Count` is
`IRFunctionCache.count` or, on the asynchronous path, `CompileCache.count`, whose
miss makes the call run the fallback; `Find`, `Sleep`, `Relock` (and
`SpuriousWakeup`) are `blocking_at`; `TakeFunction` and `TakeCode` are the final
lookup in each map, with `NullLookup` for the outcome that the lookup misses
during a rehash; `Return` leaves the instrumented function.

*Generator.* `GenStart`, `GenRelock` (and `GenSpuriousWakeup`) are the wait for
`ShouldStart`; `TakeRequest` is `front` and `getPrototype`; `LockMap`, `Rehash`,
`Link`, `UnlockMap` and `Signal` are `BlockingMap::insert`, for both maps;
`ReadValues` is `runValues` and the question whether code exists, with
`DanglingFault` for the outcome that the stack read through is gone; `Compile`
is everything from `getOrCreateVariantFunction` to the function's address;
`PopRequest` and `EndBatch` end a request and a batch.

*Destructor.* `BeginShutdown`, from where it waits for `GeneratorRequestMutex`,
`Shutdown`, `NotifyShutdown` and `Join`. It can run at any time: `main` may return
while other threads are still in `pjit_main`, or enter it. The model ends with the
join. What follows is the destruction of the maps and the condition variables, and
callers that are still using them have undefined behaviour that nothing bounds.

*What undefined behaviour becomes.* `blocking_at` waits with a `unique_lock` that
does not own the mutex. With libstdc++ and glibc the wait unlocks the mutex
whoever owns it, locks it again when it wakes, and the deferred lock does not
unlock it; the model does exactly that. A lookup during a rehash may hit or miss.
A read through dangling addresses yields any value or faults.

*Abstractions.* Values are opaque; a hash is any function of them (the constant
`Hash`), a function's name any function of its prototype (`NameOf`), so that
collisions are instances and not special cases. Code is the prototype it was made
from and the values it was made for (`Generic` for code that reads its arguments:
the fallback, and every variant when recompilation is disabled, which the runs do
not do; what such a variant makes of floating-point arguments is in `ModuleExtraction`).
Machine code is
not executed. Memory allocation and parsing do not fail: the code asserts that.

### ModuleExtraction

One action is one part of `ModuleExtractor::runOnFunction` that reads what the
part before it has left in the module.

*State.* `source` is the region a translation unit holds: arguments with types and
names, and instructions, each kept for the pointer it uses. `functions` is the
unit's function list, which the pass manager walks with the index `at`; `pass` is
where `runOnFunction` stands, `scop` the place of the extracted function F in the
list, `body` F's instructions. `lastUnique` is the counter from which LLVM makes
suffixes of taken names. `proto` is the prototype, `slots` what the stub stores
into `params`. `inserted` is the open transaction of a compiler, `regressions` the
table of regression tests. `order` is the linker's order, `ran` the outcome of the last call:
which unit's code ran, how, and on what.

*Actions.* `Mapped` is what `ScopMapper` leaves of a function, `Extract` the first loop
of `runOnFunction`, `Skip` its early returns. `InsertTest` and `Commit` are the
transaction of `collectRegressionTest`, the one place where compilers that run at the
same time meet: each statement sees what is committed, and no constraint of the table
keeps two compilers from inserting the same name.
`MakePrototype` is `extractPrototypeM`: `Lower` is `constantExprToInstruction` on all
instructions, `GlobalsUsed` is `getGVsUsedInFunction` with the order of a
`SetVector`, `ProtoNames` is `AddGlobalsPolicy::MapArguments`, with any suffix for a
name that is taken. `MakeFallback` clones F; `Instrument` is
`InstrumentEndpoint::Apply` (`Slots`) and the final `replaceAllUsesWith`. `Link` is
the linker, which takes the first of several weak definitions. `Hops` is where a call
then gets to: a stub, and without a variant the stub's fallback, which may be another
unit's stub where units share names. `CallVariant` and `CallFallback` are the two
branches of the stub: `Unpacked` is what the variant gets from each slot
(`CreateUnpackParamsO2`, then the specialization, which replaces integers when
recompilation is on). `CallFaults` is the outcome that `runValues`, which reads eight
bytes through every slot, meets a pointer it cannot read through.

*Width.* Those eight bytes are also read where the argument has fewer: what is next to
it on the stack gets into the key. Code is specialized for as many bits as the argument
has, so calls stay right; equal arguments may get several variants. `PolyJIT`'s values are
such eight-byte words, and two of them that agree in the argument are two values.

*Assumptions.* Units and globals are finitely many, the region's name is not `None`, its
arguments' names are told apart, and a unit may have at least two functions (`MaxFunctions`),
the one with the region and the one that is made of it.

*Abstractions.* A function of the source has one region. Of an instruction only the
pointer, its constant expressions and the class of its opcode are kept; the value
operand of a store is an instruction of its own with opcode `other`. The slot of an
argument stands for its address or a copy of it. Whether the JIT is ready is left
open: the protocol with the runtime is `PolyJIT`'s.

*Composition.* A call in `PolyJIT` supplies a prototype and values and runs the
variant or the fallback; `ModuleExtraction` says what prototype, values and fallback
are. `PolyJIT` lets two prototypes have one name, in which case `FMap` keeps the first
one. That comes about: the weak stubs of two units are merged by name, but the suffixes
are not part of a prototype's origin, so that units whose counters differ, and shared
libraries, bring such prototypes into one process.

### JitScopDetection and InstrumentRegions

`JitScopDetection` is made of operators on one function `f`: its blocks are numbered,
`f.preds[b]` are the predecessors of `b` in the order of `b`'s use list, `f.regions` the
regions in the order of their names, `f.expanded` those among them that RegionInfo has not
found but Polly has added. `Analysed` adds the blocks of each region, by
`Region::contains` on the dominator tree. `IsValid` and `Jitable` are the checkers,
`Elements` a region's own blocks as the filter sees them, `Against` the inner and
`Rejected` the outer loop of the filter.

`InstrumentRegions` runs the passes on a function. `Skip` and `Detect` are
`JitScopDetection::runOnFunction`, disabled and enabled; `ProcessRegion` takes the next
region, Polly's valid ones first; then the function runs: `Run`, then `Branch` from block
to block. `graph` is the control flow graph as it is: `preds` with its use lists, `calls`
with the calls of libpprof that each block begins with, `home` with the block that holds
the code each block of `fn` began with.

`processRegion` walks the use list of a block while it splits edges into this block.
`SplitEdges` is this walk: splitting a critical edge takes the use the iterator stands at
to the list of the new block, where the walk ends. `SplitCritical`, `SplitTop` and
`SplitBottom` are what LLVM's `SplitEdge` does, external code that the walk depends on.
`R->contains` is evaluated on the dominator tree of the function before the pass, which
knows no new block: `Instrumented` therefore reads the blocks of a region in `fn`, not in `graph`.

*Abstractions.* Regions are what RegionInfo finds for the given graphs, and what Polly's
`ScopDetection` makes of valid ones by expanding them (`MayBeValid`, `Expanded`): an expanded
region takes the place of all valid ones within it, begins with one of them, and may have no
block of its own. Reasons in the reject log are kept for their kind and for the verdict on their
expressions. The use lists, the reject log and Polly's regions come in any order: they are ordered
by addresses or by history. Landing pads and calls of the program's own, which an enter is moved
past at the start of a block (`InstrumentRegions.cpp:375`), are left out.

*Assumptions.* Of the functions (`FunctionsAssumption`): predecessors and regions are among
the blocks, and there is a first one; expanded regions are among its regions. `ReachableBlocks`:
Polly's canonicalization, which the driver puts first (`lib/RegisterCompilationPasses.cpp:112`),
removes blocks that cannot be reached.

### Pprof and PprofAnalysis

One action of `Pprof` is one access that other threads can observe: everything a thread
does to its own event list, or to the map of lists.

*State.* `todo` is what is left of the call of libpprof a thread is in. `threadInit` and
`papiInit` are the flags of the initialization, `lists` the event lists, `node` the map
`PapiThreadedEvents` from thread to list, `local` each thread's pointer to its list,
`seen` the map as a thread has seen it between looking for its node and linking one.
`atExit` is what `exit` has to run, the last one first: `papi_atexit_handler`, once for each
registration, and the destructor of the `DBConnection`; `exiter` and `phase` say who runs it
and where, `db` what has become of the connection. `toDb` and `toFile` are the runs given to the backends. `open`,
`entering` and `strays` belong to the program, `log` is a history of what a thread recorded.

*Actions.* `MainBegins` is the call that the initialization pass puts into `main`;
`SetFlag`, `Search`, `Link`, `Register` and `Start` are `papi_region_setup` with
`do_papi_thread_init_once`, `ThreadInitOnce` says which of them a thread goes through;
`Enter` and `Record`, and `Exit`, are entering and leaving a scop. `Unwind` leaves a scop
without a call: by an exception, or on an edge that the instrumentation has missed. `Stray`
and `StrayFault` are an exit where it has missed the edge into the scop.
`ProcessExits` and `ProcessEnds` are `exit`, `Stop`, `Copy`, `Store` and `Clear` the handler.

*The second run of the handler.* The function-local static `DBConnection` is constructed by
the handler's first run (`Connect`), so `exit` destroys it before the handlers that were
registered earlier (`Disconnect`). If the handler was registered twice, its second run meets
the pointer that `~DBConnection` has reset and the process ends there, in phase `closed`
(`NoConnection`). A handler that another thread registers after the connection was made still
finds it open. `StoreFault` is a database that cannot be reached or refuses the run.

*What undefined behaviour becomes.* The map is not synchronised: of two threads that link
nodes at the same time, one may undo the other's (`Link` keeps each node linked since its
own search, or loses them all: `Undone`). The handler copies lists that other threads are
appending to, and a map that others are linking into: it may fault (`CopyFault`). A thread
without a list faults when it exits (`Stop`) or leaves a scop (`StrayFault`).

`PprofAnalysis` has the functions that work on a run: `MatchingExit` (`getMatchingExit`),
`Simplify`, `SimplifiedRun`, and the sums over raw (`RawTime`, `RawTotal`) and simplified
(`SimpleTime`, `SimpleTotal`) events. `getMatchingExit` returns the enter where there is no exit
(`lib/pprof/pprof.cpp:92`), although its comment promises the end (`include/pprof/pprof.h:181`);
the model follows the code, as does `simplify`, which would dereference the end. The reference definition is `Covered`: the time in
which at least one scop is open. Timestamps of a thread ascend by the gaps of the constant
`Gaps`, in turn; in the instances the gaps are different powers of two, so that each set of
intervals has a length of its own and a sum tells which intervals are in it.

*The promise.* `ProfileLog` is a log per thread, of which pieces of the exiting thread's
are stored: `stored` is `toDb`, `log` and `exiter` have their names. The map, the flags, the
nodes and the phases of the handler are what it does not mention.

*Abstractions.* Timestamps are taken when the event is appended. Errors of PAPI, the
environment variables and thread ids are left out.

### PprofStore

One action is one statement after which another transaction may intervene. At read
committed each statement sees what is committed when it begins.

*State.* `run`, `events`, `metrics` are the tables, `project` says whether the project table has
the row of the project all processes belong to; `stored` is the run a process has
stored its events under, `found` what it has seen of the project; `pc`, `todo`, `single`, `exists`, `total` the local state of an
analysis.

*Actions.* `Store` is the process' transaction: `SearchProject` is its query for the project,
`StoreRun` all its inserts, and `Refused` what happens if another process has inserted the
project in between and the database keeps names unique: `submit` catches another exception
only, and the process ends without its run. One run group is analysed.
`ReadAvailableRunIDs`, `SelectRun`, `DeleteRun`, `CheckMetrics`, `InsertMetrics` and
`Finish` are the loop of `pprof-analyze`: select and delete belong to `ReadSimpleRun`,
which deletes what it reads, check and insert to `StoreRunMetrics`. `Kill` ends an
analysis anywhere; what it has deleted and not yet measured is lost.

*Composition.* `Recorded` is what `Pprof` hands to `StoreRun`: complete runs, runs that end
within a scop, and the empty run of a process whose events other threads made. The
calls whose effects `Pprof` models are those `InstrumentRegions` inserts.

### Tracing

One action is one call that a thread makes of a tracing library, or one step between two
such calls that decides which one comes next.

*Code.* `Modules` are variants as Polly leaves them: each function a sequence of blocks of
instructions with their successors, `F` the function itself and one function for each
parallel loop, which asks OpenMP for iterations (`next`). `TraceMarked` and `LikwidMarked`
are the two passes, `OptimizeForRuntime` runs them as the environment says, the second on
what the first has made. `ScopId` is the id the trace marker chooses: a sequential
function's address, and for parallel ones the address of the variable that the pass's own
loop uses. `IsFunction` is what Polly leaves, an assumption on the constant: there is `F`;
functions for parallel loops work and ask for iterations; where `F` has a parallel loop, the
team is given the function, the thread calls it itself and waits for the team
(`IsParallelLoop`); and nothing branches to an entry.

*State.* `env` is the pair of environment variables, `stack` what each thread is in, frame
by frame, with what is left of the current block. `calls`, `work`, `generator`, `compiled`
are as much of the runtime as matters to marks; which variant exists when a call asks, and
what happens to the queue in detail, is `PolyJIT`'s. `atexits` and `exiter` are `exit`.
`events`, `stored` and `fault` are libpprof, as `Pprof` has it in detail; `likwid`, `ready`
and `marks` are LIKWID.

*Actions.* `Trace` is any of the four traced functions, or a marker of LIKWID, wherever it
is called; `ThreadInit` announces a thread to LIKWID. `Call` and `RunVariant` are
`pjit_main`, `WakeUp`, `TakeRequest`, `Compile`, `NoRequest` and `EndBatch` the generator.
`CallSubFunction`, `Fork`, `Join`, `Proceed` and `Branch` execute a variant and the threads
OpenMP lends it. `ProcessExits` and `RunHandler` are `exit`, `ShutDown`, `Finalize` and
`PapiAtexit` what the handlers do. The static initializers of the tracer and of
`StaticInitializer` run before `main` and make up `Init`.

*Abstractions.* A variant is compiled at once. With neither variable set nothing is traced,
so `Init` has no such state. That `main` may also be profiled by instrumented code, and the
handler registered once more, is in `Pprof`.

## Properties

Of `PolyJIT`:

*Types.* `TypeOK`.

*Published code is right.* `CacheSound`: code under a key was made from a function
of the key's name for values of the key's hash, whatever the generator read
through a request. `RunsFittingCode`: what a call runs fits the call.
`CacheStable`: nothing published is replaced or withdrawn, so that an address
once read may be called. `EngineOnce`: no module is given to two engines.

*Nothing is lost.* `StartNotLost`: no request waits while the generator sleeps and
nobody is about to wake it. `BlockedIsServed`: a thread in `blocking_at` whose key
is missing has its request in the queue. `RequestSurvives`: the request the
generator holds a reference to stays at the front, untouched but for its caller's
return.

*The promise to the program.* `ImplementsScopCall`: with `status`, `call` and `did`
computed from the state of the runtime, each step is a step of `ScopCall` or
leaves its variables unchanged: a call executes its own function on its own
arguments once, before it returns. It presupposes that names tell prototypes
apart and hashes tell values apart, which the run's constants state.

*Progress.* `QueueDrains`, `ShutdownCompletes` and `CallReturns` say what comes
about under fairness and name the only exceptions: the generator waits for a
`WriteMutex` that a caller left locked (`Jammed`), or the call hangs in
`blocking_at` for one of the listed reasons (`Hangs`). That a call on the
asynchronous path never hangs in a map is part of `CallReturns`; it can hang in
`addRequest` when the generator waits for a jammed map, since the generator holds
`GeneratorRequestMutex` all that time.

*What the code says and does not do.* `BlockedIsDelivered` and `ShutdownTerminates`
are claims of comments; each has a run that refutes it and a finding in `PROJECT.json`.
So do `AllEntriesAndExits`, `RejectedShareBlocks` and `AllPersisted` below.

Of `ModuleExtraction`:

*Parts agree.* `SlotsMatchPrototype`: the array of slots and the prototype's argument
list have the same length, and where no argument has a global's name
(`NamesApart`), each slot holds what its argument stands for. `PrototypeClosed`: the
prototype refers to nothing outside, where globals are used plainly (`PlainUses`).

*Same behaviour.* `RunsAsBefore`: a call after linking runs the code of its own
region on its own arguments, in a variant or in the fallback. It is stated for
units that share no function name with another one (`NameAlone`). Two exceptions are known.
"The parameters are unpacked inside the function again" (`lib/Runtime/FunctionDispatcher.cpp:43`)
is not so for floating-point arguments: the stub stores the address of a copy, the variant
takes the slot itself for the value; the specialization of integers hides that for them, and
only while recompilation is enabled. And a
region that gets pointers of the program's own may fault in `runValues`, which reads through
them although the region, for lack of iterations, would not. `CallsArrive` is about units that
do share names: through whichever stubs of other units, a call gets to a body made of a
function of that name.

*The pass ends.* `PassEnds`: although the pass appends to the list it walks, it comes
to its end, and each region has one stub.

*Shared table.* `TestsCollected`: whichever compiler comes first, the name of every extracted
function leads to a test, and a test is a prototype that was made under its name.
`DuplicatesOverlap`: a name has a second row only if the compilers' transactions overlapped.

Of `JitScopDetection` and `InstrumentRegions`:

`Predictable`: what the filter leaves depends on no address, although it sees the regions in
the order of their addresses. `LargestKept`: of two candidates one gives way to the other, unless
neither has a block of its own, and each that is not left has given way to one with at least as
many.

`StackMatchesNesting`: on every walk, the open scops among those the pass can manage are
exactly the ones that contain the block that runs, each once, the outer before the inner.
A region is `Manageable` unless an edge that is split before another one is critical, its
entry's only predecessor is outside while the entry leaves the region, or another region
begins or ends next to it. `AllEntriesAndExits` claims the same of every region and
is refuted by a guarded loop. `RejectedShareBlocks` claims that only regions that share
blocks are rejected and is refuted by two loops in a row.

Of `Pprof` and `PprofAnalysis`:

*Recording.* `SingleThreadComplete`: where only the thread that exits is profiled, all it
has recorded is stored, in order and as one run, and if the handler was registered twice, all
but the STOP of its second run, which ends the process. `ImplementsProfileLog`: whatever threads
race for the map and however often the handler was registered, `Pprof` implements `ProfileLog`: recorded
events never change, one thread exits, and what is stored are pieces of its log without
gaps, up to the last event, no event twice.
`AllPersisted` claims that everything recorded is stored; it is refuted.

*Analysis.* `RawTimeCovered` and `SimpleTimeCovered`: the times computed from a well-nested
run are the time in which a scop was open (for simplified events, unless a scop is entered
within one of its own id). `ScopsWithinTotal`: whatever is left open, in a run that begins
with its START the time in scops is at most the total. A thread other than main may record
scops before main sets the library up; its START comes later, and nothing bounds its time in
scops by the total.

Of `PprofStore`:

`RunKept`: a run is in the table as a whole until an analysis has it, and then it is
measured, in that analysis' hands, or lost with it; a process is refused only when another one
has stored. `GroupKept`: if processes that share a run id have all stored, or been refused, before
the first analysis begins, their events stay together, in the
table, in one analysis' hands, or measured as a whole. Events that come later may be deleted
unread, or read and deleted although the run already has metrics; the property says how much
order is needed. `MetricsOfWholeProcesses`: metrics
are computed from all that a process has stored, however analyses overlap.
`AnalysisEnds`: an analysis that is not killed finishes and leaves metrics for the runs it
saw, except for runs that a killed one has taken along.

Of `Tracing`:

`MarkersFollowCalls`: on every thread, while it works on a scop, what is open is the mark of
the function it runs, and main's region on the main thread, whatever return the functions
before have left by, in a variant with or without parallel loops, with either library.
`EntersMeetTheirExits`: although functions share ids, and ids lose their upper bits, the
analysis' `MatchingExit` finds for each enter its own exit, since a thread never has two
marks of one id open. `LikwidReady`: LIKWID is called between its
initialization and its end by threads it knows, except where listed: with both variables
set nobody initialises it, other threads may go on while one exits, and the program's own
threads and the generator are never announced. `MainRegionMeasured`: when the main thread
exits, handlers run in the order that closes main's region before its data are stored.

## Runs

| Run | Bounds | Shows |
|---|---|---|
| `polyjit_safety` | 2 threads, 3 calls, 2 prototypes, 2 values, rehash at the second key, exit at any time, spurious wake-ups; threads symmetric | the safety properties, the two action properties and the refinement |
| `polyjit_live` | 2 threads, 2 calls, 2 prototypes, 1 value, no rehash | the progress properties, and that they need no more exceptions than they name |
| `polyjit_lost_wakeup` | 1 thread, 1 call | a blocked call can miss its notification and never return |
| `polyjit_jam` | 1 thread, 2 calls | the generator can wait forever for a `WriteMutex`, and the destructor for it |
| `extraction_pass` | 2 units (one with 65 regions of one or two instructions and three lists of arguments, one with two regions and two places for its counter), 2 arguments, 2 globals, both linker orders, at most 6 functions per unit, regression tests on | the properties of the extraction |
| `regions_pass` | 8 functions of 5 to 9 blocks and 2 to 6 regions, expanded ones among them, every order of their use lists, every set of valid regions, 3 logs in every order, at most 4 open scops on a walk | the properties of detection, filter and instrumentation |
| `regions_exits` | a loop with a guard | the edge on which the guard skips the loop is not instrumented |
| `regions_disjoint` | two loops in a row | the filter rejects one of two regions that share no block |
| `pprof_record` | main enters up to 2 scops of 2 ids, or leaves them without having entered them, a worker 1; either may exit at any time; both backends; the handler enabled | the properties of recording and analysis |
| `pprof_persist` | main alone, default options | nothing that was recorded is stored |
| `pprof_store` | 3 processes (nested scops, a scop left open, no events of its own) of a project that is new or known, 2 analyses, with and without a run id in the environment | the properties of the store |
| `tracing` | main calls a sequential variant with two returns, then one with two parallel loops, with one worker; another thread calls the sequential one; either exits at any time; one or both variables set; ids of 4 bits that collide | the properties of tracing |

Deadlock is checked in the runs of the extraction. Elsewhere it is not: the program stops
when it exits, faults or, as the violation runs show, hangs; a walk ends where the function
returns; processes and analyses end.

*Why the bounds are enough.* Two threads allow every order of two callers against
the generator and the destructor, a notification spent on the wrong waiter and a
mutex left locked by one thread and met by another. Three calls fill the queue
with a live and a dangling request of the same key while a third is processed.
Two prototypes and two values distinguish the key's parts; the workload leaves one
combination out, which no property depends on. One rehash size suffices since
every insertion at that size rehashes either map.

For the extraction: two instructions are enough to use a global twice, two globals in
both orders, and a global plainly and in an expression; expressions are nested up to
two deep, one more than the pass resolves. Names are chosen so that an argument has a
global's name, and a global the name that LLVM makes of another. A unit never has more
than four functions unless the pass extracts from its own output; the bound of six
lets it do so once.
The counters of suffixes matter to units that share a function name: with the second one
ahead by one, its fallback has the name of the first one's stub; with both alike, the names
of all three functions coincide.

For detection and instrumentation: the graphs have the shapes that matter to use lists and
splits: loops with and without preheader, a guard, regions that touch, nesting with and
without blocks between the ends, a region entered and left on two edges, a guarded loop that is
expanded, and two pairs of loops each expanded into a region without a block of its own. Of three regions
the filter's inner loop both rejects and is stopped. Within four open scops a missed exit
shows, since each turn of a loop opens one more.

For the profiler: two threads suffice for a race on the map. Two scops of main nest, follow
each other, repeat an id, are left open and are left twice; `papi_region_setup` runs up to twice
and with it the handler. One entry of the worker already makes it initialize, record and be lost.
Deeper nesting matters to the times only, which the theorems `RawTimesCovered`,
`SimpleTimesCovered` and `TimesWithinTotal` are about for runs of any length.

For the store: two analyses overlap in any order of statements, either may be killed in
between, and three processes store before, between and after; with a run id set they share
one run.

For tracing: two calls in a row show a mark that is left open; two parallel loops run by one
worker share an id with each other, and in four bits with the sequential variant; of two
blocks that return, one may be missed. One more thread besides main is neither main nor
OpenMP's. Each library alone, and both, is a state of `Init`.

*Fairness.* In `PprofStore`, processes store and analyses carry on
(`WF_vars(Store(p))`, `WF_vars(Step(a))`); nothing forces a kill. In `ModuleExtraction`, the compiler carries on (`WF_vars(PassStep(u))`);
nothing makes the program call. In `PolyJIT`, `FairSpec` asks weak fairness of each application thread while it is in
a call, of the generator and of the destructor: the operating system schedules
every thread that can run. Nothing makes a program call again or exit.
`GeneratorRequestMutex` is not assumed to be fair: the calls are bounded, so its
holders are gone at some time and weak fairness of `AddRequest` is enough.
`FairSpec` has no spurious wake-ups: C++ permits them and does not promise any,
and they could only save a call that missed its notification.

## Proofs

Every theorem is a statement about `Spec` for all values of the constants that satisfy the
module's `Assumptions`, which TLC evaluates on each instance. In each module the argument is
an inductive invariant, in layers that are inductive relative to the ones before.

### PolyJIT

Theorems hold for any sets of threads, prototypes and values, any hash
function and any function names (assumption `Assumptions`, which TLC evaluates on
every instance):

| Theorem | Statement |
|---|---|
| `TypeCorrect` | `Spec => []TypeOK` |
| `CacheSoundness` | `Spec => []CacheSound` |
| `RunsFittingCodeAlways` | `Spec => []RunsFittingCode` |
| `EngineOnceAlways` | `Spec => []EngineOnce` |
| `StartNotLostAlways` | `Spec => []StartNotLost` |
| `RequestSurvivesAlways` | `Spec => RequestSurvives` |
| `CacheStableAlways` | `Spec => CacheStable` |
| `BlockedIsServedAlways` | `Spec => []BlockedIsServed` |
| `Implementation` | `ASSUME Distinct PROVE Spec => ImplementsScopCall` |

The argument is one inductive invariant in five layers, each inductive relative to
the ones before it.

1. `TypeOK` alone is not inductive: the head of an empty queue has no type. `Shape`
   adds that the generator has a request at hand from `lock` to `pop`, that its
   prototype is mapped, and that the values have been read before they are used.
2. `Sound` adds that `fmap` maps a name to a prototype of that name, that every
   variant fits the key it is stored under, and that the variant about to be
   published exists. The step to watch is `Compile`: key and variant are both made
   from `gvals`, the one reading of the arguments, so dangling addresses do no harm
   to the cache (`CompileFits`). `KeyStep` says that the key does not change while
   the generator inserts, although the caller may return and the request dangle.
3. `CallSound` adds that a thread about to take an entry has one: entries never
   disappear (`CodeStep`).
4. `Engines` adds that an engine was made only for a key that is published or being
   inserted, so that `count` really protects `getEngine`.

5. `Progress` is about who still needs what. `Linked` says that the generator, once
   past an insertion, has put its key into the map; `Served` says that a thread that
   has queued its request and not returned either finds its request in the queue,
   its key delivered, or the destructor at work. `BlockedIsServed` follows. A
   request that the caller still owns reads the caller's own values, so the key it
   is delivered under is the key its owner waits for.

`Implementation` maps each step to a step of `ScopCall` or to a stutter, from the
same invariant. `Distinct` is the assumption that names tell prototypes apart and
hashes tell values apart; with it `FittingMeansRight` turns `RunsFittingCode` into
what `ScopCall` demands, and `MappedStep` goes through the actions. Without
`Distinct` the theorem is false: `FMap` keeps the first prototype of a name, and a call of
the second runs code made from the first.

The lemmas on the queue (`ForgetQueue`, `AppendQueue`, `TailQueue`) and the frame
lemmas (`Frames`, `GeneratorFrame`, `CallerFrame`: which steps change what) are
used throughout.

### PprofStore

For any finite set of processes, any recorded runs, any number of analyses killed anywhere,
with and without a run id in the environment:

| Theorem | Statement |
|---|---|
| `StoreInvariant` | `Spec => []StoreInv` |
| `TypeCorrect` | `Spec => []TypeOK` |
| `RunKeptCorrect` | `Spec => []RunKept` |
| `MetricsCorrect` | `Spec => []MetricsOfWholeProcesses` |
| `GroupKeptCorrect` | `Spec => GroupKept` |

What the properties say of rows that are gone is inductive only with what is known of rows that
are there. `RunsNumbered`: runs are numbered 1 to n, n the number of processes that have stored, so
that a new run is no old one; or all have the one number given. `RowsWhole`: a process' rows are in
the table all or none. `HandsWhole`: what an analysis has read is all that some processes stored
under one run. `FindingsLast`: an analysis that has found its run empty, or its metrics present, is
right for good, although others work on the same tables between its statements. That a metric's
values have a type at all needs the analysis of any run to end in a number (`TimeTyped`,
`TotalTyped` of `PprofAnalysis_proofs`). `GroupKept` is a temporal formula: its hypothesis is about
the past, so the theorem carries `GroupInv`, which is inductive while not all have stored
(`GroupStoring`) and after (`GroupStored`).

### Pprof

For any threads and scops, any limits and gaps between timestamps, whichever backends are in use,
with main instrumented or not:

| Theorem | Statement |
|---|---|
| `TypeCorrect` | `Spec => []TypeOK` |
| `LogInvariant` | `Spec => []LogInv` |
| `LogImplemented` | `Spec => ImplementsProfileLog` |
| `SingleThreadStored` | `Spec => []SingleThreadComplete` |
| `TimesWithinTotal` | `Spec => []ScopsWithinTotal` |
| `RawTimesCovered` | `Spec => []RawTimeCovered` |
| `SimpleTimesCovered` | `Spec => []SimpleTimeCovered` |

`TypeOK` needs the shape of `todo`, the calls a thread has before it: nothing is recorded or
registered before a list is linked (`ReadyThread`), and the thread in the exit handler is in no
other call (`Exiting`).

What is stored is right because of `Own` and `Kept`. `Own`: no two threads have the same list; the
map has a thread's own list or none, except for the spare one that the handler itself links, empty,
when another thread has undone its node; and a thread that has searched has seen its own list or
none. `Kept`: each list is the end of what its thread has recorded (`EndOf`), and until the handler
clears the list, nothing on it has been stored. Timestamps ascend, so events differ; `EndPiece`
turns this into pieces without gaps. `Implements` maps each step to a step of `ProfileLog` or a
stutter.

`SingleThreadStored` adds `SoloInv`, about a process in which one thread alone has called the
library: the map has its list (`Attached`), the handler is registered before anything is recorded
(`Registered`), the connection's destructor runs before the handlers that are left (`Connected`),
and what is stored followed by what is listed is the log (`Complete`). That nobody
else has called is known of the end only; `SoloBefore` carries it back, one step at a time.

`TimesWithinTotal` needs that a stored run has one STOP, at its end (`Stops`), and the lemma
`TimeWithinTotal` of `PprofAnalysis_proofs`: in any run with ascending timestamps that begins with
START and ends with its only STOP, the sum over the simplified run is at most its total, whatever
is open. The lemma is proved by induction over the run (below): the sum so far never exceeds the end
of the last scop counted.

`RawTimesCovered` and `SimpleTimesCovered` need nothing of the runtime but that logs have their type
and timestamps ascend; the rest is about runs of any length, in `PprofAnalysis_proofs`. `Depth` and
`Covered` are turned into sums over events (`DepthSteps`, `CoveredSteps`). `OpenScops(evs, n, o)`: o
has the events that entered the scops open after n events; it exists for every n, and an exit ends
the last of them, which has its id (`OpenScopsStep`, `LastIsLeft`).

`RawTimeIsCovered` is an induction with `RawFits`: the stacks of ids and starts are those of the
scops in o, so an exit finds its id on top and nothing is dropped; the time counted so far is the
sum of the stack of subregions; and the bottom of that stack, with the time since the outermost
open scop was entered, is what has been covered. At the end the stack has one element, which is
both. `SimpleTimeIsCovered` is one with `SimpleFits`: in a scop the time already includes what is
left of the outermost one, so the inner ones start before the last one counted has ended. That this
end is right is `NextExitIsOwn`: an exit of the same id in between would end a scop entered in
between, and the run would be recursive.

### ModuleExtraction

For any finite sets of units and globals, any regions, any suffixes the compiler may choose:

| Theorem | Statement |
|---|---|
| `ExtractionInvariant` | `Spec => []ExtractionInv` |
| `TypeCorrect` | `Spec => []TypeOK` |
| `TestsAreCollected` | `Spec => []TestsCollected` |
| `DuplicatesDoOverlap` | `Spec => []DuplicatesOverlap` |
| `SlotsDoMatch` | `Spec => []SlotsMatchPrototype` |
| `PrototypesAreClosed` | `Spec => []PrototypeClosed` |
| `CallInvariant` | `Spec => []CallInv` |
| `CallsDoArrive` | `Spec => []CallsArrive` |
| `RunsDoAsBefore` | `Spec => []RunsAsBefore` |

`Stages` says what the pass has made of a unit at each stage, which functions with which names and
callees: the pass is deterministic but for the names it gives to arguments and the order of
globals (`Made`). One `...Staged` lemma per action takes a unit from stage to stage. `TestInv` is about
the test store: a row is the prototype of a unit past that stage, an open transaction holds its own
unit's row or nothing, and none of the rows it saw has its name.

`SlotsDoMatch` and `PrototypesAreClosed` follow from `Stages` by lemmas on `Lower`, `GlobalsUsed` and
`ProtoNames` for bodies of any length (`LowerElements`, `GlobalsAre`, `NamesMatch`, `PlainLowered`).

`CallInv` is about the program: once linked, all units are done and stay so (`Linked`), and what the
last call came to is known. That a call by name arrives is `Hopping`: each stub calls a function of
its own base name with a suffix one below its own, no two functions of a unit have one name, and
there are finitely many names in all; so the hops that are not at a fallback would need more numbers
than there are.

### JitScopDetection and InstrumentRegions

For any functions with any regions, canonical or expanded, any reasons in the reject log,
and any order of the log and of Polly's regions:

| Theorem | Statement |
|---|---|
| `FilterInvariant` | `Spec => []FilterInv` |
| `FilterIsPredictable` | `Spec => []Predictable` |
| `LargestIsKept` | `Spec => []LargestKept` |
| `OneRegionIsLeft` | `Spec => []OneIsLeft` |
| `GraphInvariant` | `Spec => []GraphInv` |
| `TypeCorrect` | `Spec => []TypeOK` |

`FilterInv` is simple: Polly's valid regions and those its log rejects are different regions, each
once, and once the pass has run `all` is what the filter leaves. The work is in the filter, two
nested loops that change a set while they read it, over a sequence that has been sorted before.

The sort: `Sorted` is some permutation in the order of the names (`SortExists`), and since names are
told apart it is the only one (`SortedOnce`), so the order the candidates came in does not matter
(`SameRejected`).

The loops: `RejectedSteps` says what has been rejected after each region. By induction over it
(`AgainstKeeps`, `AgainstNothing`, `OneSurvives`), either all regions so far that have a block of
their own are rejected, and then a region without a larger one is not, or all but one are. This is
where `sharesBlocks` matters, which compares a region with itself: it holds of any two regions of
which the first has a block of its own. So if any candidate has one, a single candidate of a
function is left, one with most, however far apart they are; if none has, all are left
(`OneIsLeft`). `RejectedShareBlocks`, which the code asserts, is violated (a finding).

The graph: `TypeOK` says that every block can be reached from the first, which `ReachedFrom` works
out by a fold over the blocks, and a proof that a step keeps it needs another form of it.
`Connected(P)`: a set of blocks that has the first, and each block with a predecessor in the set, is
all of them. This is the same (`ReachedMeansConnected`, `ConnectedMeansReached`, which counts: a set
that grew in every step would outgrow the graph), and easy to carry over a split: what is closed in
the split graph was closed before it (`StillGood`, for both ways in which an edge is split,
`SplitBlockExtends` and `SplitCriticalExtends`). `GraphInv` is inductive with it: the graph is
connected, has the function's blocks and one call list a block, and the blocks that continue the
function's are different ones (`Graphs`); calls, regions on the way and regions yet to be
instrumented are regions that were found, and these have their entry and exit among the function's
blocks. `SplitEdges` reads use lists that its own splits change; `SplitEdgesTyped` follows it from
edge to edge. `ExecuteTyped` does the same for the calls in a block, and `UseOrdersSteps`,
`SameUsesGood` for the orders in which the use lists may be to start with.

### Tracing

For any modules that `IsFunction` allows, any threads and teams, any program of calls and any
combination of the two environment variables:

| Theorem | Statement |
|---|---|
| `TracingInvariant` | `Spec => []TracingInv` |
| `TypeCorrect` | `Spec => []TypeOK` |
| `MarksFollow` | `Spec => []MarkersFollowCalls` |
| `LogsAreNested` | `Spec => []PairsInv` |
| `ExitsAreMet` | `Spec => []EntersMeetTheirExits` |
| `LikwidIsReady` | `Spec => []LikwidReady` |
| `MainIsMeasured` | `Spec => []MainRegionMeasured` |

Which marks a thread has open depends on everything it has done; what makes this inductive is that
it also depends on what it has yet to do, and on nothing else. `After(lib, fr, i, x)` says of a
frame that after its first i instructions x is open in the library: the next instruction that tells
the library anything closes x, or opens something if x is nothing; if there is none, x is what a
function that goes on to another block has open. `Bracketed` says that each mark in the frame leaves
what `After` expects. `AfterUnique`: there is one such x only.

`FrameOk` is `Bracketed` with what the other instructions need: a scop's work has the scop's mark
open, a call of a loop's function is followed by the wait for its team, nothing is open at that
wait. It holds of every block of every variant, whichever passes have run (`BlockFrame`, by way of
`PartsOf`, which says what the two passes have put around Polly's code, and `PartsCases`), and of
the runtime's own code (`CallFrame`, `RequestFrame`, `BatchFrame`); a step keeps it (`SteppedOk`).
`StackOk`: a thread is in one such frame or in two, the lower of which waits, for a loop or for
requests. `OpenOk`: what it has open is what `After` says of the innermost frame, on top of what is
open below. `StepOpen` takes this over a step, `ThreadMoves` to all threads. `WorkersOk`, that a team
works only while its thread waits or is about to, keeps two loops' functions from meeting in one
worker. `TeamsOk`: a worker is known to LIKWID, or the first thing it does is announce itself.

The thread that exits is none of these. `ExitAt` numbers the states it goes through, from 1, where all
handlers are planted, to 5 with LIKWID and 7 with libpprof, where all are done; with each comes what
main's log looks like by then, whether LIKWID is on, and what is stored. Until state 4 nothing of
main's region has ended (`MainEntered`), since all other exits that main's thread records have ids
of their own; `MainLeft` is the log afterwards. A thread that exits and has recorded nothing faults
from state 4 on; main's has its region.

`ExitsAreMet` needs more of a log than what is open at its end. `Nested(evs, o)`: o has the
positions of the enters still open, in order, each with as many more enters than exits after it as
there are open ones from it on; and every other enter has met its own exit before any other event
that looks like it (`MeetsAt`). An enter more keeps this (`NestedEnter`). An exit does if it is the
innermost open enter's and looks like no other open one's (`NestedExit`); the second half is the
point, and follows from `StackOk`: besides main's region and the generator's, which have ids of their
own, a thread has at most one mark open (`BelowApart`), and scops' ids are no region's (`IdsApart`).
A scop may have id 0, as the total has, but then the exits differ in type.
`PairsInv` is this for all threads, together with
`TracingInv`: the names at o are what is open. For the thread that exits only main's two enters can
be open, which end in the order in which they should (`MainLeaves`, `TotalLeaves`). `NestedMeets`
is then about any nested log.

### Induction

The library's induction theorems take an operator as a parameter, which the provers cannot
instantiate. `SetInduction` of `DataLemmas` is induction with a set in its place: a set of naturals
with 0, and with n + 1 wherever it has n, is all of them. With it and `RecursionTo` (a function
defined by recursion up to a length exists and satisfies its equations), `DataLemmas` has what a
fold computes element by element (`FoldsTo`), that numbers can be sorted (`SortExists`), what
`FlattenSeq` does to an appended element and which elements its result has; `PprofAnalysis_proofs`
what one more event does to `SimplifiedRun`, `SimpleTime`, `RawTime`, `Depth` and `Covered`.

### Only model-checked

- Progress, everywhere: `QueueDrains`, `ShutdownCompletes`, `CallReturns`, `PassEnds`, `AnalysisEnds`.
  Liveness under fairness, and ENABLED, are out of the proof system's reach.
- `StackMatchesNesting` of `InstrumentRegions`: which regions are open in which block after all
  splits. It is more than the graph's type, which is proved: for every block and each of its
  predecessors, whether the calls between them belong to the edge. That depends on the order of the
  splits, and would have to be followed through `SplitEdges` for the regions done and to be done.

## Plan

Done, in this order: `PolyJIT` and `ScopCall` with their theorems; `ModuleExtraction`;
`Pprof` and `PprofAnalysis`; `PprofStore`; `JitScopDetection` and `InstrumentRegions`; the
table of regression tests; `Tracing`; `ProfileLog`, which `Pprof` implements; calls by way of
names that units share; the proofs about `PprofStore`, `Pprof`, `ModuleExtraction`, `Tracing`, the
filter of `JitScopDetection` and the graph of `InstrumentRegions`.

Next:

1. `StackMatchesNesting` of `InstrumentRegions`, as a theorem.
2. `RemoveGlobalsPolicy` and regions that cannot be extracted, in `ModuleExtraction`; several
   regions of one function.

## Not modelled

The LLVM and Polly passes that the runtime optimizer and the drivers set up, and what
IR cloning produces; the order in which passes are registered; command line options other
than those that disable recompilation and collect tests; the wire protocol of the database;
the calibration tool. They have no concurrent or persistent state of their own, or it
belongs to a library.

Code that is not part of the program: the alias checks (`AliasCheckCodeGen.cpp` is commented
out of `lib/Transform/CMakeLists.txt`), `tools/polli` (commented out of
`tools/CMakeLists.txt`) with `include/polli/PolyJIT.h`, whose classes nothing implements any
more; in `FunctionDispatcher.h` and `VariantFunction.h` the parameter classes `RTParam` and
`ParamVector`, which `RunValueList` has replaced.

Of the parts that are modelled: `RemoveGlobalsPolicy`, which no pass uses; reading runs
from files, since no event ever reaches the file; thread ids, which nothing depends on: two
threads may get one, but only one thread's events are stored and no analysis compares ids;
`SanitizeRun`, which compares the first event with itself and drops nothing; errors of
PAPI and LIKWID, and of the database while runs are analysed; the loop over run groups; landing
pads; remarks and printing.
