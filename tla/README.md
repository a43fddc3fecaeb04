# Praia: models and proofs of the runtime

This directory holds TLA+ models of the Praia runtime (`src/src/`), the TLC
configurations that check them on small instances, and TLAPS proofs of the
results that can be stated for every instance. `PROJECT.json` lists the runs, the
source lines each definition translates, the hazards the properties are for and
the theorems.

    tlc -workers 2 -config GcHeap.cfg MCGcHeap      # one run
    tlapm GcHeapProofs.tla                          # one set of proofs

Paths below such as `vm.cpp:3022` are relative to `src/src/` (`vm.cpp` is
`src/src/vm/vm.cpp`, files of `builtins/` are named without the directory).

## 1. The system

Praia is a dynamic language in C++. A script is lexed, parsed, compiled to
bytecode and run by a virtual machine; a tree-walking interpreter (`--tree`) is
the second engine. Memory is managed by `shared_ptr` counts plus a cycle
collector per thread. `async` runs a function on a new OS thread with a VM of its
own; threads talk through futures, queues, locks and shared maps. Grains
(modules), an HTTP client with a connection pool, signals and a plugin interface
complete the runtime.

| Component | State | Operations | Interacts with | What makes it correct |
|---|---|---|---|---|
| Cycle collector (`gc_heap.cpp`) | entries (weak pointers), node table, mark stack, held references, pins, interval | `track`, `pinValue`, `collectIfNeeded`: find what is held from outside, mark, sweep | reference counts that *all* threads change; the VM's roots | hollows only unreachable objects; no dangling pointer; garbage cycles go; counts never negative; a collection ends |
| Queue (`concurrency.cpp:62-160`) | buffer, closed flag, mutex, one condition variable | `send`, `recv`, `tryRecv`, `close` | any number of threads | no lost wakeup; FIFO; bound; close is final and releases everybody |
| Futures (`vm.cpp:34-120`, `2700-3047`, `concurrency.cpp:380-500`, `plugin_callback.cpp`) | shared futures, tracker of running tasks, promise state, a race's winner/mutex | `async`, `await`, `futures.race`/`all`, `Promise` | tasks, plugin threads, the reaper, race waiters | a dropped future never blocks; a race ends with a ready future; a promise is settled exactly once, also when abandoned |
| VM control flow (`vm.cpp`) | frames, exception handlers, deferred calls per frame slot, nested `execute()`s, generators | call, return, throw, try, defer, yield, `sys.exit`, callbacks from natives and other threads | natives, generators, posted calls | errors reach the right catch; defers run once, in order, for their own function; callbacks leave their caller alone |
| Task globals (`vm.cpp:138-300`, `1420-1560`, `2700-2800`) | a vector and a name table per VM, lazy snapshots, slot caches shared through chunks | define, get, set, `async`, `await` | the VMs of all tasks share chunks and, until copied, objects | no object in two threads; a read gives the variable named |
| Grain loader (`vm.cpp:880-1060`) | cache, load stack, imported set per VM | `use`, `export`, failure | nested VMs | a grain runs once; cycles are found; a failed import can be retried |
| HTTP session (`http.cpp:1200-1720`) | LRU list and index of idle connections, closed flag | request, take, return, close | concurrent requests, servers that hang up | one owner per connection; none leaks; nothing is pooled after close; no response mixed up; no unsafe retry |
| Lock, SharedMap, cancellation | a mutex per object, thread-local token | `acquire`, `withLock`, `update`, `cancel` | callbacks run under the mutex | a throwing callback releases it; no partial update |
| Posted calls (`vm.cpp:300-370`) | queue of callables, pending flag | `post`, `drainPosted` | plugin threads, the dispatch loop | each call runs once, in order; nothing is stranded |
| Signals (`signal_state.h`, `interpreter_setup.cpp:4180-4280`) | one atomic mask, handler table | delivery, dispatch-loop check, `checkSignals` | all threads' dispatch loops | no signal is lost or handled twice |
| Bytecode compiler, machine, tree-walker (`compiler*.cpp`, `vm.cpp`, `interpreter.cpp`) | scopes and jumps being compiled; value stack, frames, upvalues; environments | compile, run an instruction, evaluate a node | natives that call back into the program | the stack balances on every path; both engines do the same |
| Lexer, parser (`lexer.cpp`, `parser.cpp`) | place in the text, nesting depths, error flags | scan a token, parse a construct, recover | - | what is written reads back; what is accepted is legal; errors stay local |
| Values, text, formats, natives | none that outlives a call | pure translations | - | agreement with a reference definition |

**What is hard here.** Threads change reference counts while the collector reads
them; senders and receivers share a condition variable; a task's VM shares
bytecode caches with its parent while both run; `execute()` nests inside natives,
defers, generators and posted calls, and an error or `ExitSignal` may cross any of
these; a session is closed while requests are in flight; grains fail several
imports deep. These are the hazards of `PROJECT.json`, each at its line.

## 2. Plan

In order of importance. "proved" means theorems exist, "checked" that TLC runs
cover it.

1. `GcHeap` - checked, proved (`GcHeapProofs`), reclamation included.
2. `TaskQueue` with abstract `FifoQueue` - checked, proved (`TaskQueueProofs`).
3. `VmUnwind` - checked, proved (`VmUnwindInvariant`, `VmUnwindProofs`).
4. `Futures` - checked, proved (`FuturesProofs`). Left: a promise implements a
   write-once cell.
5. `TaskGlobals` - checked, proved (`TaskGlobalsProofs`).
6. `HttpSession` - checked, proved (`HttpSessionProofs`).
7. `GrainLoader` - checked, proved (`GrainLoaderProofs`).
8. `EngineLoop` with abstract `AtomicMap`: posted calls, signals, locks, shared
   maps, cancellation - checked, proved (`EngineLoopProofs`).
9. `Language`: compiler, machine and tree-walker side by side - checked. What it
   says is about recursive data and stays with TLC.
10. `Syntax`: lexer and parser against a grammar - checked; likewise.
11. Not begun: HTTP response framing, the handle tables of the plugin interface,
    process timeouts, the streaming JSON reader.

## 3. Modules and what they translate

Every module keeps the control flow of its source and reduces data to identities:
an object is a node, a message a model value, a URL its pool key.

**`GcHeap`.** Memory is nodes and slots; a slot holds one `shared_ptr` (or one raw
upvalue pointer) and belongs to an object or to a holder outside the heap (VM
stack, `allUpvalues`, pins, other threads). `UseCount` is `use_count()`. The
program's actions (`New`, `NewCallable`, `CaptureUpvalue`, `Load`, `Store`, `Drop`,
`PinValue`, ...) run only while no collection does; other threads copy and drop
their handles, and destructors run, between any two steps of a collection.
`collect()` is one action per entry, node or phase: `CollectIfNeeded`, `HoldEntry`*,
`HoldDone`, `ScanNode`*, `MarkRoots`, `MarkNode`*, `Sweep`, `Release`,
`CollectDone`. `sweep()`'s clearing is one action because nothing else of that
thread runs and other threads look into no object of this heap (see 7, first
item). History variables `doomed` and `garbage` say what a sweep judged dead and
what nobody could reach when the collection began.

**`TaskQueue`, `FifoQueue`.** One action per critical section of `send`, `recv`,
`tryRecv`, `close`. A thread whose wait predicate is false is in `asleep`;
`notify_all` empties it; a woken thread evaluates the predicate again. Spurious
wakeups are an action. `FifoQueue` is what a caller sees: put, take, shut.

**`Futures`.** One engine thread, tasks, plugin threads, race waiters and the
reaper. `Launch`/`Retain` are the two steps of `OP_ASYNC` between which the task may
already finish. A Promise has copies, an atomic `fulfilled`, and a window between
claiming and setting (`Claim`, `Settle`). `race()` is its quick check element by
element, its waiters, its mutex, its predicate and its sleep as separate steps, so
that a lost wakeup is expressible.

**`VmUnwind`.** Programs are arbitrary: whenever `execute()` is on top of the C++
stack, any instruction the compiler can emit there may come next. `frames` are slots
that are reused, as in the code, while activations have identities that are not, so
"the wrong function" can be told. `cpp` is the C++ stack of `execute`, `runDefers`,
`tryHandleError`, `unwindFramesAndRunDefers`, natives, `resumeGenerator` and
`drainPosted`. `Features` selects which constructs the program uses. The run has
native and posted callbacks, generators and `sys.exit()`. Errors take two ways:
what an instruction reports itself goes through `tryHandleError` (`Raise`); a
`RuntimeError` that leaves an instruction as a C++ exception, from an operator
method, a native decorator or `push()`, is caught outside the loop of `execute()`
(`vm.cpp:3057`), which unwinds and asks no try block (`Escape`, `CalleeFails`). The
run has the second way wherever no try block of that `execute()` is open. Off are the
constructs for which the code does not keep its promise: `operatorTry`, `overflow`,
`deferCall`, `deferLimit`, `deferExit`, `genTry`, `genDefer`, `exitTry`, `exitGen`,
each described in 7; switched on, each makes TLC show its deviation.

**`TaskGlobals`.** Two modules (a script and a grain), their VMs and the VMs of
tasks. `index`, `globals`, `snapshot` (`globalsSnapshot_`), `loaded` (`loadedMask_`)
are per VM; `cache` (`globalSlotCache`) belongs to the chunk and is shared. A value is
an object with an identity and a content; `held` are the objects a thread has had on
its stack and may mutate. `OP_DEFINE_GLOBAL` is `Define` at the script's top level and
`DefineIn` in the body of a method, which the compiler takes for top-level code
(`compiler.cpp:795`), in whatever VM runs it. `MainNames` and `GrainNames` are the
order in which the two modules' own VMs create their slots, `GrainTop` how many of the
grain's its top level has created. `LocalNames` are names that methods run by tasks
define although the task's VM has no slot for them; the run has none, because the
code does not keep its promises for them (section 7). The chunks of a module are one
chunk with one cache, so a slot cached by one function is cached for all.

**`GrainLoader`.** The stack of top levels and calls, the root VM's cache and load
stack, the imported set of each top level's VM. Errors may be raised anywhere and
caught by any frame.

**`HttpSession`.** The steps of a request between its critical sections and its
network calls: take an idle connection, open, send, read, return, close what was
displaced, follow a redirect. Servers process, answer, hang up at any time;
connections age in the pool.

**`EngineLoop`, `AtomicMap`.** Each thread has a stack of the natives it is in:
`withLock`, `update`, `withCancel`, `checkSignals`, a drain of posted calls. A frame
keeps what the native has still to do, so that a callback may end by returning or by
throwing in any of them. Between two instructions a thread drains the calls posted
to it and looks for SIGINT. Mutexes are recursive and owned; `wants` is the one a
thread waits for. `AtomicMap` is a map of which every operation is one step.

**`Ast`, `Values`, `Strings`, `Operations`, `Natives`.** The syntax tree, and what both
engines share: values, operators, text, and the built-in functions and methods. A
native that calls the program back is a resumable computation, so that each engine
makes the call in its own way.

**`Compiler`, `Machine`, `StackHeights`.** `Compiler` turns a tree into instructions;
`Machine` executes them one per step, with the value stack, frames, handlers,
upvalues and nested `execute()` calls. `StackHeights` follows every jump of a
compiled function and says how many values lie on its stack before each instruction.

**`TreeWalker`, `Engines`, `Language`.** `TreeWalker` evaluates the same trees as
`interpreter.cpp` does. `Engines` names the two ways to run a program, `Language`
compares them. `LanguagePrograms`, `NativePrograms` and `ExitPrograms` are the
programs: every construct, every built-in function with legal and illegal arguments,
and every pair of nested constructs left by every exit (`MCLanguage`).

**`Tokens`, `Lexer`, `Parser`; `Spelling`, `Grammar`, `WellFormed`; `Syntax`.** The first
three translate the code. The second three are the reference, written without a look
at how the code goes about it: how tokens are spelled, how a tree is written, what
holds of an accepted tree. `Syntax` is a programmer who edits a text token by token.

## 4. Runs

A run names either an `MC` module, which defines the sets it needs, or the component
itself.

| Run | States | Shows |
|---|---|---|
| `gc` | 468k | one container, one closure and its upvalue cell, two stack slots, a pin, two handles of other threads: nothing dangles, counts stay non-negative, only unreachable objects are hollowed, cycles are reclaimed, every step of a collection makes progress |
| `queue` | 37k | `Queue(2)` and three threads: nobody sleeps who could go on, refinement of `FifoQueue`, close releases every blocked call, a pending value reaches a blocked receiver |
| `futures` | 180k | two tasks, a promise with two copies, await and race: dropping never blocks, outcomes are final, a race ends, the tracker drains |
| `unwind` | 3.4M | programs of up to five activations, two tries, two defers, a generator with one yield, native and posted callbacks, operator methods that fail where no try is open, `sys.exit`, with the frame limit reached |
| `tasks` | 561k | a script, a grain, two tasks (one may spawn the other), globals defined while tasks run, at top level and by methods; tasks create no slots |
| `engine` | 656k | a main thread and a task, a lock and a shared map, one token, two signals, calls posted while they run |
| `grains` | 1.46M | three grains that import each other in any order and one that cannot be read |
| `session` | 465k | two concurrent requests with one redirect each, two keys, a pool of one, close at any time |
| `language` | 68k | each program of the three modules on both engines, instruction by instruction |
| `syntax` | 3.5k | sixteen texts with every construct, every edit of one token or line break; trees of every pair of operators |
| `task_late_global`, `language_methods` | - | the findings of section 6: TLC prints a behaviour of the code that contradicts the documentation or a comment |

**Bounds.** `gc`: `MaxAllocs` 2 lets a collection be due twice between safepoints,
and an interval limit of 2 exercises both ends of the tuning; one container
suffices for self-cycles and for the cycle container - closure - cell, two handles for
a copy made while the first is dropped. Larger heaps are the proofs' business.
`queue`: capacity 2 and three threads are the least with two senders blocked on a
full queue while a third thread receives, and with an order to get wrong; three sends
fill the queue and block one more. `futures`: two tasks and a promise let a race have
a loser; a waiter left over from an earlier race may still be running.
`unwind`: four frames hold a caller, a callee, a defer of it and the limit; five
activations let one more function run in a slot that was used before; two tries
and two defers are needed for order and for a handler of the wrong frame. `tasks`:
`MaxObj` 4 is one value per global plus two copies. `engine`: a callback nests one
scope in another (`MaxDepth` 2), and three events (posted calls and signals) let one
arrive while another is being handled. `session`: three connections are
in use, pooled and being closed at the same time; a pool of one makes every return of
another key an eviction. `language`: `MaxFrames` and `MaxDepth` are above what the
programs use unless they recurse without end; numbers are integers up to `MaxInt`.

**Deadlock** is checked for `unwind` and `language`, whose programs always go on or
have ended. Elsewhere stopping is legitimate: nobody must allocate, send, spawn, post
or request. Threads of `engine` that wait for each other are the business of
`NoWaitCycle`: there is no nonempty set of threads each of which waits for a mutex
that another of the set owns. The programs of the run take different mutexes in one
order (`Disciplined`), so there it is about a thread that enters the same one again;
programs that keep no order deadlock.

**Symmetry** is used for stack slots and handles (`gc`), tasks (`tasks`) and
connections (`session`), whose identities no action or property names; not in the runs
with liveness properties.

**Fairness.** `queue`: a woken thread eventually re-enters (`WF` of `Resume(t)` per
thread: the mutex is held for short critical sections only, and the OS schedules
every thread); no call is obliged to be made. `futures`: the engine and each waiter
run when they can, the reaper's five-second timer fires, a claimed promise is set by
the copy that claimed it; `SF` for `Signal(f)`, because the mutex it needs is taken
again and again by the engine, and a mutex implementation lets a contender in
eventually. No task is obliged to end. `language`: the dispatch loop goes on as long
as there is an instruction (`WF` of the machine's `Next`). The collector and the
session have no liveness property under fairness: instead `CollectionAdvances` and
`CallsAdvance` say that every step brings the end nearer.

**Mutants.** Every property of every passing run has a definition next to the one it
distorts (`Pop_Lifo`, `Raise_NoFloor`, ...), under which the run finds the property
violated; `PROJECT.json` pairs them.

## 5. Proofs

All theorems hold for every value of the constants that satisfies the named
assumptions.

**`GcHeapProofs`** (any finite heap, any number of threads). Assumptions:
`NodeAssumption`, `SlotAssumption` (finite sets, kinds of slots are disjoint, only
callables have borrowed or opaque slots), `ThresholdAssumption`.
`SweptUnreachable` is not inductive: it needs to know why the external counts
are trustworthy although other threads change the real ones while they are read.
The argument, `GcHeap!IInv`:

- `CountsCover`: a node's table count is at least the number of references still to
  be subtracted (`Pending`), and strictly more while somebody outside holds it
  (`Outside`). A thread can make the count too high by dropping a handle after it was
  read, never too low: a handle can be copied only from a handle, so a node that is
  held from outside was so when its count was read.
- `SkippedDead`: an entry that could not be locked never comes back.
- `KnownKept`: nothing in the node table dies before the sweep, so no count is of a
  reused object.
- `MarkClosed`: the tri-colour invariant, with everything held from outside marked.
- `DeadEmpty`, `CellsOwned`, `PhaseLocals`: structure.

From it: `TypeCorrect`, `MemorySafe` (`NoDangling`), `SweepSafe`
(`SweptUnreachable`), `CountsNeverNegative` (`NoMiscount`, the assertion of the
stress mode), and `Advancing` (`CollectionAdvances`).

`GarbageReclaimed` (`CyclesReclaimed`) needs an invariant of its own, `Reclaims`, and
the hypothesis `OpaqueSlots = {}`: captures the collector does not enumerate (those
of native functions) count as held from outside, so cycles through them stay.

- `GarbageApart`, `GarbageKept`: what nobody could reach when the collection began is
  referenced by such objects and upvalue cells only, and lives until the sweep, so
  nobody can copy a reference to it and make its count wrong.
- `ScanClosed`, `CountsExact`: the scan reaches every reference to garbage, and counts
  of garbage are not merely bounds but exact.
- `MarkedFromCells`, `CellsMarked`: marking reaches garbage from upvalue cells only.
- `SweptEmpty`, `NoCallableCycle`: a sweep empties the containers, and callables, whose
  captures are older than they are, cannot keep each other alive; so counts destroy
  the rest.

**`TaskQueueProofs`** (any threads, values, capacity; `CapacityAssumption`).
`IInv` is the conjunction of type and safety invariants. The interesting part is
`SleepersBlocked`: every critical section that changes the buffer or the flag empties
`asleep`, and those that do not leave the predicates alone. Theorems `NoLostWakeup`,
`CapacityHolds`, `OrderKept`, `NilEnds`, `CloseIsFinal`, and `QueueIsFifo`: the queue
implements `FifoQueue` with the identity on buffer and flag.

**`FuturesProofs`** (any tasks, promises, copies). `IInv` adds to the types what a
promise's state says of its copies (`PromiseOK`), what the engine's place says of the
future it works on (`AtFuture`), who holds a race's mutex (`MutexOK`) and what its
waiters may have done (`WaitersOK`); with these `DropNeverBlocks` and `NoLostWakeup`
are inductive. Theorems: `DiscardsAreFree` (`DropNeverBlocks`), `OutcomesAreFinal`
(`OutcomeFinal`), `RaceHandsOutReady`, `WakeupsArrive` (the safety half of
`RaceEnds`), `PendingHasCopy`.

**`VmUnwindProofs`** (any program, frame limit, depth of nesting;
`FeatureAssumption`, `BoundAssumption`). Every theorem has the hypothesis `Plain`:
the program is built from the constructs the run has (native and posted callbacks,
generators, `sys.exit()`, besides calls, `try`, `throw` and `defer`), and no error
leaves an instruction as a C++ exception while a try block of its `execute()` is open,
or by an overflow of the value stack. Each of the others breaks one of the promises
(section 7), so without it they do not all hold. `DefersExact` is about starting the
defers: what they do is up to them.
None of the three properties is inductive: they relate the frames, the handlers and
the C++ stack, and what one instruction may do depends on all of them. `IInv`, in
`VmUnwindInvariant`, says, in the order of that module:

- `Nested`, `Reported`: which record of the C++ stack lies on which, and what has
  just been reported to the one on top.
- `MarksRise`, `MarksHold`, `TopFrames`, `EndsStop`: each record that waits marks a
  frame count, the marks rise, the frames below them exist, and what unwinds stops
  above the mark below it.
- `Live`, `DeferFrames`, `OneGenerator`, `Resumes`: a frame in use is an activation of
  its own that has not ended; deferred calls and the generator have the frame above
  the mark of what started them.
- `HandlersLive`, `HandlersRise`, `OpenHandled`, `FloorsExact`, `CallersKept`:
  handlers lie in strict order of frame and depth, every open try block has exactly
  one (or an error is on its way to it), and the handlers below an `execute()`'s floor
  are those of the frames below its mark.
- `EndsClosed`, `OverClosed`, `DeferOpens`, `ExitsFree`, `LastSlot`: no try block is
  open in what an error or an exit is about to end.
- `ListsExact`, `TodosExact`, `NoneLost`, `StartedEnds`, `DefersLifo`: a defer that has
  not started is in the list of the frame that registered it or in the list being run,
  oldest first, and one that has started belongs to a frame about to end.

The step is proved once per action. What all instructions have in common is stated
once: an instruction of the `execute()` at `m` leaves everything below `m` as it is
(`Kept(m)`), and then every conjunct holds below `m`; each action has to show only
what is at `m` and above. Calls, returns, catches, unwinding and deferred calls have
such a split of their own. Theorems: `UnwindTypes`, `CatchesInOwner` (`CatchInOwner`),
`DefersRunExactly` (`DefersExact`), `CallersStay` (`CallerUntouched`) and
`NoneResurrected` (`NoResurrection`).

**`TaskGlobalsProofs`** (any tasks, globals, nesting of spawns). `NothingShared` has
two hypotheses, both necessary (section 7): every value is of a kind
`deepCopyForTask` copies (`SharedNames = {}`), and only the script awaits. The
inductive invariant gives each object an owner: `Owned(v)` are the objects on a
thread's stack and in its globals, the script owning the grain's and finished tasks'
results as well; `OwnedApart` says these sets are disjoint. Snapshots own nothing. All
actions but `Finish` give one thread at most a new object (`GivesNew`), and `Finish`
hands over (`HandsOver`).

`FunctionsReadTheirGlobals` (`ReadsItsVariable`) and `AssignmentsStick`
(`ReadYourWrites`) assume that tasks call functions of their own module
(`SelfCalls`) and create no slots (`LocalNames = {}`), without which they fail
(section 7). The invariant `Resolved` says that
every slot an index or a chunk's cache holds for a name is the slot of the module's
layout, and that what a VM sees in a slot, loaded or in its snapshot, is a value of
that variable. `SlotsInRange` (`InRange`, the property `task_late_global` shows
violated) assumes in addition that tasks are spawned only once the script's and the
grain's VM have created all their globals: then all vectors of a module have the same
length (`SameLengths`). `NothingShared` needs none of these.

**`EngineLoopProofs`** (any threads, mutexes, keys, signals, any program of them).
`IInv`: types and shapes of the frames, a mutex is held as often as the natives in
progress took it (`ScopesExact`), what each `withCancel` will restore is what was in
force when it began (`Restores`), posted calls are in one place each and only in
frames of the engine (`PostedExact`, `PostedHere`). Theorems without hypotheses:
`ScopesBalance`, `PostedCallsKept`. With them, each violated without its hypothesis
(section 7):

- `MapIsAtomic` (`ImplementsAtomicMap`): no posted call changes the map. The value an
  `update()` has read is then still there when its function ends.
- `NoDeadlock` (`NoWaitCycle`): programs take mutexes in an order, and a posted call
  takes at most the last one. Every waiting thread's mutex is then above all it
  holds, so a set of threads that wait for each other would have no highest one.
- `SignalsReachHandlers` (`HandlersRun`): handlers do not throw.

**`GrainLoaderProofs`** (any grains, any depth). `IInv`: the nearest top level at or
below a frame is the VM whose import set it uses (`Shape`); a grain imported but not
cached is the one whose top level that VM runs now (`ImportsRun`), so the guard of a
failed import forgets it at the right place; a grain is cached once it has finished
and not while it loads (`CacheExact`). Theorems: `LoadingIsExact` (`LoadingExact`) and
`ImportsEnd`: no chain of imports is longer than there are grains.

**`HttpSessionProofs`** (any requests, keys, connections, pool size, redirects).
`ConnectionsExact`, `PoolExact` and `OwnResponse` are inductive with what a request's
place says of what it holds (`Held`), what an idle connection belongs to
(`PooledPeer`) and what lies on the wire (`WireOwned`); `NoDoubleCommit` with where a
request is that a server has processed (`Committed`, `AttemptsBounded`). Theorems:
`ConnectionsHaveOneOwner`, `PoolStaysExact`, `ResponsesMatch`, `CommitsOnce`,
`CallsOnlyAdvance` (`CallsAdvance`) and `CallsAreShort`, the bound that makes the
former an argument for termination.

**Only model-checked.**

- Liveness under fairness (`CloseReleasesAll`, `ValuesDelivered`, `RaceEnds`,
  `TrackerDrains`, `Terminates`), which this prover cannot do; nor `ENABLED`.
- The properties of `language` and `syntax`: they are about trees, programs and texts,
  what recursive operators compute of them, and would be inductions over data.

## 6. Findings

Each has a run in which TLC shows the behaviour; both were reproduced with the built
program.

- `task_late_global`: a global defined after `async` gets a slot that the task's
  vectors do not have, and the shared cache makes the task index past them
  (`vm.cpp:1457`), although the comment at 2748 says numbering matches.
- `language_methods`: a `let` in the body of a method defines a global on the VM
  (`compiler.cpp:795` compiles the body with scope depth 0) and a local in the
  tree-walker, although DOCUMENTATION.md:6506 says both engines support the full
  language.

## 7. Other deviations, without a run of their own

Places where the code does something else than its documentation, its comments or its
other engine say. The feature or constant named makes TLC show the deviation; those
marked (b) were reproduced with the built program.

**Collector.**
- `allUpvalues` is never pruned and all of it is marked (`vm.cpp:3098`), so what a
  closure ever captured is never collected, although DOCUMENTATION.md:6186-6199
  lists the pattern as handled (b). `CyclesReclaimed` excepts what cells keep.
- A task that holds an object the collector's thread also holds (a set, a tagged
  value: kinds `deepCopyForTask` shares) can read a reference out of it after its count
  was read (`gc_heap.cpp:433`). `GcHeap!ReadingSpec` adds such reads; under it
  `SweptUnreachable` fails.

**Control flow of the VM.**
- `runDefers` computes the base of the nested `execute()` after pushing the deferred
  closure's frame (`vm.cpp:782`); the first function that the deferred expression
  calls ends it: `defer log(bar())` never calls `log` (DOCUMENTATION.md:1112; feature
  `deferCall`) (b).
- A defer that starts with the frame stack full is handled by a try of the
  enclosing `execute()` (`vm.cpp:781`; `deferLimit`).
- A generator that yields inside try leaves its handler behind, one that yields
  after a defer its deferred calls: the next function in that frame slot runs them
  (`vm.cpp:3022`; `genTry`, `genDefer`) (b).
- `sys.exit()` inside a defer drops the remaining defers of that frame (`vm.cpp:791`;
  `deferExit`).
- `sys.exit()` inside a try leaves its handler on the stack (`vm.cpp:3050`). A native
  called by one of the defers that then run may pop the handler, and with it the floor
  of that defer's own `execute()`, whose next error is not caught any more
  (`exitTry`; the comment of `VMScope` says that outer handlers must not be consumed)
  (b).
- `sys.exit()` inside a generator leaves it the current one (`vm.cpp:456`): a function
  that a defer then calls in the same slot is taken for the generator when it returns
  (`exitGen`); the tree-walker reports "Generator failed" instead (b).
- `resumeGenerator` does not compare with `FRAMES_MAX` (`vm.cpp:428`).
- An error thrown by an operator method (`vm.cpp:101-122`, called from 1198-1413), or
  by a decorator of a method (1954), is not caught by a try in the function that uses
  the operator, although DOCUMENTATION.md:1001 says that try catches every error: it leaves the
  instruction as a C++ exception, and `vm.cpp:3057-3063` unwinds past every open try
  block and leaves their handlers behind. With `operatorTry`, `CatchInOwner` and
  `CallerUntouched` fail; over the bounds of the run `DefersExact` holds. The built
  program ends without printing anything, or crashes when a native called back into
  the function, where the tree-walker catches the error (b).
- `push()` on a full value stack forgets all frames, and so their defers, before it
  throws (`vm.cpp:392-400`, 417); a caller of a callback then finds none of its own.
  With `overflow` all three properties fail.

**Tasks.**
- In a task all chunks resolve in the task's own vector (`vm.cpp:1449`), so a grain's
  function called from a script's task reads the script's variable (`Calls` with a
  pair of different modules; `ReadsItsVariable`) (b).
- A task's lazy copy of a global sees what the parent did to the object after the
  spawn (`vm.cpp:238`; `SnapshotIsolated`). Closures copied for a task share their
  upvalues, and other kinds are shared (`vm.cpp:148`, `196`; `SharedNames`). Two
  threads that await one task get the same object (`vm.cpp:3039`; `Awaiters`).

- A `let`, `func` or `class` in the body of a method that a task runs creates a slot in
  the task's VM (`vm.cpp:1443`, `vm.h:207`) and caches its number in the chunk that all
  VMs share. Two tasks give different names the same number, so one that then runs the
  other's method stores into another variable; a VM that has no such slot indexes past
  its vectors. All globals defined before, and all calls within one module, does not
  help: with names in `LocalNames`, `ReadYourWrites`, `ReadsItsVariable` and `InRange`
  fail. Three tasks that run two such methods one after the other corrupt the built
  program's heap (b).

**Grains.** A grain's function that contains `use` is refused as a duplicate when the
calling file imported the same grain (`vm.cpp:903`; `DuplicateInSameFile`).

**HTTP session.** The retry takes from the pool again, so a request may use up both
attempts on stale connections; the comment at `http.cpp:1590-1646` says "Unreachable"
(`RetrySuffices`). An interim response (1xx) is taken for the response and its
connection pooled (`http.cpp:2056-2115`).

**Locks, shared maps, posted calls, signals.**
- `update()` calls its function on the stored object (`concurrency.cpp:368`): a function
  that changes it and throws leaves the change.
- A posted call that writes to a shared map can do so in the middle of the engine's
  own `update()`, and one that takes a mutex out of order can deadlock: with such
  operations in `PostedOps`, `ImplementsAtomicMap` and `NoWaitCycle` fail. It runs
  under the cancellation token of the code it interrupts.
- A handler that throws drops the rest of the signals taken with it
  (`interpreter_setup.cpp:4257`, which takes the whole mask first; `HandlersThrow`).
- The VM's dispatch loop clears a pending SIGINT even when a handler is registered
  (`vm.cpp:1161`), so a handler of `sys.onSignal("SIGINT", ...)` is never run by
  `sys.checkSignals()` (DOCUMENTATION.md:2483; `SigintHandlerRuns` with
  `SignalProgram`). `checkSignals` drops a SIGINT without a handler, one Ctrl+C may
  interrupt two threads, and `sys.onSignal("SIGINT", nil)` installs the default action.
- A nested drain of posted calls overtakes the rest of the outer batch (`vm.cpp:329`).

**Compiler and machine against the tree-walker.** The programs of `language` stay clear
of these, or the run `language_methods` shows them.
- `break` and `continue` in a `finally` body that is inlined because a `return` leaves
  the `try` from within an inner loop is compiled against that inner loop
  (`compiler.cpp:708` and `720` take `current->loops.back()`, which
  `emitFinallyUnwind` at 685 does not restore): the body runs twice and the second
  pass removes a handler of the caller.
- A caught error cuts the stack back to its handler without closing the upvalues
  above it when handler and error are in one frame (`vm.cpp:847`): a closure that
  captured a local of the `try` body then reads whatever the slot holds next.
- `break` or `continue` in a match arm that is an operand leaves operands on the stack
  (`compiler.cpp:668-674`; DOCUMENTATION.md:1315), and a match arm that binds a name
  fails when it is an operand (DOCUMENTATION.md:971) (b).
- `return` in `init` replaces the instance (`compiler.cpp:832`; DOCUMENTATION.md:1788);
  named arguments and spreads to constructors are ignored (`compiler_expr.cpp:198-203`;
  DOCUMENTATION.md:1428); an enum value is cast to a number without a test (`compiler.cpp:898`) (b).
- `for` over a value that cannot be walked is skipped silently; destructuring out of
  range is an error where the tree-walker gives nil; `5?.foo` is nil, an error there;
  an explicit nil for a parameter with a default is replaced by it (b).
- Generators: parameters with defaults and rest parameters do not work, closures lose
  captured locals after a `yield`, and a method cannot be one in either engine (b).
- Callbacks of natives: a thrown value arrives as an `Error` with its text
  (`vm_natives.cpp:25-29`), `map([1, 2], Class)` makes instances without `init`
  (`vm_natives.cpp:50`), the tree-walker passes explicit nil for missing arguments and
  so no default is taken (`builtins.h:44-62`), and the VM calls a native callback
  without a test of its arity (`vm_natives.cpp:46`) (b).
- Of the tree-walker: a default argument that throws leaves the callee's environment
  in place (`interpreter_callables.cpp:105-118`); a failing call leaves its frame on
  the call stack, which `|?>` and the errors of defers never reset, so 256 of them
  are a stack overflow (`interpreter.cpp:180-230`, `1510-1545`; DOCUMENTATION.md:2622);
  a binding tag pattern evaluates the pattern as a call when the value has no tag; a
  `break` in a function inside a loop stops the program silently (b).

**Lexer and parser.**
- Integer literals are read with base 0 (`parser.cpp:1297`): `010` is 8, `08` is 0
  (DOCUMENTATION.md:230-254); based literals skip the test of their underscores; a
  literal out of range is reported and read as 0 (b).
- The tokens of an interpolation carry the line on which it ends
  (`lexer.cpp:368-373`); an unterminated triple-quoted string and unknown escapes in
  one are accepted; interpolation does not nest with the same quotes or with block
  comments (b).
- `& ^ |` bind more loosely than comparisons (`parser.cpp:988-1070`), while
  DOCUMENTATION.md:6078-6096 lists them the other way round. A newline only separates
  statements: `return`, newline, `x` returns x. `a ? [b] : c` reads as an optional
  index; assignment to `a?.b` loses the question mark. A decorated function in the
  body of a method leaks its decorator (`parser.cpp:281-284`). Errors do not restore
  the nesting depths. `break` in a lambda in a loop is accepted and then refused by
  the compiler.

## 8. Not modelled

Section 2 lists what is planned. Not planned: sockets and TLS, files, processes,
cryptography, data formats and Unicode conversions, which are calls of system
libraries or sequential functions of one value; fibers of the tree-walker's
generators; the REPL and the command line; error texts; the standard library grains,
which are Praia programs. Within the modelled components: the collector's stress mode
and hash-table layout, nesting inside values copied for tasks, the resolution of grain
paths, contents of HTTP messages, servers that send on idle connections, and the
stateless HTTP client; of the language, bitwise operators, floating-point arithmetic,
pattern methods of strings, escapes by number, builds without utf8proc, the hash
function, containers as keys, callbacks that change the length of the array being
walked, and generators, tasks and imports inside `Machine` (they have modules of their
own).
