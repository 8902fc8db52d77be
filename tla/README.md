# A verification project for Flux

Flux is a scripting language implemented in C: a lexer, parser and compiler
produce bytecode, a virtual machine interprets it, a mark-and-sweep collector
reclaims its objects, a coroutine scheduler on top of libuv runs `async` code,
and two kinds of thread pools run shell commands and Flux functions on OS
threads. This directory holds TLA+ models of those parts, TLC configurations
that check them on small instances, and TLAPS proofs about them.

Paths below are relative to the repository (`src/vm/vm.c`, `stdlib/...`).
`PROJECT.json` maps every definition to the lines it models.

## 1. Inventory

| Component | Where | State it keeps | Operations |
|---|---|---|---|
| Coroutine scheduler | `src/vm/vm.c` 245-602, OP_SPAWN_CALL, OP_YIELD, OP_AWAIT | ready queue, current coroutine, `io_futures`, `pending_io_count`; per coroutine its saved stack, `awaited_by`, gather membership; per future `resolved`, `waiting`, gather slots | spawn, yield, await (from a coroutine, from the main script), return, gather, register / complete a future, drain |
| async natives | `stdlib/aio/async_ext.c`, `stdlib/async/async_ext.c` | libuv requests that point to futures | sleep, read_file, write_file, gather, create_task, their callbacks |
| Shell thread pool | `stdlib/thread/thread_module.c` | per pool: task queue, completion queue, counters, flags, uv_async handle; global table of pools and of mutexes | pool, submit, map, cancel_pending, shutdown(wait), counters, mutex natives, worker loop, completion callback |
| Callable thread pool | `extension/concurrent/` | task queue, worker VMs, futures with their own mutex | ThreadPoolExecutor, submit, result, done, exception, shutdown |
| Interpreter | `src/vm/vm.c` | value stack, call frames, open upvalues, exception handlers, error flags | calls, closures, try / catch / finally, generators, `vm_invoke` |
| Collector | `src/gc/gc.c` | object list, marks, grey stack, byte count | mark roots, trace, sweep the string table and the heap |
| Objects, tables | `src/object/object.c` | dictionaries with tombstones, intern table | get, set, delete, grow, intern |
| Modules | `src/vm/vm.c` (do_import) | module cache, import stack, import directories | import, load an extension |
| Front end | `src/lexer`, `src/parser`, `src/compiler` | indentation stack, tokens, scopes, loop contexts, chunk | tokenize, parse, compile |
| C API, REPL, CLI | `src/api/api.c`, `src/main.c`, `src/tools` | one VM over many scripts | eval, execute, destroy, fmt, lint, build |
| Other extensions | `extension/http`, `ws`, `mysql`, `postgresql`, `stdlib/socket` ... | sockets, connections | I/O |

How they interact:

* The main script, every coroutine and every libuv callback share one OS thread
  and one value stack; control changes hands at `await`, `yield`, return and
  inside `uv_run`. A coroutine that suspends copies its part of the stack away.
* A native starts a libuv request and registers a future; the callback completes
  the future, which pushes the result on the stack of the waiting coroutine and
  queues it.
* Workers of the shell pool never touch the VM: a result goes through the
  completion queue and `uv_async_send` to `on_completions` on the main thread,
  which completes the future.
* Workers of the callable pool each own a VM that shares the globals of the main
  VM; the caller blocks its thread in `future.result()`.

* The lexer gives the parser one token at a time, the parser gives the compiler a
  tree, and the machine gets the chunk of the script when all of it is compiled.
* C code that calls a function of the program (a generator, a hook, `map`) runs
  another `vm_run` on the same stack, frames and handlers.
* Every allocation may run the collector, whose roots are the stack, the frames
  and the queues of the scheduler as they are in the middle of that opcode. The
  intern table is no root: sweeping takes dead strings out of it.

Behaviours that are hard to test: the order of completions; a waiter registered
in a single pointer; the counter that decides when the program ends; a failing
script in the REPL; destruction with requests in flight; the hand-over of a pool
that is shut down without waiting; failing allocations half-way; early exits through
nested statements; exceptions through nested runs of the VM; a collection at any
allocation; long histories of insertions and removals. Each is listed
in `PROJECT.json` under `hazards` with its line.

What makes each component correct:

* *Scheduler.* Who awaits something is woken exactly once, by its completion,
  with its result; nothing is queued twice; the pending counter is exact, so the
  drain ends exactly when nothing can move.
* *Shell pool.* Every accepted task is in one place until it is answered once;
  no wake-up of a worker or of the loop is lost; memory outlives its users.
* *Callable pool.* Every submitted function resolves its future once; results
  and exceptions reach the caller; shutdown runs what was queued.
* *Front end.* The tree is the one the text was written from, whatever the
  indentation and the operators; indents and dedents balance.
* *Compiler.* However an instruction is reached, the stack has one height and the
  same handlers are open; every way out of a statement runs its finally and its
  `__exit__` once.
* *Interpreter.* A program prints and raises what its syntax tree means. A
  handler is run by the activation that installed it; captured variables keep
  their identity.
* *Collector.* Nothing reachable is freed, everything else is. *Tables.* A table
  is the map of what was set and not deleted, and a search in it ends; equal
  strings are one object.

## 2. Modules

| Module | Models | Status |
|---|---|---|
| `Scheduler` | coroutines, futures, main script, event loop, REPL, destruction | checked, proved |
| `AwaitPromise` | abstract: what `await` promises | refined by `Scheduler` |
| `SchedulerProofs` | theorems about `Scheduler`; lemmas about queues in `QueueLemmas` | proved |
| `ShellPool` | one pool of `import thread`, from creation to free | checked, proved in `ShellPoolProofs` |
| `CallablePool` | one `ThreadPoolExecutor`, from creation to free | checked, proved in `CallablePoolProofs` |
| `TaskPool` | abstract: what a pool promises | refined by `ShellPool` and `CallablePool` |
| `Ast` | tokens and nodes, shared by the next three | |
| `Lexer` | the indentation-aware lexer, one action per call of `lexer_next` | checked in `Pipeline`, proved in `LexerProofs` |
| `Parser` | the recursive-descent parser, as operators over tokens | checked in `Pipeline` |
| `Compiler` | the compiler, as operators that thread the Compiler struct | checked in `Pipeline` |
| `Values`, `Builtins` | operations on values, natives and methods | used by `Machine` and `Reference` |
| `Machine` | the bytecode interpreter with nested `vm_run` | checked in `Pipeline`, proved in `MachineProofs` |
| `Pipeline` | `compile_and_run`: the composition of the above | checked |
| `Printer` | specification: the text of a tree, with no needless parentheses | `ParsesBack` |
| `Reference` | specification: what a tree means | `RunsAsWritten` |
| `StackShape` | specification: heights, handlers and captured slots at every instruction | hypothesis of `MachineProofs` |
| `StackWalk` | finds them in compiled code | `StackDiscipline` |
| `Corpus`, `Samples` | the programs | |
| `Heap` | strings, dicts, intern table, collector | checked, proved in `HeapProofs` |
| `ObjectStore` | abstract: strings and maps in endless memory | refined by `Heap`, proved in `StoreProofs` |
| `MCScheduler`, `MCShellPool`, `MCCallablePool`, `MCPipeline`, `MCHeap` | instances for TLC | |

### Scheduler

One step is what runs between two points where control can change hands. A value
is represented by its origin: the result of `x` *is* `x`. So `delivered[c]`, the
results pushed on the saved stack of `c`, can be compared with `awaiting[c]`, the
handle the saved instruction pointer of `c` stands behind: `ResumesWithItsAnswer`
says they agree.

| Code | Model |
|---|---|
| `OP_SPAWN_CALL`, `OP_CREATE_TASK`, `spawn_async_closure` | `Spawn` |
| `aio.sleep` / `read_file` / `write_file` and their callbacks | `StartIo`, `UvCallback` |
| `vm_gather_create` | `Gather` |
| `OP_YIELD`, `OP_AWAIT` in a coroutine | `Yield`, `AwaitFuture`, `AwaitCoro` |
| `OP_AWAIT` in the main script | `MainAwait`, `RunStep`, `UvEnter`, `MainAwaitEnds` |
| `vm_scheduler_run_step` | `RunStep` up to the resume, `Return` and `Abandon` after it |
| `vm_scheduler_run` | `MainReturns`, `RunStep`, `UvEnter`, `DrainEnds` |
| `uv_run(UV_RUN_ONCE)` | `UvEnter`, one or more `UvCallback`, `UvLeave`; `UvReturnsAtOnce` |
| uncaught errors, `has_error`, `has_exception` | `Fail`, `NativeReturns` |
| REPL, `vm_destroy` | `NextScript`, `Destroy` |

`await` on a completed handle changes nothing of this state and is a stutter.
Left out: `await` on closures and instances, generators, allocation failures
inside natives, and native functions that call back into the VM. Scripts install
no exception handlers, so an error always unwinds to the top; and no other handle
(an open thread pool) keeps the libuv loop alive.

### ShellPool

Threads interleave at their locks, atomic counters and reads of plain fields:
`worker_thread` is split at each of these, and the main thread at the points of
`shutdown` and `on_completions` where it has released a lock. Futures are touched
by the main thread only, so completing them belongs to the step that takes the
task. A `uv_async_send` sets one pending flag, however many there are, and is
ignored once the handle is closed. After `free(pool)` the plain field `detached`
reads as either value. `thread.map` is a sequence of `Submit`; the counters
`pending_count` and `active_count` only read what `TaskAccounted` constrains.
Left out: the table of pool ids, the mutex natives, failure of thread creation.

### CallablePool

Again one step per lock region: `worker_fn` takes a task, or sleeps on
`work_cond`, or stops; `conc_future_resolve` ends a task and wakes everybody who
sleeps in `future.result()`. A running function is a sequence of `Submit`,
`Result` (only when it has to sleep: otherwise nothing changes), `Raise`, `Catch`
and finally `Finish`; the main script does the first two and `Shutdown`.
`errorFlag` stands for `has_error` and `has_exception` of a worker's VM;
`outcome` is what the function itself did, kept beside it so that the two can be
compared. `StartWorker` and `StartFails` are the loop of `conc_pool_new` and its
roll-back; `Joined` is the end of `conc_pool_shutdown` with `conc_pool_free`.

Three assumptions about scripts, none of them enforced by the code: a function
asks only for results of tasks it submitted itself (one that reaches its own
future through a global waits for ever), only the main script calls
`shutdown()`, and nobody uses an executor after that (the dictionary keeps a
pointer to freed memory). Left out: the copy of values between VMs, the list
`gc_roots`, failing allocations, `done()` and `exception()`, which only read.

### Pipeline

A behaviour is one program: its text is made from its tree by `Printer`, then
lexed, parsed, compiled and run. The state of each stage is the struct of the C
code: `lex` (Lexer), `parser` (the position and the statements so far), `compiler`
(Compiler with its frames), `code` (the functions) and `vm`.

| Code | Model |
|---|---|
| `lexer_next`, `push_pending`, `pop_pending` | the actions of `Lexer`: tokens, the line start with INDENT / DEDENT, the end of the text |
| `parse_*` | one operator each in `Parser`; `ParseStatement` is one turn of `parse_module` |
| `compile_node`, `compile_expr` | one operator per case in `Compiler`; `emit_try_unwind`, `scope_end`, `resolve_upvalue` and the hoisting of locals are operators of their own |
| `vm_run`, one `case` each | one action per group of opcodes in `Machine` |
| `flux_handle_exception`, `HANDLE_NESTED_ERROR`, `vm_reset_stack` | the actions of `Machine` for an exception; a return to a frame that is not there any more has the status `crashed` |
| `vm_invoke`, generators, `on_get` and other hooks, `map` / `filter` / `reduce` | an entry of `vm.runs`, the C stack |
| `compile_and_run` | `Pipeline` |

What is abstracted: an instruction is one cell, so a jump is an index; names and
strings are opaque; numbers are integers; the constant pool is in the operands.
Left out: floats, bit operations, string methods, error recovery of the parser,
type annotations, modules, coroutines (in `Scheduler`), the debugger, the limits
on constants, locals and jump distances. Where a program goes on with something
left out (an async closure, a native given to `map`), the machine gets the status
`left out` and stops; no program of the corpus does.

`Printer` and `Reference` are the other side of the comparison and know nothing
of bytecode, stack or handlers. They are written from docs/03 to docs/18, the table of
docs/35 and the tests of the language. These documents contradict the code, and
at times each other, on what some operators, natives and forms are: `map` with
the list first, `__enter__` and `__exit__`, members of an enum, `is` as equality,
lists compared deeply, the ternary `c ? x : y`, and others that section 5 lists.
There `Printer` and `Reference` follow the code and its tests, and take what a
native does from `Builtins`, as the machine does. `RunsAsWritten` therefore does
not say that such a document is right. It says that what a statement or an
expression means is not changed by its translation: by jumps, inlined exits,
locals, upvalues, frames and handlers. `StackShape` says when bytecode is sound
without running it.

The programs of `Corpus` and `Samples` stay away from constructs that the
compiler or the machine gets wrong (section 5): a taken `elif` with a branch
after it, `break` out of a `match`, an exception that leaves a catch body through
a nested statement (`SkipsFinally`), locals first assigned inside a `try`, a
finally that declares locals, `while` loops with `let`, the 65th `break` of a
loop, a function with a `return` statement defined inside `try`, more than three
blocks open at the end of the text.

### Heap

An address holds a string, a dict or nothing. The collector is three kinds of
steps between the request for an object and its allocation: the roots, one grey
object at a time in any order, the sweep. `strings` and every dict are the slot
arrays of the code: probing, tombstones, reuse of tombstones, growth.

| Code | Model |
|---|---|
| `object_string_copy`, OP_CREATE_DICT | `String`, `CreateDict`, then `Allocate` |
| `gc_alloc_object`, `mark_roots` | `Allocating`, `CollectOrNot` |
| `trace_references`, `blacken_object`, `sweep` | `Blacken`, `References`, `Sweep` |
| `string_table_find`, `_set`, `_grow`, `_remove` | the operators of the same names |
| `dict_find_entry`, `_get`, `_set`, `_grow`, `_delete` | `FindEntry`, `DictGet`, ... |
| OP_SET_INDEX, OP_GET_INDEX, `pop()`, `clear()`, OP_POP | `SetIndex`, `GetIndex`, `DictPop`, `Clear`, `Pop` |
| `vm_scheduler_run_step` under a main `await` | `Await`, `Return` |

Operands are locals: the copies that the compiled code pushes first are gone
after the opcode. When a collection starts is left open, which covers every
threshold. Left out: the other kinds of objects, which the collector treats
alike, and the roots that hold none of these objects. `len` and `==` of dicts
read the count with its tombstones (section 5) and are no actions.

Two switches: `MainHolds` lets a main script await with objects on its stack, and
`Reuses` lets a script store into a dict after `clear()`. Both are what programs
do and break the promise; the passing run has neither, `heap_await` has the first.

## 3. Runs

| Run | Configuration | Shows |
|---|---|---|
| `sched_safety` | 3 coroutines, 2 futures, gathers of up to 2, one yield, 2 scripts, uncaught errors, one awaiter per object | all safety properties; `Scheduler` implements `AwaitPromise` |
| `sched_live` | 2 coroutines, 2 futures, fairness | every queued coroutine runs, requests wake their waiters, the drain ends |
| `sched_shared_await` | 3 coroutines, 1 future, shared awaits | `NoLostWaiter` fails: the second awaiter overwrites the first |
| `shellpool` | 3 workers, 3 tasks, both shutdowns, malloc failures | accounting, no lost wake-up, `ShellPool` implements `TaskPool` |
| `shellpool_live` | 2 workers, 2 tasks, shutdown with wait, fairness | every task is answered, shutdown returns |
| `shellpool_free` | 2 workers, 2 tasks | `PoolOutlivesWorkers` fails after `shutdown(wait=false)`: the last worker's send frees the pool before an earlier leaver has read `detached` |
| `shellpool_loss` | 2 workers, 2 tasks | `ClosedWithoutLoss` fails after `shutdown(wait=false)` |
| `callablepool` | 2 workers, 3 tasks, nested submissions, errors, failed start, fairness | futures carry what their function did, shutdown runs what was queued before it frees, `CallablePool` implements `TaskPool`, and stands still only when starved |
| `pipeline` | 522 programs | indents balance, trees are read back, stack, handlers and upvalues are sound, programs print and raise what their trees mean, and end |
| `pipeline_crash` | one program | `ReachesItsHandler` fails: a generator raises inside a try statement |
| `heap` | 4 addresses, 2 colliding strings, 3 locals | all properties of `Heap`; it implements `ObjectStore` |
| `heap_await` | the same, `MainHolds` | `NothingDangles` fails: the stack of an awaiting main script is no root |

Why the bounds are enough. Three coroutines give a waiter, a target and a
bystander, or a gather of two with an awaiter. Two futures give a request and a
gather that compete for `pending_io_count`. One yield is enough to reorder the
queue; the second script exposes flags left by the first. Three workers and
three tasks give a sleeping, a running and a leaving worker with a task in the
queue, which every race of the pool needs. Two workers and three functions are
the smallest executor that can starve: both workers wait for a task of a chain of
three that is left in the queue (TLC reaches this state); four functions were
checked once as well, with the same result. The programs cross every pair of
eight statements (if, while, for, try with catch, with catch and finally, with
finally, with, match) and every triple of those that unwind, with every way out:
falling through, return, raise, break, continue. Another family nests each binary
operator in each other one on both sides; one program per remaining construct
follows. Four addresses give a dict, its key, a value that only the dict holds
and room for the allocation that starts a collection; two strings with one hash
give a chain, a hole in it and a reused tombstone; an initial capacity of 2
instead of 8 makes tables grow at the second entry.

Bounds by name: `MaxGather` (length of a gather list), `MaxYields` (yields in one
behaviour), `MaxScripts` (scripts on one VM); `IndentMax` (7 for FLUX_INDENT_MAX 64),
`PendingSlots` (4, as in the code), `FramesMax` (8 for FLUX_FRAMES_MAX 500),
`HandlerMax` and `BreakMax` (64, as in the code; not reached); `StackMax` (locals),
`FilledMax` (dicts with slots at a time), `InitialCap`, and the size of `Addr`: a
script allocates only when it can reach fewer objects than there are addresses. `SharedAwait` and `Faults` switch
behaviours of scripts on; both occur in the code.

Fairness. `Scheduler`: the one thread always goes on (weak fairness of
`VmStep`), and a request the loop polls for repeatedly is eventually reported
(strong fairness of `UvCallback`, since the loop leaves and re-enters `uv_run`).
The bound on yields is an assumption: I/O is polled only when the ready queue is
empty, so a coroutine that yields for ever starves all requests. `ShellPool`:
every worker thread is scheduled and its command ends; the main thread finishes
the native or callback it is in; and it returns to the loop while a future is
pending, because the drain of the scheduler does. `CallablePool`: every worker
thread is scheduled, a function that does not sleep in `result()` ends, and
`conc_pool_new` and `pthread_join` go on. In none of them does anything make a
script call `submit` or `shutdown`. `Pipeline`: the one thread goes on. This is
weak fairness of its next-state relation, written as `Progress` without ENABLED,
which TLC cannot evaluate for it in reasonable time; the run checks for deadlock,
so a program that has not stopped always has a step. `Heap` has no fairness and
no liveness: what a script does next is open.

## 4. Proofs

A theorem below holds for every value of the constants that the assumption of the
module allows: any finite sets of coroutines, tasks, workers or addresses, any
hash function, any program, any bound. The assumptions are `SchedulerAssumption` (finite
disjoint sets, a null value outside them), `ShellPoolAssumption` (finitely many
workers, at least one, and finitely many tasks), `CallablePoolAssumption` (the
same of workers) and `HeapAssumption` (a finite memory, hashes that are naturals,
an initial capacity of at least 2, NULL and the tombstone apart from each other
and from values) with `ValuesApart` (a string, an address, `null`, `true` and NULL
are different things), `LexerAssumption` (room for at least one level and for
one pending token) and `MachineAssumption` (room for at least one frame). Each is what the code has. Nothing else is assumed.

Some theorems have a hypothesis. Each is about scripts that break the promise: a
switch of the model, or for the lexer a limit on texts.

| Hypothesis | Meaning | Without it |
|---|---|---|
| `~SharedAwait` | no coroutine or future is awaited or gathered twice at a time | `sched_shared_await` |
| `ShutdownModes \subseteq {TRUE}` | every `shutdown` waits | `shellpool_free`, `shellpool_loss` |
| `~MainHolds` | the main script awaits with no objects on its stack | `heap_await` |
| `~Reuses` | no script stores into a dict after `clear()` | section 5; TLC finds `ProbesEnd` violated when `Reuses` is set |
| `SoundProgram(Fns, PointAt)` | the compiled code is sound: see *The machine* below | `break` out of a `match`, a function with `return` defined inside `try` (section 5): the compiler makes code that is not |
| `Shallow(src)` | the lines of the text start in at most `PendingSlots` different columns, column 0 included | section 5: the ring of pending tokens overflows |

### The scheduler

| Theorem | Statement |
|---|---|
| `Inductive` | `Spec => []IInv` |
| `TypeCorrect`, `QueueSound`, `AnswerSound`, `PendingIoCorrect` | `TypeOK`, `ReadyQueueSound`, `ResumesWithItsAnswer`, `PendingIoExact` |
| `NobodyForgotten` | `~SharedAwait /\ Spec => []NoLostWaiter` |
| `RequestsAnswered` | `Spec => FutureOutlivesRequest` |
| `GatheredInOrder` | `Spec => []GatherInOrder` |
| `GatheredWhenDone` | `~SharedAwait => (Spec => []GatherResolvesWhenDone)` |
| `GivesUpOnlyWhenStuck` | `~SharedAwait => (Spec => QuietOnlyWhenStuck)` |
| `Implements` | `~SharedAwait => (Spec => PromiseKept)`, the refinement of `AwaitPromise` |

None of the properties is inductive. `IInv` adds `WaiterSound` (a registered
waiter is suspended on that very object, has nothing delivered and is not queued;
that is why a wake-up can neither queue twice nor deliver twice), `CurrentSound`
(a running or fresh coroutine has an empty mailbox), `GatherSound` (a gather
future with members is unresolved and counts at least its members, so it is a
root when its last member completes it), and `RootsExact` / `CallbacksExact`,
which relate the pending counter to the futures and to the requests in flight.
Each action has one lemma for the queue and waiter part (`...Core`) and one for
the counting part (`...Books`). `NoLostWaiter` is a second induction on top of
`IInv`, and `RequestsAnswered` needs that the drain of a normal end leaves
nothing in flight.

The second half of the module puts three more inductions on top. `SlotsSound`: a slot of a gather
is filled only with what its own coroutine returned, and a coroutine that is
still a member has not finished, so nothing overwrites a slot later.
`OwedSound`: when nobody is gathered twice, the members of a gather are exactly
those whose slot is still empty, so its count is their number and it resolves
with the last of them. `StuckOnCoroutines`: with an exact counter of zero,
whoever is suspended and not queued waits for a coroutine or a gather of them.
For the refinement, `StatusTable` computes the abstract state of every handle;
each action then changes it at one handle (`Registered`, `CompleteMaps`) and is
one step of `AwaitPromise`, or changes nothing of it and is a stutter.

### The shell pool

| Theorem | Statement |
|---|---|
| `Inductive` | `Spec => []IInv` |
| `TypeCorrect`, `Accounted`, `NoLostWakeup`, `Announced` | `TypeOK`, `TaskAccounted`, `WokenForEveryTask`, `ResultIsAnnounced` |
| `Implements` | `Spec => TaskPromise`, the refinement of `TaskPool` |
| `OutlivesWorkers`, `NoResultLost` | `ShutdownModes \subseteq {TRUE} => (Spec => []PoolOutlivesWorkers)`, the same for `ClosedWithoutLoss` |

`IInv` relates the counters of the code (worker count, length of the queue) to
the program points of the workers, says that a worker holds a task exactly while
it is between taking and posting it, that the places of tasks are disjoint, that
a queued task has a worker who was woken for it or is about to look at the
queue, and that a result that was posted has a pending `uv_async_send` or a
worker that is just before it. The last two are the invariants of a condition
variable: the one who signals does so after the change it announces, and whoever
tests does so under the lock. The last two theorems are the positive half of two
findings: a `shutdown` that waits has joined all workers before the handle is
closed and the pool freed, so both violations need `wait=false`.

### The callable pool

| Theorem | Statement |
|---|---|
| `Inductive` | `Spec => []IInv` |
| `TypeCorrect`, `NoLostWakeup`, `OwnOutcome`, `FreedInTime` | `TypeOK`, `WokenForEveryTask`, `OutcomeIsOwn`, `FreedWhenDone` |
| `Implements` | `Spec => TaskPromise` |

`IInv` says that every submitted task is in one place, that the outcome of a
future is the one of its own function (`OutcomesSound`, which relates the error
flag of a worker's VM to the function it runs), and that the phases of the main
thread and of the workers fit: after the last `pthread_join` no worker is alive
and the queue is empty, because a worker leaves only over an empty queue.

### Strings, dicts and the collector

| Theorem | Statement |
|---|---|
| `Inductive` | `Spec => []IInv` |
| `StringsRight` | `Spec => [](Typed /\ TableRight)` |
| `TypeCorrect`, `StringsInterned` | `TypeOK`, `Interned` |
| `NoDangling` | `~MainHolds => (Spec => []NothingDangles)` |
| `CollectsAll` | `~MainHolds => (Spec => AllGarbageGoes)` |
| `SearchesEnd` | `~MainHolds /\ ~Reuses => (Spec => []ProbesEnd)` |
| `Implements` (`StoreProofs`) | `~MainHolds /\ ~Reuses => (Spec => StorePromise)` |

`IInv` has four parts. `Typed` is type correctness of values that the code reads
from tables. `TableRight` is the invariant of open addressing: each live string
is on the path of its hash, that is at some step of its probing sequence with no
empty slot before it; a tombstone keeps all paths that lead over it, growing
lays them anew, and the count of slots in use leaves one empty. `MarkingRight` is
the invariant of three colours: the roots are marked, what a black object refers
to is marked, and everything marked is needed (`MarkedNeeded`: it lies in every
set that contains the roots and is closed under references). With no grey object
left, the marked objects therefore are exactly the reachable ones.
`DictsRight` counts the slots of dicts and says their keys are strings, that each
key has one slot, which a search for it reaches over no free one, and that a dict
whose count is 0 has no key: `dict_get` does not look into such a dict. `clear()`
keeps it so and leaves what `Reuses` would stumble over: values without keys, which
a later `dict_set` takes for tombstones and does not count.
The first half of `HeapProofs` proves the operators correct: `Least`, probing modulo the capacity,
and the recursive functions `StringTableGrow`, `DictGrow` and `Reachable`
(`Recursion` shows that such a function satisfies its equations, `UpTo` is the
induction over them).

`Implements` says what all this is for: a script sees strings that are their
characters and dicts that are maps. `StoreProofs` shows it in four steps.

1. A dict stands for the map that its entries are (`HeapContents`): two entries
   with the same characters have the same key, because strings are interned, and
   a key has one slot. A search gives what this map has (`GetIs`).
2. The dicts that the store reaches through these maps are those that the heap
   reaches through addresses (`HeapCorresponds`). Both are least sets with what the
   stack has; the proof goes from each to the other.
3. Each opcode is the action of the store of the same name (`SetInStore`,
   `GetInStore`, `PopInStore`, `ClearInStore`, `DropInStore`, `ReturnInStore`): an
   entry with other characters keeps its value although `DictGrow` may have moved
   it. A string or dict appears when the last object of its request is allocated
   (`StringInStore`, `NewInStore`) or when interning finds it (`FoundInStore`).
4. A request, marking, a sweep, an `await` of the main script and the first of the
   two dicts of OP_CREATE_DICT leave what can be reached as it is: the store
   stutters (`RestsWhenKept`).

### The lexer

| Theorem | Statement |
|---|---|
| `LevelsAlwaysBalance` | `LexerSpec(src) => []LevelsBalance`, for every text with `IsText(src)` and `Shallow(src)` |

`IsText` says that the tokens of a line are not INDENT and DEDENT, which
`scan_raw_token` never makes. `push_pending` does not look whether the ring is
full; a text whose lines start in few columns cannot fill it, because the open
levels are different columns (`LevelsFit`) and a call makes at most one DEDENT
for each level but the outermost, and the end of the text. The limit is
sufficient, not necessary: a text may use more columns if they are never open
at the same time. `LexInv` says that besides: the levels start with 0 and grow,
only DEDENTs and the end of the text are in the ring, and INDENTs, DEDENTs and
levels balance. `PopRight`, `PushTimesRight` and `PushEofRight` say what the
operations of the ring do to the pending tokens, for every position of its head
and every size. Each branch of `lexer_next` then has a lemma, by `ReturnKeeps`: a
call keeps the balance if the token it returns is the difference it makes to
levels and pending DEDENTs.

### The machine

| Theorem | Statement |
|---|---|
| `OpenUpvaluesAreLive` | `SoundProgram(Fns, PointAt)` implies `MachineSpec(Fns) => []UpvaluesLive` |
| `HandlersAreLive` | `SoundProgram(Fns, PointAt)` implies `MachineSpec(Fns) => []HandlersLive` |

`MachineSpec(fns)` is the machine alone, from `vm_execute` of the last of any
functions `fns` on: a program of any size that makes any calls, nested runs,
exceptions and closures, with any `FramesMax` and `HandlerMax`. Nothing is said of
the values of a program. `SoundProgram` speaks of its code only: a point for each
instruction that can be reached (the height of the frame's part of the stack, the
handlers the frame has pushed, the slots that open upvalues may point to), such
that the points agree along every jump and every exception, locals and captures
lie within the height, and a frame returns with no handler of its own. This is
what `StackDiscipline` checks of the compiler's output for every program of the
corpus (`Balanced` is `SoundProgram`), with the points that `StackWalk` finds by
walking the code. So the run shows that the hypothesis holds of what is compiled,
and the theorems show that it is enough. One of its conditions is about programs:
no `yield` inside `try`. A generator method runs as a plain function (section 5),
its `yield` ends the frame, and `OP_YIELD`, unlike `OP_RETURN`, has no compiled
code before it that takes the handlers of the frame away.

The properties relate upvalues and handlers to frames, but nothing in a frame says
how high its part of the stack is. `Good` therefore says that there is a list of
views `G`, one for each frame: its function, the instruction it goes on with, where
its slots start, the call of `vm_run` it belongs to, and how many handlers lie below
its own. `Running` says that stack, frames, runs and handlers are what the points of
these views demand: the slots of a frame start where the frame below it leaves its
callee (`Linked`; below a C call by what the C code has pushed), the handlers are
those of all views one after the other (`HandlersKept`), and each open upvalue is
of a slot that a view owns (`OpenKept`). While an exception is on its way there may
be more frames than views, and handlers of runs that have failed lie above the
others (`Struct`); after `vm_reset_stack` there is no frame (`Fallen`), so that a
handler outside a nested run then crashes (`pipeline_crash`) and the machine is not
`running` any more. Each action has a lemma (`...Good`): it keeps the views and
moves the last one to the next point, adds a view (`CallClosure`, `Invoke`,
`CallGenerator`), drops the last one (`Returned`, and what the C caller does then,
`Resumed`), or in `Catch` drops all above the handler's frame and moves that frame
to the point of the handler. An upvalue of a slot that goes is closed before,
because `CLOSE_UPVALUE`, `OP_RETURN` and `flux_handle_exception` close what the
next point does not list.

### Only model-checked

* Liveness of every module, for which the prover has no rule (fairness, `ENABLED`):
  `ReadyGetsItsTurn`, `IoResumesItsWaiter`, `DrainTerminates`, `EveryTaskAnswered`,
  `ShutdownReturns`, `Terminates`.
* `ParsesBack`, `StackDiscipline` and `RunsAsWritten`: they say what parser, compiler
  and `Reference` compute for a tree. These are recursive operators over trees, which
  the prover does not take, and induction over trees is out of its reach. That all
  compiled code is sound is thus checked for the corpus and not proved; where it is
  known to be false is in section 5.
* The theorems about `Lexer` and `Machine` are about `LexerSpec` and `MachineSpec`, the
  same actions without the stages around them; `Pipeline` adds that one stage starts
  when the one before has ended.

## 5. What the runs found

* A coroutine or future has one waiter field; a second `await` forgets the first
  waiter for ever (`sched_shared_await`).
* After `thread.shutdown(pool, false)` the last worker's own `uv_async_send` can
  make the callback free the pool while a worker that gave up its count earlier
  has still to read `pool->detached` (`shellpool_free`); the callback can also close
  the handle over an uncollected result (`shellpool_loss`).
* Without a run of their own, met while modelling: `shutdown(wait=true)` cancels
  pending tasks although the documentation says it waits for them; `detached` is
  set too late to be seen by workers that leave at once, and the pool then leaks; a coroutine gathered
  twice leaves a future that never resolves; the main script receives a result
  from a coroutine that is stuck; error flags survive into the next REPL line;
  destruction after a failure runs callbacks on freed futures;
  `future.exception()` returns null while the function runs, where the example of
  the documentation expects its error; an exception that leaves a nested `vm_run`
  resets the frame count before an outer handler uses it.
* An exception that leaves a generator, a hook or a function given to `map`
  destroys the frames of the `vm_run` around it (`pipeline_crash`).
* While the main script awaits, a collection frees the locals of its functions
  (`heap_await`); on the real program a coroutine that makes some ten thousand
  strings suffices.
* Met while modelling the front end and the machine, each confirmed on a build of
  the program and listed in `PROJECT.json`: a taken `elif` runs the `else` too;
  `break` and `continue` leave locals on the stack, and the 65th `break` of a loop
  is dropped; a `finally` is skipped when an exception leaves the catch body
  through a nested statement; a finally with locals shifts the return value; a
  function defined inside `try` unwinds the try of its parent; four blocks open at
  the end of a file overflow the ring of tokens; lines do not continue inside
  brackets; generator methods run as plain functions, and one that
  yields inside `try` leaves its handler behind; `clear()` and `pop()` leave
  a dict whose count, equality or later entries are wrong.
* Where documents or tests say one thing and the code another, without a run (each
  tried on a build of the program; `PROJECT.json` quotes the lines). Natives and
  methods: `map(fn, list)` and `filter(fn, list)` (the list comes first); `on_enter`,
  `on_exit` (`__enter__`, `__exit__`) and `on_str` (never called); `merge` (returns a
  new dict); `l.pop(i)` (takes the last). Values: a member of an enum is said to
  print as its number; lists are said to compare by identity, `is` is said to be
  identity and is `==`; keys of dicts that are numbers; `"ab" * 3`; attributes of
  classes; classes that inherit from an enum; iteration over a dict; generators
  that give their values one by one. Syntax: `x if c else y`; `in`; `assert` as a
  statement; default and variadic parameters; bodies on the line of their head; two
  variables in a dict comprehension; pipelines over several lines; the patterns
  `int:` and `n @ int`, and `is T` for subclasses. Scopes: `nonlocal` reaches
  globals, `let` in a block is a new variable. The table of opcodes in docs/33.
* Functions that wait for functions of the same executor can starve it. The
  liveness properties of `CallablePool` say that this is the only way it gets
  stuck.

## 6. Plan

In order of importance:

1. `Scheduler`, `ShellPool`, `CallablePool`, `Pipeline`, `Heap` (done).
2. Proofs: the safety properties of `Scheduler`, `ShellPool`, `CallablePool` and
   `Heap`, the levels of `Lexer`, upvalues and handlers of `Machine`, and the refinements of `AwaitPromise`, `TaskPool`
   and `ObjectStore` (done).
3. Handlers and upvalues of `Machine` over coroutine switches, where both are
   stacks of the VM and not of the coroutine.
4. Pool ids and mutexes of `import thread`; the import cache.

## Not modelled

The command line tools (single-pass text tools around the parser), the database,
HTTP and socket extensions and the synchronous standard library (I/O around
libraries), the copy of values between VMs (a recursive function without
control), modules (file search and I/O around one dictionary), and in the
modelled parts what section 2 lists as left out.
