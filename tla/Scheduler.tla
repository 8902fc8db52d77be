----------------------------- MODULE Scheduler -----------------------------
(***************************************************************************)
(* The coroutine scheduler of the Flux VM (src/vm/vm.c) together with the  *)
(* natives that feed it (stdlib/aio/async_ext.c).  One OS thread executes  *)
(* in turn the main script, one coroutine, and libuv callbacks.  A step of *)
(* the model is what runs between two points where control can change      *)
(* hands.                                                                  *)
(*                                                                         *)
(* A value is represented by its origin: "the result of x" is x itself.    *)
(* delivered[c] is what was pushed on the saved operand stack of c while   *)
(* it was suspended, awaiting[c] is what its saved ip stands behind.       *)
(***************************************************************************)
EXTENDS Integers, Sequences, FiniteSets

CONSTANTS
    Coro,         \* coroutine handles the scripts can create
    Future,       \* future handles the natives can create
    Nobody,       \* the NULL pointer
    MaxGather,    \* longest list given to aio.gather
    MaxYields,    \* bound: yields executed in one behaviour
    MaxScripts,   \* scripts run on the VM: 1 is `flux run`, more is the REPL
    SharedAwait,  \* may a script await (or gather) what is already awaited?
    Faults        \* may a script raise an error nobody catches?

Handle == Coro \cup Future

ASSUME SchedulerAssumption ==
    /\ IsFiniteSet(Coro) /\ IsFiniteSet(Future)
    /\ Coro \cap Future = {}
    /\ Nobody \notin Handle
    /\ MaxGather \in Nat /\ MaxYields \in Nat /\ MaxScripts \in Nat
    /\ SharedAwait \in BOOLEAN /\ Faults \in BOOLEAN

VARIABLES
    state,        \* co->state; "fresh" before the object exists
    awaitedBy,    \* co->awaited_by
    gatherFuture, \* co->gather_future
    gatherSlot,   \* co->gather_slot
    awaiting,     \* what the saved frame of a suspended coroutine waits for
    delivered,    \* results pushed on its saved stack meanwhile
    readyQueue,   \* vm->ready_queue
    current,      \* vm->current_coroutine
    kind,         \* "fresh", "io" or "gather"
    resolved,     \* fut->resolved
    waiting,      \* fut->waiting
    items,        \* the list a gather future was created from
    slots,        \* fut->gather_results
    remaining,    \* fut->gather_remaining
    ioFutures,    \* vm->io_futures, the GC roots of pending operations
    pendingIo,    \* vm->pending_io_count
    inFlight,     \* futures whose libuv request has not called back yet
    main,         \* what the main context is doing
    mainOn,       \* the handle it awaits
    uv,           \* inside uv_run: "idle", "blocked", or "fired"
    hasError,     \* vm->has_error
    hasException, \* vm->has_exception
    yields, scripts

coVars   == <<state, awaitedBy, awaiting, delivered>>
memVars  == <<gatherFuture, gatherSlot>>
futVars  == <<kind, items>>
ioVars   == <<ioFutures, pendingIo>>
waitVars == <<resolved, waiting>>
slotVars == <<slots, remaining>>
errVars  == <<hasError, hasException>>
mainVars == <<main, mainOn>>
vars == <<coVars, memVars, readyQueue, current, futVars, waitVars, slotVars,
          ioVars, inFlight, mainVars, uv, errVars, yields, scripts>>

Driving == {"awaitFuture", "awaitCoro", "drain"}

TypeOK ==
    /\ state \in [Coro -> {"fresh", "suspended", "running", "dead"}]
    /\ awaitedBy \in [Coro -> Coro \cup {Nobody}]
    /\ gatherFuture \in [Coro -> Future \cup {Nobody}]
    /\ gatherSlot \in [Coro -> Nat]
    /\ awaiting \in [Coro -> Handle \cup {Nobody}]
    /\ delivered \in [Coro -> Seq(Handle)]
    /\ readyQueue \in Seq(Coro)
    /\ current \in Coro \cup {Nobody}
    /\ kind \in [Future -> {"fresh", "io", "gather"}]
    /\ resolved \in [Future -> BOOLEAN]
    /\ waiting \in [Future -> Coro \cup {Nobody}]
    /\ items \in [Future -> Seq(Handle)]
    /\ slots \in [Future -> Seq(Handle \cup {Nobody})]
    /\ remaining \in [Future -> Int]
    /\ ioFutures \in SUBSET Future
    /\ pendingIo \in Nat
    /\ inFlight \in SUBSET Future
    /\ main \in Driving \cup {"script", "done", "failed", "destroyed"}
    /\ mainOn \in Handle \cup {Nobody}
    /\ uv \in {"idle", "blocked", "fired"}
    /\ hasError \in BOOLEAN /\ hasException \in BOOLEAN
    /\ yields \in 0..MaxYields
    /\ scripts \in Nat

Init ==
    /\ state = [c \in Coro |-> "fresh"]
    /\ awaitedBy = [c \in Coro |-> Nobody]
    /\ gatherFuture = [c \in Coro |-> Nobody]
    /\ gatherSlot = [c \in Coro |-> 0]
    /\ awaiting = [c \in Coro |-> Nobody]
    /\ delivered = [c \in Coro |-> <<>>]
    /\ readyQueue = <<>>
    /\ current = Nobody
    /\ kind = [f \in Future |-> "fresh"]
    /\ resolved = [f \in Future |-> FALSE]
    /\ waiting = [f \in Future |-> Nobody]
    /\ items = [f \in Future |-> <<>>]
    /\ slots = [f \in Future |-> <<>>]
    /\ remaining = [f \in Future |-> 0]
    /\ ioFutures = {} /\ pendingIo = 0 /\ inFlight = {}
    /\ main = "script" /\ mainOn = Nobody
    /\ uv = "idle"
    /\ hasError = FALSE /\ hasException = FALSE
    /\ yields = 0 /\ scripts = 1

-----------------------------------------------------------------------------
(* Handles and wake-ups.                                                   *)

Created(h) == IF h \in Coro THEN state[h] # "fresh" ELSE kind[h] # "fresh"

Completed(h) == IF h \in Future THEN resolved[h] ELSE state[h] = "dead"

\* OP_AWAIT suspends on these; a completed handle answers at once and leaves
\* the scheduler as it is.
PendingUnchecked(h) == Created(h)
Pending(h) == Created(h) /\ ~Completed(h)

\* The waiter w of a handle that completes goes to the end of the queue ...
WokenNever(w) == <<>>
Woken(w) == IF w = Nobody THEN <<>> ELSE <<w>>

\* ... with the result of h pushed on its saved stack.
PushNothing(w, h) == delivered
Push(w, h) == [x \in Coro |-> IF x = w THEN Append(delivered[x], h)
                              ELSE delivered[x]]

\* A completed future is no longer a root.
UnregisterNothing(f) == ioFutures
Unregister(f) == ioFutures \ {f}

-----------------------------------------------------------------------------
(* What the executing program, main script or coroutine, can do.           *)

Executing == current # Nobody \/ main = "script"

\* A script error unwinds to the top: the frame of the coroutine is left as
\* it is and vm_execute returns VM_RUNTIME_ERROR.
Abandon == main' = "failed" /\ current' = Nobody /\ mainOn' = Nobody

\* call_native looks at has_error only after the native has run.
NativeReturns ==
    IF hasError THEN Abandon ELSE UNCHANGED <<mainVars, current>>

\* spawn f(args), or a plain call of an async func.
Spawn(c) ==
    /\ Executing
    /\ state[c] = "fresh"
    /\ state' = [state EXCEPT ![c] = "suspended"]
    /\ readyQueue' = Append(readyQueue, c)
    /\ UNCHANGED <<awaitedBy, awaiting, delivered, memVars, current, futVars,
                   waitVars, slotVars, ioVars, inFlight, mainVars, uv,
                   errVars, yields, scripts>>

\* aio.sleep, aio.read_file, aio.write_file: one libuv request, one future.
StartIo(f) ==
    /\ Executing
    /\ kind[f] = "fresh"
    /\ kind' = [kind EXCEPT ![f] = "io"]
    /\ inFlight' = inFlight \cup {f}
    /\ ioFutures' = ioFutures \cup {f}
    /\ pendingIo' = pendingIo + 1
    /\ NativeReturns
    /\ UNCHANGED <<coVars, memVars, readyQueue, items, waitVars, slotVars,
                   uv, errVars, yields, scripts>>

\* The positions of a gather list that hold an unfinished coroutine.
LiveSlots(list) ==
    {i \in DOMAIN list : list[i] \in Coro /\ state[list[i]] # "dead"}

\* aio.gather(list): coroutines that are still alive join the gather future,
\* anything else is stored as it is.  A coroutine listed twice, or gathered
\* before, keeps only its last membership.
Gather(f, list) ==
    LET live == LiveSlots(list)
        joins(c) == {i \in live : list[i] = c}
    IN  /\ Executing
        /\ kind[f] = "fresh"
        /\ SharedAwait \/ \A c \in Coro :
               /\ Cardinality(joins(c)) <= 1
               /\ joins(c) # {} => gatherFuture[c] = Nobody
        /\ kind' = [kind EXCEPT ![f] = "gather"]
        /\ items' = [items EXCEPT ![f] = list]
        /\ slots' = [slots EXCEPT ![f] =
               [i \in DOMAIN list |-> IF i \in live THEN Nobody ELSE list[i]]]
        /\ remaining' = [remaining EXCEPT ![f] = Cardinality(live)]
        /\ gatherFuture' = [c \in Coro |->
               IF joins(c) # {} THEN f ELSE gatherFuture[c]]
        /\ gatherSlot' = [c \in Coro |->
               IF joins(c) # {}
               THEN CHOOSE i \in joins(c) : \A j \in joins(c) : j <= i
               ELSE gatherSlot[c]]
        /\ resolved' = [resolved EXCEPT ![f] = (live = {})]
        /\ ioFutures' = IF live = {} THEN ioFutures ELSE ioFutures \cup {f}
        /\ pendingIo' = IF live = {} THEN pendingIo ELSE pendingIo + 1
        /\ NativeReturns
        /\ UNCHANGED <<coVars, readyQueue, waiting, inFlight, uv, errVars,
                       yields, scripts>>

\* yield in a coroutine: save the context and go to the back of the queue.
Yield ==
    /\ current # Nobody
    /\ yields < MaxYields
    /\ yields' = yields + 1
    /\ state' = [state EXCEPT ![current] = "suspended"]
    /\ readyQueue' = Append(readyQueue, current)
    /\ current' = Nobody
    /\ UNCHANGED <<awaitedBy, awaiting, delivered, memVars, futVars, waitVars,
                   slotVars, ioVars, inFlight, mainVars, uv, errVars, scripts>>

\* await on an unresolved future suspends the coroutine; a future that is
\* resolved already answers at once and changes nothing here.
AwaitFuture(f) ==
    /\ current # Nobody
    /\ Pending(f)
    /\ SharedAwait \/ waiting[f] = Nobody
    /\ state' = [state EXCEPT ![current] = "suspended"]
    /\ awaiting' = [awaiting EXCEPT ![current] = f]
    /\ waiting' = [waiting EXCEPT ![f] = current]
    /\ current' = Nobody
    /\ UNCHANGED <<awaitedBy, delivered, memVars, readyQueue, futVars,
                   resolved, slotVars, ioVars, inFlight, mainVars, uv,
                   errVars, yields, scripts>>

\* The target was queued when it was created: it is not queued again.
QueueForAwaitTwice(d) == Append(readyQueue, d)
QueueForAwait(d) == readyQueue

\* await on a coroutine that is not dead, itself included.
AwaitCoro(d) ==
    /\ current # Nobody
    /\ Pending(d)
    /\ SharedAwait \/ awaitedBy[d] = Nobody
    /\ state' = [state EXCEPT ![current] = "suspended"]
    /\ awaiting' = [awaiting EXCEPT ![current] = d]
    /\ awaitedBy' = [awaitedBy EXCEPT ![d] = current]
    /\ readyQueue' = QueueForAwait(d)
    /\ current' = Nobody
    /\ UNCHANGED <<delivered, memVars, futVars, waitVars,
                   slotVars, ioVars, inFlight, mainVars, uv, errVars, yields,
                   scripts>>

\* The result of c goes where its position in the gather list says.
ResultSlotByArrival(c) ==
    Len(slots[gatherFuture[c]]) - remaining[gatherFuture[c]] + 1
ResultSlot(c) == gatherSlot[c]

LastOfOffByOne(f) == f # Nobody /\ remaining[f] = 0
LastOf(f) == f # Nobody /\ remaining[f] = 1

\* The body of the coroutine returns (the VM_OK branch of
\* vm_scheduler_run_step): its awaiter is woken, then its gather slot is
\* filled, and the last slot completes the gather future.
Return ==
    LET c    == current
        a    == awaitedBy[c]
        f    == gatherFuture[c]
        full == LastOf(f)
        w    == IF full THEN waiting[f] ELSE Nobody
    IN  /\ c # Nobody
        /\ state' = [state EXCEPT ![c] = "dead"]
        /\ current' = Nobody
        /\ awaitedBy' = [awaitedBy EXCEPT ![c] = Nobody]
        /\ gatherFuture' = [gatherFuture EXCEPT ![c] = Nobody]
        /\ delivered' = [x \in Coro |-> IF x = w THEN Push(w, f)[x]
                                        ELSE Push(a, c)[x]]
        /\ readyQueue' = readyQueue \o Woken(a) \o Woken(w)
        /\ slots' = [g \in Future |->
               IF g = f THEN [slots[g] EXCEPT ![ResultSlot(c)] = c]
               ELSE slots[g]]
        /\ remaining' = [g \in Future |->
               IF g = f THEN remaining[g] - 1 ELSE remaining[g]]
        /\ resolved' = [g \in Future |-> resolved[g] \/ (full /\ g = f)]
        /\ waiting' = [g \in Future |->
               IF full /\ g = f THEN Nobody ELSE waiting[g]]
        /\ ioFutures' = IF full THEN Unregister(f) ELSE ioFutures
        /\ pendingIo' = IF full THEN pendingIo - 1 ELSE pendingIo
        /\ UNCHANGED <<awaiting, gatherSlot, futVars, inFlight, mainVars, uv,
                       errVars, yields, scripts>>

\* An error no handler catches, raised by the script (`native` FALSE) or
\* reported by a native.  A coroutine keeps state CORO_RUNNING.  The flags
\* follow RUNTIME_ERROR, HANDLE_NESTED_ERROR and the unhandled branch of
\* flux_handle_exception; error_printed equals the old has_exception here.
Fail(native) ==
    /\ Faults
    /\ Executing
    /\ Abandon
    /\ hasException' = TRUE
    /\ hasError' = IF native THEN hasException ELSE hasError \/ ~hasException
    /\ UNCHANGED <<coVars, memVars, readyQueue, futVars, waitVars, slotVars,
                   ioVars, inFlight, uv, yields, scripts>>

-----------------------------------------------------------------------------
(* The main context: it awaits by driving the scheduler and the loop.      *)

MainAwait(h) ==
    /\ main = "script"
    /\ Pending(h)
    /\ main' = IF h \in Future THEN "awaitFuture" ELSE "awaitCoro"
    /\ mainOn' = h
    /\ UNCHANGED <<coVars, memVars, readyQueue, current, futVars, waitVars,
                   slotVars, ioVars, inFlight, uv, errVars, yields, scripts>>

\* The spin loop of OP_AWAIT goes on while its guard holds; the drain loop
\* of vm_scheduler_run has no such guard.
LoopGoesOn == main # "drain" => ~Completed(mainOn) /\ ~hasError

Idle == current = Nobody /\ uv = "idle"

\* The loop ends with its answer, with an error left behind by an earlier
\* script, or because nothing is ready and nothing is pending.
MainAwaitEnds ==
    /\ main \in {"awaitFuture", "awaitCoro"}
    /\ Idle
    /\ LoopGoesOn => readyQueue = <<>> /\ pendingIo = 0
    /\ main' = IF hasException THEN "failed" ELSE "script"
    /\ mainOn' = Nobody
    /\ UNCHANGED <<coVars, memVars, readyQueue, current, futVars, waitVars,
                   slotVars, ioVars, inFlight, uv, errVars, yields, scripts>>

\* vm_scheduler_run_step: dequeue, skip a stale entry, else resume it.
RunStep ==
    LET c == Head(readyQueue)
    IN  /\ main \in Driving
        /\ Idle
        /\ readyQueue # <<>>
        /\ LoopGoesOn
        /\ readyQueue' = Tail(readyQueue)
        /\ IF state[c] \in {"dead", "running"}
           THEN UNCHANGED <<coVars, current>>
           ELSE /\ current' = c
                /\ state' = [state EXCEPT ![c] = "running"]
                /\ awaiting' = [awaiting EXCEPT ![c] = Nobody]
                /\ delivered' = [delivered EXCEPT ![c] = <<>>]
                /\ UNCHANGED awaitedBy
        /\ UNCHANGED <<memVars, futVars, waitVars, slotVars, ioVars, inFlight,
                       mainVars, uv, errVars, yields, scripts>>

\* uv_run(UV_RUN_ONCE) blocks for events while a request is in flight ...
UvEnter ==
    /\ main \in Driving
    /\ Idle
    /\ LoopGoesOn
    /\ readyQueue = <<>> /\ pendingIo > 0
    /\ inFlight # {}
    /\ uv' = "blocked"
    /\ UNCHANGED <<coVars, memVars, readyQueue, current, futVars, waitVars,
                   slotVars, ioVars, inFlight, mainVars, errVars, yields,
                   scripts>>

RequestsAfterKept(f) == inFlight
RequestsAfter(f) == inFlight \ {f}

\* ... runs at least one completion callback: vm_io_future_complete ...
UvCallback(f) ==
    LET w == waiting[f]
    IN  /\ uv \in {"blocked", "fired"}
        /\ f \in inFlight
        /\ uv' = "fired"
        /\ inFlight' = RequestsAfter(f)
        /\ resolved' = [resolved EXCEPT ![f] = TRUE]
        /\ pendingIo' = pendingIo - 1
        /\ ioFutures' = Unregister(f)
        /\ waiting' = [waiting EXCEPT ![f] = Nobody]
        /\ delivered' = Push(w, f)
        /\ readyQueue' = readyQueue \o Woken(w)
        /\ UNCHANGED <<state, awaitedBy, awaiting, memVars, current, futVars,
                       slotVars, mainVars, errVars, yields, scripts>>

\* ... and returns.
UvLeave ==
    /\ uv = "fired"
    /\ uv' = "idle"
    /\ UNCHANGED <<coVars, memVars, readyQueue, current, futVars, waitVars,
                   slotVars, ioVars, inFlight, mainVars, errVars, yields,
                   scripts>>

\* With nothing in flight uv_run returns at once.  An await loop then polls
\* for ever; this is the step that changes nothing.
UvReturnsAtOnce ==
    /\ main \in {"awaitFuture", "awaitCoro"}
    /\ Idle
    /\ LoopGoesOn
    /\ readyQueue = <<>> /\ pendingIo > 0
    /\ inFlight = {}
    /\ UNCHANGED vars

\* The main script returns and vm_execute starts to drain the scheduler.
MainReturns ==
    /\ main = "script"
    /\ main' = "drain"
    /\ UNCHANGED <<coVars, memVars, readyQueue, current, futVars, waitVars,
                   slotVars, ioVars, inFlight, mainOn, uv, errVars, yields,
                   scripts>>

\* vm_scheduler_run stops when nothing is ready and nothing is pending, or
\* when uv_run has nothing left to wait for.
DrainIsOverOnIoAlone == pendingIo = 0 \/ inFlight = {}
DrainIsOverOnReadyAlone == readyQueue = <<>>
DrainIsOverOnCountsAlone == readyQueue = <<>> /\ pendingIo = 0
DrainIsOver == readyQueue = <<>> /\ (pendingIo = 0 \/ inFlight = {})

DrainEnds ==
    /\ main = "drain"
    /\ Idle
    /\ DrainIsOver
    /\ main' = "done"
    /\ UNCHANGED <<coVars, memVars, readyQueue, current, futVars, waitVars,
                   slotVars, ioVars, inFlight, mainOn, uv, errVars, yields,
                   scripts>>

\* The REPL evaluates its next line on the same VM.
NextScript ==
    /\ main \in {"done", "failed"}
    /\ scripts < MaxScripts
    /\ scripts' = scripts + 1
    /\ main' = "script"
    /\ UNCHANGED <<coVars, memVars, readyQueue, current, futVars, waitVars,
                   slotVars, ioVars, inFlight, mainOn, uv, errVars, yields>>

\* vm_destroy frees every object, then lets the loop run the callbacks that
\* are due.
Destroy ==
    /\ main \in {"done", "failed"}
    /\ main' = "destroyed"
    /\ \E due \in SUBSET inFlight : inFlight' = inFlight \ due
    /\ UNCHANGED <<coVars, memVars, readyQueue, current, futVars, waitVars,
                   slotVars, ioVars, mainOn, uv, errVars, yields, scripts>>

Terminated == main = "destroyed" /\ UNCHANGED vars

-----------------------------------------------------------------------------
GatherLists == UNION {[1..n -> Handle] : n \in 0..MaxGather}

GatherSome ==
    \E f \in Future : \E list \in GatherLists :
        /\ \A i \in DOMAIN list : Created(list[i])
        /\ Gather(f, list)

\* The interpreter and the scheduler: everything the OS thread does itself.
VmStep ==
    \/ \E c \in Coro : Spawn(c) \/ AwaitCoro(c)
    \/ \E f \in Future : StartIo(f) \/ AwaitFuture(f)
    \/ GatherSome
    \/ Yield
    \/ Return
    \/ \E native \in BOOLEAN : Fail(native)
    \/ \E h \in Handle : MainAwait(h)
    \/ MainAwaitEnds
    \/ RunStep
    \/ UvEnter \/ UvLeave \/ UvReturnsAtOnce
    \/ MainReturns \/ DrainEnds
    \/ NextScript \/ Destroy

Next == VmStep \/ (\E f \in Future : UvCallback(f)) \/ Terminated

Spec == Init /\ [][Next]_vars

\* The thread keeps executing, and a request the loop polls for again and
\* again is reported in the end.
Fairness == WF_vars(VmStep) /\ \A f \in Future : SF_vars(UvCallback(f))

FairSpec == Spec /\ Fairness

-----------------------------------------------------------------------------
Ready == {readyQueue[i] : i \in DOMAIN readyQueue}

\* No coroutine is queued twice, and only suspended ones are queued, so the
\* "stale entries" vm_scheduler_run_step skips do not exist.
ReadyQueueSound ==
    /\ \A i, j \in DOMAIN readyQueue :
           readyQueue[i] = readyQueue[j] => i = j
    /\ \A c \in Ready : state[c] = "suspended"

\* What a queued coroutine will find on its operand stack: nothing if it
\* was only spawned or had yielded, else exactly the one result of what it
\* awaits, and that result is final.
ResumesWithItsAnswer ==
    \A c \in Ready :
        \/ awaiting[c] = Nobody /\ delivered[c] = <<>>
        \/ /\ awaiting[c] # Nobody
           /\ delivered[c] = <<awaiting[c]>>
           /\ Completed(awaiting[c])

\* A registered waiter is suspended on that very object, has received
\* nothing yet and is not queued; completed objects have no waiter.
WaiterSound ==
    /\ \A f \in Future : waiting[f] # Nobody =>
           /\ ~resolved[f]
           /\ awaiting[waiting[f]] = f
           /\ state[waiting[f]] = "suspended"
           /\ delivered[waiting[f]] = <<>>
           /\ waiting[f] \notin Ready
    /\ \A d \in Coro : awaitedBy[d] # Nobody =>
           /\ state[d] # "dead"
           /\ awaiting[awaitedBy[d]] = d
           /\ state[awaitedBy[d]] = "suspended"
           /\ delivered[awaitedBy[d]] = <<>>
           /\ awaitedBy[d] \notin Ready

\* pending_io_count counts exactly the created and unresolved futures, all
\* of them GC roots, and every request still out belongs to one of them.
PendingIoExact ==
    main # "destroyed" =>
        /\ ioFutures = {f \in Future : kind[f] # "fresh" /\ ~resolved[f]}
        /\ pendingIo = Cardinality(ioFutures)
        /\ inFlight = {f \in ioFutures : kind[f] = "io"}

\* A suspended coroutine is queued or registered with what it awaits: none
\* is forgotten.
NoLostWaiter ==
    \A c \in Coro : state[c] = "suspended" /\ c \notin Ready =>
        \/ awaiting[c] \in Future /\ waiting[awaiting[c]] = c
        \/ awaiting[c] \in Coro /\ awaitedBy[awaiting[c]] = c

\* A resolved gather holds the results in the order of the list.
GatherInOrder ==
    \A f \in Future : kind[f] = "gather" /\ resolved[f] =>
        /\ slots[f] = items[f]
        /\ \A i \in DOMAIN items[f] :
               items[f][i] \in Coro => state[items[f][i]] = "dead"

\* Once every coroutine of a gather is finished the future is resolved.
GatherResolvesWhenDone ==
    \A f \in Future :
        (/\ kind[f] = "gather"
         /\ \A i \in DOMAIN items[f] : Completed(items[f][i]))
          => resolved[f]

\* The driver gives up, at the end of a drain or in an await it could not
\* answer, only when nothing can move any more: every suspended coroutine
\* awaits an unfinished coroutine or gather, never a request or a result.
QuietOnlyWhenStuck ==
    [][(main \in Driving /\ main' \in {"script", "done"} /\ LoopGoesOn)
         => \A c \in Coro : state[c] = "suspended" =>
                /\ awaiting[c] # Nobody
                /\ ~Completed(awaiting[c])
                /\ awaiting[c] \in Future => kind[awaiting[c]] = "gather"]_vars

\* After a script that ended normally vm_destroy frees no future that libuv
\* still works for.
FutureOutlivesRequest ==
    [][(main = "done" /\ main' = "destroyed") => inFlight = {}]_vars


-----------------------------------------------------------------------------
(* The scheduler implements the promise of await.                          *)

StatusOf(c) ==
    CASE state[c] = "fresh" -> "unborn"
      [] state[c] = "dead" -> "finished"
      [] state[c] = "running" -> IF c = current THEN "running" ELSE "failed"
      [] state[c] = "suspended" -> IF c \in Ready THEN "ready" ELSE "blocked"

Promise == INSTANCE AwaitPromise WITH
    status    <- [c \in Coro |-> StatusOf(c)],
    on        <- [c \in Coro |-> IF StatusOf(c) = "blocked" THEN awaiting[c]
                                 ELSE Nobody],
    completed <- {h \in Handle : Completed(h)}

\* Seen through this mapping every step is a step of AwaitPromise: whoever
\* awaits a handle is woken by the very step that completes it.
PromiseKept == Promise!Spec

-----------------------------------------------------------------------------
(* Liveness.                                                               *)

Over == main \in {"done", "failed", "destroyed"}

\* Every queued coroutine gets its turn.
ReadyGetsItsTurn ==
    \A c \in Coro : c \in Ready ~> state[c] = "running"

\* A coroutine that waits for a libuv request runs again.
IoResumesItsWaiter ==
    \A f \in Future, c \in Coro :
        (kind[f] = "io" /\ waiting[f] = c) ~> state[c] = "running"

\* The drain after the main script comes to an end, whatever the tasks
\* wait for.
DrainTerminates == main = "drain" ~> Over

=============================================================================
