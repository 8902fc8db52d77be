----------------------------- MODULE ShellPool -----------------------------
(***************************************************************************)
(* One pool of `import thread` (stdlib/thread/thread_module.c), from       *)
(* thread.pool to the moment its memory is given back.  Worker threads     *)
(* take shell commands from a queue and hand the results to the main       *)
(* thread through a second queue and a uv_async handle.                    *)
(*                                                                         *)
(* The threads interleave at their locks, their atomic counters and their  *)
(* reads of plain fields.  What the main thread does to futures is seen by *)
(* nobody else and belongs to the step that hands it the task.             *)
(***************************************************************************)
EXTENDS Integers, Sequences, FiniteSets

CONSTANTS
    Worker,      \* the threads of the pool
    Task,        \* shell commands the scripts submit
    NoTask,      \* the NULL pointer
    ShutdownModes, \* values given to the `wait` argument of thread.shutdown
    OutOfMemory  \* may malloc fail?

ASSUME ShellPoolAssumption ==
    /\ IsFiniteSet(Worker) /\ Worker # {} /\ IsFiniteSet(Task)
    /\ NoTask \notin Task
    /\ ShutdownModes \subseteq BOOLEAN /\ OutOfMemory \in BOOLEAN

VARIABLES
    pc,           \* where each worker is
    job,          \* the task it holds
    isLast,       \* `remaining == 0` in its local variable
    queue,        \* queue_head .. queue_tail
    queuedTasks,  \* queued_tasks
    shutdownFlag, \* shutdown_flag
    done,         \* done_head .. done_tail
    activeTasks,  \* active_tasks
    workerCount,  \* worker_count
    detached,     \* detached
    async,        \* the uv_async handle: "open", "closing" or "closed"
    asyncPending, \* a uv_async_send the loop has not served yet
    memory,       \* the ThreadPool struct: "live" or "freed"
    slot,         \* does g_pools[] still lead to the pool?
    main,         \* what the main thread is doing
    future,       \* the future of each task
    pendingIo     \* the share of these futures in vm->pending_io_count

queueVars == <<queue, queuedTasks, shutdownFlag>>
poolVars  == <<activeTasks, workerCount, detached, memory, slot>>
asyncVars == <<async, asyncPending>>
threadVars == <<pc, job, isLast>>
vmVars    == <<main, future, pendingIo>>
vars == <<threadVars, queueVars, done, poolVars, asyncVars, vmVars>>

TypeOK ==
    /\ pc \in [Worker -> {"awake", "waiting", "taken", "running", "ran",
                          "posted", "leaving", "left", "lastSend", "gone"}]
    /\ job \in [Worker -> Task \cup {NoTask}]
    /\ isLast \in [Worker -> BOOLEAN]
    /\ queue \in Seq(Task) /\ done \in Seq(Task)
    /\ queuedTasks \in Nat /\ activeTasks \in Nat
    /\ workerCount \in 0..Cardinality(Worker)
    /\ shutdownFlag \in BOOLEAN /\ detached \in BOOLEAN
    /\ async \in {"open", "closing", "closed"} /\ asyncPending \in BOOLEAN
    /\ memory \in {"live", "freed"} /\ slot \in BOOLEAN
    /\ main \in {"script", "callback", "cleanup", "joining", "detaching"}
    /\ future \in [Task -> {"none", "pending", "orphan", "result",
                            "cancelled"}]
    /\ pendingIo \in Nat

\* thread.pool has started the workers.
Init ==
    /\ pc = [w \in Worker |-> "awake"]
    /\ job = [w \in Worker |-> NoTask]
    /\ isLast = [w \in Worker |-> FALSE]
    /\ queue = <<>> /\ queuedTasks = 0 /\ shutdownFlag = FALSE
    /\ done = <<>>
    /\ activeTasks = 0 /\ workerCount = Cardinality(Worker)
    /\ detached = FALSE /\ memory = "live" /\ slot = TRUE
    /\ async = "open" /\ asyncPending = FALSE
    /\ main = "script"
    /\ future = [t \in Task |-> "none"] /\ pendingIo = 0

Elems(q) == {q[i] : i \in DOMAIN q}
Waiting == {w \in Worker : pc[w] = "waiting"}

-----------------------------------------------------------------------------
(* Condition variable and uv_async.                                        *)

\* pthread_cond_signal wakes one sleeping worker, if there is one.
SignalNobody == {{}}
Signal == IF Waiting = {} THEN {{}} ELSE {{w} : w \in Waiting}

\* pthread_cond_broadcast wakes them all.
BroadcastToOne == Signal
Broadcast == {Waiting}

Wake(W) == [w \in Worker |-> IF w \in W THEN "awake" ELSE pc[w]]

\* uv_async_send: sends coalesce, and a closed handle ignores them.
UvAsyncSendForgets == asyncPending
UvAsyncSend == async = "open" \/ asyncPending

-----------------------------------------------------------------------------
(* Natives called by a script on the main thread.                          *)

\* New tasks go behind queue_tail.
QueueAfterInFront(t) == <<t>> \o queue
QueueAfter(t) == Append(queue, t)

\* thread.submit, and each element of thread.map.
Submit(t) ==
    /\ main = "script" /\ slot
    /\ future[t] = "none"
    /\ future' = [future EXCEPT ![t] = "pending"]
    /\ pendingIo' = pendingIo + 1
    /\ queue' = QueueAfter(t)
    /\ queuedTasks' = queuedTasks + 1
    /\ \E W \in Signal : pc' = Wake(W)
    /\ UNCHANGED <<job, isLast, shutdownFlag, done, poolVars, asyncVars, main>>

\* submit_task registers the future before it allocates the task.
SubmitFails(t) ==
    /\ OutOfMemory
    /\ main = "script" /\ slot
    /\ future[t] = "none"
    /\ future' = [future EXCEPT ![t] = "orphan"]
    /\ pendingIo' = pendingIo + 1
    /\ UNCHANGED <<threadVars, queueVars, done, poolVars, asyncVars, main>>

\* The queue is emptied under its lock and its futures are answered.
QueuedAfterCancelLess == queuedTasks - Len(queue) - 1
QueuedAfterCancel == queuedTasks - Len(queue)

CancelQueue ==
    /\ queue' = <<>>
    /\ queuedTasks' = QueuedAfterCancel
    /\ future' = [t \in Task |->
           IF t \in Elems(queue) THEN "cancelled" ELSE future[t]]
    /\ pendingIo' = pendingIo - Len(queue)

CancelPending ==
    /\ main = "script" /\ slot
    /\ CancelQueue
    /\ UNCHANGED <<threadVars, shutdownFlag, done, poolVars, asyncVars, main>>

\* thread.shutdown: free the slot, cancel what has not started, raise the
\* flag; then join the workers or detach them.
Shutdown(wait) ==
    /\ main = "script" /\ slot
    /\ slot' = FALSE
    /\ CancelQueue
    /\ shutdownFlag' = TRUE
    /\ \E W \in Broadcast : pc' = Wake(W)
    /\ main' = IF wait THEN "joining" ELSE "detaching"
    /\ UNCHANGED <<job, isLast, done, activeTasks, workerCount, detached,
                   memory, asyncVars>>

\* All workers have been joined: close the handle, answer what they left
\* behind and free the pool.
Join ==
    /\ main = "joining"
    /\ \A w \in Worker : pc[w] = "gone"
    /\ async' = "closing" /\ asyncPending' = FALSE
    /\ future' = [t \in Task |->
           IF t \in Elems(done) THEN "result" ELSE future[t]]
    /\ pendingIo' = pendingIo - Len(done)
    /\ done' = <<>>
    /\ memory' = "freed"
    /\ main' = "script"
    /\ UNCHANGED <<threadVars, queueVars, activeTasks, workerCount, detached,
                   slot>>

Detach ==
    /\ main = "detaching"
    /\ detached' = TRUE
    /\ main' = "script"
    /\ UNCHANGED <<threadVars, queueVars, done, activeTasks, workerCount,
                   memory, slot, asyncVars, future, pendingIo>>

-----------------------------------------------------------------------------
(* on_completions, run by the libuv loop on the main thread.               *)

CallbackStart ==
    /\ main = "script"
    /\ async = "open" /\ asyncPending
    /\ asyncPending' = FALSE
    /\ main' = "callback"
    /\ UNCHANGED <<threadVars, queueVars, done, poolVars, async, future,
                   pendingIo>>

CallbackTake ==
    /\ main = "callback"
    /\ done # <<>>
    /\ done' = Tail(done)
    /\ future' = [future EXCEPT ![Head(done)] = "result"]
    /\ pendingIo' = pendingIo - 1
    /\ UNCHANGED <<threadVars, queueVars, poolVars, asyncVars, main>>

\* It has seen done_head = NULL and given the lock back ...
CallbackDrained ==
    /\ main = "callback"
    /\ done = <<>>
    /\ main' = "cleanup"
    /\ UNCHANGED <<threadVars, queueVars, done, poolVars, asyncVars, future,
                   pendingIo>>

\* ... and looks whether it is the one to close the handle.
CallbackCleanup ==
    /\ main = "cleanup"
    /\ main' = "script"
    /\ IF detached /\ workerCount = 0
       THEN async' = "closing" /\ asyncPending' = FALSE
       ELSE UNCHANGED asyncVars
    /\ UNCHANGED <<threadVars, queueVars, done, poolVars, future, pendingIo>>

\* The close callback frees the handle, and the pool if shutdown did not.
AsyncClosed ==
    /\ main = "script"
    /\ async = "closing"
    /\ async' = "closed"
    /\ memory' = "freed"
    /\ UNCHANGED <<threadVars, queueVars, done, activeTasks, workerCount,
                   detached, slot, asyncPending, vmVars>>

-----------------------------------------------------------------------------
(* worker_thread.                                                          *)

MoveTo(w, label) == pc' = [pc EXCEPT ![w] = label]

\* Under queue_mutex: take the first task, leave, or sleep.
Take(w) ==
    /\ pc[w] = "awake"
    /\ queue # <<>>
    /\ job' = [job EXCEPT ![w] = Head(queue)]
    /\ queue' = Tail(queue)
    /\ queuedTasks' = queuedTasks - 1
    /\ MoveTo(w, "taken")
    /\ UNCHANGED <<isLast, shutdownFlag, done, poolVars, asyncVars, vmVars>>

StopOrSleep(w) ==
    /\ pc[w] = "awake"
    /\ queue = <<>>
    /\ MoveTo(w, IF shutdownFlag THEN "leaving" ELSE "waiting")
    /\ UNCHANGED <<job, isLast, queueVars, done, poolVars, asyncVars, vmVars>>

\* pthread_cond_wait may return without a signal.
SpuriousWakeup(w) ==
    /\ pc[w] = "waiting"
    /\ MoveTo(w, "awake")
    /\ UNCHANGED <<job, isLast, queueVars, done, poolVars, asyncVars, vmVars>>

\* The command runs between the two changes of active_tasks.
Run(w) ==
    /\ pc[w] = "taken"
    /\ activeTasks' = activeTasks + 1
    /\ MoveTo(w, "running")
    /\ UNCHANGED <<job, isLast, queueVars, done, workerCount, detached,
                   memory, slot, asyncVars, vmVars>>

Ran(w) ==
    /\ pc[w] = "running"
    /\ activeTasks' = activeTasks - 1
    /\ MoveTo(w, "ran")
    /\ UNCHANGED <<job, isLast, queueVars, done, workerCount, detached,
                   memory, slot, asyncVars, vmVars>>

DoneAfterOverwrites(t) == <<t>>
DoneAfter(t) == Append(done, t)

Post(w) ==
    /\ pc[w] = "ran"
    /\ done' = DoneAfter(job[w])
    /\ job' = [job EXCEPT ![w] = NoTask]
    /\ MoveTo(w, "posted")
    /\ UNCHANGED <<isLast, queueVars, poolVars, asyncVars, vmVars>>

\* Without memory for the Completion the worker goes on with the next task.
PostFails(w) ==
    /\ OutOfMemory
    /\ pc[w] = "ran"
    /\ future' = [future EXCEPT ![job[w]] = "orphan"]
    /\ job' = [job EXCEPT ![w] = NoTask]
    /\ MoveTo(w, "awake")
    /\ UNCHANGED <<isLast, queueVars, done, poolVars, asyncVars, main,
                   pendingIo>>

Notify(w) ==
    /\ pc[w] = "posted"
    /\ asyncPending' = UvAsyncSend
    /\ MoveTo(w, "awake")
    /\ UNCHANGED <<job, isLast, queueVars, done, poolVars, async, vmVars>>

Leave(w) ==
    /\ pc[w] = "leaving"
    /\ workerCount' = workerCount - 1
    /\ isLast' = [isLast EXCEPT ![w] = workerCount = 1]
    /\ MoveTo(w, "left")
    /\ UNCHANGED <<job, queueVars, done, activeTasks, detached, memory, slot,
                   asyncVars, vmVars>>

\* pool->detached: any value once the pool is freed.
ReadDetached(w) ==
    /\ pc[w] = "left"
    /\ \E d \in IF memory = "freed" THEN BOOLEAN ELSE {detached} :
           MoveTo(w, IF d /\ isLast[w] THEN "lastSend" ELSE "gone")
    /\ UNCHANGED <<job, isLast, queueVars, done, poolVars, asyncVars, vmVars>>

LastSend(w) ==
    /\ pc[w] = "lastSend"
    /\ asyncPending' = UvAsyncSend
    /\ MoveTo(w, "gone")
    /\ UNCHANGED <<job, isLast, queueVars, done, poolVars, async, vmVars>>

-----------------------------------------------------------------------------
ScriptStep ==
    \/ \E t \in Task : Submit(t) \/ SubmitFails(t)
    \/ CancelPending
    \/ \E wait \in ShutdownModes : Shutdown(wait)

MainStep == Join \/ Detach \/ CallbackTake \/ CallbackDrained
            \/ CallbackCleanup

LoopStep == CallbackStart \/ AsyncClosed

WorkerStep(w) ==
    \/ Take(w) \/ StopOrSleep(w) \/ Run(w) \/ Ran(w)
    \/ Post(w) \/ PostFails(w) \/ Notify(w)
    \/ Leave(w) \/ ReadDetached(w) \/ LastSend(w)

\* The script may stop calling; everything else may have come to rest.
Rest == main = "script" /\ UNCHANGED vars

Next ==
    \/ ScriptStep \/ MainStep \/ LoopStep
    \/ \E w \in Worker : WorkerStep(w) \/ SpuriousWakeup(w)
    \/ Rest

Spec == Init /\ [][Next]_vars

\* Threads are scheduled, commands end, and the main thread goes on: inside
\* natives and callbacks always, into the loop while futures are pending.
Fairness ==
    /\ \A w \in Worker : WF_vars(WorkerStep(w))
    /\ WF_vars(MainStep)
    /\ WF_vars(pendingIo > 0 /\ LoopStep)

FairSpec == Spec /\ Fairness

-----------------------------------------------------------------------------
\* Every unanswered future is in exactly one place, where somebody will
\* answer it: in the queue, with a worker, or among the results.  Only a
\* failed malloc makes an orphan.  The three counters agree with that.
TaskAccounted ==
    /\ \A t \in Task :
           LET places == Cardinality({i \in DOMAIN queue : queue[i] = t})
                         + Cardinality({i \in DOMAIN done : done[i] = t})
                         + Cardinality({w \in Worker : job[w] = t})
           IN  places = IF future[t] = "pending" THEN 1 ELSE 0
    /\ pendingIo = Cardinality({t \in Task : future[t] \in
                                             {"pending", "orphan"}})
    /\ queuedTasks = Len(queue)
    /\ activeTasks = Cardinality({w \in Worker : pc[w] = "running"})

\* While a worker sleeps there is an awake worker for every queued task, and
\* after the shutdown nobody sleeps: no wake-up is lost.
WokenForEveryTask ==
    Waiting # {} =>
        /\ ~shutdownFlag
        /\ Len(queue) <= Cardinality({w \in Worker : pc[w] = "awake"})

\* A result in the completion queue is about to be collected: by a callback
\* that runs or is due, by one its worker is about to ask for, or by Join.
ResultIsAnnounced ==
    done # <<>> /\ async = "open" =>
        \/ asyncPending
        \/ main \in {"callback", "joining"}
        \/ \E w \in Worker : pc[w] = "posted"

\* The pool keeps the promise of TaskPool.
Promise == INSTANCE TaskPool WITH
    open    <- slot,
    started <- {t \in Task : t \in Elems(done) \/ \E w \in Worker : job[w] = t},
    answer  <- [t \in Task |-> IF future[t] \in {"result", "cancelled"}
                               THEN future[t] ELSE "none"]

TaskPromise == Promise!Spec

\* Every task handed to the pool is answered in the end.
EveryTaskAnswered ==
    \A t \in Task :
        future[t] = "pending" ~> future[t] \in {"result", "cancelled"}

\* thread.shutdown(pool) returns.
ShutdownReturns == main = "joining" ~> main = "script"

\* The struct of the pool lives until its last worker has left it (header
\* of thread_module.c: the struct stays alive until the last worker exits).
PoolOutlivesWorkers ==
    memory = "freed" => \A w \in Worker : pc[w] = "gone"

\* The handle is not closed over results nobody has collected (the header
\* promises that running workers finish, and that a future always resolves).
ClosedWithoutLoss == async # "open" => done = <<>>
=============================================================================
