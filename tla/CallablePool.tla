---------------------------- MODULE CallablePool ----------------------------
(***************************************************************************)
(* ThreadPoolExecutor (extension/concurrent): workers run Flux functions,  *)
(* each on a virtual machine of its own, and whoever asks a future for its *)
(* result sleeps until it is resolved.  A function may submit further      *)
(* functions to the same executor and ask for their results.               *)
(*                                                                         *)
(* Threads interleave at their locks.  Three things scripts are assumed    *)
(* not to do, because the code does not stop them: a function asks only    *)
(* for results of tasks it submitted itself (so that it never waits for    *)
(* its own end), only the main script calls shutdown(), and nobody uses an *)
(* executor after that.  malloc does not fail.                             *)
(***************************************************************************)
EXTENDS Integers, Sequences, FiniteSets

CONSTANTS
    Worker,   \* the threads of the executor
    Main,     \* the main thread
    Task,     \* functions the scripts submit
    NoTask    \* no function, no future

Thread == Worker \cup {Main}

ASSUME CallablePoolAssumption ==
    /\ IsFiniteSet(Worker) /\ Worker # {} /\ Main \notin Worker
    /\ NoTask \notin Task

VARIABLES
    pc,           \* where each worker is
    job,          \* the task whose function it runs
    errorFlag,    \* has_error or has_exception of its VM
    asleep,       \* the future a thread sleeps on in result()
    queue,        \* q_head .. q_tail
    shuttingDown, \* shutting_down
    main,         \* what the main thread is doing
    memory,       \* the ConcPool struct: "live" or "freed"
    owner,        \* the caller of submit: Main or the task that called it
    future,       \* "none", "pending", "value" or "error"
    outcome       \* how the function itself ended, for the properties

poolVars   == <<queue, shuttingDown>>
futureVars == <<owner, future, outcome>>
vars == <<pc, job, errorFlag, asleep, poolVars, main, memory, futureVars>>

TypeOK ==
    /\ pc \in [Worker -> {"unborn", "awake", "waiting", "running", "gone"}]
    /\ job \in [Worker -> Task \cup {NoTask}]
    /\ errorFlag \in [Worker -> BOOLEAN]
    /\ asleep \in [Thread -> Task \cup {NoTask}]
    /\ queue \in Seq(Task)
    /\ shuttingDown \in BOOLEAN
    /\ main \in {"starting", "script", "joining"}
    /\ memory \in {"live", "freed"}
    /\ owner \in [Task -> Task \cup {Main, NoTask}]
    /\ future \in [Task -> {"none", "pending", "value", "error"}]
    /\ outcome \in [Task -> {"none", "value", "error"}]

\* conc_pool_new has filled in the struct; the loop that starts the workers
\* is still to come.
Init ==
    /\ pc = [w \in Worker |-> "unborn"]
    /\ job = [w \in Worker |-> NoTask]
    /\ errorFlag = [w \in Worker |-> FALSE]
    /\ asleep = [c \in Thread |-> NoTask]
    /\ queue = <<>> /\ shuttingDown = FALSE
    /\ main = "starting" /\ memory = "live"
    /\ owner = [t \in Task |-> NoTask]
    /\ future = [t \in Task |-> "none"]
    /\ outcome = [t \in Task |-> "none"]

-----------------------------------------------------------------------------
Waiting == {w \in Worker : pc[w] = "waiting"}

Unborn == {w \in Worker : pc[w] = "unborn"}

\* pthread_cond_signal(work_cond) wakes one sleeping worker, if there is one,
SignalNobody == {{}}
Signal == IF Waiting = {} THEN {{}} ELSE {{w} : w \in Waiting}

\* pthread_cond_broadcast(work_cond) all of them.
BroadcastToOne == Signal
Broadcast == {Waiting}

Wake(W) == [w \in Worker |-> IF w \in W THEN "awake" ELSE pc[w]]

\* Resolving a future wakes whoever sleeps on it.
NobodyAsleepOn(t) == asleep
WakeSleepersOn(t) ==
    [c \in Thread |-> IF asleep[c] = t THEN NoTask ELSE asleep[c]]

-----------------------------------------------------------------------------
(* conc_pool_new.                                                          *)

StartWorker(w) ==
    /\ main = "starting"
    /\ pc[w] = "unborn"
    /\ pc' = [pc EXCEPT ![w] = "awake"]
    /\ main' = IF Unborn = {w} THEN "script" ELSE "starting"
    /\ UNCHANGED <<job, errorFlag, asleep, poolVars, memory, futureVars>>

\* pthread_create fails: the workers already started are told to stop, and
\* joined before everything is freed.
StartFails ==
    /\ main = "starting"
    /\ shuttingDown' = TRUE
    /\ \E W \in Broadcast : pc' = Wake(W)
    /\ main' = "joining"
    /\ UNCHANGED <<job, errorFlag, asleep, queue, memory, futureVars>>

-----------------------------------------------------------------------------
(* What a thread that executes Flux code can do: the main script, or the   *)
(* function a worker runs.                                                 *)

Executes(c) ==
    /\ asleep[c] = NoTask
    /\ IF c = Main THEN main = "script" /\ memory = "live"
                   ELSE pc[c] = "running" /\ ~errorFlag[c]

Self(c) == IF c = Main THEN Main ELSE job[c]

\* New tasks go behind q_tail.
QueueAfterInFront(t) == <<t>> \o queue
QueueAfter(t) == Append(queue, t)

\* executor.submit(fn, ...)
Submit(c, t) ==
    /\ Executes(c)
    /\ ~shuttingDown
    /\ future[t] = "none"
    /\ future' = [future EXCEPT ![t] = "pending"]
    /\ owner' = [owner EXCEPT ![t] = Self(c)]
    /\ queue' = QueueAfter(t)
    /\ \E W \in Signal : pc' = Wake(W)
    /\ UNCHANGED <<job, errorFlag, asleep, shuttingDown, main, memory,
                   outcome>>

\* future.result() of an unresolved future.
Result(c, t) ==
    /\ Executes(c)
    /\ owner[t] = Self(c)
    /\ future[t] = "pending"
    /\ asleep' = [asleep EXCEPT ![c] = t]
    /\ UNCHANGED <<pc, job, errorFlag, poolVars, main, memory, futureVars>>

\* The function raises, or a native it calls does: result() of a future that
\* holds an error, submit() while the executor shuts down.
Raise(w) ==
    /\ Executes(w)
    /\ errorFlag' = [errorFlag EXCEPT ![w] = TRUE]
    /\ outcome' = [outcome EXCEPT ![job[w]] = "error"]
    /\ UNCHANGED <<pc, job, asleep, poolVars, main, memory, owner, future>>

\* A handler catches the error in the vm_run that raised it.
Catch(w) ==
    /\ pc[w] = "running" /\ errorFlag[w]
    /\ errorFlag' = [errorFlag EXCEPT ![w] = FALSE]
    /\ outcome' = [outcome EXCEPT ![job[w]] = "none"]
    /\ UNCHANGED <<pc, job, asleep, poolVars, main, memory, owner, future>>

-----------------------------------------------------------------------------
(* worker_fn.                                                              *)

\* What the previous task left in the VM is cleared.
FlagAtStartKept(w) == errorFlag[w]
FlagAtStart(w) == FALSE

Take(w) ==
    /\ pc[w] = "awake"
    /\ queue # <<>>
    /\ job' = [job EXCEPT ![w] = Head(queue)]
    /\ queue' = Tail(queue)
    /\ errorFlag' = [errorFlag EXCEPT ![w] = FlagAtStart(w)]
    /\ pc' = [pc EXCEPT ![w] = "running"]
    /\ UNCHANGED <<asleep, shuttingDown, main, memory, futureVars>>

\* A worker that finds the queue empty sleeps, unless the executor shuts
\* down.
MayStopAtOnce == shuttingDown
MayStop == shuttingDown /\ queue = <<>>

Sleep(w) ==
    /\ pc[w] = "awake"
    /\ queue = <<>> /\ ~shuttingDown
    /\ pc' = [pc EXCEPT ![w] = "waiting"]
    /\ UNCHANGED <<job, errorFlag, asleep, poolVars, main, memory,
                   futureVars>>

Stop(w) ==
    /\ pc[w] = "awake"
    /\ MayStop
    /\ pc' = [pc EXCEPT ![w] = "gone"]
    /\ UNCHANGED <<job, errorFlag, asleep, poolVars, main, memory,
                   futureVars>>

\* pthread_cond_wait may return without a signal.
SpuriousWakeup(w) ==
    /\ pc[w] = "waiting"
    /\ pc' = [pc EXCEPT ![w] = "awake"]
    /\ UNCHANGED <<job, errorFlag, asleep, poolVars, main, memory,
                   futureVars>>

\* The flags of the VM decide what the future is resolved with.
ResolutionUnstored(w) == IF errorFlag[w] THEN "null" ELSE "value"
Resolution(w) == IF errorFlag[w] THEN "error" ELSE "value"

\* vm_invoke has returned: the future is resolved and its sleepers woken.
Finish(w) ==
    /\ pc[w] = "running" /\ asleep[w] = NoTask
    /\ outcome' = [outcome EXCEPT ![job[w]] =
                      IF @ = "error" THEN "error" ELSE "value"]
    /\ future' = [future EXCEPT ![job[w]] = Resolution(w)]
    /\ asleep' = WakeSleepersOn(job[w])
    /\ job' = [job EXCEPT ![w] = NoTask]
    /\ pc' = [pc EXCEPT ![w] = "awake"]
    /\ UNCHANGED <<errorFlag, poolVars, main, memory, owner>>

-----------------------------------------------------------------------------
(* executor.shutdown(): conc_pool_shutdown, then conc_pool_free.           *)

Shutdown ==
    /\ Executes(Main)
    /\ shuttingDown' = TRUE
    /\ \E W \in Broadcast : pc' = Wake(W)
    /\ main' = "joining"
    /\ UNCHANGED <<job, errorFlag, asleep, queue, memory, futureVars>>

\* Every thread that was started has been joined.  Tasks still queued would
\* be resolved with an error.
Joined ==
    /\ main = "joining"
    /\ \A w \in Worker : pc[w] \in {"gone", "unborn"}
    /\ future' = [t \in Task |->
           IF \E i \in DOMAIN queue : queue[i] = t THEN "error" ELSE future[t]]
    /\ queue' = <<>>
    /\ memory' = "freed"
    /\ main' = "script"
    /\ UNCHANGED <<pc, job, errorFlag, asleep, shuttingDown, owner, outcome>>

-----------------------------------------------------------------------------
ScriptStep(c) == \E t \in Task : Submit(c, t) \/ Result(c, t)

WorkerStep(w) == Take(w) \/ Sleep(w) \/ Stop(w) \/ Finish(w)

NewPool == StartFails \/ \E w \in Worker : StartWorker(w)

\* The script may stop calling, or everybody waits for everybody.
Rest == main # "starting" /\ UNCHANGED vars

Next ==
    \/ NewPool \/ Shutdown \/ Joined
    \/ \E c \in Thread : ScriptStep(c)
    \/ \E w \in Worker : Raise(w) \/ Catch(w)
    \/ \E w \in Worker : WorkerStep(w) \/ SpuriousWakeup(w)
    \/ Rest

Spec == Init /\ [][Next]_vars

\* Threads are scheduled, a function that does not wait ends, and natives of
\* the main thread go on.
Fairness ==
    /\ \A w \in Worker : WF_vars(WorkerStep(w))
    /\ WF_vars(NewPool) /\ WF_vars(Joined)

FairSpec == Spec /\ Fairness

-----------------------------------------------------------------------------
\* No wake-up of work_cond is lost: while a worker sleeps in worker_fn there
\* is an awake one for every queued task, and none sleeps in a shutdown.
WokenForEveryTask ==
    Waiting # {} =>
        /\ ~shuttingDown
        /\ Len(queue) <= Cardinality({w \in Worker : pc[w] = "awake"})

\* A future is resolved with what its own function did: a worker's VM serves
\* one task after the other and carries no error from one to the next, and
\* nobody resolves a future in place of the worker.
OutcomeIsOwn ==
    \A t \in Task : future[t] \in {"value", "error"} => future[t] = outcome[t]

\* When the executor is freed its threads have left it, nobody waits in
\* result(), and every function that was submitted has run (conc_pool_free
\* calls the queue empty after a shutdown).
FreedWhenDone ==
    memory = "freed" =>
        /\ \A w \in Worker : pc[w] \in {"gone", "unborn"}
        /\ \A c \in Thread : asleep[c] = NoTask
        /\ \A t \in Task : future[t] # "none" => outcome[t] # "none"

\* The executor keeps the promise of TaskPool.
Promise == INSTANCE TaskPool WITH
    open    <- ~shuttingDown,
    started <- {job[w] : w \in Worker} \ {NoTask},
    answer  <- [t \in Task |-> IF future[t] \in {"value", "error"}
                               THEN "result" ELSE "none"]

TaskPromise == Promise!Spec

\* All workers sleep in result() while the tasks they wait for, or others,
\* are left in the queue: nobody will ever take them.
Starved == queue # <<>> /\ \A w \in Worker : asleep[w] # NoTask

\* Every submitted task is answered, unless the executor starves: that is
\* the only way functions that wait for functions can get stuck.
EveryTaskAnswered ==
    \A t \in Task :
        future[t] = "pending" ~> (future[t] \in {"value", "error"} \/ Starved)

\* shutdown() returns, and so does conc_pool_new after a failed start, unless
\* the executor starves.
ShutdownReturns == main = "joining" ~> (main = "script" \/ Starved)
=============================================================================
