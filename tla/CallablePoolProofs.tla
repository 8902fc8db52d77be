------------------------- MODULE CallablePoolProofs -------------------------
(***************************************************************************)
(* Proofs about CallablePool, for every finite set of workers and every    *)
(* set of tasks: no wake-up is lost, a future is resolved with the outcome *)
(* of its own function, the executor is freed when all is done, and it     *)
(* implements TaskPool.                                                    *)
(***************************************************************************)
EXTENDS CallablePool, QueueLemmas

USE CallablePoolAssumption

(* The inductive invariant.                                                *)

Held == {t \in Task : \E w \in Worker : job[w] = t}
Awake == {w \in Worker : pc[w] = "awake"}

\* A worker has a task exactly while it runs it, no two run the same one,
\* and only running functions and the main script sleep in result().
JobsSound ==
    /\ \A w \in Worker : job[w] # NoTask <=> pc[w] = "running"
    /\ \A v, w \in Worker : job[v] = job[w] /\ job[v] # NoTask => v = w
    /\ \A w \in Worker : asleep[w] # NoTask => pc[w] = "running"
    /\ asleep[Main] # NoTask => main = "script" /\ memory = "live"

\* The queue and the workers share the pending tasks.
PlacesSound ==
    /\ Distinct(queue)
    /\ Entries(queue) \cap Held = {}
    /\ {t \in Task : future[t] = "pending"} = Entries(queue) \cup Held

\* A function that has not ended has no outcome but the error its VM is
\* raising, and an answered future has the outcome of its function.
OutcomesSound ==
    /\ \A t \in Task : future[t] = "none" => outcome[t] = "none"
    /\ \A t \in Entries(queue) : outcome[t] = "none"
    /\ \A w \in Worker : pc[w] = "running" =>
           outcome[job[w]] = IF errorFlag[w] THEN "error" ELSE "none"
    /\ OutcomeIsOwn

\* How far the executor has come: tasks are only submitted once all workers
\* have started, and workers only leave when no task is left.
PhaseSound ==
    /\ memory = "freed" =>
           /\ main = "script" /\ shuttingDown
           /\ \A w \in Worker : pc[w] \in {"gone", "unborn"}
    /\ main = "joining" => shuttingDown
    /\ main # "joining" /\ memory = "live" => ~shuttingDown
    /\ Unborn # {} =>
           /\ main = "script" => memory = "freed"
           /\ \A t \in Task : future[t] = "none"
    /\ (\E w \in Worker : pc[w] = "gone") => shuttingDown /\ queue = <<>>

IInv ==
    /\ TypeOK
    /\ JobsSound
    /\ PlacesSound
    /\ OutcomesSound
    /\ PhaseSound
    /\ WokenForEveryTask

\* What waking sleeping workers does to the sets and the program counters.
LEMMA WakeChangesNothing ==
    ASSUME TypeOK, NEW W \in SUBSET Waiting, pc' = Wake(W)
    PROVE  /\ pc' \in [Worker -> {"unborn", "awake", "waiting", "running",
                                  "gone"}]
           /\ Awake' = Awake \cup W /\ Waiting' = Waiting \ W
           /\ Unborn' = Unborn
           /\ \A w \in Worker :
                  /\ pc'[w] = "running" <=> pc[w] = "running"
                  /\ pc'[w] = "gone" <=> pc[w] = "gone"
                  /\ pc'[w] = "unborn" <=> pc[w] = "unborn"
BY DEF TypeOK, Wake, Waiting, Awake, Unborn

\* The workers that are awake can be counted.
LEMMA AwakeFinite == IsFiniteSet(Awake) /\ Cardinality(Awake) \in Nat
<1>1. Awake \in SUBSET Worker
  BY DEF Awake
<1> QED BY <1>1, FS_Subset, FS_CardinalityType

\* Whoever executes Flux code does so in an executor that has started and
\* has not been freed.
LEMMA Executing ==
    ASSUME IInv, NEW c \in Thread, Executes(c)
    PROVE  /\ Unborn = {} /\ memory = "live"
           /\ c # Main => /\ c \in Worker /\ pc[c] = "running"
                          /\ job[c] \in Task /\ future[job[c]] = "pending"
<1>1. CASE c = Main
  BY <1>1 DEF Executes, IInv, PhaseSound
<1>2. CASE c # Main
  <2>1. c \in Worker /\ pc[c] = "running"
    BY <1>2 DEF Executes, Thread
  <2>2. job[c] \in Task /\ future[job[c]] = "pending"
    BY <2>1 DEF IInv, TypeOK, JobsSound, PlacesSound, Held
  <2> QED BY <2>1, <2>2 DEF IInv, PhaseSound, TypeOK
<1> QED BY <1>1, <1>2

\* A function that ends held a pending task.
LEMMA Finishing ==
    ASSUME IInv, NEW w \in Worker, pc[w] = "running"
    PROVE  job[w] \in Task /\ job[w] \in Held /\ future[job[w]] = "pending"
BY DEF IInv, TypeOK, JobsSound, PlacesSound, Held

\* Workers only leave an empty queue, and one that was never started has
\* never seen a task.
LEMMA Drained ==
    ASSUME IInv, \A w \in Worker : pc[w] \in {"gone", "unborn"}
    PROVE  queue = <<>>
<1>1. CASE Unborn = {}
  <2>1. \A w \in Worker : pc[w] = "gone"
    BY <1>1 DEF Unborn
  <2> QED BY <2>1 DEF IInv, PhaseSound
<1>2. CASE Unborn # {}
  <2>1. \A t \in Task : t \notin Entries(queue)
    BY <1>2 DEF IInv, PhaseSound, PlacesSound
  <2> QED BY <2>1, TailEntries DEF IInv, TypeOK
<1> QED BY <1>1, <1>2

\* Every step keeps the types.
LEMMA TypeStep ==
    ASSUME IInv, [Next]_vars
    PROVE  TypeOK'
<1> USE DEF vars, poolVars, futureVars
<1>0. TypeOK
  BY DEF IInv
<1>1. ASSUME NEW w \in Worker, StartWorker(w) PROVE TypeOK'
  BY <1>0, <1>1 DEF StartWorker, TypeOK
<1>2. CASE StartFails \/ Shutdown
  <2>1. pc' = Wake(Waiting)
    BY <1>2 DEF StartFails, Shutdown, Broadcast
  <2>2. pc' \in [Worker -> {"unborn", "awake", "waiting", "running", "gone"}]
    BY <1>0, <2>1, WakeChangesNothing
  <2> QED BY <1>0, <1>2, <2>2 DEF StartFails, Shutdown, TypeOK
<1>3. CASE Joined
  <2>1. queue' \in Seq(Task)
    BY <1>3 DEF Joined
  <2> QED BY <1>0, <1>3, <2>1 DEF Joined, TypeOK
<1>4. ASSUME NEW c \in Thread, NEW t \in Task, Submit(c, t) PROVE TypeOK'
  <2>1. PICK W \in SUBSET Waiting : pc' = Wake(W)
    BY <1>4 DEF Submit, Signal
  <2>2. pc' \in [Worker -> {"unborn", "awake", "waiting", "running", "gone"}]
    BY <1>0, <2>1, WakeChangesNothing
  <2>3. Self(c) \in Task \cup {Main, NoTask}
    BY <1>0 DEF Self, Thread, TypeOK
  <2>4. queue' \in Seq(Task)
    BY <1>0, <1>4, AppendEntries DEF Submit, QueueAfter, TypeOK
  <2> QED BY <1>0, <1>4, <2>2, <2>3, <2>4 DEF Submit, TypeOK
<1>5. ASSUME NEW c \in Thread, NEW t \in Task, Result(c, t) PROVE TypeOK'
  BY <1>0, <1>5 DEF Result, TypeOK
<1>6. ASSUME NEW w \in Worker, Raise(w) \/ Catch(w) PROVE TypeOK'
  BY <1>0, <1>6 DEF Raise, Catch, TypeOK
<1>7. ASSUME NEW w \in Worker, Take(w) PROVE TypeOK'
  <2>1. Head(queue) \in Task /\ queue' \in Seq(Task)
    BY <1>0, <1>7, TailEntries DEF Take, TypeOK
  <2> QED BY <1>0, <1>7, <2>1 DEF Take, FlagAtStart, TypeOK
<1>8. ASSUME NEW w \in Worker, Sleep(w) \/ Stop(w) \/ SpuriousWakeup(w)
      PROVE  TypeOK'
  BY <1>0, <1>8 DEF Sleep, Stop, SpuriousWakeup, TypeOK
<1>9. ASSUME NEW w \in Worker, Finish(w) PROVE TypeOK'
  <2>1. asleep' \in [Thread -> Task \cup {NoTask}]
    BY <1>0, <1>9 DEF Finish, WakeSleepersOn, TypeOK
  <2>2. /\ future' \in [Task -> {"none", "pending", "value", "error"}]
        /\ outcome' \in [Task -> {"none", "value", "error"}]
    BY <1>0, <1>9 DEF Finish, Resolution, TypeOK
  <2> QED BY <1>0, <1>9, <2>1, <2>2 DEF Finish, TypeOK
<1>10. CASE UNCHANGED vars
  BY <1>0, <1>10 DEF TypeOK
<1> QED BY <1>1, <1>2, <1>3, <1>4, <1>5, <1>6, <1>7, <1>8, <1>9, <1>10
        DEF Next, NewPool, ScriptStep, WorkerStep, Rest

\* A worker takes a task that nobody runs, and only sleeps in result() while
\* it runs one.
LEMMA JobsStep ==
    ASSUME IInv, [Next]_vars
    PROVE  JobsSound'
<1> USE DEF vars, poolVars, futureVars
<1>0. TypeOK /\ JobsSound /\ PlacesSound /\ PhaseSound
  BY DEF IInv
<1>1. ASSUME NEW w \in Worker, StartWorker(w) PROVE JobsSound'
  BY <1>0, <1>1 DEF StartWorker, JobsSound, TypeOK
<1>2. ASSUME NEW W \in SUBSET Waiting, pc' = Wake(W), UNCHANGED <<job, asleep>>,
             asleep[Main] # NoTask => UNCHANGED <<main, memory>>
      PROVE  JobsSound'
  <2>1. \A w \in Worker : pc'[w] = "running" <=> pc[w] = "running"
    BY <1>0, <1>2, WakeChangesNothing
  <2> QED BY <1>0, <1>2, <2>1 DEF JobsSound
<1>3. CASE StartFails \/ Shutdown
  <2>1. pc' = Wake(Waiting)
    BY <1>3 DEF StartFails, Shutdown, Broadcast
  <2>2. asleep[Main] = NoTask
    BY <1>0, <1>3 DEF StartFails, Shutdown, Executes, JobsSound
  <2> QED BY <1>2, <1>3, <2>1, <2>2 DEF StartFails, Shutdown
<1>4. CASE Joined
  BY <1>0, <1>4 DEF Joined, JobsSound
<1>5. ASSUME NEW c \in Thread, NEW t \in Task, Submit(c, t) PROVE JobsSound'
  <2>1. PICK W \in SUBSET Waiting : pc' = Wake(W)
    BY <1>5 DEF Submit, Signal
  <2> QED BY <1>2, <1>5, <2>1 DEF Submit
<1>6. ASSUME NEW c \in Thread, NEW t \in Task, Result(c, t) PROVE JobsSound'
  <2>1. CASE c = Main
    BY <1>0, <1>6, <2>1 DEF Result, Executes, JobsSound, TypeOK, Thread
  <2>2. CASE c # Main
    BY <1>0, <1>6, <2>2 DEF Result, Executes, JobsSound, TypeOK, Thread
  <2> QED BY <2>1, <2>2
<1>7. ASSUME NEW w \in Worker, Raise(w) \/ Catch(w) PROVE JobsSound'
  BY <1>0, <1>7 DEF Raise, Catch, JobsSound
<1>8. ASSUME NEW w \in Worker, Take(w) PROVE JobsSound'
  <2>1. Head(queue) \in Task /\ Head(queue) \in Entries(queue)
    BY <1>0, <1>8, TailEntries DEF Take, TypeOK
  <2>2. \A v \in Worker : job[v] # Head(queue)
    BY <1>0, <2>1 DEF PlacesSound, Held
  <2> QED BY <1>0, <1>8, <2>1, <2>2 DEF Take, JobsSound, TypeOK
<1>9. ASSUME NEW w \in Worker, Sleep(w) \/ Stop(w) \/ SpuriousWakeup(w)
      PROVE  JobsSound'
  BY <1>0, <1>9 DEF Sleep, Stop, SpuriousWakeup, JobsSound, TypeOK
<1>10. ASSUME NEW w \in Worker, Finish(w) PROVE JobsSound'
  <2>1. \A c \in Thread : asleep'[c] # NoTask => asleep[c] # NoTask
    BY <1>0, <1>10 DEF Finish, WakeSleepersOn, TypeOK
  <2>2. asleep[w] = NoTask
    BY <1>10 DEF Finish
  <2> QED BY <1>0, <1>10, <2>1, <2>2 DEF Finish, JobsSound, TypeOK, Thread
<1>11. CASE UNCHANGED vars
  BY <1>0, <1>11 DEF JobsSound
<1> QED BY <1>1, <1>3, <1>4, <1>5, <1>6, <1>7, <1>8, <1>9, <1>10, <1>11
        DEF Next, NewPool, ScriptStep, WorkerStep, Rest

\* Every step moves a task from one place to the next, or answers it.
LEMMA PlacesStep ==
    ASSUME IInv, [Next]_vars
    PROVE  PlacesSound'
<1> USE DEF vars, poolVars, futureVars
<1>0. /\ TypeOK /\ JobsSound /\ PlacesSound /\ PhaseSound
      /\ queue \in Seq(Task)
      /\ Entries(<<>>) = {} /\ Distinct(<<>>)
  BY DEF IInv, TypeOK, Entries, Distinct
<1>1. ASSUME UNCHANGED <<queue, job, future>> PROVE PlacesSound'
  BY <1>0, <1>1 DEF PlacesSound, Held
<1>2. CASE StartFails \/ Shutdown \/ UNCHANGED vars
  BY <1>1, <1>2 DEF StartFails, Shutdown
<1>3. CASE Joined
  <2>1. \A w \in Worker : job[w] = NoTask
    BY <1>0, <1>3 DEF Joined, JobsSound
  <2>2. Held' = {} /\ Held = {}
    BY <1>3, <2>1 DEF Joined, Held
  <2>3. \A t \in Task : future'[t] # "pending"
    BY <1>0, <1>3, <2>2 DEF Joined, PlacesSound, Entries
  <2> QED BY <1>0, <1>3, <2>2, <2>3 DEF Joined, PlacesSound
<1>4. ASSUME NEW c \in Thread, NEW t \in Task, Submit(c, t) PROVE PlacesSound'
  <2>1. t \notin Entries(queue) \cup Held
    BY <1>0, <1>4 DEF Submit, PlacesSound
  <2>2. /\ Entries(queue') = Entries(queue) \cup {t} /\ Distinct(queue')
        /\ Held' = Held
    BY <1>0, <1>4, <2>1, AppendEntries
       DEF Submit, QueueAfter, PlacesSound, Held
  <2>3. {x \in Task : future'[x] = "pending"} =
            {x \in Task : future[x] = "pending"} \cup {t}
    BY <1>0, <1>4 DEF Submit, TypeOK
  <2> QED BY <1>0, <2>1, <2>2, <2>3 DEF PlacesSound
<1>5. ASSUME NEW w \in Worker, Take(w) PROVE PlacesSound'
  <2>1. /\ Head(queue) \in Entries(queue) /\ Head(queue) \in Task
        /\ Distinct(queue') /\ Entries(queue') = Entries(queue) \ {Head(queue)}
    BY <1>0, <1>5, TailEntries DEF Take, PlacesSound
  <2>2. job[w] = NoTask
    BY <1>0, <1>5 DEF Take, JobsSound
  <2>3. Held' = Held \cup {Head(queue)}
    BY <1>0, <1>5, <2>1, <2>2 DEF Take, Held, TypeOK
  <2>4. future' = future
    BY <1>5 DEF Take
  <2> QED BY <1>0, <2>1, <2>3, <2>4 DEF PlacesSound
<1>6. ASSUME NEW w \in Worker, Finish(w) PROVE PlacesSound'
  <2>1. job[w] \in Task /\ job[w] \in Held
    BY <1>6, Finishing DEF Finish
  <2>2. Held' = Held \ {job[w]} /\ queue' = queue
    BY <1>0, <1>6, <2>1 DEF Finish, Held, JobsSound, TypeOK
  <2>3. {t \in Task : future'[t] = "pending"} =
            {t \in Task : future[t] = "pending"} \ {job[w]}
    BY <1>0, <1>6, <2>1 DEF Finish, Resolution, TypeOK
  <2> QED BY <1>0, <2>1, <2>2, <2>3 DEF PlacesSound
<1>7. ASSUME NEW c \in Thread, NEW t \in Task, Result(c, t) PROVE PlacesSound'
  BY <1>1, <1>7 DEF Result
<1>8. ASSUME NEW w \in Worker,
             \/ StartWorker(w) \/ Raise(w) \/ Catch(w) \/ Sleep(w) \/ Stop(w)
             \/ SpuriousWakeup(w)
      PROVE  PlacesSound'
  BY <1>1, <1>8 DEF StartWorker, Raise, Catch, Sleep, Stop, SpuriousWakeup
<1> QED BY <1>2, <1>3, <1>4, <1>5, <1>6, <1>7, <1>8
        DEF Next, NewPool, ScriptStep, WorkerStep, Rest

\* A worker's VM starts each task without an error, and the future gets what
\* its flags say when the task ends.
LEMMA OutcomesStep ==
    ASSUME IInv, [Next]_vars
    PROVE  OutcomesSound'
<1> USE DEF vars, poolVars, futureVars
<1>0. /\ TypeOK /\ JobsSound /\ PlacesSound /\ OutcomesSound /\ PhaseSound
      /\ queue \in Seq(Task)
  BY DEF IInv, TypeOK
<1>1. ASSUME UNCHANGED <<queue, job, errorFlag, future, outcome>>,
             \A w \in Worker : pc'[w] = "running" => pc[w] = "running"
      PROVE  OutcomesSound'
  BY <1>0, <1>1 DEF OutcomesSound, OutcomeIsOwn
<1>2. CASE StartFails \/ Shutdown
  <2>1. pc' = Wake(Waiting)
    BY <1>2 DEF StartFails, Shutdown, Broadcast
  <2>2. \A w \in Worker : pc'[w] = "running" => pc[w] = "running"
    BY <1>0, <2>1, WakeChangesNothing
  <2> QED BY <1>1, <1>2, <2>2 DEF StartFails, Shutdown
<1>3. CASE Joined
  <2>1. queue = <<>>
    BY <1>3, Drained DEF Joined
  <2>2. future' = future /\ queue' = queue
    BY <1>0, <1>3, <2>1 DEF Joined, TypeOK
  <2> QED BY <1>1, <1>3, <2>2 DEF Joined
<1>4. ASSUME NEW c \in Thread, NEW t \in Task, Submit(c, t)
      PROVE  OutcomesSound'
  <2>1. PICK W \in SUBSET Waiting : pc' = Wake(W)
    BY <1>4 DEF Submit, Signal
  <2>2. \A w \in Worker : pc'[w] = "running" <=> pc[w] = "running"
    BY <1>0, <2>1, WakeChangesNothing
  <2>3. /\ Entries(queue') = Entries(queue) \cup {t}
        /\ UNCHANGED <<job, errorFlag, outcome>> /\ outcome[t] = "none"
    BY <1>0, <1>4, AppendEntries DEF Submit, QueueAfter, OutcomesSound
  <2>4. future' = [future EXCEPT ![t] = "pending"]
    BY <1>4 DEF Submit
  <2> QED BY <1>0, <2>2, <2>3, <2>4 DEF OutcomesSound, OutcomeIsOwn, TypeOK
<1>5. ASSUME NEW w \in Worker, Raise(w) \/ Catch(w) PROVE OutcomesSound'
  <2>1. pc[w] = "running" /\ job[w] \in Task /\ job[w] \notin Entries(queue)
        /\ future[job[w]] = "pending"
    BY <1>0, <1>5, Finishing, Executing
       DEF Raise, Catch, Executes, PlacesSound
  <2>2. \A v \in Worker : pc[v] = "running" /\ v # w =>
            job[v] \in Task /\ job[v] # job[w]
    BY <1>0 DEF JobsSound, TypeOK
  <2>3. \E e \in BOOLEAN :
            /\ errorFlag' = [errorFlag EXCEPT ![w] = e]
            /\ outcome' = [outcome EXCEPT ![job[w]] =
                              IF e THEN "error" ELSE "none"]
    BY <1>5 DEF Raise, Catch
  <2>4. UNCHANGED <<pc, job, queue, future>>
    BY <1>5 DEF Raise, Catch
  <2> QED BY <1>0, <2>1, <2>2, <2>3, <2>4
          DEF OutcomesSound, OutcomeIsOwn, TypeOK
<1>6. ASSUME NEW w \in Worker, Take(w) PROVE OutcomesSound'
  <2>1. /\ Head(queue) \in Entries(queue)
        /\ Entries(queue') \subseteq Entries(queue)
    BY <1>0, <1>6, TailEntries DEF Take, PlacesSound
  <2>2. UNCHANGED <<future, outcome>>
    BY <1>6 DEF Take
  <2>3. /\ pc' = [pc EXCEPT ![w] = "running"]
        /\ job' = [job EXCEPT ![w] = Head(queue)]
        /\ errorFlag' = [errorFlag EXCEPT ![w] = FALSE]
    BY <1>6 DEF Take, FlagAtStart
  <2> QED BY <1>0, <2>1, <2>2, <2>3 DEF OutcomesSound, OutcomeIsOwn, TypeOK
<1>7. ASSUME NEW w \in Worker, Finish(w) PROVE OutcomesSound'
  <2>1. /\ pc[w] = "running" /\ job[w] \in Task
        /\ job[w] \notin Entries(queue)
    BY <1>0, <1>7, Finishing DEF Finish, PlacesSound
  <2>2. \A v \in Worker : pc[v] = "running" /\ v # w =>
            job[v] \in Task /\ job[v] # job[w]
    BY <1>0 DEF JobsSound, TypeOK
  <2>3. outcome[job[w]] = IF errorFlag[w] THEN "error" ELSE "none"
    BY <1>0, <2>1 DEF OutcomesSound
  <2>4. \E r \in {"value", "error"} :
            /\ outcome' = [outcome EXCEPT ![job[w]] = r]
            /\ future' = [future EXCEPT ![job[w]] = r]
    BY <1>0, <1>7, <2>1, <2>3 DEF Finish, Resolution, TypeOK
  <2>5. /\ pc' = [pc EXCEPT ![w] = "awake"]
        /\ job' = [job EXCEPT ![w] = NoTask]
        /\ UNCHANGED <<errorFlag, queue>>
    BY <1>7 DEF Finish
  <2> QED BY <1>0, <2>1, <2>2, <2>4, <2>5
          DEF OutcomesSound, OutcomeIsOwn, TypeOK
<1>8. ASSUME NEW c \in Thread, NEW t \in Task, Result(c, t)
      PROVE  OutcomesSound'
  BY <1>1, <1>8 DEF Result
<1>9. ASSUME NEW w \in Worker,
             StartWorker(w) \/ Sleep(w) \/ Stop(w) \/ SpuriousWakeup(w)
      PROVE  OutcomesSound'
  BY <1>0, <1>1, <1>9 DEF StartWorker, Sleep, Stop, SpuriousWakeup, TypeOK
<1>10. CASE UNCHANGED vars
  BY <1>1, <1>10
<1> QED BY <1>2, <1>3, <1>4, <1>5, <1>6, <1>7, <1>8, <1>9, <1>10
        DEF Next, NewPool, ScriptStep, WorkerStep, Rest

\* The executor only goes on from one phase to the next.
LEMMA PhaseStep ==
    ASSUME IInv, [Next]_vars
    PROVE  PhaseSound'
<1> USE DEF vars, poolVars, futureVars
<1>0. /\ TypeOK /\ JobsSound /\ PlacesSound /\ PhaseSound
      /\ queue \in Seq(Task)
  BY DEF IInv, TypeOK
<1>1. ASSUME UNCHANGED <<queue, shuttingDown, main, memory, future>>,
             \A w \in Worker : /\ pc'[w] = "gone" <=> pc[w] = "gone"
                               /\ pc'[w] = "unborn" <=> pc[w] = "unborn"
      PROVE  PhaseSound'
  BY <1>0, <1>1 DEF PhaseSound, Unborn
<1>2. CASE StartFails \/ Shutdown
  <2>1. pc' = Wake(Waiting)
    BY <1>2 DEF StartFails, Shutdown, Broadcast
  <2>2. /\ Unborn' = Unborn
        /\ \A w \in Worker : pc'[w] = "gone" <=> pc[w] = "gone"
    BY <1>0, <2>1, WakeChangesNothing
  <2>3. memory = "live"
    BY <1>0, <1>2 DEF StartFails, Shutdown, Executes, PhaseSound, TypeOK
  <2> QED BY <1>0, <1>2, <2>2, <2>3 DEF StartFails, Shutdown, PhaseSound
<1>3. ASSUME NEW w \in Worker, StartWorker(w) PROVE PhaseSound'
  <2>1. /\ Unborn' = Unborn \ {w}
        /\ \A v \in Worker : pc'[v] = "gone" <=> pc[v] = "gone"
    BY <1>0, <1>3 DEF StartWorker, Unborn, TypeOK
  <2> QED BY <1>0, <1>3, <2>1 DEF StartWorker, PhaseSound, TypeOK
<1>4. CASE Joined
  <2>1. Unborn' = Unborn
    BY <1>4 DEF Joined, Unborn
  <2>2. Unborn # {} => \A t \in Task : future'[t] = "none"
    <3> SUFFICES ASSUME Unborn # {}, NEW t \in Task
                 PROVE  future'[t] = "none"
      OBVIOUS
    <3>1. t \notin Entries(queue)
      BY <1>0 DEF PhaseSound, PlacesSound
    <3> QED BY <1>0, <1>4, <3>1 DEF Joined, PhaseSound, Entries
  <2> QED BY <1>0, <1>4, <2>1, <2>2 DEF Joined, PhaseSound
<1>5. ASSUME NEW c \in Thread, NEW t \in Task, Submit(c, t) PROVE PhaseSound'
  <2>1. PICK W \in SUBSET Waiting : pc' = Wake(W)
    BY <1>5 DEF Submit, Signal
  <2>2. /\ Unborn' = Unborn
        /\ \A w \in Worker : pc'[w] = "gone" <=> pc[w] = "gone"
    BY <1>0, <2>1, WakeChangesNothing
  <2>3. Unborn = {} /\ memory = "live"
    BY <1>5, Executing DEF Submit
  <2> QED BY <1>0, <1>5, <2>2, <2>3 DEF Submit, PhaseSound
<1>6. ASSUME NEW w \in Worker, Take(w) PROVE PhaseSound'
  <2>1. /\ Unborn' = Unborn
        /\ \A v \in Worker : pc'[v] = "gone" <=> pc[v] = "gone"
    BY <1>0, <1>6 DEF Take, Unborn, TypeOK
  <2>2. memory # "freed" /\ ~ \E v \in Worker : pc[v] = "gone"
    BY <1>0, <1>6 DEF Take, PhaseSound
  <2> QED BY <1>0, <1>6, <2>1, <2>2 DEF Take, PhaseSound
<1>7. ASSUME NEW w \in Worker, Stop(w) PROVE PhaseSound'
  <2>1. Unborn' = Unborn /\ memory # "freed"
    BY <1>0, <1>7 DEF Stop, Unborn, PhaseSound, TypeOK
  <2> QED BY <1>0, <1>7, <2>1 DEF Stop, MayStop, PhaseSound
<1>8. ASSUME NEW w \in Worker, Finish(w) PROVE PhaseSound'
  <2>1. /\ Unborn' = Unborn
        /\ \A v \in Worker : pc'[v] = "gone" <=> pc[v] = "gone"
    BY <1>0, <1>8 DEF Finish, Unborn, TypeOK
  <2>2. Unborn = {} /\ memory # "freed"
    BY <1>0, <1>8, Finishing DEF Finish, PhaseSound
  <2> QED BY <1>0, <1>8, <2>1, <2>2 DEF Finish, PhaseSound
<1>9. ASSUME NEW c \in Thread, NEW t \in Task, Result(c, t) PROVE PhaseSound'
  BY <1>1, <1>9 DEF Result
<1>10. ASSUME NEW w \in Worker,
              Raise(w) \/ Catch(w) \/ Sleep(w) \/ SpuriousWakeup(w)
       PROVE  PhaseSound'
  BY <1>0, <1>1, <1>10 DEF Raise, Catch, Sleep, SpuriousWakeup, TypeOK
<1>11. CASE UNCHANGED vars
  BY <1>1, <1>11
<1> QED BY <1>2, <1>3, <1>4, <1>5, <1>6, <1>7, <1>8, <1>9, <1>10, <1>11
        DEF Next, NewPool, ScriptStep, WorkerStep, Rest

\* A submission wakes a worker for its task, a worker that takes a task
\* leaves the others to those awake, and one only sleeps on an empty queue.
LEMMA WokenStep ==
    ASSUME IInv, [Next]_vars
    PROVE  WokenForEveryTask'
<1> USE DEF vars, poolVars, futureVars
<1> DEFINE Woken == Waiting # {} => /\ ~shuttingDown
                                    /\ Len(queue) <= Cardinality(Awake)
<1>0. /\ TypeOK /\ Woken /\ (Woken' => WokenForEveryTask')
      /\ queue \in Seq(Task)
  BY DEF IInv, TypeOK, WokenForEveryTask, Awake
<1>1. /\ Len(queue) \in Nat /\ Len(<<>>) = 0
      /\ \A t \in Task : Len(Append(queue, t)) = Len(queue) + 1
      /\ queue # <<>> => Len(Tail(queue)) = Len(queue) - 1
  BY <1>0
<1>2. IsFiniteSet(Awake) /\ Cardinality(Awake) \in Nat
  BY AwakeFinite
<1>3. ASSUME queue' = queue, shuttingDown' = shuttingDown,
             Waiting' = Waiting, Awake' = Awake
      PROVE  Woken'
  BY <1>0, <1>3
<1>4. CASE StartFails \/ Shutdown
  <2>1. pc' = Wake(Waiting)
    BY <1>4 DEF StartFails, Shutdown, Broadcast
  <2>2. Waiting' = Waiting \ Waiting
    BY <1>0, <2>1, WakeChangesNothing
  <2>3. Woken'
    BY <2>2
  <2> QED BY <1>0, <2>3
<1>5. ASSUME NEW c \in Thread, NEW t \in Task, Submit(c, t) PROVE Woken'
  <2>1. CASE Waiting = {}
    BY <1>0, <1>5, <2>1, WakeChangesNothing DEF Submit, Signal
  <2>2. CASE Waiting # {}
    <3>1. PICK v \in Waiting : pc' = Wake({v})
      BY <1>5, <2>2 DEF Submit, Signal
    <3>2. Awake' = Awake \cup {v} /\ v \notin Awake
      <4>1. {v} \in SUBSET Waiting
        BY <3>1
      <4>2. Awake' = Awake \cup {v}
        BY <1>0, <3>1, <4>1, WakeChangesNothing
      <4>3. v \notin Awake
        BY <3>1 DEF Waiting, Awake
      <4> QED BY <4>2, <4>3
    <3>3. Cardinality(Awake') = Cardinality(Awake) + 1
      BY <1>2, <3>2, FS_AddElement
    <3>4. Len(queue') = Len(queue) + 1 /\ shuttingDown' = shuttingDown
      BY <1>1, <1>5 DEF Submit, QueueAfter
    <3> QED BY <1>0, <1>1, <1>2, <2>2, <3>3, <3>4
  <2> QED BY <2>1, <2>2
<1>6. ASSUME NEW w \in Worker, Take(w) PROVE Woken'
  <2>1. Waiting' = Waiting /\ Awake' = Awake \ {w} /\ w \in Awake
    BY <1>0, <1>6 DEF Take, Waiting, Awake, TypeOK
  <2>2. Cardinality(Awake') = Cardinality(Awake) - 1
    BY <1>2, <2>1, FS_RemoveElement
  <2>3. Len(queue') = Len(queue) - 1 /\ shuttingDown' = shuttingDown
    BY <1>1, <1>6 DEF Take
  <2> QED BY <1>0, <1>1, <1>2, <2>1, <2>2, <2>3
<1>7. ASSUME NEW w \in Worker, Sleep(w) \/ Stop(w) PROVE Woken'
  <2>1. Len(queue') = 0 /\ shuttingDown' = shuttingDown
    BY <1>1, <1>7 DEF Sleep, Stop, MayStop
  <2>2. Awake' \in SUBSET Worker
    BY DEF Awake
  <2>3. Cardinality(Awake') \in Nat
    BY <2>2, FS_Subset, FS_CardinalityType
  <2>4. shuttingDown => Waiting' = Waiting
    BY <1>0, <1>7 DEF Sleep, Stop, Waiting, TypeOK
  <2> QED BY <1>0, <2>1, <2>3, <2>4
<1>8. ASSUME NEW w \in Worker,
             StartWorker(w) \/ Finish(w) \/ SpuriousWakeup(w)
      PROVE  Woken'
  <2>1. /\ Waiting' \subseteq Waiting /\ Awake' = Awake \cup {w}
        /\ w \notin Awake
    BY <1>0, <1>8 DEF StartWorker, Finish, SpuriousWakeup, Waiting, Awake,
                      TypeOK
  <2>2. Cardinality(Awake') = Cardinality(Awake) + 1
    BY <1>2, <2>1, FS_AddElement
  <2>3. queue' = queue /\ shuttingDown' = shuttingDown
    BY <1>8 DEF StartWorker, Finish, SpuriousWakeup
  <2> QED BY <1>0, <1>1, <1>2, <2>1, <2>2, <2>3
<1>9. CASE Joined
  <2>1. Waiting' = {}
    BY <1>9 DEF Joined, Waiting
  <2>2. Woken'
    BY <2>1
  <2> QED BY <1>0, <2>2
<1>10. CASE \/ \E c \in Thread, t \in Task : Result(c, t)
            \/ \E w \in Worker : Raise(w) \/ Catch(w)
            \/ UNCHANGED vars
  <2>1. queue' = queue /\ shuttingDown' = shuttingDown /\ pc' = pc
    BY <1>10 DEF Result, Raise, Catch
  <2>2. Waiting' = Waiting /\ Awake' = Awake
    BY <2>1 DEF Waiting, Awake
  <2> QED BY <1>0, <1>3, <2>1, <2>2
<1> HIDE DEF Woken
<1> QED BY <1>0, <1>4, <1>5, <1>6, <1>7, <1>8, <1>9, <1>10
        DEF Next, NewPool, ScriptStep, WorkerStep, Rest

\* Before the first worker has started there is no task.
LEMMA InitIInv == Init => IInv
<1> SUFFICES ASSUME Init PROVE IInv
  OBVIOUS
<1>1. TypeOK
  <2>1. queue \in Seq(Task)
    BY DEF Init
  <2> QED BY <2>1 DEF Init, TypeOK
<1>2. JobsSound /\ Held = {} /\ Entries(queue) = {}
  BY DEF Init, JobsSound, Held, Entries, Thread
<1>3. PlacesSound /\ OutcomesSound
  BY <1>2 DEF Init, PlacesSound, Distinct, OutcomesSound, OutcomeIsOwn
<1>4. PhaseSound /\ WokenForEveryTask
  BY DEF Init, PhaseSound, WokenForEveryTask, Waiting
<1> QED BY <1>1, <1>2, <1>3, <1>4 DEF IInv

-----------------------------------------------------------------------------
\* The invariant that relates the phases of an executor, its queue, its
\* workers and its futures is inductive.
THEOREM Inductive == Spec => []IInv
<1>1. IInv /\ [Next]_vars => IInv'
  BY TypeStep, JobsStep, PlacesStep, OutcomesStep, PhaseStep, WokenStep
     DEF IInv
<1> QED BY <1>1, InitIInv, PTL DEF Spec

\* Every field of the executor and of its futures keeps its type.
THEOREM TypeCorrect == Spec => []TypeOK
<1>1. IInv => TypeOK
  BY DEF IInv
<1> QED BY <1>1, Inductive, PTL

\* No signal of work_cond is lost.
THEOREM NoLostWakeup == Spec => []WokenForEveryTask
<1>1. IInv => WokenForEveryTask
  BY DEF IInv
<1> QED BY <1>1, Inductive, PTL

\* A future is resolved with what its own function did, although a worker's
\* VM serves one function after the other.
THEOREM OwnOutcome == Spec => []OutcomeIsOwn
<1>1. IInv => OutcomeIsOwn
  BY DEF IInv, OutcomesSound
<1> QED BY <1>1, Inductive, PTL

\* The executor is freed when no thread uses it and every function it was
\* given has run.
THEOREM FreedInTime == Spec => []FreedWhenDone
<1>1. IInv => FreedWhenDone
  <2> SUFFICES ASSUME IInv, memory = "freed"
               PROVE  /\ \A w \in Worker : pc[w] \in {"gone", "unborn"}
                      /\ \A c \in Thread : asleep[c] = NoTask
                      /\ \A t \in Task : future[t] # "none" =>
                                             outcome[t] # "none"
    BY DEF FreedWhenDone
  <2>1. \A w \in Worker : pc[w] \in {"gone", "unborn"}
    BY DEF IInv, PhaseSound
  <2>2. \A c \in Thread : asleep[c] = NoTask
    BY <2>1 DEF IInv, JobsSound, Thread
  <2>3. Held = {}
    BY <2>1 DEF IInv, JobsSound, Held
  <2>4. ASSUME NEW t \in Task, future[t] # "none"
        PROVE  outcome[t] # "none"
    <3>1. \A w \in Worker : pc[w] = "gone"
      BY <2>1, <2>4 DEF IInv, PhaseSound, Unborn
    <3>2. Entries(queue) = {}
      BY <3>1 DEF IInv, PhaseSound, Entries
    <3>3. future[t] # "pending"
      BY <2>3, <3>2 DEF IInv, PlacesSound
    <3> QED BY <2>4, <3>3 DEF IInv, TypeOK, OutcomesSound, OutcomeIsOwn
  <2> QED BY <2>1, <2>2, <2>4
<1> QED BY <1>1, Inductive, PTL

-----------------------------------------------------------------------------
(* The executor implements TaskPool.                                       *)

Started == {job[w] : w \in Worker} \ {NoTask}
AnswerOf == [t \in Task |-> IF future[t] \in {"value", "error"}
                            THEN "result" ELSE "none"]

\* Each step of the threads is a step of the promise or invisible in it.
LEMMA PromiseStep ==
    ASSUME IInv, [Next]_vars
    PROVE  [Promise!Next]_(Promise!vars)
<1> USE DEF vars, poolVars, futureVars
<1>0. /\ TypeOK /\ JobsSound /\ PlacesSound /\ PhaseSound
      /\ queue \in Seq(Task) /\ Started = Held
  BY DEF IInv, TypeOK, Started, Held
<1>1. ASSUME UNCHANGED <<shuttingDown, queue, job, AnswerOf>>
      PROVE  UNCHANGED Promise!vars
  BY <1>1 DEF Promise!vars, AnswerOf
<1>2. CASE StartFails \/ Shutdown
  <2>1. ~shuttingDown /\ shuttingDown' /\ UNCHANGED <<queue, job, future>>
    BY <1>0, <1>2 DEF StartFails, Shutdown, Executes, PhaseSound, TypeOK
  <2> QED BY <2>1 DEF Promise!Next, Promise!Close
<1>3. CASE Joined
  <2>1. queue = <<>>
    BY <1>3, Drained DEF Joined
  <2>2. future' = future /\ queue' = queue
    BY <1>0, <1>3, <2>1 DEF Joined, TypeOK
  <2> QED BY <1>1, <1>3, <2>2 DEF Joined, AnswerOf
<1>4. ASSUME NEW c \in Thread, NEW t \in Task, Submit(c, t)
      PROVE  Promise!Next
  <2>1. t \notin Entries(queue) /\ t \notin Started
    BY <1>0, <1>4 DEF Submit, PlacesSound
  <2>2. AnswerOf' = AnswerOf /\ AnswerOf[t] = "none"
    BY <1>0, <1>4 DEF Submit, AnswerOf, TypeOK
  <2>3. ~shuttingDown /\ UNCHANGED <<shuttingDown, job>>
        /\ queue' = Append(queue, t)
    BY <1>4 DEF Submit, QueueAfter
  <2> QED BY <2>1, <2>2, <2>3
          DEF Promise!Next, Promise!Submit, Promise!Queued, Started, AnswerOf,
              Entries
<1>5. ASSUME NEW w \in Worker, Take(w) PROVE Promise!Next
  <2>1. Head(queue) \in Task /\ job[w] = NoTask
    BY <1>0, <1>5, TailEntries DEF Take, JobsSound
  <2>2. Started' = Started \cup {Head(queue)}
    BY <1>0, <1>5, <2>1 DEF Take, Started, TypeOK
  <2> QED BY <1>5, <2>2 DEF Take, Promise!Next, Promise!Start, Started
<1>6. ASSUME NEW w \in Worker, Finish(w) PROVE Promise!Next
  <2>1. job[w] \in Task /\ job[w] \in Started
    BY <1>0, <1>6, Finishing DEF Finish
  <2>2. Started' = Started \ {job[w]}
    BY <1>0, <1>6, <2>1 DEF Finish, Started, JobsSound, TypeOK
  <2>3. AnswerOf' = [t \in Task |-> IF t \in {job[w]} THEN "result"
                                    ELSE AnswerOf[t]]
    BY <1>0, <1>6, <2>1 DEF Finish, Resolution, AnswerOf, TypeOK
  <2>4. UNCHANGED <<shuttingDown, queue>>
    BY <1>6 DEF Finish
  <2>5. {job[w]} \subseteq Started
    BY <2>1
  <2>6. Promise!Answer({job[w]})
    BY <2>2, <2>3, <2>4, <2>5 DEF Promise!Answer, Started, AnswerOf
  <2> QED BY <2>5, <2>6 DEF Promise!Next, Promise!Answer, Started
<1>7. ASSUME NEW c \in Thread, NEW t \in Task, Result(c, t)
      PROVE  UNCHANGED Promise!vars
  BY <1>1, <1>7 DEF Result, AnswerOf
<1>8. ASSUME NEW w \in Worker,
             \/ StartWorker(w) \/ Raise(w) \/ Catch(w) \/ Sleep(w) \/ Stop(w)
             \/ SpuriousWakeup(w)
      PROVE  UNCHANGED Promise!vars
  BY <1>1, <1>8 DEF StartWorker, Raise, Catch, Sleep, Stop, SpuriousWakeup,
     AnswerOf
<1>9. CASE UNCHANGED vars
  BY <1>1, <1>9 DEF AnswerOf
<1> QED BY <1>2, <1>3, <1>4, <1>5, <1>6, <1>7, <1>8, <1>9
        DEF Next, NewPool, ScriptStep, WorkerStep, Rest

\* Towards its scripts the executor keeps the promise of TaskPool: functions
\* start in the order of submission, each is answered once, and nothing is
\* accepted after shutdown().
THEOREM Implements == Spec => TaskPromise
<1>1. Init => Promise!Init
  BY DEF Init, Promise!Init
<1>2. IInv /\ [Next]_vars => [Promise!Next]_(Promise!vars)
  BY PromiseStep
<1> QED BY <1>1, <1>2, Inductive, PTL DEF Spec, TaskPromise, Promise!Spec

=============================================================================
