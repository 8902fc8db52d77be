-------------------------- MODULE ShellPoolProofs --------------------------
(***************************************************************************)
(* Proofs about ShellPool, for every finite set of workers and tasks, both *)
(* kinds of shutdown and failing allocations: tasks are accounted for, no  *)
(* wake-up is lost, results are announced, and the pool implements         *)
(* TaskPool.  A pool whose scripts only shut down with wait=true is freed  *)
(* after its last worker and loses no result.                              *)
(***************************************************************************)
EXTENDS ShellPool, QueueLemmas

USE ShellPoolAssumption

(* The inductive invariant.                                                *)

Held == {t \in Task : \E w \in Worker : job[w] = t}
Running == {w \in Worker : pc[w] = "running"}
Awake == {w \in Worker : pc[w] = "awake"}
Inside == {w \in Worker : pc[w] \notin {"left", "lastSend", "gone"}}
Unanswered == {t \in Task : future[t] \in {"pending", "orphan"}}

\* A worker holds a task exactly while it works on it, and no two hold the
\* same one.
JobsSound ==
    /\ \A w \in Worker :
           job[w] # NoTask <=> pc[w] \in {"taken", "running", "ran"}
    /\ \A v, w \in Worker : job[v] = job[w] /\ job[v] # NoTask => v = w

\* The queue, the workers and the completions share the pending tasks.
PlacesSound ==
    /\ Distinct(queue) /\ Distinct(done)
    /\ Entries(queue) \cap Entries(done) = {}
    /\ Entries(queue) \cap Held = {}
    /\ Entries(done) \cap Held = {}
    /\ {t \in Task : future[t] = "pending"} =
           Entries(queue) \cup Entries(done) \cup Held

CountersExact ==
    /\ pendingIo = Cardinality(Unanswered)
    /\ queuedTasks = Len(queue)
    /\ activeTasks = Cardinality(Running)
    /\ workerCount = Cardinality(Inside)

IInv ==
    /\ TypeOK
    /\ JobsSound
    /\ PlacesSound
    /\ CountersExact
    /\ WokenForEveryTask
    /\ ResultIsAnnounced

\* The two ways of naming the elements of a queue are the same.
LEMMA ElemsAreEntries == \A q : Elems(q) = Entries(q)
BY DEF Elems, Entries

\* The sets that the counters count are finite.
LEMMA CountedSetsFinite ==
    /\ IsFiniteSet(Running) /\ IsFiniteSet(Inside) /\ IsFiniteSet(Unanswered)
    /\ IsFiniteSet(Awake)
    /\ Cardinality(Inside) \in 0 .. Cardinality(Worker)
    /\ Cardinality(Running) \in Nat /\ Cardinality(Unanswered) \in Nat
    /\ Cardinality(Awake) \in Nat
<1>1. /\ Running \in SUBSET Worker /\ Inside \in SUBSET Worker
      /\ Awake \in SUBSET Worker
      /\ Unanswered \in SUBSET Task
  BY DEF Running, Inside, Unanswered, Awake
<1> HIDE DEF Running, Inside, Unanswered, Awake
<1>2. /\ IsFiniteSet(Running) /\ IsFiniteSet(Inside)
      /\ IsFiniteSet(Unanswered) /\ IsFiniteSet(Awake)
      /\ Cardinality(Inside) <= Cardinality(Worker)
  BY <1>1, FS_Subset
<1> QED BY <1>2, FS_CardinalityType

\* The sets above and the queues after one of the ways in which they change.
LEMMA WakeChangesNothing ==
    ASSUME TypeOK, NEW W \in SUBSET Waiting, pc' = Wake(W)
    PROVE  /\ pc' \in [Worker -> {"awake", "waiting", "taken", "running", "ran",
                                  "posted", "leaving", "left", "lastSend",
                                  "gone"}]
           /\ Running' = Running /\ Inside' = Inside
           /\ Awake' = Awake \cup W /\ Waiting' = Waiting \ W
           /\ \A w \in Worker : pc'[w] = pc[w] \/ (pc[w] = "waiting" /\ pc'[w] = "awake")
BY DEF TypeOK, Wake, Waiting, Running, Inside, Awake

\* What cancelling the queue does to the futures and their number.
LEMMA CancelAnswers ==
    ASSUME TypeOK, PlacesSound, CountersExact, CancelQueue
    PROVE  /\ Unanswered' = Unanswered \ Entries(queue)
           /\ pendingIo' = Cardinality(Unanswered')
           /\ queuedTasks' = 0 /\ queue' = <<>>
           /\ future' \in [Task -> {"none", "pending", "orphan", "result",
                                    "cancelled"}]
           /\ {t \in Task : future'[t] = "pending"} =
                  Entries(done) \cup Held
<1>1. /\ future' = [t \in Task |-> IF t \in Entries(queue) THEN "cancelled"
                                   ELSE future[t]]
      /\ queue' = <<>> /\ pendingIo' = pendingIo - Len(queue)
      /\ queuedTasks' = queuedTasks - Len(queue)
  BY ElemsAreEntries DEF CancelQueue, QueuedAfterCancel
<1>2. Entries(queue) \subseteq Unanswered
  BY DEF PlacesSound, Unanswered
<1>3. Unanswered' = Unanswered \ Entries(queue)
  BY <1>1 DEF Unanswered
<1>4. Cardinality(Entries(queue)) = Len(queue)
  BY EntriesCardinality DEF TypeOK, PlacesSound
<1>5. Cardinality(Unanswered \ Entries(queue)) =
          Cardinality(Unanswered) - Cardinality(Entries(queue))
  BY <1>2, CountedSetsFinite, CardinalityWithout
<1>6. queuedTasks' = 0
  BY <1>1 DEF TypeOK, CountersExact
<1>7. /\ future' \in [Task -> {"none", "pending", "orphan", "result",
                               "cancelled"}]
      /\ {t \in Task : future'[t] = "pending"} = Entries(done) \cup Held
  BY <1>1 DEF TypeOK, PlacesSound
<1> QED BY <1>1, <1>3, <1>4, <1>5, <1>6, <1>7 DEF CountersExact

\* The counters agree with what they count after every step.
LEMMA CountersStep ==
    ASSUME IInv, [Next]_vars
    PROVE  CountersExact'
<1> USE DEF IInv, vars, queueVars, poolVars, asyncVars, threadVars, vmVars
<1>0. /\ queue \in Seq(Task) /\ Len(queue) \in Nat
      /\ \A t \in Task : Len(Append(queue, t)) = Len(queue) + 1
      /\ queue # <<>> => Len(Tail(queue)) = Len(queue) - 1
  BY DEF TypeOK
<1>1. ASSUME UNCHANGED <<queue, queuedTasks>>,
             UNCHANGED <<activeTasks, Running>>,
             UNCHANGED <<workerCount, Inside>>,
             UNCHANGED <<pendingIo, Unanswered>>
      PROVE  CountersExact'
  BY <1>1 DEF CountersExact
<1>2. ASSUME NEW t \in Task, Submit(t)
      PROVE  CountersExact'
  <2>1. PICK W \in SUBSET Waiting : pc' = Wake(W)
    BY <1>2 DEF Submit, Signal
  <2>2. Running' = Running /\ Inside' = Inside
    BY <2>1, WakeChangesNothing
  <2>3. Unanswered' = Unanswered \cup {t} /\ t \notin Unanswered
    BY <1>2 DEF Submit, Unanswered, TypeOK
  <2>4. pendingIo' = Cardinality(Unanswered')
    BY <1>2, <2>3, CountedSetsFinite, FS_AddElement DEF Submit, CountersExact
  <2>5. queuedTasks' = Len(queue')
    BY <1>0, <1>2 DEF Submit, QueueAfter, CountersExact
  <2> QED BY <1>2, <2>2, <2>4, <2>5 DEF Submit, CountersExact
<1>3. ASSUME NEW t \in Task, SubmitFails(t)
      PROVE  CountersExact'
  <2>1. Unanswered' = Unanswered \cup {t} /\ t \notin Unanswered
    BY <1>3 DEF SubmitFails, Unanswered, TypeOK
  <2>2. pendingIo' = Cardinality(Unanswered')
    BY <1>3, <2>1, CountedSetsFinite, FS_AddElement
       DEF SubmitFails, CountersExact
  <2>3. Running' = Running /\ Inside' = Inside
    BY <1>3 DEF SubmitFails, Running, Inside
  <2> QED BY <1>3, <2>2, <2>3 DEF SubmitFails, CountersExact
<1>4. CASE CancelPending
  <2>1. Running' = Running /\ Inside' = Inside
    BY <1>4 DEF CancelPending, Running, Inside
  <2> QED BY <1>4, <2>1, CancelAnswers DEF CancelPending, CountersExact
<1>5. ASSUME NEW wait \in ShutdownModes, Shutdown(wait)
      PROVE  CountersExact'
  <2>1. PICK W \in SUBSET Waiting : pc' = Wake(W)
    BY <1>5 DEF Shutdown, Broadcast
  <2>2. Running' = Running /\ Inside' = Inside
    BY <2>1, WakeChangesNothing
  <2> QED BY <1>5, <2>2, CancelAnswers DEF Shutdown, CountersExact
<1>6. CASE Join
  <2>1. Unanswered' = Unanswered \ Entries(done)
    BY <1>6, ElemsAreEntries DEF Join, Unanswered
  <2>2. Entries(done) \subseteq Unanswered
    BY DEF PlacesSound, Unanswered
  <2>3. Cardinality(Entries(done)) = Len(done)
    BY EntriesCardinality DEF TypeOK, PlacesSound
  <2>4. pendingIo' = Cardinality(Unanswered')
    BY <1>6, <2>1, <2>2, <2>3, CountedSetsFinite, CardinalityWithout
       DEF Join, CountersExact
  <2>5. Running' = Running /\ Inside' = Inside
    BY <1>6 DEF Join, Running, Inside
  <2> QED BY <1>6, <2>4, <2>5 DEF Join, CountersExact
<1>7. CASE CallbackTake
  <2>1. Head(done) \in Task /\ Head(done) \in Entries(done)
    BY <1>7, TailEntries DEF CallbackTake, TypeOK
  <2>2. Unanswered' = Unanswered \ {Head(done)} /\ Head(done) \in Unanswered
    BY <1>7, <2>1 DEF CallbackTake, Unanswered, TypeOK, PlacesSound
  <2>3. pendingIo' = Cardinality(Unanswered')
    BY <1>7, <2>2, CountedSetsFinite, FS_RemoveElement
       DEF CallbackTake, CountersExact
  <2>4. Running' = Running /\ Inside' = Inside
    BY <1>7 DEF CallbackTake, Running, Inside
  <2> QED BY <1>7, <2>3, <2>4 DEF CallbackTake, CountersExact
<1>8. ASSUME NEW w \in Worker, Take(w)
      PROVE  CountersExact'
  <2>1. Running' = Running /\ Inside' = Inside /\ Unanswered' = Unanswered
    BY <1>8 DEF Take, MoveTo, Running, Inside, Unanswered, TypeOK
  <2> QED BY <1>0, <1>8, <2>1 DEF Take, CountersExact
<1>9. ASSUME NEW w \in Worker, Run(w)
      PROVE  CountersExact'
  <2>1. /\ Running' = Running \cup {w} /\ w \notin Running
        /\ Inside' = Inside /\ Unanswered' = Unanswered
    BY <1>9 DEF Run, MoveTo, Running, Inside, Unanswered, TypeOK
  <2>2. activeTasks' = Cardinality(Running')
    BY <1>9, <2>1, CountedSetsFinite, FS_AddElement DEF Run, CountersExact
  <2> QED BY <1>9, <2>1, <2>2 DEF Run, CountersExact
<1>10. ASSUME NEW w \in Worker, Ran(w)
       PROVE  CountersExact'
  <2>1. /\ Running' = Running \ {w} /\ w \in Running
        /\ Inside' = Inside /\ Unanswered' = Unanswered
    BY <1>10 DEF Ran, MoveTo, Running, Inside, Unanswered, TypeOK
  <2>2. activeTasks' = Cardinality(Running')
    BY <1>10, <2>1, CountedSetsFinite, FS_RemoveElement DEF Ran, CountersExact
  <2> QED BY <1>10, <2>1, <2>2 DEF Ran, CountersExact
<1>11. ASSUME NEW w \in Worker, Leave(w)
       PROVE  CountersExact'
  <2>1. /\ Inside' = Inside \ {w} /\ w \in Inside
        /\ Running' = Running /\ Unanswered' = Unanswered
    BY <1>11 DEF Leave, MoveTo, Running, Inside, Unanswered, TypeOK
  <2>2. workerCount' = Cardinality(Inside')
    BY <1>11, <2>1, CountedSetsFinite, FS_RemoveElement
       DEF Leave, CountersExact
  <2> QED BY <1>11, <2>1, <2>2 DEF Leave, CountersExact
<1>12. ASSUME NEW w \in Worker, PostFails(w)
       PROVE  CountersExact'
  <2>1. job[w] \in Task /\ future[job[w]] = "pending"
    BY <1>12 DEF PostFails, TypeOK, JobsSound, PlacesSound, Held
  <2>2. Running' = Running /\ Inside' = Inside /\ Unanswered' = Unanswered
    BY <1>12, <2>1 DEF PostFails, MoveTo, Running, Inside, Unanswered, TypeOK
  <2> QED BY <1>12, <2>2 DEF PostFails, CountersExact
<1>13. ASSUME NEW w \in Worker, Post(w) \/ Notify(w) \/ LastSend(w)
                                \/ ReadDetached(w)
       PROVE  CountersExact'
  <2>1. Running' = Running /\ Inside' = Inside /\ Unanswered' = Unanswered
    BY <1>13 DEF Post, Notify, LastSend, ReadDetached, MoveTo, Running,
                 Inside, Unanswered, TypeOK
  <2> QED BY <1>13, <2>1 DEF Post, Notify, LastSend, ReadDetached,
                             CountersExact
<1>14. ASSUME NEW w \in Worker, StopOrSleep(w) \/ SpuriousWakeup(w)
       PROVE  CountersExact'
  <2>1. Running' = Running /\ Inside' = Inside /\ Unanswered' = Unanswered
    BY <1>14 DEF StopOrSleep, SpuriousWakeup, MoveTo, Running, Inside,
                 Unanswered, TypeOK
  <2> QED BY <1>14, <2>1 DEF StopOrSleep, SpuriousWakeup, CountersExact
<1>15. CASE Detach \/ CallbackStart \/ CallbackDrained \/ CallbackCleanup
            \/ AsyncClosed \/ UNCHANGED vars
  BY <1>1, <1>15 DEF Detach, CallbackStart, CallbackDrained, CallbackCleanup,
     AsyncClosed, Running, Inside, Unanswered
<1> QED BY <1>2, <1>3, <1>4, <1>5, <1>6, <1>7, <1>8, <1>9, <1>10, <1>11,
           <1>12, <1>13, <1>14, <1>15
        DEF Next, ScriptStep, MainStep, LoopStep, WorkerStep, Rest

\* Workers that take a task had none, and it was nobody's.
LEMMA JobsStep ==
    ASSUME IInv, [Next]_vars
    PROVE  JobsSound'
<1> USE DEF IInv, vars, queueVars, poolVars, asyncVars, threadVars, vmVars
<1>1. ASSUME UNCHANGED <<pc, job>> PROVE JobsSound'
  BY <1>1 DEF JobsSound
<1>2. ASSUME NEW W \in SUBSET Waiting, pc' = Wake(W), UNCHANGED job
      PROVE  JobsSound'
  BY <1>2 DEF JobsSound, Waiting, Wake
<1>3. ASSUME NEW t \in Task, Submit(t) PROVE JobsSound'
  BY <1>2, <1>3 DEF Submit, Signal
<1>4. ASSUME NEW wait \in ShutdownModes, Shutdown(wait) PROVE JobsSound'
  BY <1>2, <1>4 DEF Shutdown, Broadcast
<1>5. ASSUME NEW w \in Worker, Take(w) PROVE JobsSound'
  <2>1. Head(queue) \in Task /\ Head(queue) \in Entries(queue)
    BY <1>5, TailEntries DEF Take, TypeOK
  <2>2. \A v \in Worker : job[v] # Head(queue)
    BY <2>1 DEF PlacesSound, Held
  <2> QED BY <1>5, <2>1, <2>2 DEF Take, MoveTo, JobsSound, TypeOK
<1>6. ASSUME NEW w \in Worker, Post(w) \/ PostFails(w) PROVE JobsSound'
  BY <1>6, SMTT(30) DEF Post, PostFails, MoveTo, JobsSound, TypeOK
<1>7. ASSUME NEW w \in Worker, Run(w) \/ Ran(w) PROVE JobsSound'
  BY <1>7 DEF Run, Ran, MoveTo, JobsSound, TypeOK
<1>8. ASSUME NEW w \in Worker,
             StopOrSleep(w) \/ SpuriousWakeup(w) \/ Notify(w) \/ LastSend(w)
      PROVE  JobsSound'
  BY <1>8, SMTT(30) DEF StopOrSleep, SpuriousWakeup, Notify, LastSend, MoveTo,
              JobsSound, TypeOK
<1>9. ASSUME NEW w \in Worker, Leave(w) \/ ReadDetached(w) PROVE JobsSound'
  BY <1>9 DEF Leave, ReadDetached, MoveTo, JobsSound, TypeOK
<1>10. CASE \/ \E t \in Task : SubmitFails(t)
            \/ CancelPending \/ Join \/ Detach \/ CallbackStart
            \/ CallbackTake \/ CallbackDrained \/ CallbackCleanup
            \/ AsyncClosed \/ UNCHANGED vars
  BY <1>1, <1>10 DEF SubmitFails, CancelPending, Join, Detach, CallbackStart,
     CallbackTake, CallbackDrained, CallbackCleanup, AsyncClosed
<1> QED BY <1>3, <1>4, <1>5, <1>6, <1>7, <1>8, <1>9, <1>10
        DEF Next, ScriptStep, MainStep, LoopStep, WorkerStep, Rest

\* Every step moves a task from one place to the next, or answers it.
LEMMA PlacesStep ==
    ASSUME IInv, [Next]_vars
    PROVE  PlacesSound'
<1> USE DEF IInv, vars, queueVars, poolVars, asyncVars, threadVars, vmVars
<1>0. /\ queue \in Seq(Task) /\ done \in Seq(Task)
      /\ Entries(queue) \subseteq Task /\ Entries(done) \subseteq Task
      /\ Entries(<<>>) = {} /\ Distinct(<<>>)
  BY DEF TypeOK, Entries, Distinct
<1>1. ASSUME UNCHANGED <<queue, done, job, future>> PROVE PlacesSound'
  BY <1>1 DEF PlacesSound, Held
<1>2. ASSUME NEW t \in Task, Submit(t) PROVE PlacesSound'
  <2>1. t \notin Entries(queue) \cup Entries(done) \cup Held
    BY <1>2 DEF Submit, PlacesSound
  <2>2. /\ Entries(queue') = Entries(queue) \cup {t} /\ Distinct(queue')
        /\ done' = done /\ Held' = Held
    BY <1>0, <1>2, <2>1, AppendEntries
       DEF Submit, QueueAfter, PlacesSound, Held
  <2>3. {x \in Task : future'[x] = "pending"} =
            {x \in Task : future[x] = "pending"} \cup {t}
    BY <1>2 DEF Submit, TypeOK
  <2> QED BY <2>1, <2>2, <2>3 DEF PlacesSound
<1>3. ASSUME NEW t \in Task, SubmitFails(t) PROVE PlacesSound'
  <2>1. {x \in Task : future'[x] = "pending"} =
            {x \in Task : future[x] = "pending"}
    BY <1>3 DEF SubmitFails, TypeOK
  <2> QED BY <1>3, <2>1 DEF SubmitFails, PlacesSound, Held
<1>4. ASSUME CancelQueue, UNCHANGED <<done, job>> PROVE PlacesSound'
  <2>1. /\ queue' = <<>>
        /\ {t \in Task : future'[t] = "pending"} = Entries(done) \cup Held
    BY <1>4, CancelAnswers
  <2>2. Held' = Held
    BY <1>4 DEF Held
  <2> QED BY <1>0, <1>4, <2>1, <2>2 DEF PlacesSound
<1>5. CASE Join
  <2>1. /\ future' = [t \in Task |-> IF t \in Entries(done) THEN "result"
                                     ELSE future[t]]
        /\ done' = <<>> /\ queue' = queue /\ job' = job
    BY <1>5, ElemsAreEntries DEF Join
  <2>2. {t \in Task : future'[t] = "pending"} = Entries(queue) \cup Held
    BY <2>1 DEF PlacesSound
  <2>3. Held' = Held
    BY <2>1 DEF Held
  <2> QED BY <1>0, <2>1, <2>2, <2>3 DEF PlacesSound
<1>6. CASE CallbackTake
  <2>1. /\ Head(done) \in Entries(done) /\ Head(done) \in Task
        /\ Distinct(done') /\ Entries(done') = Entries(done) \ {Head(done)}
    BY <1>0, <1>6, TailEntries DEF CallbackTake, PlacesSound
  <2>2. {t \in Task : future'[t] = "pending"} =
            {t \in Task : future[t] = "pending"} \ {Head(done)}
    BY <1>6, <2>1 DEF CallbackTake, TypeOK
  <2>3. Held' = Held /\ queue' = queue
    BY <1>6 DEF CallbackTake, Held
  <2> QED BY <2>1, <2>2, <2>3 DEF PlacesSound
<1>7. ASSUME NEW w \in Worker, Take(w) PROVE PlacesSound'
  <2>1. /\ Head(queue) \in Entries(queue) /\ Head(queue) \in Task
        /\ Distinct(queue') /\ Entries(queue') = Entries(queue) \ {Head(queue)}
    BY <1>0, <1>7, TailEntries DEF Take, PlacesSound
  <2>2. job[w] = NoTask
    BY <1>7 DEF Take, JobsSound
  <2>3. Held' = Held \cup {Head(queue)}
    BY <1>7, <2>1, <2>2 DEF Take, Held, TypeOK
  <2>4. done' = done /\ future' = future
    BY <1>7 DEF Take
  <2> QED BY <2>1, <2>3, <2>4 DEF PlacesSound
<1>8. ASSUME NEW w \in Worker, Post(w) \/ PostFails(w)
      PROVE  job[w] \in Held /\ Held' = Held \ {job[w]} /\ queue' = queue
  <2>1. job[w] \in Task
    BY <1>8 DEF Post, PostFails, TypeOK, JobsSound
  <2>2. job' = [job EXCEPT ![w] = NoTask] /\ queue' = queue
    BY <1>8 DEF Post, PostFails
  <2>3. Held' = Held \ {job[w]}
    BY <2>1, <2>2 DEF Held, JobsSound, TypeOK
  <2> QED BY <2>1, <2>2, <2>3 DEF Held
<1>9. ASSUME NEW w \in Worker, Post(w) PROVE PlacesSound'
  <2>1. job[w] \in Task /\ job[w] \notin Entries(done)
    BY <1>8, <1>9 DEF PlacesSound, Held
  <2>2. Entries(done') = Entries(done) \cup {job[w]} /\ Distinct(done')
    BY <1>0, <1>9, <2>1, AppendEntries DEF Post, DoneAfter, PlacesSound
  <2>3. future' = future
    BY <1>9 DEF Post
  <2> QED BY <1>8, <1>9, <2>2, <2>3 DEF PlacesSound
<1>10. ASSUME NEW w \in Worker, PostFails(w) PROVE PlacesSound'
  <2>1. {t \in Task : future'[t] = "pending"} =
            {t \in Task : future[t] = "pending"} \ {job[w]}
    BY <1>10 DEF PostFails, TypeOK
  <2>2. done' = done
    BY <1>10 DEF PostFails
  <2> QED BY <1>8, <1>10, <2>1, <2>2 DEF PlacesSound
<1>11. ASSUME NEW w \in Worker,
              \/ StopOrSleep(w) \/ SpuriousWakeup(w) \/ Run(w) \/ Ran(w)
              \/ Notify(w) \/ LastSend(w) \/ Leave(w) \/ ReadDetached(w)
       PROVE  PlacesSound'
  BY <1>1, <1>11 DEF StopOrSleep, SpuriousWakeup, Run, Ran, Notify, LastSend,
     Leave, ReadDetached
<1>12. CASE \/ Detach \/ CallbackStart \/ CallbackDrained \/ CallbackCleanup
            \/ AsyncClosed \/ UNCHANGED vars
  BY <1>1, <1>12 DEF Detach, CallbackStart, CallbackDrained, CallbackCleanup,
     AsyncClosed
<1>13. CASE \/ CancelPending \/ \E wait \in ShutdownModes : Shutdown(wait)
  BY <1>4, <1>13 DEF CancelPending, Shutdown
<1> QED BY <1>2, <1>3, <1>5, <1>6, <1>7, <1>9, <1>10, <1>11, <1>12, <1>13
        DEF Next, ScriptStep, MainStep, LoopStep, WorkerStep, Rest

\* Every step keeps the types; the counters are natural numbers because
\* they count something.
LEMMA TypeStep ==
    ASSUME IInv, CountersExact', [Next]_vars
    PROVE  TypeOK'
<1> USE DEF IInv, vars, queueVars, poolVars, asyncVars, threadVars, vmVars
<1>0. /\ Cardinality(Inside') \in 0 .. Cardinality(Worker)
      /\ Cardinality(Running') \in Nat /\ Cardinality(Unanswered') \in Nat
  <2>1. /\ Running' \in SUBSET Worker /\ Inside' \in SUBSET Worker
        /\ Unanswered' \in SUBSET Task
    BY DEF Running, Inside, Unanswered
  <2> QED BY <2>1, FS_Subset, FS_CardinalityType
<1>1. /\ activeTasks' \in Nat /\ pendingIo' \in Nat
      /\ workerCount' \in 0 .. Cardinality(Worker)
      /\ queue' \in Seq(Task) => queuedTasks' \in Nat
  BY <1>0 DEF CountersExact
<1>2. ASSUME NEW t \in Task, Submit(t) PROVE TypeOK'
  <2>1. pc' \in [Worker -> {"awake", "waiting", "taken", "running", "ran",
                            "posted", "leaving", "left", "lastSend", "gone"}]
    BY <1>2, WakeChangesNothing DEF Submit, Signal
  <2>2. queue' \in Seq(Task)
    BY <1>2, AppendEntries DEF Submit, QueueAfter, TypeOK
  <2> QED BY <1>1, <1>2, <2>1, <2>2 DEF Submit, TypeOK
<1>3. ASSUME NEW t \in Task, SubmitFails(t) PROVE TypeOK'
  BY <1>1, <1>3 DEF SubmitFails, TypeOK
<1>4. CASE CancelPending
  <2>1. queue' = <<>> /\ queuedTasks' = 0
        /\ future' \in [Task -> {"none", "pending", "orphan", "result",
                                 "cancelled"}]
    BY <1>4, CancelAnswers DEF CancelPending
  <2>2. queue' \in Seq(Task)
    BY <2>1
  <2> QED BY <1>1, <1>4, <2>1, <2>2 DEF CancelPending, TypeOK
<1>5. ASSUME NEW wait \in ShutdownModes, Shutdown(wait) PROVE TypeOK'
  <2>1. queue' = <<>> /\ queuedTasks' = 0
        /\ future' \in [Task -> {"none", "pending", "orphan", "result",
                                 "cancelled"}]
    BY <1>5, CancelAnswers DEF Shutdown
  <2>2. queue' \in Seq(Task)
    BY <2>1
  <2>3. pc' \in [Worker -> {"awake", "waiting", "taken", "running", "ran",
                            "posted", "leaving", "left", "lastSend", "gone"}]
    BY <1>5, WakeChangesNothing DEF Shutdown, Broadcast
  <2> QED BY <1>1, <1>5, <2>1, <2>2, <2>3 DEF Shutdown, TypeOK
<1>6. CASE Join
  <2>1. future' \in [Task -> {"none", "pending", "orphan", "result",
                              "cancelled"}]
    BY <1>6 DEF Join, TypeOK
  <2>2. done' \in Seq(Task)
    BY <1>6 DEF Join
  <2> QED BY <1>1, <1>6, <2>1, <2>2 DEF Join, TypeOK
<1>7. CASE CallbackTake
  <2>1. done' \in Seq(Task)
    BY <1>7, TailEntries DEF CallbackTake, TypeOK
  <2> QED BY <1>1, <1>7, <2>1 DEF CallbackTake, TypeOK
<1>8. CASE \/ Detach \/ CallbackStart \/ CallbackDrained \/ AsyncClosed
           \/ UNCHANGED vars
  <2>1. CASE Detach
    BY <2>1 DEF Detach, TypeOK
  <2>2. CASE CallbackStart
    BY <2>2 DEF CallbackStart, TypeOK
  <2>3. CASE CallbackDrained
    BY <2>3 DEF CallbackDrained, TypeOK
  <2>4. CASE AsyncClosed
    BY <2>4 DEF AsyncClosed, TypeOK
  <2>5. CASE UNCHANGED vars
    BY <2>5 DEF TypeOK
  <2> QED BY <1>8, <2>1, <2>2, <2>3, <2>4, <2>5
<1>9. CASE CallbackCleanup
  BY <1>9 DEF CallbackCleanup, TypeOK
<1>10. ASSUME NEW w \in Worker, Take(w) PROVE TypeOK'
  <2>1. Head(queue) \in Task /\ queue' \in Seq(Task)
    BY <1>10, TailEntries DEF Take, TypeOK
  <2> QED BY <1>1, <1>10, <2>1 DEF Take, MoveTo, TypeOK
<1>11. ASSUME NEW w \in Worker, Post(w) PROVE TypeOK'
  <2>1. job[w] \in Task
    BY <1>11 DEF Post, TypeOK, JobsSound
  <2>2. done' \in Seq(Task)
    BY <1>11, <2>1, AppendEntries DEF Post, DoneAfter, TypeOK
  <2> QED BY <1>1, <1>11, <2>2 DEF Post, MoveTo, TypeOK
<1>12. ASSUME NEW w \in Worker, PostFails(w) PROVE TypeOK'
  BY <1>1, <1>12 DEF PostFails, MoveTo, TypeOK
<1>13. ASSUME NEW w \in Worker, StopOrSleep(w) \/ SpuriousWakeup(w)
       PROVE  TypeOK'
  BY <1>1, <1>13 DEF StopOrSleep, SpuriousWakeup, MoveTo, TypeOK
<1>14. ASSUME NEW w \in Worker, Run(w) \/ Ran(w) PROVE TypeOK'
  BY <1>1, <1>14 DEF Run, Ran, MoveTo, TypeOK
<1>15. ASSUME NEW w \in Worker, Notify(w) \/ LastSend(w) PROVE TypeOK'
  <2>1. CASE Notify(w)
    BY <1>1, <2>1 DEF Notify, UvAsyncSend, MoveTo, TypeOK
  <2>2. CASE LastSend(w)
    BY <1>1, <2>2 DEF LastSend, UvAsyncSend, MoveTo, TypeOK
  <2> QED BY <1>15, <2>1, <2>2
<1>16. ASSUME NEW w \in Worker, Leave(w) \/ ReadDetached(w) PROVE TypeOK'
  <2>1. CASE Leave(w)
    BY <1>1, <2>1 DEF Leave, MoveTo, TypeOK
  <2>2. CASE ReadDetached(w)
    BY <1>1, <2>2 DEF ReadDetached, MoveTo, TypeOK
  <2> QED BY <1>16, <2>1, <2>2
<1> QED BY <1>2, <1>3, <1>4, <1>5, <1>6, <1>7, <1>8, <1>9, <1>10, <1>11,
           <1>12, <1>13, <1>14, <1>15, <1>16
        DEF Next, ScriptStep, MainStep, LoopStep, WorkerStep, Rest

\* A submission wakes a worker for its task, a worker that takes a task
\* leaves the others to those awake, and one only sleeps on an empty queue.
LEMMA WokenStep ==
    ASSUME IInv, [Next]_vars
    PROVE  WokenForEveryTask'
<1> USE DEF IInv, vars, queueVars, poolVars, asyncVars, threadVars, vmVars
<1> DEFINE Woken == Waiting # {} => /\ ~shutdownFlag
                                    /\ Len(queue) <= Cardinality(Awake)
<1>0. Woken /\ (Woken' => WokenForEveryTask')
  BY DEF WokenForEveryTask, Awake
<1>1. /\ queue \in Seq(Task) /\ Len(queue) \in Nat /\ Len(<<>>) = 0
      /\ \A t \in Task : Len(Append(queue, t)) = Len(queue) + 1
      /\ queue # <<>> => Len(Tail(queue)) = Len(queue) - 1
  BY DEF TypeOK
<1>2. IsFiniteSet(Awake) /\ Cardinality(Awake) \in Nat
  BY CountedSetsFinite
<1>3. ASSUME NEW t \in Task, Submit(t) PROVE Woken'
  <2>1. CASE Waiting = {}
    BY <1>3, <2>1, WakeChangesNothing DEF Submit, Signal
  <2>2. CASE Waiting # {}
    <3>1. PICK v \in Waiting : pc' = Wake({v})
      BY <1>3, <2>2 DEF Submit, Signal
    <3>2. Awake' = Awake \cup {v} /\ v \notin Awake
      BY <3>1, WakeChangesNothing DEF Waiting, Awake
    <3>3. Cardinality(Awake') = Cardinality(Awake) + 1
      BY <1>2, <3>2, FS_AddElement
    <3>4. Len(queue') = Len(queue) + 1 /\ shutdownFlag' = shutdownFlag
      BY <1>1, <1>3 DEF Submit, QueueAfter
    <3> QED BY <1>0, <1>1, <1>2, <2>2, <3>3, <3>4
  <2> QED BY <2>1, <2>2
<1>4. CASE CancelPending
  <2>1. /\ queue' = <<>> /\ Waiting' = Waiting /\ Awake' = Awake
        /\ shutdownFlag' = shutdownFlag
    BY <1>4 DEF CancelPending, CancelQueue, Waiting, Awake
  <2> QED BY <1>0, <1>1, <1>2, <2>1
<1>5. ASSUME NEW wait \in ShutdownModes, Shutdown(wait) PROVE Woken'
  <2>1. Waiting' = Waiting \ Waiting
    BY <1>5, WakeChangesNothing DEF Shutdown, Broadcast
  <2> QED BY <2>1
<1>6. ASSUME NEW w \in Worker, Take(w) PROVE Woken'
  <2>1. Waiting' = Waiting /\ Awake' = Awake \ {w} /\ w \in Awake
    BY <1>6 DEF Take, MoveTo, Waiting, Awake, TypeOK
  <2>2. Cardinality(Awake') = Cardinality(Awake) - 1
    BY <1>2, <2>1, FS_RemoveElement
  <2>3. Len(queue') = Len(queue) - 1 /\ shutdownFlag' = shutdownFlag
    BY <1>1, <1>6 DEF Take
  <2> QED BY <1>0, <1>1, <1>2, <2>1, <2>2, <2>3
<1>7. ASSUME NEW w \in Worker, StopOrSleep(w) PROVE Woken'
  <2>1. Len(queue') = 0 /\ shutdownFlag' = shutdownFlag
    BY <1>1, <1>7 DEF StopOrSleep
  <2>2. Awake' \in SUBSET Worker
    BY DEF Awake
  <2>3. Cardinality(Awake') \in Nat
    BY <2>2, FS_Subset, FS_CardinalityType
  <2>4. shutdownFlag => Waiting' = Waiting
    BY <1>7 DEF StopOrSleep, MoveTo, Waiting, TypeOK
  <2> QED BY <1>0, <2>1, <2>3, <2>4
<1>8. ASSUME NEW w \in Worker,
             PostFails(w) \/ Notify(w) \/ SpuriousWakeup(w)
      PROVE  Woken'
  <2>1. /\ Waiting' \subseteq Waiting /\ Awake' = Awake \cup {w}
        /\ w \notin Awake
    BY <1>8 DEF PostFails, Notify, SpuriousWakeup, MoveTo, Waiting, Awake,
                TypeOK
  <2>2. Cardinality(Awake') = Cardinality(Awake) + 1
    BY <1>2, <2>1, FS_AddElement
  <2>3. queue' = queue /\ shutdownFlag' = shutdownFlag
    BY <1>8 DEF PostFails, Notify, SpuriousWakeup
  <2> QED BY <1>0, <1>1, <1>2, <2>1, <2>2, <2>3
<1>9. ASSUME queue' = queue, shutdownFlag' = shutdownFlag,
             Waiting' = Waiting, Awake' = Awake
      PROVE  Woken'
  BY <1>0, <1>9
<1>10. ASSUME NEW w \in Worker,
              Run(w) \/ Ran(w) \/ Post(w) \/ Leave(w) \/ ReadDetached(w)
              \/ LastSend(w)
       PROVE  Woken'
  <2>1. Waiting' = Waiting /\ Awake' = Awake
    BY <1>10 DEF Run, Ran, Post, Leave, ReadDetached, LastSend, MoveTo,
                 Waiting, Awake, TypeOK
  <2> QED BY <1>9, <1>10, <2>1 DEF Run, Ran, Post, Leave, ReadDetached,
                                   LastSend
<1>11. CASE \/ \E t \in Task : SubmitFails(t)
            \/ Join \/ Detach \/ CallbackStart \/ CallbackTake
            \/ CallbackDrained \/ CallbackCleanup \/ AsyncClosed
            \/ UNCHANGED vars
  <2>1. queue' = queue /\ shutdownFlag' = shutdownFlag /\ pc' = pc
    BY <1>11 DEF SubmitFails, Join, Detach, CallbackStart, CallbackTake,
       CallbackDrained, CallbackCleanup, AsyncClosed
  <2>2. Waiting' = Waiting /\ Awake' = Awake
    BY <2>1 DEF Waiting, Awake
  <2> QED BY <1>0, <1>9, <2>1, <2>2
<1> HIDE DEF Woken
<1> QED BY <1>0, <1>3, <1>4, <1>5, <1>6, <1>7, <1>8, <1>10, <1>11
        DEF Next, ScriptStep, MainStep, LoopStep, WorkerStep, Rest

\* Whoever adds a result announces it next, and the callback only returns
\* when it has seen the queue of results empty.
LEMMA AnnouncedStep ==
    ASSUME IInv, [Next]_vars
    PROVE  ResultIsAnnounced'
<1> USE DEF IInv, vars, queueVars, poolVars, asyncVars, threadVars, vmVars,
            ResultIsAnnounced
<1>1. ASSUME NEW W \in SUBSET Waiting, pc' = Wake(W)
      PROVE  \A w \in Worker : pc[w] = "posted" => pc'[w] = "posted"
  BY <1>1 DEF Wake, Waiting
<1>2. ASSUME NEW t \in Task, Submit(t) PROVE ResultIsAnnounced'
  <2>1. \A w \in Worker : pc[w] = "posted" => pc'[w] = "posted"
    BY <1>1, <1>2 DEF Submit, Signal
  <2> QED BY <1>2, <2>1 DEF Submit
<1>3. ASSUME NEW wait \in ShutdownModes, Shutdown(wait)
      PROVE  ResultIsAnnounced'
  <2>1. \A w \in Worker : pc[w] = "posted" => pc'[w] = "posted"
    BY <1>1, <1>3 DEF Shutdown, Broadcast
  <2> QED BY <1>3, <2>1 DEF Shutdown
<1>4. CASE Join \/ CallbackTake \/ CallbackDrained \/ CallbackStart
           \/ AsyncClosed
  BY <1>4 DEF Join, CallbackTake, CallbackDrained, CallbackStart, AsyncClosed
<1>5. CASE CallbackCleanup
  BY <1>5 DEF CallbackCleanup
<1>6. CASE \/ \E t \in Task : SubmitFails(t)
           \/ CancelPending \/ Detach \/ UNCHANGED vars
  BY <1>6 DEF SubmitFails, CancelPending, Detach
<1>7. ASSUME NEW w \in Worker, Post(w) PROVE ResultIsAnnounced'
  BY <1>7 DEF Post, MoveTo, TypeOK
<1>8. ASSUME NEW w \in Worker, Notify(w) \/ LastSend(w)
      PROVE  ResultIsAnnounced'
  BY <1>8 DEF Notify, LastSend, UvAsyncSend
<1>9. ASSUME NEW w \in Worker,
             \/ Take(w) \/ StopOrSleep(w) \/ SpuriousWakeup(w) \/ Run(w)
             \/ Ran(w) \/ PostFails(w) \/ Leave(w) \/ ReadDetached(w)
      PROVE  ResultIsAnnounced'
  <2>1. pc[w] # "posted"
    BY <1>9 DEF Take, StopOrSleep, SpuriousWakeup, Run, Ran, PostFails,
                Leave, ReadDetached
  <2>2. \A v \in Worker : v # w => pc'[v] = pc[v]
    BY <1>9 DEF Take, StopOrSleep, SpuriousWakeup, Run, Ran, PostFails,
                Leave, ReadDetached, MoveTo, TypeOK
  <2>3. UNCHANGED <<done, async, asyncPending, main>>
    BY <1>9 DEF Take, StopOrSleep, SpuriousWakeup, Run, Ran, PostFails,
                Leave, ReadDetached
  <2> QED BY <2>1, <2>2, <2>3
<1> QED BY <1>2, <1>3, <1>4, <1>5, <1>6, <1>7, <1>8, <1>9
        DEF Next, ScriptStep, MainStep, LoopStep, WorkerStep, Rest

\* Before anything is submitted there is nothing to account for.
LEMMA InitIInv == Init => IInv
<1> SUFFICES ASSUME Init PROVE IInv
  OBVIOUS
<1>1. TypeOK
  <2>1. Cardinality(Worker) \in 0 .. Cardinality(Worker)
    BY FS_CardinalityType
  <2>2. queue \in Seq(Task) /\ done \in Seq(Task)
    BY DEF Init
  <2> QED BY <2>1, <2>2 DEF Init, TypeOK
<1>2. JobsSound
  BY DEF Init, JobsSound
<1>3. Held = {} /\ Running = {} /\ Unanswered = {} /\ Inside = Worker
  BY DEF Init, Held, Running, Unanswered, Inside
<1>4. PlacesSound
  BY <1>3 DEF Init, PlacesSound, Entries, Distinct
<1>5. CountersExact
  BY <1>3, FS_EmptySet DEF Init, CountersExact
<1>6. WokenForEveryTask /\ ResultIsAnnounced
  BY DEF Init, WokenForEveryTask, Waiting, ResultIsAnnounced
<1> QED BY <1>1, <1>2, <1>4, <1>5, <1>6 DEF IInv

-----------------------------------------------------------------------------
\* The invariant that relates the queues, the workers, the counters and the
\* futures of a pool is inductive.
THEOREM Inductive == Spec => []IInv
<1>1. IInv /\ [Next]_vars => IInv'
  BY CountersStep, JobsStep, PlacesStep, TypeStep, WokenStep, AnnouncedStep
     DEF IInv
<1> QED BY <1>1, InitIInv, PTL DEF Spec

\* Every field of the pool keeps its type.
THEOREM TypeCorrect == Spec => []TypeOK
<1>1. IInv => TypeOK
  BY DEF IInv
<1> QED BY <1>1, Inductive, PTL

\* Every unanswered future is in exactly one place, and the counters that
\* scripts and the loop read agree with the places.
THEOREM Accounted == Spec => []TaskAccounted
<1>1. IInv => TaskAccounted
  <2> SUFFICES ASSUME IInv PROVE TaskAccounted
    OBVIOUS
  <2> USE DEF IInv
  <2>1. ASSUME NEW t \in Task
        PROVE  Cardinality({w \in Worker : job[w] = t}) =
                   IF t \in Held THEN 1 ELSE 0
    <3>1. CASE t \in Held
      <4>1. PICK v \in Worker : job[v] = t
        BY <3>1 DEF Held
      <4>2. {w \in Worker : job[w] = t} = {v}
        BY <4>1 DEF JobsSound
      <4> QED BY <3>1, <4>2, FS_Singleton
    <3>2. CASE t \notin Held
      <4>1. {w \in Worker : job[w] = t} = {}
        BY <3>2 DEF Held
      <4> QED BY <3>2, <4>1, FS_EmptySet
    <3> QED BY <3>1, <3>2
  <2>2. ASSUME NEW t \in Task
        PROVE  /\ Cardinality({i \in DOMAIN queue : queue[i] = t}) =
                      IF t \in Entries(queue) THEN 1 ELSE 0
               /\ Cardinality({i \in DOMAIN done : done[i] = t}) =
                      IF t \in Entries(done) THEN 1 ELSE 0
    BY PositionsOf DEF TypeOK, PlacesSound
  <2>3. ASSUME NEW t \in Task
        PROVE  /\ future[t] = "pending" <=>
                      \/ t \in Entries(queue) \/ t \in Entries(done)
                      \/ t \in Held
               /\ ~ (t \in Entries(queue) /\ t \in Entries(done))
               /\ ~ (t \in Entries(queue) /\ t \in Held)
               /\ ~ (t \in Entries(done) /\ t \in Held)
    BY DEF PlacesSound
  <2>4. /\ pendingIo = Cardinality({t \in Task : future[t] \in
                                                 {"pending", "orphan"}})
        /\ queuedTasks = Len(queue)
        /\ activeTasks = Cardinality({w \in Worker : pc[w] = "running"})
    BY DEF CountersExact, Unanswered, Running
  <2> QED BY <2>1, <2>2, <2>3, <2>4 DEF TaskAccounted
<1> QED BY <1>1, Inductive, PTL

\* pthread_cond_signal is never lost: while a worker sleeps, the workers that
\* are awake suffice for the queued tasks.
THEOREM NoLostWakeup == Spec => []WokenForEveryTask
<1>1. IInv => WokenForEveryTask
  BY DEF IInv
<1> QED BY <1>1, Inductive, PTL

\* A result is never left in the completion queue with nobody about to look.
THEOREM Announced == Spec => []ResultIsAnnounced
<1>1. IInv => ResultIsAnnounced
  BY DEF IInv
<1> QED BY <1>1, Inductive, PTL

-----------------------------------------------------------------------------
(* The pool implements TaskPool.                                           *)

Started == {t \in Task : t \in Elems(done) \/ \E w \in Worker : job[w] = t}
AnswerOf == [t \in Task |-> IF future[t] \in {"result", "cancelled"}
                            THEN future[t] ELSE "none"]

\* What the step of a component of the abstract state comes from.
LEMMA PromiseUnchanged ==
    ASSUME slot' = slot, queue' = queue, Started' = Started,
           AnswerOf' = AnswerOf
    PROVE  UNCHANGED Promise!vars
BY DEF Promise!vars, Started, AnswerOf

\* The abstract pool has started what workers and results hold.
LEMMA StartedIs ==
    ASSUME IInv
    PROVE  Started = Entries(done) \cup Held
BY DEF IInv, PlacesSound, Started, Held, Elems, Entries

\* Each step of the threads is a step of the promise or invisible in it.
LEMMA PromiseStep ==
    ASSUME IInv, IInv', [Next]_vars
    PROVE  [Promise!Next]_(Promise!vars)
<1> USE DEF vars, queueVars, poolVars, asyncVars, threadVars, vmVars
<1>0. /\ Started = Entries(done) \cup Held
      /\ Started' = Entries(done)' \cup Held'
      /\ TypeOK /\ JobsSound /\ PlacesSound
      /\ queue \in Seq(Task) /\ done \in Seq(Task)
  <2>1. Started = Entries(done) \cup Held
    BY StartedIs
  <2>2. Started' = Entries(done)' \cup Held'
    BY DEF IInv, PlacesSound, Started, Held, Elems, Entries
  <2> QED BY <2>1, <2>2 DEF IInv, TypeOK
<1>1. ASSUME NEW t \in Task, Submit(t) PROVE Promise!Next
  <2>1. t \notin Elems(queue) /\ t \notin Started
    BY <1>0, <1>1, ElemsAreEntries DEF Submit, PlacesSound
  <2>2. Started' = Started
    BY <1>1 DEF Submit, Started
  <2>3. AnswerOf' = AnswerOf /\ AnswerOf[t] = "none"
    BY <1>0, <1>1 DEF Submit, AnswerOf, TypeOK
  <2>4. slot /\ slot' = slot /\ queue' = Append(queue, t)
    BY <1>1 DEF Submit, QueueAfter
  <2> QED BY <2>1, <2>2, <2>3, <2>4
          DEF Promise!Next, Promise!Submit, Promise!Queued, Started, AnswerOf, Elems
<1>2. ASSUME CancelQueue, slot, slot' \in BOOLEAN, UNCHANGED <<done, job>>
      PROVE  Promise!Next
  <2>1. Started' = Started
    BY <1>2 DEF Started
  <2>2. AnswerOf' = [t \in Task |-> IF t \in Elems(queue) THEN "cancelled"
                                    ELSE AnswerOf[t]]
    BY <1>0, <1>2 DEF CancelQueue, AnswerOf, TypeOK
  <2> QED BY <1>2, <2>1, <2>2
          DEF CancelQueue, Promise!Next, Promise!Cancel, Promise!Queued,
              Started, AnswerOf, Elems
<1>3. ASSUME NEW S \in SUBSET Entries(done),
             future' = [t \in Task |-> IF t \in S THEN "result" ELSE future[t]],
             Entries(done') = Entries(done) \ S,
             UNCHANGED <<job, queue, slot>>
      PROVE  Promise!Next
  <2>1. Started' = Started \ S /\ S \subseteq Started
    BY <1>0, <1>3 DEF PlacesSound, Held
  <2>2. AnswerOf' = [t \in Task |-> IF t \in S THEN "result" ELSE AnswerOf[t]]
    BY <1>0, <1>3 DEF AnswerOf, TypeOK
  <2> QED BY <1>3, <2>1, <2>2
          DEF Promise!Next, Promise!Answer, Started, AnswerOf
<1>4. ASSUME Join PROVE Promise!Next
  <2>1. /\ future' = [t \in Task |-> IF t \in Entries(done) THEN "result"
                                     ELSE future[t]]
        /\ Entries(done') = Entries(done) \ Entries(done)
    BY <1>4, ElemsAreEntries DEF Join, Entries
  <2> QED BY <1>3, <1>4, <2>1 DEF Join
<1>5. ASSUME CallbackTake PROVE Promise!Next
  <2>1. /\ Head(done) \in Entries(done)
        /\ Entries(done') = Entries(done) \ {Head(done)}
    BY <1>0, <1>5, TailEntries DEF CallbackTake, PlacesSound
  <2>2. future' = [t \in Task |-> IF t \in {Head(done)} THEN "result"
                                  ELSE future[t]]
    BY <1>0, <1>5 DEF CallbackTake, TypeOK
  <2> QED BY <1>3, <1>5, <2>1, <2>2 DEF CallbackTake
<1>6. ASSUME NEW w \in Worker, Take(w) PROVE Promise!Next
  <2>1. Head(queue) \in Task /\ job[w] = NoTask
    BY <1>0, <1>6, TailEntries DEF Take, JobsSound
  <2>2. Held' = Held \cup {Head(queue)} /\ done' = done
    BY <1>0, <1>6, <2>1 DEF Take, Held, TypeOK
  <2>3. Started' = Started \cup {Head(queue)}
    BY <1>0, <2>2
  <2>4. AnswerOf' = AnswerOf
    BY <1>6 DEF Take, AnswerOf
  <2> QED BY <1>6, <2>3, <2>4
          DEF Take, Promise!Next, Promise!Start, Started, AnswerOf
<1>7. ASSUME NEW w \in Worker, Post(w) \/ PostFails(w)
      PROVE  job[w] \in Held /\ Held' = Held \ {job[w]}
  <2>1. job[w] \in Task /\ job' = [job EXCEPT ![w] = NoTask]
    BY <1>0, <1>7 DEF Post, PostFails, TypeOK, JobsSound
  <2>2. Held' = Held \ {job[w]}
    BY <1>0, <2>1 DEF Held, JobsSound, TypeOK
  <2> QED BY <2>1, <2>2 DEF Held
<1>8. ASSUME NEW w \in Worker, Post(w) PROVE UNCHANGED Promise!vars
  <2>1. job[w] \in Task
    BY <1>7, <1>8 DEF Held
  <2>2. Entries(done') = Entries(done) \cup {job[w]}
    BY <1>0, <1>8, <2>1, AppendEntries DEF Post, DoneAfter
  <2>3. Started' = Started
    BY <1>0, <1>7, <1>8, <2>2
  <2> QED BY <1>8, <2>3, PromiseUnchanged DEF Post, AnswerOf
<1>9. ASSUME NEW w \in Worker, PostFails(w) PROVE Promise!Next
  <2>1. job[w] \in Task /\ job[w] \notin Entries(done)
        /\ future[job[w]] = "pending"
    BY <1>0, <1>7, <1>9 DEF Held, PlacesSound
  <2>2. done' = done
    BY <1>9 DEF PostFails
  <2>3. Started' = Started \ {job[w]} /\ job[w] \in Started
    BY <1>0, <1>7, <1>9, <2>1, <2>2
  <2>4. AnswerOf' = AnswerOf
    BY <1>0, <1>9, <2>1 DEF PostFails, AnswerOf, TypeOK
  <2> QED BY <1>9, <2>1, <2>3, <2>4
          DEF PostFails, Promise!Next, Promise!Lose, Started, AnswerOf
<1>10. ASSUME UNCHANGED <<slot, queue, done, job, future>>
       PROVE  UNCHANGED Promise!vars
  BY <1>10, PromiseUnchanged DEF Started, AnswerOf
<1>11. ASSUME NEW t \in Task, SubmitFails(t) PROVE UNCHANGED Promise!vars
  <2>1. AnswerOf' = AnswerOf
    BY <1>0, <1>11 DEF SubmitFails, AnswerOf, TypeOK
  <2> QED BY <1>11, <2>1, PromiseUnchanged DEF SubmitFails, Started
<1>12. ASSUME NEW w \in Worker,
              \/ StopOrSleep(w) \/ SpuriousWakeup(w) \/ Run(w) \/ Ran(w)
              \/ Notify(w) \/ LastSend(w) \/ Leave(w) \/ ReadDetached(w)
       PROVE  UNCHANGED Promise!vars
  BY <1>10, <1>12 DEF StopOrSleep, SpuriousWakeup, Run, Ran, Notify, LastSend,
     Leave, ReadDetached
<1>13. CASE \/ Detach \/ CallbackStart \/ CallbackDrained \/ CallbackCleanup
            \/ AsyncClosed \/ UNCHANGED vars
  BY <1>10, <1>13 DEF Detach, CallbackStart, CallbackDrained, CallbackCleanup,
     AsyncClosed
<1>14. CASE \/ CancelPending \/ \E wait \in ShutdownModes : Shutdown(wait)
  <2>1. slot /\ slot' \in BOOLEAN /\ CancelQueue /\ UNCHANGED <<done, job>>
    BY <1>0, <1>14 DEF CancelPending, Shutdown, TypeOK
  <2> QED BY <1>2, <2>1
<1> QED BY <1>1, <1>4, <1>5, <1>6, <1>8, <1>9, <1>11, <1>12, <1>13, <1>14
        DEF Next, ScriptStep, MainStep, LoopStep, WorkerStep, Rest

\* Towards its scripts the pool keeps the promise of TaskPool: tasks start
\* in order, started tasks are not cancelled, answers are given once, and
\* nothing is accepted after thread.shutdown.
THEOREM Implements == Spec => TaskPromise
<1>1. Init => Promise!Init
  BY DEF Init, Promise!Init, Elems
<1>2. IInv /\ IInv' /\ [Next]_vars => [Promise!Next]_(Promise!vars)
  BY PromiseStep
<1> QED BY <1>1, <1>2, Inductive, PTL DEF Spec, TaskPromise, Promise!Spec

-----------------------------------------------------------------------------
(* Scripts that only call thread.shutdown with wait=true.                  *)

\* Without a detached worker nobody but Join closes the handle and frees the
\* pool, and it does so when all workers have left and answers what they did.
JoinedInv ==
    /\ ~detached /\ main # "detaching"
    /\ async # "open" \/ memory = "freed" =>
           done = <<>> /\ \A w \in Worker : pc[w] = "gone"

\* What each step does to that.
LEMMA JoinedStep ==
    ASSUME ShutdownModes \subseteq {TRUE}, IInv, JoinedInv, [Next]_vars
    PROVE  JoinedInv'
<1> USE DEF JoinedInv, vars, queueVars, poolVars, asyncVars, threadVars, vmVars
<1>0. TypeOK
  BY DEF IInv
<1>1. ASSUME NEW W \in SUBSET Waiting, pc' = Wake(W)
      PROVE  \A w \in Worker : pc[w] = "gone" => pc'[w] = "gone"
  BY <1>1 DEF Wake, Waiting
<1>2. ASSUME NEW t \in Task, Submit(t) PROVE JoinedInv'
  BY <1>1, <1>2 DEF Submit, Signal
<1>3. ASSUME NEW wait \in ShutdownModes, Shutdown(wait) PROVE JoinedInv'
  <2>1. wait = TRUE
    BY <1>3
  <2> QED BY <1>1, <1>3, <2>1 DEF Shutdown, Broadcast
<1>4. CASE Join
  BY <1>4 DEF Join
<1>5. CASE CallbackTake
  BY <1>5 DEF CallbackTake
<1>6. CASE \/ \E t \in Task : SubmitFails(t)
           \/ CancelPending \/ Detach \/ CallbackStart \/ CallbackDrained
           \/ CallbackCleanup \/ AsyncClosed \/ UNCHANGED vars
  BY <1>6 DEF SubmitFails, CancelPending, Detach, CallbackStart,
     CallbackDrained, CallbackCleanup, AsyncClosed
<1>7. ASSUME NEW w \in Worker, WorkerStep(w) \/ SpuriousWakeup(w)
      PROVE  JoinedInv'
  <2>1. pc[w] # "gone" /\ memory' = memory /\ async' = async
        /\ main' = main /\ detached' = detached
        /\ shutdownFlag' = shutdownFlag
    BY <1>7 DEF WorkerStep, Take, StopOrSleep, SpuriousWakeup, Run, Ran, Post,
       PostFails, Notify, Leave, ReadDetached, LastSend
  <2>2. async = "open" /\ memory # "freed"
    BY <2>1
  <2> QED BY <2>1, <2>2
<1> QED BY <1>2, <1>3, <1>4, <1>5, <1>6, <1>7
        DEF Next, ScriptStep, MainStep, LoopStep, Rest

\* The invariant of such pools.
LEMMA JoinedAlways ==
    ASSUME ShutdownModes \subseteq {TRUE}
    PROVE  Spec => []JoinedInv
<1>1. Init => JoinedInv
  BY DEF Init, JoinedInv
<1>2. IInv /\ JoinedInv /\ [Next]_vars => JoinedInv'
  BY JoinedStep
<1> QED BY <1>1, <1>2, Inductive, PTL DEF Spec

\* With wait=true the struct of the pool lives until its last worker has
\* left it, as the header of thread_module.c promises of every pool.
THEOREM OutlivesWorkers ==
    ShutdownModes \subseteq {TRUE} => (Spec => []PoolOutlivesWorkers)
<1> SUFFICES ASSUME ShutdownModes \subseteq {TRUE}
             PROVE  Spec => []PoolOutlivesWorkers
  OBVIOUS
<1>1. JoinedInv => PoolOutlivesWorkers
  BY DEF JoinedInv, PoolOutlivesWorkers
<1> QED BY <1>1, JoinedAlways, PTL

\* With wait=true the handle is only closed when every result is collected.
THEOREM NoResultLost ==
    ShutdownModes \subseteq {TRUE} => (Spec => []ClosedWithoutLoss)
<1> SUFFICES ASSUME ShutdownModes \subseteq {TRUE}
             PROVE  Spec => []ClosedWithoutLoss
  OBVIOUS
<1>1. JoinedInv => ClosedWithoutLoss
  BY DEF JoinedInv, ClosedWithoutLoss
<1> QED BY <1>1, JoinedAlways, PTL

=============================================================================
