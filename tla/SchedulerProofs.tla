-------------------------- MODULE SchedulerProofs --------------------------
(***************************************************************************)
(* Proofs about Scheduler, for every finite set of coroutines and futures, *)
(* with or without shared awaits, failing scripts and a REPL.              *)
(***************************************************************************)
EXTENDS Scheduler, QueueLemmas

\* Waking w appends it, unless there is nobody to wake.
LEMMA WakeEntries ==
    ASSUME NEW S, Nobody \notin S, NEW q \in Seq(S), NEW w \in S \cup {Nobody}
    PROVE  /\ q \o Woken(w) \in Seq(S)
           /\ Entries(q \o Woken(w)) = {x \in S : x \in Entries(q) \/ x = w}
           /\ Distinct(q) /\ w \notin Entries(q) => Distinct(q \o Woken(w))
<1>0. Entries(q) \subseteq S
  BY DEF Entries
<1>1. CASE w = Nobody
  <2>1. q \o Woken(w) = q
    BY <1>1 DEF Woken
  <2> QED BY <1>0, <1>1, <2>1
<1>2. CASE w # Nobody
  <2>1. w \in S /\ q \o Woken(w) = Append(q, w)
    BY <1>2, AppendIsConcat DEF Woken
  <2> QED BY <1>0, <1>2, <2>1, AppendEntries
<1> QED BY <1>1, <1>2

-----------------------------------------------------------------------------
(* The inductive invariant.                                                *)

\* What holds of the coroutine that executes and of those not started.
CurrentSound ==
    /\ current # Nobody => state[current] = "running" /\ main \in Driving
    /\ uv # "idle" => current = Nobody /\ main \in Driving
    /\ main \in {"awaitFuture", "awaitCoro"} => mainOn \in Handle
    /\ \A c \in Coro : state[c] \in {"fresh", "running"} =>
           awaiting[c] = Nobody /\ delivered[c] = <<>>

\* The coroutines that still owe a result to the gather future f.
Members(f) == {c \in Coro : gatherFuture[c] = f}

GatherSound ==
    \A f \in Future :
        /\ Members(f) # {} => kind[f] = "gather" /\ ~resolved[f]
        /\ Cardinality(Members(f)) <= remaining[f]

FreshFuture ==
    \A f \in Future :
        kind[f] = "fresh" => ~resolved[f] /\ waiting[f] = Nobody

RootsExact ==
    /\ ioFutures = {f \in Future : kind[f] # "fresh" /\ ~resolved[f]}
    /\ pendingIo = Cardinality(ioFutures)

CallbacksExact ==
    main # "destroyed" => inFlight = {f \in ioFutures : kind[f] = "io"}

IInv ==
    /\ TypeOK
    /\ CurrentSound
    /\ ReadyQueueSound
    /\ ResumesWithItsAnswer
    /\ WaiterSound
    /\ GatherSound
    /\ FreshFuture
    /\ RootsExact
    /\ CallbacksExact

-----------------------------------------------------------------------------
(* Type correctness.                                                       *)

USE SchedulerAssumption DEF Handle

\* IInv holds initially.
LEMMA InitIInv == Init => IInv
<1> SUFFICES ASSUME Init PROVE IInv
  OBVIOUS
<1>1. TypeOK
  <2>1. /\ delivered \in [Coro -> Seq(Handle)]
        /\ readyQueue \in Seq(Coro)
        /\ items \in [Future -> Seq(Handle)]
        /\ slots \in [Future -> Seq(Handle \cup {Nobody})]
    BY EmptySeq DEF Init
  <2>2. /\ state \in [Coro -> {"fresh", "suspended", "running", "dead"}]
        /\ awaitedBy \in [Coro -> Coro \cup {Nobody}]
        /\ gatherFuture \in [Coro -> Future \cup {Nobody}]
        /\ gatherSlot \in [Coro -> Nat]
        /\ awaiting \in [Coro -> Handle \cup {Nobody}]
        /\ current \in Coro \cup {Nobody}
    BY DEF Init
  <2>3. /\ kind \in [Future -> {"fresh", "io", "gather"}]
        /\ resolved \in [Future -> BOOLEAN]
        /\ waiting \in [Future -> Coro \cup {Nobody}]
        /\ remaining \in [Future -> Int]
    BY DEF Init
  <2>4. yields \in 0..MaxYields
    BY DEF Init
  <2> QED BY <2>1, <2>2, <2>3, <2>4 DEF Init, TypeOK, Driving
<1>2. Ready = {}
  BY DEF Init, Ready
<1>3. CurrentSound /\ WaiterSound /\ ResumesWithItsAnswer /\ ReadyQueueSound
  BY <1>2 DEF Init, CurrentSound, WaiterSound, ResumesWithItsAnswer,
              ReadyQueueSound
<1>4. \A f \in Future : Members(f) = {}
  BY DEF Init, Members
<1>5. GatherSound
  <2> SUFFICES ASSUME NEW f \in Future
               PROVE  Cardinality(Members(f)) <= remaining[f]
    BY <1>4 DEF GatherSound
  <2>1. remaining[f] = 0
    BY DEF Init
  <2>2. Cardinality(Members(f)) = 0
    BY <1>4, FS_EmptySet
  <2> QED BY <2>1, <2>2
<1>6. FreshFuture /\ RootsExact /\ CallbacksExact
  BY FS_EmptySet DEF Init, FreshFuture, RootsExact, CallbacksExact
<1> QED BY <1>1, <1>3, <1>5, <1>6 DEF IInv

\* Completing a registered future leaves a count that is still a natural.
LEMMA RemoveRoot ==
    ASSUME TypeOK, RootsExact, NEW f \in ioFutures
    PROVE  /\ pendingIo - 1 \in Nat
           /\ Cardinality(ioFutures \ {f}) = pendingIo - 1
<1>1. IsFiniteSet(ioFutures)
  BY FS_Subset DEF TypeOK
<1>2. Cardinality(ioFutures \ {f}) = Cardinality(ioFutures) - 1
  BY <1>1, FS_RemoveElement
<1>3. IsFiniteSet(ioFutures \ {f})
  BY <1>1, FS_Subset
<1> QED BY <1>2, <1>3, FS_CardinalityType DEF RootsExact

\* The future a returning coroutine completes is registered.
LEMMA GatheredIsRoot ==
    ASSUME IInv, current # Nobody, LastOf(gatherFuture[current])
    PROVE  gatherFuture[current] \in ioFutures
<1>1. current \in Coro /\ gatherFuture[current] \in Future
  BY DEF IInv, TypeOK, LastOf
<1>2. current \in Members(gatherFuture[current])
  BY <1>1 DEF Members
<1> QED BY <1>1, <1>2 DEF IInv, GatherSound, RootsExact

\* Every step preserves the types.
LEMMA TypeStep ==
    ASSUME IInv, [Next]_vars
    PROVE  TypeOK'
<1> USE DEF IInv, vars, coVars, memVars, futVars, ioVars, waitVars, slotVars,
            errVars, mainVars
<1>1. ASSUME NEW c \in Coro, Spawn(c)
      PROVE  TypeOK'
  BY <1>1, AppendEntries DEF Spawn, TypeOK
<1>2. ASSUME NEW d \in Coro, AwaitCoro(d)
      PROVE  TypeOK'
  BY <1>2 DEF AwaitCoro, QueueForAwait, TypeOK
<1>3. ASSUME NEW f \in Future, StartIo(f)
      PROVE  TypeOK'
  BY <1>3 DEF StartIo, NativeReturns, Abandon, TypeOK
<1>4. ASSUME NEW f \in Future, AwaitFuture(f)
      PROVE  TypeOK'
  BY <1>4 DEF AwaitFuture, TypeOK
<1>5. CASE GatherSome
  <2>1. PICK f \in Future, list \in GatherLists :
            (\A i \in DOMAIN list : Created(list[i])) /\ Gather(f, list)
    BY <1>5 DEF GatherSome
  <2>2. PICK n \in Nat : list \in [1..n -> Handle]
    BY DEF GatherLists
  <2>3. list \in Seq(Handle) /\ DOMAIN list = 1..n
    BY <2>2, SeqDef
  <2>4. IsFiniteSet(LiveSlots(list)) /\ LiveSlots(list) \subseteq 1..n
    BY <2>3, FS_Interval, FS_Subset DEF LiveSlots
  <2>5. Cardinality(LiveSlots(list)) \in Nat
    BY <2>4, FS_CardinalityType
  <2>6. slots' \in [Future -> Seq(Handle \cup {Nobody})]
    <3>1. [i \in DOMAIN list |-> IF i \in LiveSlots(list) THEN Nobody
                                ELSE list[i]] \in Seq(Handle \cup {Nobody})
      BY <2>2, <2>3, SeqDef
    <3> QED BY <2>1, <3>1 DEF Gather, TypeOK
  <2>7. gatherFuture' \in [Coro -> Future \cup {Nobody}]
    BY <2>1 DEF Gather, TypeOK
  <2>8. gatherSlot' \in [Coro -> Nat]
    <3>1. ASSUME NEW c \in Coro,
                 {i \in LiveSlots(list) : list[i] = c} # {}
          PROVE  (CHOOSE i \in {k \in LiveSlots(list) : list[k] = c} :
                    \A j \in {k \in LiveSlots(list) : list[k] = c} : j <= i)
                 \in Nat
      <4> DEFINE joins == {i \in LiveSlots(list) : list[i] = c}
      <4>1. IsFiniteSet(joins) /\ joins \subseteq Nat /\ joins \subseteq Int
        BY <2>4, FS_Subset
      <4>3. joins # {}
        BY <3>1
      <4>2. \E i \in joins : \A j \in joins : j <= i
        <5> HIDE DEF joins
        <5> QED BY <4>1, <4>3, GreatestExists
      <4> QED BY <4>1, <4>2
    <3> QED BY <2>1, <3>1 DEF Gather, TypeOK
  <2>9. remaining' \in [Future -> Int] /\ resolved' \in [Future -> BOOLEAN]
    BY <2>1, <2>5 DEF Gather, TypeOK
  <2>10. items' \in [Future -> Seq(Handle)]
    BY <2>1, <2>3 DEF Gather, TypeOK
  <2>11. /\ kind' \in [Future -> {"fresh", "io", "gather"}]
         /\ pendingIo' \in Nat
         /\ ioFutures' \in SUBSET Future
    BY <2>1 DEF Gather, TypeOK
  <2>12. UNCHANGED <<coVars, readyQueue, waiting, inFlight, uv, errVars,
                     yields, scripts>>
    BY <2>1 DEF Gather
  <2>13. /\ main' \in {main, "failed"}
         /\ mainOn' \in {mainOn, Nobody}
         /\ current' \in {current, Nobody}
    BY <2>1 DEF Gather, NativeReturns, Abandon
  <2> QED BY <2>6, <2>7, <2>8, <2>9, <2>10, <2>11, <2>12, <2>13 DEF TypeOK
<1>6. CASE Yield
  BY <1>6, AppendEntries DEF Yield, TypeOK
<1>7. CASE Return
  <2> DEFINE c == current
             a == awaitedBy[c]
             f == gatherFuture[c]
             w == IF LastOf(f) THEN waiting[f] ELSE Nobody
  <2>1. /\ c \in Coro
        /\ a \in Coro \cup {Nobody}
        /\ f \in Future \cup {Nobody}
        /\ w \in Coro \cup {Nobody}
        /\ LastOf(f) => f \in Future
    BY <1>7 DEF Return, TypeOK, LastOf
  <2>2. readyQueue' \in Seq(Coro)
    <3>1. readyQueue' = (readyQueue \o Woken(a)) \o Woken(w)
      BY <1>7 DEF Return
    <3>2. readyQueue \o Woken(a) \in Seq(Coro)
      BY <2>1, WakeEntries DEF TypeOK
    <3> QED BY <2>1, <3>1, <3>2, WakeEntries
  <2>3. delivered' \in [Coro -> Seq(Handle)]
    BY <1>7, <2>1 DEF Return, Push, TypeOK
  <2>4. slots' \in [Future -> Seq(Handle \cup {Nobody})]
    <3>1. ASSUME NEW g \in Future
          PROVE  [slots[g] EXCEPT ![ResultSlot(c)] = c]
                    \in Seq(Handle \cup {Nobody})
      BY <2>1, ExceptInSeq DEF TypeOK
    <3>2. ASSUME NEW g \in Future
          PROVE  slots[g] \in Seq(Handle \cup {Nobody})
      BY DEF TypeOK
    <3>3. slots' = [g \in Future |->
               IF g = f THEN [slots[g] EXCEPT ![ResultSlot(c)] = c]
               ELSE slots[g]]
      BY <1>7 DEF Return
    <3> QED BY <3>1, <3>2, <3>3
  <2>5. pendingIo' \in Nat
    BY <1>7, GatheredIsRoot, RemoveRoot DEF Return, TypeOK
  <2>6. /\ state' \in [Coro -> {"fresh", "suspended", "running", "dead"}]
        /\ awaitedBy' \in [Coro -> Coro \cup {Nobody}]
        /\ gatherFuture' \in [Coro -> Future \cup {Nobody}]
        /\ current' = Nobody
        /\ remaining' \in [Future -> Int]
        /\ resolved' \in [Future -> BOOLEAN]
        /\ waiting' \in [Future -> Coro \cup {Nobody}]
        /\ ioFutures' \in SUBSET Future
    BY <1>7, <2>1 DEF Return, Unregister, TypeOK
  <2>7. UNCHANGED <<awaiting, gatherSlot, futVars, inFlight, mainVars, uv,
                    errVars, yields, scripts>>
    BY <1>7 DEF Return
  <2> QED BY <2>2, <2>3, <2>4, <2>5, <2>6, <2>7 DEF TypeOK
<1>8. ASSUME NEW native \in BOOLEAN, Fail(native)
      PROVE  TypeOK'
  BY <1>8 DEF Fail, Abandon, TypeOK
<1>9. ASSUME NEW h \in Handle, MainAwait(h)
      PROVE  TypeOK'
  BY <1>9 DEF MainAwait, TypeOK, Driving
<1>10. CASE MainAwaitEnds
  BY <1>10 DEF MainAwaitEnds, TypeOK
<1>11. CASE RunStep
  <2>1. Head(readyQueue) \in Coro /\ Tail(readyQueue) \in Seq(Coro)
    BY <1>11, TailEntries DEF RunStep, TypeOK
  <2>2. <<>> \in Seq(Handle)
    BY EmptySeq
  <2>3. /\ state' \in [Coro -> {"fresh", "suspended", "running", "dead"}]
        /\ awaiting' \in [Coro -> Handle \cup {Nobody}]
        /\ delivered' \in [Coro -> Seq(Handle)]
        /\ current' \in Coro \cup {Nobody}
        /\ UNCHANGED awaitedBy
    <3>1. CASE state[Head(readyQueue)] \in {"dead", "running"}
      BY <1>11, <3>1 DEF RunStep, TypeOK
    <3>2. CASE state[Head(readyQueue)] \notin {"dead", "running"}
      <4>1. delivered' = [delivered EXCEPT ![Head(readyQueue)] = <<>>]
        BY <1>11, <3>2 DEF RunStep
      <4>2. delivered' \in [Coro -> Seq(Handle)]
        BY <2>2, <4>1 DEF TypeOK
      <4>3. /\ current' = Head(readyQueue)
            /\ state' = [state EXCEPT ![Head(readyQueue)] = "running"]
            /\ awaiting' = [awaiting EXCEPT ![Head(readyQueue)] = Nobody]
            /\ UNCHANGED awaitedBy
        BY <1>11, <3>2 DEF RunStep
      <4> QED BY <2>1, <4>2, <4>3 DEF TypeOK
    <3> QED BY <3>1, <3>2
  <2> QED BY <1>11, <2>1, <2>3 DEF RunStep, TypeOK
<1>12. CASE UvEnter \/ UvLeave
  BY <1>12 DEF UvEnter, UvLeave, TypeOK
<1>13. CASE MainReturns \/ DrainEnds \/ NextScript
  BY <1>13 DEF MainReturns, DrainEnds, NextScript, TypeOK, Driving
<1>14. CASE Destroy
  BY <1>14 DEF Destroy, TypeOK
<1>15. ASSUME NEW f \in Future, UvCallback(f)
       PROVE  TypeOK'
  <2>1. f \in ioFutures
    BY <1>15 DEF UvCallback, CallbacksExact, CurrentSound, Driving
  <2>2. pendingIo - 1 \in Nat
    BY <2>1, RemoveRoot
  <2>3. waiting[f] \in Coro \cup {Nobody}
    BY DEF TypeOK
  <2>4. readyQueue' \in Seq(Coro)
    BY <1>15, <2>3, WakeEntries DEF UvCallback, TypeOK
  <2>5. delivered' \in [Coro -> Seq(Handle)]
    BY <1>15, <2>3 DEF UvCallback, Push, TypeOK
  <2> QED BY <1>15, <2>2, <2>4, <2>5 DEF UvCallback, Unregister,
             RequestsAfter, TypeOK
<1>16. CASE UNCHANGED vars
  BY <1>16 DEF TypeOK
<1> QED BY <1>1, <1>2, <1>3, <1>4, <1>5, <1>6, <1>7, <1>8, <1>9, <1>10, <1>11,
          <1>12, <1>13, <1>14, <1>15, <1>16
       DEF Next, VmStep, UvReturnsAtOnce, Terminated

-----------------------------------------------------------------------------
(* The queue, the waiters and what is delivered to them.                   *)

Core == /\ CurrentSound
        /\ ReadyQueueSound
        /\ ResumesWithItsAnswer
        /\ WaiterSound

\* An action that leaves coroutines, queue and waiters alone, and resolves
\* only futures nobody waits for, keeps the core invariants.
LEMMA Undisturbed ==
    ASSUME IInv,
           UNCHANGED <<state, awaitedBy, awaiting, delivered, readyQueue,
                       waiting>>,
           \A f \in Future : resolved[f] => resolved'[f],
           \A f \in Future : waiting[f] # Nobody => ~resolved'[f]
    PROVE  ReadyQueueSound' /\ ResumesWithItsAnswer' /\ WaiterSound'
<1> USE DEF IInv
<1>1. Ready' = Ready
  BY DEF Ready
<1>2. ReadyQueueSound'
  BY <1>1 DEF ReadyQueueSound
<1>3. ResumesWithItsAnswer'
  BY <1>1 DEF ResumesWithItsAnswer, Completed, TypeOK
<1>4. WaiterSound'
  BY <1>1 DEF WaiterSound
<1> QED BY <1>2, <1>3, <1>4

\* The set Ready in terms of Entries, in both states.
LEMMA ReadyIsEntries ==
    /\ Ready = Entries(readyQueue)
    /\ ReadyQueueSound => Distinct(readyQueue)
    /\ Ready' = Entries(readyQueue')
    /\ ReadyQueueSound' <=>
          /\ Distinct(readyQueue')
          /\ \A x \in Ready' : state'[x] = "suspended"
BY DEF Ready, Entries, Distinct, ReadyQueueSound

\* Only coroutines are queued.
LEMMA ReadyIsCoro == TypeOK => Ready \subseteq Coro
BY DEF TypeOK, Ready

\* What is final stays final, so a delivered answer stays the answer.
LEMMA AnswersStay ==
    ASSUME IInv,
           \A h \in Handle : Completed(h) => Completed(h)',
           UNCHANGED <<awaiting, delivered>>,
           NEW c \in Ready
    PROVE  \/ awaiting'[c] = Nobody /\ delivered'[c] = <<>>
           \/ /\ awaiting'[c] # Nobody
              /\ delivered'[c] = <<awaiting'[c]>>
              /\ Completed(awaiting[c])'
BY ReadyIsCoro DEF IInv, ResumesWithItsAnswer, TypeOK

\* A spawned coroutine enters the queue with an empty saved stack.
LEMMA SpawnCore ==
    ASSUME IInv, NEW c \in Coro, Spawn(c)
    PROVE  Core'
<1> USE DEF IInv
<1>1. readyQueue \in Seq(Coro) /\ readyQueue' = Append(readyQueue, c)
  BY DEF Spawn, TypeOK
<1>2. c \notin Ready
  BY DEF Spawn, ReadyQueueSound
<1>3. Ready' = Ready \cup {c} /\ Distinct(readyQueue')
  BY <1>1, <1>2, ReadyIsEntries, AppendEntries
<1>4. state' = [state EXCEPT ![c] = "suspended"] /\ state[c] = "fresh"
  BY DEF Spawn
<1>5. UNCHANGED <<awaitedBy, awaiting, delivered, current, main, mainOn, uv,
                  waiting, resolved>>
  BY DEF Spawn, coVars, waitVars, mainVars
<1>6. CurrentSound'
  BY <1>4, <1>5 DEF CurrentSound, TypeOK
<1>7. ReadyQueueSound'
  BY <1>3, <1>4, ReadyIsEntries DEF ReadyQueueSound, TypeOK
<1>8. ResumesWithItsAnswer'
  <2>1. awaiting[c] = Nobody /\ delivered[c] = <<>>
    BY <1>4 DEF CurrentSound
  <2>2. \A h \in Handle : Completed(h) => Completed(h)'
    BY <1>4, <1>5 DEF Completed, TypeOK
  <2> QED BY <1>3, <1>5, <2>1, <2>2, AnswersStay DEF ResumesWithItsAnswer
<1>9. WaiterSound'
  BY <1>3, <1>4, <1>5 DEF WaiterSound, TypeOK
<1> QED BY <1>6, <1>7, <1>8, <1>9 DEF Core

\* A yielding coroutine goes to the back of the queue.
LEMMA YieldCore ==
    ASSUME IInv, Yield
    PROVE  Core'
<1> USE DEF IInv
<1> DEFINE c == current
<1>1. c \in Coro /\ state[c] = "running"
      /\ awaiting[c] = Nobody /\ delivered[c] = <<>>
  BY DEF Yield, TypeOK, CurrentSound
<1>2. readyQueue \in Seq(Coro) /\ readyQueue' = Append(readyQueue, c)
  BY DEF Yield, TypeOK
<1>3. c \notin Ready
  BY <1>1 DEF ReadyQueueSound
<1>4. Ready' = Ready \cup {c} /\ Distinct(readyQueue')
  BY <1>1, <1>2, <1>3, ReadyIsEntries, AppendEntries
<1>5. state' = [state EXCEPT ![c] = "suspended"] /\ current' = Nobody
  BY DEF Yield
<1>6. UNCHANGED <<awaitedBy, awaiting, delivered, main, mainOn, uv,
                  waiting, resolved>>
  BY DEF Yield, coVars, waitVars, mainVars
<1>7. CurrentSound'
  BY <1>1, <1>5, <1>6 DEF CurrentSound, TypeOK
<1>8. ReadyQueueSound'
  BY <1>1, <1>4, <1>5, ReadyIsEntries DEF ReadyQueueSound, TypeOK
<1>9. ResumesWithItsAnswer'
  <2>1. \A h \in Handle : Completed(h) => Completed(h)'
    BY <1>1, <1>5, <1>6 DEF Completed, TypeOK
  <2> QED BY <1>1, <1>4, <1>6, <2>1, AnswersStay DEF ResumesWithItsAnswer
<1>10. WaiterSound'
  BY <1>1, <1>4, <1>5, <1>6 DEF WaiterSound, TypeOK
<1> QED BY <1>7, <1>8, <1>9, <1>10 DEF Core

\* An awaiting coroutine registers with its target and leaves the CPU.
LEMMA AwaitCore ==
    ASSUME IInv, NEW h,
           \/ h \in Future /\ AwaitFuture(h)
           \/ h \in Coro /\ AwaitCoro(h)
    PROVE  Core'
<1> USE DEF IInv
<1> DEFINE c == current
<1>1. \/ h \in Future /\ AwaitFuture(h)
      \/ h \in Coro /\ AwaitCoro(h)
  OBVIOUS
<1>2. c \in Coro /\ state[c] = "running" /\ delivered[c] = <<>> /\ Pending(h)
  BY <1>1 DEF AwaitFuture, AwaitCoro, TypeOK, CurrentSound
<1>3. c \notin Ready
  BY <1>2 DEF ReadyQueueSound
<1>4. /\ state' = [state EXCEPT ![c] = "suspended"] /\ current' = Nobody
      /\ awaiting' = [awaiting EXCEPT ![c] = h]
      /\ UNCHANGED <<delivered, readyQueue, main, mainOn, uv, resolved>>
  BY <1>1 DEF AwaitFuture, AwaitCoro, QueueForAwait, waitVars, mainVars
<1>5. /\ h \in Future => /\ waiting' = [waiting EXCEPT ![h] = c]
                         /\ UNCHANGED awaitedBy
      /\ h \in Coro => /\ awaitedBy' = [awaitedBy EXCEPT ![h] = c]
                       /\ UNCHANGED waiting
  BY <1>1 DEF AwaitFuture, AwaitCoro, waitVars
<1>6. Ready' = Ready
  BY <1>4 DEF Ready
<1>7. CurrentSound'
  BY <1>2, <1>4 DEF CurrentSound, TypeOK
<1>8. ReadyQueueSound'
  BY <1>2, <1>3, <1>4, <1>6 DEF ReadyQueueSound, TypeOK
<1>9. ResumesWithItsAnswer'
  <2>1. \A x \in Handle : Completed(x) => Completed(x)'
    BY <1>2, <1>4 DEF Completed, TypeOK
  <2> QED BY <1>3, <1>4, <1>6, <2>1 DEF ResumesWithItsAnswer, TypeOK, Ready
<1>10. ASSUME NEW f \in Future, waiting'[f] # Nobody
       PROVE  /\ ~resolved'[f]
              /\ awaiting'[waiting'[f]] = f
              /\ state'[waiting'[f]] = "suspended"
              /\ delivered'[waiting'[f]] = <<>>
              /\ waiting'[f] \notin Ready'
  <2>1. CASE h = f
    BY <1>2, <1>3, <1>4, <1>5, <1>6, <2>1 DEF Pending, Completed, TypeOK
  <2>2. CASE h # f
    <3>1. waiting'[f] = waiting[f] /\ waiting[f] # c
      BY <1>2, <1>5, <1>10, <2>2 DEF WaiterSound, TypeOK
    <3> QED BY <1>4, <1>6, <1>10, <3>1 DEF WaiterSound, TypeOK
  <2> QED BY <2>1, <2>2
<1>11. ASSUME NEW d \in Coro, awaitedBy'[d] # Nobody
       PROVE  /\ state'[d] # "dead"
              /\ awaiting'[awaitedBy'[d]] = d
              /\ state'[awaitedBy'[d]] = "suspended"
              /\ delivered'[awaitedBy'[d]] = <<>>
              /\ awaitedBy'[d] \notin Ready'
  <2>1. CASE h = d
    BY <1>2, <1>3, <1>4, <1>5, <1>6, <2>1 DEF Pending, Completed, TypeOK
  <2>2. CASE h # d
    <3>1. awaitedBy'[d] = awaitedBy[d] /\ awaitedBy[d] # c
      BY <1>2, <1>5, <1>11, <2>2 DEF WaiterSound, TypeOK
    <3> QED BY <1>4, <1>6, <1>11, <3>1 DEF WaiterSound, TypeOK
  <2> QED BY <2>1, <2>2
<1> QED BY <1>7, <1>8, <1>9, <1>10, <1>11 DEF Core, WaiterSound

\* The scheduler resumes the head of the queue.
LEMMA RunStepCore ==
    ASSUME IInv, RunStep
    PROVE  Core'
<1> USE DEF IInv
<1> DEFINE c == Head(readyQueue)
<1>1. /\ readyQueue \in Seq(Coro) /\ readyQueue # <<>>
      /\ readyQueue' = Tail(readyQueue)
  BY DEF RunStep, TypeOK
<1>2. c \in Coro /\ c \in Ready /\ Ready' = Ready \ {c}
      /\ Distinct(readyQueue')
  BY <1>1, TailEntries, ReadyIsEntries
<1>3. state[c] = "suspended"
  BY <1>2 DEF ReadyQueueSound
<1>4. /\ current = Nobody /\ main \in Driving /\ uv = "idle"
      /\ current' = c
      /\ state' = [state EXCEPT ![c] = "running"]
      /\ awaiting' = [awaiting EXCEPT ![c] = Nobody]
      /\ delivered' = [delivered EXCEPT ![c] = <<>>]
  BY <1>3 DEF RunStep, Idle
<1>5. UNCHANGED <<awaitedBy, main, mainOn, uv, waiting, resolved>>
  BY <1>3 DEF RunStep, waitVars, mainVars
<1>6. CurrentSound'
  BY <1>2, <1>4, <1>5 DEF CurrentSound, TypeOK
<1>7. ReadyQueueSound'
  BY <1>2, <1>4, ReadyIsEntries, ReadyIsCoro DEF ReadyQueueSound, TypeOK
<1>8. ResumesWithItsAnswer'
  <2>1. \A h \in Handle : Completed(h) => Completed(h)'
    BY <1>2, <1>3, <1>4, <1>5 DEF Completed, TypeOK
  <2>2. ASSUME NEW x \in Ready'
        PROVE  /\ x \in Ready /\ x \in Coro
               /\ awaiting'[x] = awaiting[x]
               /\ delivered'[x] = delivered[x]
    BY <1>2, <1>4, ReadyIsCoro DEF TypeOK
  <2> QED BY <2>1, <2>2 DEF ResumesWithItsAnswer, TypeOK
<1>9. WaiterSound'
  <2>1. \A f \in Future : waiting[f] # c
    BY <1>2 DEF WaiterSound, TypeOK
  <2>2. \A d \in Coro : awaitedBy[d] # c
    BY <1>2 DEF WaiterSound, TypeOK
  <2> QED BY <1>2, <1>4, <1>5, <2>1, <2>2 DEF WaiterSound, TypeOK
<1> QED BY <1>6, <1>7, <1>8, <1>9 DEF Core

\* A libuv callback delivers one result and wakes one waiter.
LEMMA UvCallbackCore ==
    ASSUME IInv, NEW f \in Future, UvCallback(f)
    PROVE  Core'
<1> USE DEF IInv
<1> DEFINE w == waiting[f]
<1>1. /\ w \in Coro \cup {Nobody}
      /\ readyQueue \in Seq(Coro)
      /\ readyQueue' = readyQueue \o Woken(w)
  BY DEF UvCallback, TypeOK
<1>2. /\ resolved' = [resolved EXCEPT ![f] = TRUE]
      /\ waiting' = [waiting EXCEPT ![f] = Nobody]
      /\ delivered' = [x \in Coro |-> IF x = w THEN Append(delivered[x], f)
                                      ELSE delivered[x]]
      /\ UNCHANGED <<state, awaitedBy, awaiting, current, main, mainOn>>
      /\ current = Nobody /\ main \in Driving
  BY DEF UvCallback, Push, mainVars, CurrentSound
<1>3. w # Nobody => /\ w \notin Ready
                    /\ state[w] = "suspended"
                    /\ awaiting[w] = f /\ delivered[w] = <<>>
  BY DEF WaiterSound
<1>4. Ready' = {x \in Coro : x \in Ready \/ x = w}
      /\ Distinct(readyQueue')
  <2>1. w \notin Ready
    BY <1>3, ReadyIsCoro
  <2> HIDE DEF w
  <2> QED BY <1>1, <2>1, WakeEntries, ReadyIsEntries
<1>5. CurrentSound'
  BY <1>1, <1>2, <1>3 DEF CurrentSound, TypeOK
<1>6. ReadyQueueSound'
  BY <1>2, <1>3, <1>4, ReadyIsEntries DEF ReadyQueueSound
<1>7. ResumesWithItsAnswer'
  <2>1. \A h \in Handle : Completed(h) => Completed(h)'
    BY <1>2 DEF Completed, TypeOK
  <2>2. ASSUME NEW x \in Ready'
        PROVE  \/ awaiting'[x] = Nobody /\ delivered'[x] = <<>>
               \/ /\ awaiting'[x] # Nobody
                  /\ delivered'[x] = <<awaiting'[x]>>
                  /\ Completed(awaiting[x])'
    <3>1. CASE x = w /\ w # Nobody
      <4>1. delivered'[w] = <<f>> /\ awaiting'[w] = f
        BY <1>1, <1>2, <1>3, <3>1, AppendToEmpty
      <4>2. Completed(f)'
        BY <1>2 DEF Completed, TypeOK
      <4> QED BY <3>1, <4>1, <4>2
    <3>2. CASE x # w \/ w = Nobody
      <4>1. x \in Ready /\ x \in Coro /\ x # w
        BY <1>2, <1>4, <2>2, <3>2, ReadyIsCoro
      <4>2. awaiting'[x] = awaiting[x] /\ delivered'[x] = delivered[x]
        BY <1>2, <4>1
      <4> QED BY <2>1, <4>1, <4>2 DEF ResumesWithItsAnswer, TypeOK
    <3> QED BY <3>1, <3>2
  <2> QED BY <2>2 DEF ResumesWithItsAnswer
<1>8. ASSUME NEW g \in Future, waiting'[g] # Nobody
      PROVE  /\ ~resolved'[g]
             /\ awaiting'[waiting'[g]] = g
             /\ state'[waiting'[g]] = "suspended"
             /\ delivered'[waiting'[g]] = <<>>
             /\ waiting'[g] \notin Ready'
  <2>1. g # f /\ waiting'[g] = waiting[g] /\ waiting[g] \in Coro
    BY <1>2, <1>8 DEF TypeOK
  <2>2. waiting[g] # w
    BY <1>2, <1>8, <2>1 DEF WaiterSound
  <2> QED BY <1>2, <1>4, <1>8, <2>1, <2>2 DEF WaiterSound, TypeOK
<1>9. ASSUME NEW d \in Coro, awaitedBy'[d] # Nobody
      PROVE  /\ state'[d] # "dead"
             /\ awaiting'[awaitedBy'[d]] = d
             /\ state'[awaitedBy'[d]] = "suspended"
             /\ delivered'[awaitedBy'[d]] = <<>>
             /\ awaitedBy'[d] \notin Ready'
  <2>1. awaitedBy[d] # w /\ awaitedBy[d] \in Coro
    BY <1>2, <1>3, <1>9 DEF WaiterSound, TypeOK
  <2> QED BY <1>2, <1>4, <1>9, <2>1 DEF WaiterSound
<1> QED BY <1>5, <1>6, <1>7, <1>8, <1>9 DEF Core, WaiterSound

\* A returning coroutine wakes its awaiter and, if it is the last
\* member of a gather, the waiter of the gather future.
LEMMA ReturnCore ==
    ASSUME IInv, Return
    PROVE  Core'
<1> USE DEF IInv
<1>0. PICK c, a, f, w :
          /\ c = current /\ a = awaitedBy[c] /\ f = gatherFuture[c]
          /\ w = IF LastOf(f) THEN waiting[f] ELSE Nobody
  OBVIOUS
<1>1. /\ c \in Coro /\ state[c] = "running" /\ main \in Driving
      /\ a \in Coro \cup {Nobody} /\ w \in Coro \cup {Nobody}
      /\ w # Nobody => f \in Future /\ LastOf(f) /\ waiting[f] = w
      /\ awaiting[c] = Nobody /\ delivered[c] = <<>>
  BY <1>0 DEF Return, TypeOK, LastOf, CurrentSound
<1>2. /\ state' = [state EXCEPT ![c] = "dead"]
      /\ current' = Nobody
      /\ awaitedBy' = [awaitedBy EXCEPT ![c] = Nobody]
      /\ delivered' = [x \in Coro |->
             IF x = w THEN Append(delivered[x], f)
             ELSE IF x = a THEN Append(delivered[x], c) ELSE delivered[x]]
      /\ readyQueue' = (readyQueue \o Woken(a)) \o Woken(w)
      /\ resolved' = [g \in Future |-> resolved[g] \/ (LastOf(f) /\ g = f)]
      /\ waiting' = [g \in Future |->
             IF LastOf(f) /\ g = f THEN Nobody ELSE waiting[g]]
      /\ UNCHANGED <<awaiting, main, mainOn, uv>>
  BY <1>0 DEF Return, Push, mainVars
<1>3. a # Nobody => /\ a \notin Ready /\ state[a] = "suspended"
                    /\ awaiting[a] = c /\ delivered[a] = <<>>
  BY <1>0, <1>1 DEF WaiterSound
<1>4. w # Nobody => /\ w \notin Ready /\ state[w] = "suspended"
                    /\ awaiting[w] = f /\ delivered[w] = <<>>
  BY <1>1 DEF WaiterSound
<1>5. a # w \/ a = Nobody
  BY <1>1, <1>3, <1>4
<1>6. a # c /\ w # c
  BY <1>1, <1>3, <1>4
<1>7. Ready' = {x \in Coro : x \in Ready \/ x = a \/ x = w}
      /\ Distinct(readyQueue')
  <2>1. readyQueue \in Seq(Coro) /\ Ready \subseteq Coro /\ Nobody \notin Coro
    BY ReadyIsCoro DEF TypeOK
  <2>2. PICK q : q = readyQueue \o Woken(a)
    OBVIOUS
  <2>3. /\ q \in Seq(Coro) /\ Distinct(q)
        /\ Entries(q) = {x \in Coro : x \in Ready \/ x = a}
    <3>1. a \notin Entries(readyQueue)
      BY <1>3, <2>1, ReadyIsEntries
    <3> QED BY <1>1, <2>1, <2>2, <3>1, WakeEntries, ReadyIsEntries
  <2>4. w \notin Entries(q)
    BY <1>1, <1>4, <1>5, <2>1, <2>3
  <2>5. readyQueue' = q \o Woken(w)
    BY <1>2, <2>2
  <2>6. /\ Distinct(readyQueue')
        /\ Entries(readyQueue') = {x \in Coro : x \in Entries(q) \/ x = w}
    BY <1>1, <2>1, <2>3, <2>4, <2>5, WakeEntries
  <2>7. Ready' = Entries(readyQueue')
    BY ReadyIsEntries
  <2> QED BY <2>3, <2>6, <2>7
<1>8. CurrentSound'
  <2>1. uv = "idle"
    BY <1>0, <1>1 DEF CurrentSound
  <2>2. \A x \in Coro : state'[x] \in {"fresh", "running"} =>
            x # c /\ x # a /\ x # w /\ state'[x] = state[x]
    BY <1>1, <1>2, <1>3, <1>4 DEF TypeOK
  <2> QED BY <1>1, <1>2, <2>1, <2>2 DEF CurrentSound, TypeOK
<1>9. ReadyQueueSound'
  <2>1. \A x \in Ready' : state'[x] = "suspended"
    BY <1>1, <1>2, <1>3, <1>4, <1>6, <1>7 DEF ReadyQueueSound, TypeOK
  <2> QED BY <1>7, <2>1, ReadyIsEntries
<1>10. ResumesWithItsAnswer'
  <2>1. \A h \in Handle : Completed(h) => Completed(h)'
    BY <1>1, <1>2 DEF Completed, TypeOK
  <2>2. ASSUME NEW x \in Ready'
        PROVE  \/ awaiting'[x] = Nobody /\ delivered'[x] = <<>>
               \/ /\ awaiting'[x] # Nobody
                  /\ delivered'[x] = <<awaiting'[x]>>
                  /\ Completed(awaiting[x])'
    <3>1. CASE x = w
      <4>1. x \in Coro /\ w # Nobody
        BY <1>7, <2>2, <3>1
      <4>2. delivered'[x] = <<f>> /\ awaiting'[x] = f /\ f \in Future
        BY <1>1, <1>2, <1>4, <3>1, <4>1, AppendToEmpty
      <4>3. Completed(f)'
        BY <1>1, <1>2, <4>1, <4>2 DEF Completed, TypeOK
      <4> QED BY <4>2, <4>3
    <3>2. CASE x = a /\ x # w
      <4>1. x \in Coro /\ a # Nobody
        BY <1>7, <2>2, <3>2
      <4>2. delivered'[x] = <<c>> /\ awaiting'[x] = c
        BY <1>1, <1>2, <1>3, <3>2, <4>1, AppendToEmpty
      <4>3. Completed(c)'
        BY <1>1, <1>2 DEF Completed, TypeOK
      <4> QED BY <1>1, <4>2, <4>3
    <3>3. CASE x # a /\ x # w
      <4>1. x \in Ready /\ x \in Coro
        BY <1>7, <2>2, <3>3
      <4>2. awaiting'[x] = awaiting[x] /\ delivered'[x] = delivered[x]
        BY <1>2, <3>3, <4>1
      <4> QED BY <2>1, <4>1, <4>2 DEF ResumesWithItsAnswer, TypeOK
    <3> QED BY <3>1, <3>2, <3>3
  <2> QED BY <2>2 DEF ResumesWithItsAnswer
<1>11. ASSUME NEW g \in Future, waiting'[g] # Nobody
       PROVE  /\ ~resolved'[g]
              /\ awaiting'[waiting'[g]] = g
              /\ state'[waiting'[g]] = "suspended"
              /\ delivered'[waiting'[g]] = <<>>
              /\ waiting'[g] \notin Ready'
  <2>1. waiting'[g] = waiting[g] /\ waiting[g] \in Coro
        /\ ~(LastOf(f) /\ g = f)
    BY <1>2, <1>11 DEF TypeOK
  <2>2. /\ awaiting[waiting[g]] = g /\ state[waiting[g]] = "suspended"
        /\ ~resolved[g] /\ delivered[waiting[g]] = <<>>
        /\ waiting[g] \notin Ready
    BY <1>11, <2>1 DEF WaiterSound
  <2>3. waiting[g] # a /\ waiting[g] # w /\ waiting[g] # c
    BY <1>1, <1>3, <1>4, <2>1, <2>2
  <2> QED BY <1>2, <1>7, <2>1, <2>2, <2>3 DEF TypeOK
<1>12. ASSUME NEW d \in Coro, awaitedBy'[d] # Nobody
       PROVE  /\ state'[d] # "dead"
              /\ awaiting'[awaitedBy'[d]] = d
              /\ state'[awaitedBy'[d]] = "suspended"
              /\ delivered'[awaitedBy'[d]] = <<>>
              /\ awaitedBy'[d] \notin Ready'
  <2>1. d # c /\ awaitedBy'[d] = awaitedBy[d] /\ awaitedBy[d] \in Coro
    BY <1>1, <1>2, <1>12 DEF TypeOK
  <2>2. /\ awaiting[awaitedBy[d]] = d /\ state[awaitedBy[d]] = "suspended"
        /\ state[d] # "dead" /\ delivered[awaitedBy[d]] = <<>>
        /\ awaitedBy[d] \notin Ready
    BY <1>12, <2>1 DEF WaiterSound
  <2>3. awaitedBy[d] # a /\ awaitedBy[d] # w /\ awaitedBy[d] # c
    BY <1>1, <1>3, <1>4, <2>1, <2>2
  <2> QED BY <1>2, <1>7, <2>1, <2>2, <2>3 DEF TypeOK
<1> QED BY <1>8, <1>9, <1>10, <1>11, <1>12 DEF Core, WaiterSound

\* Every step preserves the queue, answer and waiter invariants.
LEMMA CoreStep ==
    ASSUME IInv, [Next]_vars
    PROVE  Core'
<1> USE DEF IInv, vars, coVars, memVars, futVars, ioVars, waitVars, slotVars,
            errVars, mainVars
<1>1. ASSUME NEW c \in Coro, Spawn(c) PROVE Core'
  BY <1>1, SpawnCore
<1>2. ASSUME NEW d \in Coro, AwaitCoro(d) PROVE Core'
  BY <1>2, AwaitCore
<1>3. ASSUME NEW f \in Future, AwaitFuture(f) PROVE Core'
  BY <1>3, AwaitCore
<1>4. CASE Yield
  BY <1>4, YieldCore
<1>5. CASE Return
  BY <1>5, ReturnCore
<1>6. CASE RunStep
  BY <1>6, RunStepCore
<1>7. ASSUME NEW f \in Future, UvCallback(f) PROVE Core'
  BY <1>7, UvCallbackCore
<1>8. ASSUME NEW f \in Future, StartIo(f) PROVE Core'
  <2>1. CurrentSound'
    BY <1>8 DEF StartIo, NativeReturns, Abandon, CurrentSound, Executing,
                Driving
  <2> QED BY <1>8, <2>1, Undisturbed DEF StartIo, Core, WaiterSound
<1>9. ASSUME NEW f \in Future, NEW list, Gather(f, list) PROVE Core'
  <2>1. CurrentSound'
    BY <1>9 DEF Gather, NativeReturns, Abandon, CurrentSound, Executing,
                Driving
  <2>2. ~resolved[f] /\ waiting[f] = Nobody
    BY <1>9 DEF Gather, FreshFuture
  <2>3. UNCHANGED <<state, awaitedBy, awaiting, delivered, readyQueue, waiting>>
        /\ resolved' = [resolved EXCEPT ![f] = (LiveSlots(list) = {})]
    BY <1>9 DEF Gather
  <2>4. \A g \in Future : resolved[g] => resolved'[g]
    BY <2>2, <2>3 DEF TypeOK
  <2>5. \A g \in Future : waiting[g] # Nobody => ~resolved'[g]
    BY <2>2, <2>3 DEF TypeOK, WaiterSound
  <2> QED BY <2>1, <2>3, <2>4, <2>5, Undisturbed DEF Core
<1>10. ASSUME NEW native \in BOOLEAN, Fail(native) PROVE Core'
  <2>1. CurrentSound'
    BY <1>10 DEF Fail, Abandon, CurrentSound, Executing, Driving
  <2> QED BY <1>10, <2>1, Undisturbed DEF Fail, Core, WaiterSound
<1>11. ASSUME NEW h \in Handle, MainAwait(h) PROVE Core'
  <2>1. CurrentSound'
    BY <1>11 DEF MainAwait, CurrentSound, Driving
  <2> QED BY <1>11, <2>1, Undisturbed DEF MainAwait, Core, WaiterSound
<1>12. CASE MainAwaitEnds
  <2>1. CurrentSound'
    BY <1>12 DEF MainAwaitEnds, Idle, CurrentSound
  <2> QED BY <1>12, <2>1, Undisturbed DEF MainAwaitEnds, Core, WaiterSound
<1>13. CASE UvEnter \/ UvLeave
  <2>1. CurrentSound'
    BY <1>13 DEF UvEnter, UvLeave, Idle, CurrentSound
  <2> QED BY <1>13, <2>1, Undisturbed DEF UvEnter, UvLeave, Core, WaiterSound
<1>14. CASE MainReturns \/ DrainEnds \/ NextScript \/ Destroy
  <2>1. CurrentSound'
    BY <1>14 DEF MainReturns, DrainEnds, NextScript, Destroy, Idle,
                 CurrentSound, Driving
  <2> QED BY <1>14, <2>1, Undisturbed
          DEF MainReturns, DrainEnds, NextScript, Destroy, Core, WaiterSound
<1>15. CASE UNCHANGED vars
  <2>1. CurrentSound'
    BY <1>15 DEF CurrentSound
  <2> QED BY <1>15, <2>1, Undisturbed DEF Core, WaiterSound
<1> QED BY <1>1, <1>2, <1>3, <1>4, <1>5, <1>6, <1>7, <1>8, <1>9, <1>10, <1>11,
          <1>12, <1>13, <1>14, <1>15
       DEF Next, VmStep, UvReturnsAtOnce, Terminated, GatherSome

-----------------------------------------------------------------------------
(* Gather members and registered futures.                                  *)

Books == GatherSound /\ FreshFuture /\ RootsExact /\ CallbacksExact

\* The members of a gather are a finite set.
LEMMA MembersFinite == \A f : IsFiniteSet(Members(f))
BY FS_Subset DEF Members

\* A started request adds one root and one pending operation.
LEMMA StartIoBooks ==
    ASSUME IInv, NEW f \in Future, StartIo(f)
    PROVE  Books'
<1> USE DEF IInv
<1>1. /\ kind[f] = "fresh" /\ kind' = [kind EXCEPT ![f] = "io"]
      /\ inFlight' = inFlight \cup {f}
      /\ ioFutures' = ioFutures \cup {f} /\ pendingIo' = pendingIo + 1
      /\ UNCHANGED <<gatherFuture, resolved, waiting, remaining>>
  BY DEF StartIo, memVars, waitVars, slotVars
<1>2. Executing
  BY DEF StartIo
<1>3. f \notin ioFutures /\ IsFiniteSet(ioFutures)
  BY <1>1, FS_Subset DEF RootsExact, TypeOK
<1>4. GatherSound'
  <2>1. ASSUME NEW g \in Future
        PROVE  /\ Members(g)' = Members(g) /\ remaining'[g] = remaining[g]
               /\ Members(g) # {} => kind'[g] = "gather" /\ ~resolved'[g]
    <3>1. Members(g)' = Members(g)
      BY <1>1 DEF Members
    <3>2. Members(g) # {} => g # f
      BY <1>1 DEF GatherSound
    <3> QED BY <1>1, <3>1, <3>2 DEF GatherSound, TypeOK
  <2> QED BY <2>1 DEF GatherSound
<1>5. FreshFuture'
  BY <1>1 DEF FreshFuture, TypeOK
<1>6. RootsExact'
  <2>1. Cardinality(ioFutures \cup {f}) = pendingIo + 1
    BY <1>3, FS_AddElement DEF RootsExact
  <2>2. ~resolved[f]
    BY <1>1 DEF FreshFuture
  <2> QED BY <1>1, <2>1, <2>2 DEF RootsExact, TypeOK
<1>7. CallbacksExact'
  <2>1. main # "destroyed"
    BY <1>2 DEF Executing, CurrentSound, Driving
  <2> QED BY <1>1, <1>3, <2>1 DEF CallbacksExact, TypeOK
<1> QED BY <1>4, <1>5, <1>6, <1>7 DEF Books

\* The list has at least as many live positions as the gather has members.
LEMMA GatherMembers ==
    ASSUME NEW list \in Seq(Handle), IsFiniteSet(LiveSlots(list)),
           NEW M, M = {c \in Coro : {i \in LiveSlots(list) : list[i] = c} # {}}
    PROVE  Cardinality(M) <= Cardinality(LiveSlots(list))
<1> DEFINE at == [i \in LiveSlots(list) |-> list[i]]
<1>1. at \in Surjection(LiveSlots(list), M)
  BY DEF Surjection, LiveSlots
<1> QED BY <1>1, FS_Surjection

\* A gather adds one root if it has to wait, and none otherwise.
LEMMA GatherBooks ==
    ASSUME IInv, NEW f \in Future, NEW list \in Seq(Handle), Gather(f, list)
    PROVE  Books'
<1> USE DEF IInv
<1> DEFINE live == LiveSlots(list)
           joins(c) == {i \in live : list[i] = c}
<1>1. /\ kind[f] = "fresh" /\ kind' = [kind EXCEPT ![f] = "gather"]
      /\ remaining' = [remaining EXCEPT ![f] = Cardinality(live)]
      /\ gatherFuture' = [c \in Coro |-> IF joins(c) # {} THEN f
                                         ELSE gatherFuture[c]]
      /\ resolved' = [resolved EXCEPT ![f] = (live = {})]
      /\ ioFutures' = IF live = {} THEN ioFutures ELSE ioFutures \cup {f}
      /\ pendingIo' = IF live = {} THEN pendingIo ELSE pendingIo + 1
      /\ UNCHANGED <<waiting, inFlight>>
  BY DEF Gather
<1>2. Executing
  BY DEF Gather
<1>3. /\ f \notin ioFutures /\ IsFiniteSet(ioFutures)
      /\ ~resolved[f] /\ Members(f) = {}
  BY <1>1, FS_Subset DEF RootsExact, TypeOK, FreshFuture, GatherSound
<1>4. IsFiniteSet(live)
  <2>1. DOMAIN list = 1..Len(list) /\ Len(list) \in Nat
    OBVIOUS
  <2>2. live \in SUBSET (1..Len(list)) /\ IsFiniteSet(1..Len(list))
    BY <2>1, FS_Interval DEF LiveSlots
  <2> QED BY <2>2, FS_Subset
<1>5. ASSUME NEW g \in Future
      PROVE  /\ Members(g)' # {} => kind'[g] = "gather" /\ ~resolved'[g]
             /\ Cardinality(Members(g)') <= remaining'[g]
  <2>1. CASE g = f
    <3>1. Members(f)' = {c \in Coro : joins(c) # {}}
      BY <1>1, <1>3 DEF Members
    <3>2. Cardinality(Members(f)') <= Cardinality(live)
      BY <1>4, <3>1, GatherMembers
    <3>3. Members(f)' # {} => live # {}
      BY <3>1
    <3> QED BY <1>1, <2>1, <3>2, <3>3 DEF TypeOK
  <2>2. CASE g # f
    <3>1. Members(g)' \in SUBSET Members(g) /\ IsFiniteSet(Members(g))
      BY <1>1, <2>2, MembersFinite DEF Members
    <3>2. /\ Cardinality(Members(g)') <= Cardinality(Members(g))
          /\ IsFiniteSet(Members(g)')
      BY <3>1, FS_Subset
    <3>3. Cardinality(Members(g)') \in Nat /\ Cardinality(Members(g)) \in Nat
      BY <3>1, <3>2, FS_CardinalityType
    <3>4. /\ remaining'[g] = remaining[g] /\ remaining[g] \in Int
          /\ kind'[g] = kind[g] /\ resolved'[g] = resolved[g]
      BY <1>1, <2>2 DEF TypeOK
    <3>5. /\ Members(g) # {} => kind[g] = "gather" /\ ~resolved[g]
          /\ Cardinality(Members(g)) <= remaining[g]
      BY DEF GatherSound
    <3> QED BY <3>1, <3>2, <3>3, <3>4, <3>5
  <2> QED BY <2>1, <2>2
<1>6. GatherSound'
  BY <1>5 DEF GatherSound
<1>7. FreshFuture'
  BY <1>1 DEF FreshFuture, TypeOK
<1>8. RootsExact'
  <2>1. Cardinality(ioFutures \cup {f}) = pendingIo + 1
    BY <1>3, FS_AddElement DEF RootsExact
  <2>2. CASE live = {}
    BY <1>1, <1>3, <2>2 DEF RootsExact, TypeOK
  <2>3. CASE live # {}
    BY <1>1, <1>3, <2>1, <2>3 DEF RootsExact, TypeOK
  <2> QED BY <2>2, <2>3
<1>9. CallbacksExact'
  <2>1. main # "destroyed"
    BY <1>2 DEF Executing, CurrentSound, Driving
  <2> QED BY <1>1, <1>3, <2>1 DEF CallbacksExact, TypeOK
<1> QED BY <1>6, <1>7, <1>8, <1>9 DEF Books

\* The last member of a gather removes its root, others change no root.
LEMMA ReturnBooks ==
    ASSUME IInv, Return
    PROVE  Books'
<1> USE DEF IInv
<1>0. PICK c, f : c = current /\ f = gatherFuture[c]
  OBVIOUS
<1>1. c \in Coro /\ f \in Future \cup {Nobody} /\ main # "destroyed"
  BY <1>0 DEF Return, TypeOK, CurrentSound, Driving
<1>2. /\ gatherFuture' = [gatherFuture EXCEPT ![c] = Nobody]
      /\ remaining' = [g \in Future |->
             IF g = f THEN remaining[g] - 1 ELSE remaining[g]]
      /\ resolved' = [g \in Future |-> resolved[g] \/ (LastOf(f) /\ g = f)]
      /\ waiting' = [g \in Future |->
             IF LastOf(f) /\ g = f THEN Nobody ELSE waiting[g]]
      /\ ioFutures' = IF LastOf(f) THEN ioFutures \ {f} ELSE ioFutures
      /\ pendingIo' = IF LastOf(f) THEN pendingIo - 1 ELSE pendingIo
      /\ UNCHANGED <<kind, inFlight, main>>
  BY <1>0 DEF Return, Unregister, futVars, mainVars
<1>3. f \in Future => /\ c \in Members(f) /\ kind[f] = "gather"
                      /\ f \in ioFutures
  <2>1. f \in Future => c \in Members(f)
    BY <1>0, <1>1 DEF Members
  <2> QED BY <2>1 DEF GatherSound, RootsExact
<1>4. ASSUME NEW g \in Future
      PROVE  /\ Members(g)' # {} => kind'[g] = "gather" /\ ~resolved'[g]
             /\ Cardinality(Members(g)') <= remaining'[g]
  <2>0. /\ Members(g) # {} => kind[g] = "gather" /\ ~resolved[g]
        /\ Cardinality(Members(g)) <= remaining[g]
        /\ IsFiniteSet(Members(g)) /\ Cardinality(Members(g)) \in Nat
        /\ remaining[g] \in Int
    BY MembersFinite, FS_CardinalityType DEF GatherSound, TypeOK
  <2>1. CASE g = f
    <3>1. Members(g)' = Members(g) \ {c} /\ c \in Members(g)
      BY <1>1, <1>2, <1>3, <2>1 DEF Members, TypeOK
    <3>2. Cardinality(Members(g)') = Cardinality(Members(g)) - 1
      BY <2>0, <3>1, FS_RemoveElement
    <3>3. remaining'[g] = remaining[g] - 1
      BY <1>2, <2>1
    <3>4. CASE LastOf(f)
      <4>1. Cardinality(Members(g)') = 0 /\ IsFiniteSet(Members(g)')
        <5>1. IsFiniteSet(Members(g)') /\ Cardinality(Members(g)') \in Nat
          BY <2>0, <3>1, FS_RemoveElement, FS_CardinalityType
        <5> QED BY <2>0, <2>1, <3>2, <3>4, <5>1 DEF LastOf
      <4>2. Members(g)' = {}
        BY <4>1, FS_EmptySet
      <4> QED BY <2>0, <3>2, <3>3, <4>2
    <3>5. CASE ~LastOf(f)
      <4>1. resolved'[g] = resolved[g] /\ kind'[g] = kind[g]
        BY <1>2, <3>5 DEF TypeOK
      <4>2. Cardinality(Members(g)') <= remaining'[g]
        BY <2>0, <3>2, <3>3
      <4> QED BY <2>0, <3>1, <4>1, <4>2
    <3> QED BY <3>4, <3>5
  <2>2. CASE g # f
    <3>1. Members(g)' = Members(g)
      BY <1>0, <1>1, <1>2, <2>2 DEF Members, TypeOK
    <3> QED BY <1>2, <2>0, <2>2, <3>1
  <2> QED BY <2>1, <2>2
<1>5. GatherSound'
  BY <1>4 DEF GatherSound
<1>6. FreshFuture'
  BY <1>2, <1>3 DEF FreshFuture, TypeOK
<1>7. RootsExact'
  <2>1. CASE LastOf(f)
    <3>1. f \in Future
      BY <1>1, <2>1 DEF LastOf
    <3>2. Cardinality(ioFutures \ {f}) = pendingIo - 1
      BY <1>3, <3>1, RemoveRoot
    <3> QED BY <1>2, <2>1, <3>1, <3>2 DEF RootsExact, TypeOK
  <2>2. CASE ~LastOf(f)
    BY <1>2, <2>2 DEF RootsExact, TypeOK
  <2> QED BY <2>1, <2>2
<1>8. CallbacksExact'
  BY <1>1, <1>2, <1>3 DEF CallbacksExact, LastOf
<1> QED BY <1>5, <1>6, <1>7, <1>8 DEF Books

\* A callback removes the root of its own future.
LEMMA UvCallbackBooks ==
    ASSUME IInv, NEW f \in Future, UvCallback(f)
    PROVE  Books'
<1> USE DEF IInv
<1>1. /\ f \in inFlight /\ inFlight' = inFlight \ {f}
      /\ resolved' = [resolved EXCEPT ![f] = TRUE]
      /\ waiting' = [waiting EXCEPT ![f] = Nobody]
      /\ pendingIo' = pendingIo - 1 /\ ioFutures' = ioFutures \ {f}
      /\ UNCHANGED <<gatherFuture, kind, remaining, main>>
  BY DEF UvCallback, RequestsAfter, Unregister, memVars, futVars, slotVars,
         mainVars
<1>2. main # "destroyed"
  BY DEF UvCallback, CurrentSound, Driving
<1>3. f \in ioFutures /\ kind[f] = "io"
  BY <1>1, <1>2 DEF CallbacksExact
<1>4. GatherSound'
  <2>1. ASSUME NEW g \in Future
        PROVE  /\ Members(g)' = Members(g) /\ remaining'[g] = remaining[g]
               /\ Members(g) # {} => kind'[g] = "gather" /\ ~resolved'[g]
    <3>1. Members(g)' = Members(g)
      BY <1>1 DEF Members
    <3>2. Members(g) # {} => g # f
      BY <1>1, <1>3 DEF GatherSound
    <3> QED BY <1>1, <1>3, <3>1, <3>2 DEF GatherSound, TypeOK
  <2> QED BY <2>1 DEF GatherSound
<1>5. FreshFuture'
  BY <1>1, <1>3 DEF FreshFuture, TypeOK
<1>6. RootsExact'
  <2>1. Cardinality(ioFutures \ {f}) = pendingIo - 1
    BY <1>3, RemoveRoot
  <2> QED BY <1>1, <2>1 DEF RootsExact, TypeOK
<1>7. CallbacksExact'
  BY <1>1, <1>2 DEF CallbacksExact
<1> QED BY <1>4, <1>5, <1>6, <1>7 DEF Books

\* Every other action leaves gathers, futures and requests alone, or only
\* lets requests go when the VM is destroyed.
LEMMA BooksUndisturbed ==
    ASSUME IInv,
           UNCHANGED <<gatherFuture, kind, resolved, remaining, ioFutures,
                       pendingIo>>,
           \A f \in Future : kind[f] = "fresh" => waiting'[f] = waiting[f],
           main' # "destroyed" => main # "destroyed" /\ UNCHANGED inFlight
    PROVE  Books'
<1> USE DEF IInv
<1>1. GatherSound'
  BY DEF GatherSound, Members
<1>2. FreshFuture' /\ RootsExact' /\ CallbacksExact'
  BY DEF FreshFuture, RootsExact, CallbacksExact
<1> QED BY <1>1, <1>2 DEF Books

\* Every step preserves the count of roots and the gather bookkeeping.
LEMMA BooksStep ==
    ASSUME IInv, [Next]_vars
    PROVE  Books'
<1> USE DEF vars, coVars, memVars, futVars, ioVars, waitVars, slotVars,
            errVars, mainVars
<1>1. ASSUME NEW f \in Future, StartIo(f) PROVE Books'
  BY <1>1, StartIoBooks
<1>2. ASSUME NEW f \in Future, NEW list \in GatherLists, Gather(f, list)
      PROVE  Books'
  <2>1. list \in Seq(Handle)
    BY SeqDef DEF GatherLists
  <2> QED BY <1>2, <2>1, GatherBooks
<1>3. CASE Return
  BY <1>3, ReturnBooks
<1>4. ASSUME NEW f \in Future, UvCallback(f) PROVE Books'
  BY <1>4, UvCallbackBooks
<1>5. ASSUME NEW c \in Coro, Spawn(c) PROVE Books'
  BY <1>5, BooksUndisturbed DEF Spawn
<1>6. ASSUME NEW d \in Coro, AwaitCoro(d) PROVE Books'
  BY <1>6, BooksUndisturbed DEF AwaitCoro
<1>7. ASSUME NEW f \in Future, AwaitFuture(f) PROVE Books'
  <2>1. kind[f] # "fresh"
    BY <1>7 DEF AwaitFuture, Pending, Created
  <2>2. \A g \in Future : kind[g] = "fresh" => waiting'[g] = waiting[g]
    BY <1>7, <2>1 DEF AwaitFuture, IInv, TypeOK
  <2> QED BY <1>7, <2>2, BooksUndisturbed DEF AwaitFuture
<1>8. CASE Yield
  BY <1>8, BooksUndisturbed DEF Yield
<1>9. ASSUME NEW native \in BOOLEAN, Fail(native) PROVE Books'
  <2>1. main # "destroyed"
    BY <1>9 DEF Fail, Executing, IInv, CurrentSound, Driving
  <2> QED BY <1>9, <2>1, BooksUndisturbed DEF Fail
<1>10. ASSUME NEW h \in Handle, MainAwait(h) PROVE Books'
  BY <1>10, BooksUndisturbed DEF MainAwait
<1>11. CASE MainAwaitEnds
  BY <1>11, BooksUndisturbed DEF MainAwaitEnds
<1>12. CASE RunStep
  BY <1>12, BooksUndisturbed DEF RunStep
<1>13. CASE UvEnter \/ UvLeave
  BY <1>13, BooksUndisturbed DEF UvEnter, UvLeave
<1>14. CASE MainReturns \/ DrainEnds \/ NextScript \/ Destroy
  BY <1>14, BooksUndisturbed DEF MainReturns, DrainEnds, NextScript, Destroy
<1>15. CASE UNCHANGED vars
  BY <1>15, BooksUndisturbed
<1> QED BY <1>1, <1>2, <1>3, <1>4, <1>5, <1>6, <1>7, <1>8, <1>9, <1>10, <1>11,
          <1>12, <1>13, <1>14, <1>15
       DEF Next, VmStep, UvReturnsAtOnce, Terminated, GatherSome

-----------------------------------------------------------------------------
(* Nobody is forgotten, as long as scripts await each object once.         *)

\* A step that removes no registration and wakes nobody forgets nobody.
LEMMA WaitersKept ==
    ASSUME IInv, NoLostWaiter,
           UNCHANGED <<state, awaitedBy, awaiting, readyQueue, waiting>>
    PROVE  NoLostWaiter'
BY DEF NoLostWaiter, Ready

\* Without shared awaits every step keeps every waiter registered.
LEMMA NoLostWaiterStep ==
    ASSUME ~SharedAwait, IInv, Core', NoLostWaiter, [Next]_vars
    PROVE  NoLostWaiter'
<1> USE DEF vars, coVars, memVars, futVars, ioVars, waitVars, slotVars,
            errVars, mainVars
<1>0. Ready \subseteq Coro /\ readyQueue \in Seq(Coro) /\ Nobody \notin Coro
  BY ReadyIsCoro DEF IInv, TypeOK
<1>1. ASSUME NEW c \in Coro, Spawn(c) PROVE NoLostWaiter'
  <2>1. Ready' = Ready \cup {c}
    BY <1>0, <1>1, AppendEntries, ReadyIsEntries DEF Spawn
  <2> QED BY <1>1, <2>1 DEF Spawn, NoLostWaiter, IInv, TypeOK
<1>2. CASE Yield
  <2>1. Ready' = Ready \cup {current} /\ current \in Coro
    BY <1>0, <1>2, AppendEntries, ReadyIsEntries DEF Yield, IInv, TypeOK
  <2> QED BY <1>2, <2>1 DEF Yield, NoLostWaiter, IInv, TypeOK
<1>3. ASSUME NEW d \in Coro, AwaitCoro(d) PROVE NoLostWaiter'
  <2>1. Ready' = Ready /\ awaitedBy[d] = Nobody /\ current \in Coro
    BY <1>3 DEF AwaitCoro, QueueForAwait, Ready, IInv, TypeOK
  <2>2. ASSUME NEW x \in Coro, x # current
        PROVE  awaiting'[x] = awaiting[x] /\ state'[x] = state[x]
    BY <1>3, <2>2 DEF AwaitCoro, IInv, TypeOK
  <2>3. awaiting'[current] = d /\ awaitedBy'[d] = current
    BY <1>3, <2>1 DEF AwaitCoro, IInv, TypeOK
  <2>4. \A y \in Coro : awaitedBy[y] # Nobody => awaitedBy'[y] = awaitedBy[y]
    BY <1>3, <2>1 DEF AwaitCoro, IInv, TypeOK
  <2>5. UNCHANGED waiting
    BY <1>3 DEF AwaitCoro
  <2> QED BY <1>0, <1>3, <2>1, <2>2, <2>3, <2>4, <2>5
          DEF NoLostWaiter
<1>4. ASSUME NEW f \in Future, AwaitFuture(f) PROVE NoLostWaiter'
  <2>1. Ready' = Ready /\ waiting[f] = Nobody /\ current \in Coro
    BY <1>4 DEF AwaitFuture, Ready, IInv, TypeOK
  <2>2. ASSUME NEW x \in Coro, x # current
        PROVE  awaiting'[x] = awaiting[x] /\ state'[x] = state[x]
    BY <1>4, <2>2 DEF AwaitFuture, IInv, TypeOK
  <2>3. awaiting'[current] = f /\ waiting'[f] = current
    BY <1>4, <2>1 DEF AwaitFuture, IInv, TypeOK
  <2>4. \A y \in Future : waiting[y] # Nobody => waiting'[y] = waiting[y]
    BY <1>4, <2>1 DEF AwaitFuture, IInv, TypeOK
  <2>5. UNCHANGED awaitedBy
    BY <1>4 DEF AwaitFuture
  <2> QED BY <1>0, <1>4, <2>1, <2>2, <2>3, <2>4, <2>5
          DEF NoLostWaiter
<1>5. CASE RunStep
  <2>1. Ready' \cup {Head(readyQueue)} = Ready /\ Head(readyQueue) \in Coro
        /\ state[Head(readyQueue)] = "suspended"
    BY <1>0, <1>5, TailEntries, ReadyIsEntries DEF RunStep, IInv, ReadyQueueSound
  <2>2. /\ state' = [state EXCEPT ![Head(readyQueue)] = "running"]
        /\ awaiting' = [awaiting EXCEPT ![Head(readyQueue)] = Nobody]
        /\ UNCHANGED <<awaitedBy, waiting>>
    BY <1>5, <2>1 DEF RunStep
  <2> QED BY <2>1, <2>2 DEF NoLostWaiter, IInv, TypeOK
<1>6. ASSUME NEW f \in Future, UvCallback(f) PROVE NoLostWaiter'
  <2>1. Ready' = {x \in Coro : x \in Ready \/ x = waiting[f]}
    <3>1. waiting[f] \in Coro \cup {Nobody}
      BY DEF IInv, TypeOK
    <3>2. readyQueue' = readyQueue \o Woken(waiting[f])
      BY <1>6 DEF UvCallback
    <3> QED BY <1>0, <3>1, <3>2, WakeEntries, ReadyIsEntries
  <2>2. waiting' = [waiting EXCEPT ![f] = Nobody]
        /\ UNCHANGED <<state, awaitedBy, awaiting>>
    BY <1>6 DEF UvCallback
  <2> QED BY <2>1, <2>2 DEF NoLostWaiter, IInv, TypeOK
<1>7. CASE Return
  <2>0. PICK c, a, f, w :
            /\ c = current /\ a = awaitedBy[c] /\ f = gatherFuture[c]
            /\ w = IF LastOf(f) THEN waiting[f] ELSE Nobody
    OBVIOUS
  <2>1. /\ c \in Coro /\ a \in Coro \cup {Nobody} /\ w \in Coro \cup {Nobody}
    BY <1>7, <2>0 DEF Return, LastOf, IInv, TypeOK
  <2>2. Ready' = {x \in Coro : x \in Ready \/ x = a \/ x = w}
    <3>1. readyQueue' = (readyQueue \o Woken(a)) \o Woken(w)
      BY <1>7, <2>0 DEF Return
    <3>2. PICK q : q = readyQueue \o Woken(a)
      OBVIOUS
    <3>3. q \in Seq(Coro) /\ Entries(q) = {x \in Coro : x \in Ready \/ x = a}
      BY <1>0, <2>1, <3>2, WakeEntries, ReadyIsEntries
    <3>4. Entries(q \o Woken(w)) = {x \in Coro : x \in Entries(q) \/ x = w}
      BY <1>0, <2>1, <3>3, WakeEntries
    <3> QED BY <3>1, <3>2, <3>3, <3>4, ReadyIsEntries
  <2>3. /\ state' = [state EXCEPT ![c] = "dead"]
        /\ awaitedBy' = [awaitedBy EXCEPT ![c] = Nobody]
        /\ waiting' = [g \in Future |->
               IF LastOf(f) /\ g = f THEN Nobody ELSE waiting[g]]
        /\ UNCHANGED awaiting
    BY <1>7, <2>0 DEF Return
  <2>4. ASSUME NEW x \in Coro, state'[x] = "suspended", x \notin Ready'
        PROVE  \/ awaiting'[x] \in Future /\ waiting'[awaiting'[x]] = x
               \/ awaiting'[x] \in Coro /\ awaitedBy'[awaiting'[x]] = x
    <3>1. state[x] = "suspended" /\ x \notin Ready /\ x # a /\ x # w
      BY <2>1, <2>2, <2>3, <2>4 DEF IInv, TypeOK
    <3>2. CASE awaiting[x] \in Future /\ waiting[awaiting[x]] = x
      <4>1. ~(LastOf(f) /\ awaiting[x] = f)
        BY <2>0, <3>1, <3>2
      <4> QED BY <2>3, <3>2, <4>1
    <3>3. CASE awaiting[x] \in Coro /\ awaitedBy[awaiting[x]] = x
      BY <2>0, <2>3, <3>1, <3>3 DEF IInv, TypeOK
    <3> QED BY <3>1, <3>2, <3>3 DEF NoLostWaiter
  <2> QED BY <2>4 DEF NoLostWaiter
<1>8. ASSUME NEW f \in Future, StartIo(f) PROVE NoLostWaiter'
  BY <1>8, WaitersKept DEF StartIo
<1>9. CASE GatherSome
  BY <1>9, WaitersKept DEF GatherSome, Gather
<1>10. ASSUME NEW native \in BOOLEAN, Fail(native) PROVE NoLostWaiter'
  BY <1>10, WaitersKept DEF Fail
<1>11. ASSUME NEW h \in Handle, MainAwait(h) PROVE NoLostWaiter'
  BY <1>11, WaitersKept DEF MainAwait
<1>12. CASE MainAwaitEnds \/ UvEnter \/ UvLeave
  BY <1>12, WaitersKept DEF MainAwaitEnds, UvEnter, UvLeave
<1>13. CASE MainReturns \/ DrainEnds \/ NextScript \/ Destroy
  BY <1>13, WaitersKept DEF MainReturns, DrainEnds, NextScript, Destroy
<1>14. CASE UNCHANGED vars
  BY <1>14, WaitersKept
<1> QED BY <1>1, <1>2, <1>3, <1>4, <1>5, <1>6, <1>7, <1>8, <1>9, <1>10, <1>11,
          <1>12, <1>13, <1>14
       DEF Next, VmStep, UvReturnsAtOnce, Terminated

-----------------------------------------------------------------------------
(* After the drain nothing is in flight.                                   *)

Quiet == main = "done" => inFlight = {}

\* A script that ends normally leaves no request in flight.
LEMMA QuietStep ==
    ASSUME IInv, Quiet, [Next]_vars
    PROVE  Quiet'
<1> USE DEF vars, mainVars
<1>1. CASE DrainEnds
  <2>1. CASE pendingIo = 0
    <3>1. IsFiniteSet(ioFutures) /\ Cardinality(ioFutures) = 0
      BY <2>1, FS_Subset DEF IInv, TypeOK, RootsExact
    <3>2. ioFutures = {}
      BY <3>1, FS_EmptySet
    <3> QED BY <1>1, <3>2 DEF DrainEnds, IInv, CallbacksExact, Quiet
  <2>2. CASE inFlight = {}
    BY <1>1, <2>2 DEF DrainEnds, Quiet
  <2> QED BY <1>1, <2>1, <2>2 DEF DrainEnds, DrainIsOver
<1>2. ASSUME NEW f \in Future, StartIo(f) PROVE Quiet'
  BY <1>2 DEF StartIo, NativeReturns, Abandon, Executing, Quiet, Driving,
              IInv, CurrentSound
<1>3. ASSUME NEW f \in Future, UvCallback(f) PROVE Quiet'
  BY <1>3 DEF UvCallback, Quiet, Driving, IInv, CurrentSound
<1>4. CASE Destroy \/ NextScript \/ MainReturns \/ MainAwaitEnds
  BY <1>4 DEF Destroy, NextScript, MainReturns, MainAwaitEnds, Quiet
<1>5. CASE GatherSome
  BY <1>5 DEF GatherSome, Gather, NativeReturns, Abandon, Quiet
<1>6. ASSUME NEW native \in BOOLEAN, Fail(native) PROVE Quiet'
  BY <1>6 DEF Fail, Abandon, Quiet
<1>7. ASSUME NEW h \in Handle, MainAwait(h) PROVE Quiet'
  BY <1>7 DEF MainAwait, Quiet
<1>8. ASSUME NEW x \in Handle,
             \/ x \in Coro /\ (Spawn(x) \/ AwaitCoro(x))
             \/ x \in Future /\ AwaitFuture(x)
      PROVE  Quiet'
  BY <1>8 DEF Spawn, AwaitCoro, AwaitFuture, Quiet
<1>9. CASE Yield \/ Return \/ RunStep \/ UvEnter \/ UvLeave
  BY <1>9 DEF Yield, Return, RunStep, UvEnter, UvLeave, Quiet
<1>10. CASE UNCHANGED vars
  BY <1>10 DEF Quiet
<1> QED BY <1>1, <1>2, <1>3, <1>4, <1>5, <1>6, <1>7, <1>8, <1>9, <1>10
       DEF Next, VmStep, UvReturnsAtOnce, Terminated

-----------------------------------------------------------------------------
(* The theorems.                                                           *)

\* The invariant is inductive.
THEOREM Inductive == Spec => []IInv
<1>1. Init => IInv
  BY InitIInv
<1>2. IInv /\ [Next]_vars => IInv'
  BY TypeStep, CoreStep, BooksStep DEF Core, Books, IInv
<1> QED BY <1>1, <1>2, PTL DEF Spec

\* Every variable of the scheduler keeps its type; in particular
\* pending_io_count never becomes negative.
THEOREM TypeCorrect == Spec => []TypeOK
<1>1. IInv => TypeOK
  BY DEF IInv
<1> QED BY <1>1, Inductive, PTL

\* No coroutine is in the ready queue twice and every queued one is
\* suspended: vm_scheduler_run_step never skips an entry.
THEOREM QueueSound == Spec => []ReadyQueueSound
<1>1. IInv => ReadyQueueSound
  BY DEF IInv
<1> QED BY <1>1, Inductive, PTL

\* A coroutine that is resumed finds on its stack exactly the final result
\* of what it awaited, also when others await the same object.
THEOREM AnswerSound == Spec => []ResumesWithItsAnswer
<1>1. IInv => ResumesWithItsAnswer
  BY DEF IInv
<1> QED BY <1>1, Inductive, PTL

\* pending_io_count and the GC roots in io_futures agree with the futures
\* that are unresolved, and each request belongs to one of them.
THEOREM PendingIoCorrect == Spec => []PendingIoExact
<1>1. IInv => PendingIoExact
  BY DEF IInv, RootsExact, CallbacksExact, PendingIoExact
<1> QED BY <1>1, Inductive, PTL

\* As long as no script awaits an object twice at a time, every suspended
\* coroutine is queued or registered with what it awaits.
THEOREM NobodyForgotten == ~SharedAwait /\ Spec => []NoLostWaiter
<1>1. Init => NoLostWaiter
  BY DEF Init, NoLostWaiter
<1>2. ~SharedAwait /\ IInv /\ IInv' /\ NoLostWaiter /\ [Next]_vars
         => NoLostWaiter'
  BY NoLostWaiterStep DEF IInv, Core
<1>3. CASE SharedAwait
  BY <1>3
<1>4. CASE ~SharedAwait
  <2>1. IInv /\ IInv' /\ NoLostWaiter /\ [Next]_vars => NoLostWaiter'
    BY <1>2, <1>4
  <2> QED BY <1>1, <2>1, Inductive, PTL DEF Spec
<1> QED BY <1>3, <1>4

\* After a script that ended normally no future is freed before its request
\* has called back.
THEOREM RequestsAnswered == Spec => FutureOutlivesRequest
<1>1. Init => Quiet
  BY DEF Init, Quiet
<1>2. IInv /\ Quiet /\ [Next]_vars => Quiet'
  BY QuietStep
<1>3. Quiet => (main = "done" /\ main' = "destroyed" => inFlight = {})
  BY DEF Quiet
<1> QED BY <1>1, <1>2, <1>3, Inductive, PTL DEF Spec, FutureOutlivesRequest

-----------------------------------------------------------------------------
(* What a script sees of await and gather: the order and the completeness  *)
(* of gathered results, when the driver gives up, and that the scheduler   *)
(* implements AwaitPromise.                                                *)

(* Gathers.                                                                *)

USE SchedulerAssumption DEF Handle

\* The positions of the gather f whose results are still missing.
Unfilled(f) == {i \in DOMAIN items[f] : slots[f][i] = Nobody}

\* A slot is empty, for a coroutine, or holds the final item of its place;
\* remaining counts the empty ones, and the future is resolved by the last.
\* Each coroutine that owes a result knows an empty place of its own.
GatherSlots(f) ==
    /\ Len(slots[f]) = Len(items[f])
    /\ \A i \in DOMAIN items[f] :
           \/ slots[f][i] = Nobody /\ items[f][i] \in Coro
           \/ slots[f][i] = items[f][i] /\ (items[f][i] \in Coro =>
                                               state[items[f][i]] = "dead")
    /\ remaining[f] = Cardinality(Unfilled(f))
    /\ resolved[f] <=> Unfilled(f) = {}
    /\ \A c \in Members(f) : gatherSlot[c] \in Unfilled(f)
                             /\ items[f][gatherSlot[c]] = c

SlotsSound ==
    /\ \A f \in Future : kind[f] = "gather" => GatherSlots(f)
    /\ \A c \in Coro : state[c] = "dead" => gatherFuture[c] = Nobody

\* Without shared gathers the coroutine at an empty place still owes its
\* result to that very place.
Owes(f) ==
    \A i \in Unfilled(f) : gatherFuture[items[f][i]] = f
                           /\ gatherSlot[items[f][i]] = i

OwedSound == \A f \in Future : kind[f] = "gather" => Owes(f)

\* Overwriting a position keeps the length of a sequence.
LEMMA ExceptLen ==
    ASSUME NEW S, NEW q \in Seq(S), NEW i, NEW e \in S
    PROVE  /\ Len([q EXCEPT ![i] = e]) = Len(q)
           /\ DOMAIN [q EXCEPT ![i] = e] = DOMAIN q
<1>1. [q EXCEPT ![i] = e] \in Seq(S)
  BY ExceptInSeq
<1>2. DOMAIN [q EXCEPT ![i] = e] = DOMAIN q
  OBVIOUS
<1> QED BY <1>1, <1>2, LenProperties

\* A step that leaves the gathers alone and finishes no coroutine.
LEMMA GathersKept ==
    ASSUME SlotsSound, TypeOK,
           UNCHANGED <<kind, items, slots, remaining, gatherFuture,
                       gatherSlot>>,
           \A c \in Coro : state'[c] = "dead" <=> state[c] = "dead",
           \A f \in Future : kind[f] = "gather" => resolved'[f] = resolved[f]
    PROVE  SlotsSound' /\ (OwedSound => OwedSound')
<1>1. ASSUME NEW f \in Future, kind[f] = "gather" PROVE GatherSlots(f)'
  <2>1. GatherSlots(f)
    BY <1>1 DEF SlotsSound
  <2>2. Unfilled(f)' = Unfilled(f) /\ Members(f)' = Members(f)
    BY DEF Unfilled, Members
  <2>3. \A i \in DOMAIN items[f] : items[f][i] \in Coro =>
            (state'[items[f][i]] = "dead" <=> state[items[f][i]] = "dead")
    OBVIOUS
  <2> QED BY <1>1, <2>1, <2>2, <2>3 DEF GatherSlots
<1>2. OwedSound => OwedSound'
  BY DEF OwedSound, Owes, Unfilled
<1> QED BY <1>1, <1>2 DEF SlotsSound

\* The last of the positions at which a list holds an unfinished coroutine.
LEMMA LastJoin ==
    ASSUME NEW list \in Seq(Handle), NEW c \in Coro,
           NEW J, J = {i \in LiveSlots(list) : list[i] = c}, J # {}
    PROVE  (CHOOSE i \in J : \A j \in J : j <= i) \in J
<1>1. DOMAIN list = 1..Len(list) /\ Len(list) \in Nat
  OBVIOUS
<1>2. J \in SUBSET (1..Len(list)) /\ IsFiniteSet(1..Len(list))
  BY <1>1, FS_Interval DEF LiveSlots
<1>3. IsFiniteSet(J) /\ J \subseteq Int
  BY <1>2, FS_Subset
<1>4. \E i \in J : \A j \in J : j <= i
  BY <1>3, GreatestExists
<1> QED BY <1>4

\* With at most one position, the last one is that position.
LEMMA OnlyJoin ==
    ASSUME NEW J, IsFiniteSet(J), Cardinality(J) <= 1, NEW i \in J, NEW j \in J
    PROVE  i = j
<1>1. IsFiniteSet(J \ {i}) /\ Cardinality(J \ {i}) = Cardinality(J) - 1
  BY FS_RemoveElement
<1>2. Cardinality(J) \in Nat /\ Cardinality(J \ {i}) \in Nat
  BY <1>1, FS_CardinalityType
<1>3. Cardinality(J \ {i}) = 0
  BY <1>1, <1>2
<1>4. J \ {i} = {}
  BY <1>1, <1>3, FS_EmptySet
<1> QED BY <1>4

\* What aio.gather writes.
LEMMA GatherWrites ==
    ASSUME IInv, NEW f \in Future, NEW list \in Seq(Handle), Gather(f, list)
    PROVE  /\ items' = [items EXCEPT ![f] = list]
           /\ Len(slots'[f]) = Len(list)
           /\ \A i \in DOMAIN list :
                  slots'[f][i] = IF i \in LiveSlots(list) THEN Nobody ELSE list[i]
           /\ \A g \in Future : g # f => /\ slots'[g] = slots[g]
                                         /\ remaining'[g] = remaining[g]
                                         /\ resolved'[g] = resolved[g]
                                         /\ kind'[g] = kind[g]
                                         /\ items'[g] = items[g]
           /\ remaining'[f] = Cardinality(LiveSlots(list))
           /\ resolved'[f] <=> LiveSlots(list) = {}
           /\ Unfilled(f)' = LiveSlots(list)
           /\ UNCHANGED state
<1> DEFINE s == [i \in DOMAIN list |-> IF i \in LiveSlots(list) THEN Nobody
                                       ELSE list[i]]
<1>1. DOMAIN list = 1..Len(list) /\ Len(list) \in Nat
  OBVIOUS
<1>2. Len(s) = Len(list)
  <2>1. s \in [1..Len(list) -> Handle \cup {Nobody}]
    BY <1>1
  <2> HIDE DEF s
  <2> QED BY <1>1, <2>1, LenProperties, SeqDef
<1>3. slots' = [slots EXCEPT ![f] = s] /\ items' = [items EXCEPT ![f] = list]
  BY DEF Gather
<1>4. slots'[f] = s /\ items'[f] = list
  <2> HIDE DEF s
  <2> QED BY <1>3 DEF IInv, TypeOK
<1>5. \A i \in DOMAIN list : list[i] \in Handle /\ list[i] # Nobody
  BY <1>1
<1>6. LiveSlots(list) \subseteq DOMAIN list
  BY DEF LiveSlots
<1>7. Unfilled(f)' = LiveSlots(list)
  BY <1>4, <1>5, <1>6 DEF Unfilled
<1>8. \A g \in Future : g # f => slots'[g] = slots[g] /\ items'[g] = items[g]
  <2> HIDE DEF s
  <2> QED BY <1>3 DEF IInv, TypeOK
<1>9. /\ remaining' = [remaining EXCEPT ![f] = Cardinality(LiveSlots(list))]
      /\ resolved' = [resolved EXCEPT ![f] = (LiveSlots(list) = {})]
      /\ kind' = [kind EXCEPT ![f] = "gather"] /\ UNCHANGED state
  BY DEF Gather, coVars
<1> QED BY <1>2, <1>3, <1>4, <1>7, <1>8, <1>9 DEF IInv, TypeOK

\* A new gather has a slot for each place of its list.
LEMMA GatherStepSlots ==
    ASSUME IInv, SlotsSound, NEW f \in Future, NEW list \in Seq(Handle),
           Gather(f, list)
    PROVE  SlotsSound'
<1> DEFINE live == LiveSlots(list)
           joins(c) == {i \in live : list[i] = c}
<1>1. /\ kind[f] = "fresh" /\ Members(f) = {}
      /\ gatherFuture' = [c \in Coro |-> IF joins(c) # {} THEN f
                                         ELSE gatherFuture[c]]
      /\ gatherSlot' = [c \in Coro |->
             IF joins(c) # {}
             THEN CHOOSE i \in joins(c) : \A j \in joins(c) : j <= i
             ELSE gatherSlot[c]]
  BY DEF Gather, IInv, GatherSound
<1>2. ASSUME NEW c \in Coro, state'[c] = "dead"
      PROVE  gatherFuture'[c] = Nobody
  <2>1. state[c] = "dead"
    BY <1>2, GatherWrites
  <2>2. joins(c) = {}
    BY <2>1 DEF LiveSlots
  <2> QED BY <1>1, <2>1, <2>2 DEF SlotsSound
<1>3. GatherSlots(f)'
  <2>1. \A i \in DOMAIN list : list[i] \in Handle
    OBVIOUS
  <2>2. items'[f] = list
    BY GatherWrites DEF IInv, TypeOK
  <2>3. \A i \in DOMAIN list :
            \/ slots'[f][i] = Nobody /\ list[i] \in Coro
            \/ slots'[f][i] = list[i] /\ (list[i] \in Coro =>
                                              state'[list[i]] = "dead")
    <3>1. UNCHANGED state /\ \A i \in DOMAIN list :
              slots'[f][i] = IF i \in live THEN Nobody ELSE list[i]
      BY GatherWrites
    <3>2. \A i \in DOMAIN list : IF i \in live THEN list[i] \in Coro
              ELSE list[i] \in Coro => state[list[i]] = "dead"
      BY DEF LiveSlots
    <3> HIDE DEF live
    <3> QED BY <3>1, <3>2
  <2>4. ASSUME NEW c \in Members(f)'
        PROVE  gatherSlot'[c] \in live /\ list[gatherSlot'[c]] = c
    <3>1. c \in Coro /\ joins(c) # {}
      BY <1>1 DEF Members
    <3>2. gatherSlot'[c] = CHOOSE i \in joins(c) : \A j \in joins(c) : j <= i
      BY <1>1, <3>1
    <3>3. PICK J : J = joins(c)
      OBVIOUS
    <3>4. (CHOOSE i \in J : \A j \in J : j <= i) \in J
      BY <3>1, <3>3, LastJoin
    <3>5. gatherSlot'[c] \in joins(c)
      BY <3>2, <3>3, <3>4
    <3> QED BY <3>5
  <2> HIDE DEF live, joins
  <2> QED BY <2>2, <2>3, <2>4, GatherWrites DEF GatherSlots, live
<1>4. ASSUME NEW g \in Future, g # f, kind[g] = "gather"
      PROVE  GatherSlots(g)'
  <2>1. GatherSlots(g) /\ g # Nobody
    BY <1>4 DEF SlotsSound
  <2>2. /\ slots'[g] = slots[g] /\ remaining'[g] = remaining[g]
        /\ resolved'[g] = resolved[g] /\ items'[g] = items[g]
        /\ UNCHANGED state
    BY <1>4, GatherWrites
  <2>3. Unfilled(g)' = Unfilled(g)
    BY <2>2 DEF Unfilled
  <2>4. \A c \in Members(g)' : c \in Members(g) /\ gatherSlot'[c] = gatherSlot[c]
    BY <1>1, <1>4 DEF Members
  <2> QED BY <2>1, <2>2, <2>3, <2>4 DEF GatherSlots
<1>5. \A g \in Future : g # f => kind'[g] = kind[g]
  BY GatherWrites
<1> QED BY <1>2, <1>3, <1>4, <1>5 DEF SlotsSound

\* If each coroutine is gathered once, its place is the one it joins with.
LEMMA GatherStepOwed ==
    ASSUME IInv, SlotsSound, OwedSound, ~SharedAwait, NEW f \in Future,
           NEW list \in Seq(Handle), Gather(f, list)
    PROVE  OwedSound'
<1> DEFINE live == LiveSlots(list)
           joins(c) == {i \in live : list[i] = c}
<1>1. /\ kind[f] = "fresh"
      /\ gatherFuture' = [c \in Coro |-> IF joins(c) # {} THEN f
                                         ELSE gatherFuture[c]]
      /\ gatherSlot' = [c \in Coro |->
             IF joins(c) # {}
             THEN CHOOSE i \in joins(c) : \A j \in joins(c) : j <= i
             ELSE gatherSlot[c]]
      /\ \A c \in Coro : /\ Cardinality(joins(c)) <= 1
                         /\ joins(c) # {} => gatherFuture[c] = Nobody
  BY DEF Gather
<1>2. ASSUME NEW i \in live
      PROVE  gatherFuture'[list[i]] = f /\ gatherSlot'[list[i]] = i
  <2>1. list[i] \in Coro /\ i \in joins(list[i])
    BY DEF LiveSlots
  <2>2. PICK c \in Coro : c = list[i]
    BY <2>1
  <2>3. PICK J : J = joins(c)
    OBVIOUS
  <2>4. gatherFuture'[c] = f
        /\ gatherSlot'[c] = CHOOSE k \in J : \A j \in J : j <= k
    BY <1>1, <2>1, <2>2, <2>3
  <2>5. (CHOOSE k \in J : \A j \in J : j <= k) \in J
    BY <2>1, <2>2, <2>3, LastJoin
  <2>6. IsFiniteSet(J)
    <3>1. DOMAIN list = 1..Len(list) /\ Len(list) \in Nat
      OBVIOUS
    <3>2. J \in SUBSET (1..Len(list)) /\ IsFiniteSet(1..Len(list))
      BY <2>3, <3>1, FS_Interval DEF LiveSlots
    <3> QED BY <3>2, FS_Subset
  <2>7. Cardinality(J) <= 1 /\ i \in J
    BY <1>1, <2>1, <2>2, <2>3
  <2>8. (CHOOSE k \in J : \A j \in J : j <= k) = i
    BY <2>5, <2>6, <2>7, OnlyJoin
  <2> QED BY <2>2, <2>4, <2>8
<1>3. Owes(f)'
  <2>1. items'[f] = list /\ Unfilled(f)' = live
    BY GatherWrites DEF IInv, TypeOK
  <2> HIDE DEF live
  <2> QED BY <1>2, <2>1 DEF Owes
<1>4. ASSUME NEW g \in Future, g # f, kind[g] = "gather"
      PROVE  Owes(g)'
  <2>1. slots'[g] = slots[g] /\ items'[g] = items[g]
    BY <1>4, GatherWrites
  <2>2. Unfilled(g)' = Unfilled(g)
    BY <2>1 DEF Unfilled
  <2>3. ASSUME NEW i \in Unfilled(g)
        PROVE  /\ gatherFuture'[items[g][i]] = gatherFuture[items[g][i]]
               /\ gatherSlot'[items[g][i]] = gatherSlot[items[g][i]]
    <3>1. items[g][i] \in Coro
      <4>1. GatherSlots(g) /\ i \in DOMAIN items[g] /\ slots[g][i] = Nobody
        BY <1>4 DEF SlotsSound, Unfilled
      <4>2. items[g][i] \in Handle
        BY <4>1 DEF IInv, TypeOK
      <4> QED BY <4>1, <4>2 DEF GatherSlots
    <3>2. gatherFuture[items[g][i]] = g /\ g # Nobody
      BY <1>4 DEF OwedSound, Owes
    <3>3. joins(items[g][i]) = {}
      BY <1>1, <3>1, <3>2
    <3> QED BY <1>1, <3>1, <3>3
  <2> QED BY <1>4, <2>1, <2>2, <2>3 DEF OwedSound, Owes
<1>5. \A g \in Future : g # f => kind'[g] = kind[g]
  BY GatherWrites
<1> QED BY <1>3, <1>4, <1>5 DEF OwedSound

\* What the return of c writes to the gather it belongs to.
LEMMA ReturnWrites ==
    ASSUME IInv, SlotsSound, Return,
           NEW f \in Future, f = gatherFuture[current]
    PROVE  LET i == gatherSlot[current]
           IN  /\ kind[f] = "gather" /\ GatherSlots(f) /\ ~resolved[f]
               /\ i \in Unfilled(f) /\ items[f][i] = current
               /\ slots'[f] = [slots[f] EXCEPT ![i] = current]
               /\ remaining'[f] = remaining[f] - 1
               /\ resolved'[f] = (remaining[f] = 1)
               /\ Unfilled(f)' = Unfilled(f) \ {i}
               /\ Len(slots'[f]) = Len(slots[f])
<1> DEFINE i == gatherSlot[current]
<1>1. current \in Members(f) /\ f # Nobody /\ current \in Coro
  BY DEF Members, Return, IInv, TypeOK
<1>2. kind[f] = "gather" /\ ~resolved[f]
  BY <1>1 DEF IInv, GatherSound
<1>3. GatherSlots(f)
  BY <1>2 DEF SlotsSound
<1>4. i \in Unfilled(f) /\ items[f][i] = current
  BY <1>1, <1>3 DEF GatherSlots
<1>5. /\ slots'[f] = [slots[f] EXCEPT ![i] = current]
      /\ remaining'[f] = remaining[f] - 1
      /\ resolved'[f] = (remaining[f] = 1)
      /\ items' = items
  BY <1>1, <1>2 DEF Return, ResultSlot, LastOf, futVars, IInv, TypeOK
<1>6. /\ slots[f] \in Seq(Handle \cup {Nobody})
      /\ items[f] \in Seq(Handle)
      /\ Len(slots[f]) = Len(items[f])
  BY <1>3 DEF IInv, TypeOK, GatherSlots
<1>7. Len(slots'[f]) = Len(slots[f]) /\ DOMAIN items[f] = DOMAIN slots[f]
  BY <1>5, <1>6, ExceptLen
<1>8. ASSUME NEW j \in DOMAIN items[f]
      PROVE  slots'[f][j] = IF j = i THEN current ELSE slots[f][j]
  BY <1>5, <1>7
<1>9. Unfilled(f)' = Unfilled(f) \ {i}
  BY <1>1, <1>4, <1>5, <1>8 DEF Unfilled
<1> QED BY <1>2, <1>3, <1>4, <1>5, <1>7, <1>9

\* The return of a coroutine fills the place it owed, and no other.
LEMMA ReturnStepSlots ==
    ASSUME IInv, SlotsSound, Return
    PROVE  SlotsSound' /\ (OwedSound => OwedSound')
<1>0. PICK c, f : c = current /\ f = gatherFuture[c]
  OBVIOUS
<1>1. c \in Coro /\ c # Nobody /\ state[c] = "running"
  BY <1>0 DEF Return, IInv, TypeOK, CurrentSound
<1>2. /\ state' = [state EXCEPT ![c] = "dead"]
      /\ gatherFuture' = [gatherFuture EXCEPT ![c] = Nobody]
      /\ UNCHANGED <<gatherSlot, kind, items>>
  BY <1>0 DEF Return, futVars
<1>3. ASSUME NEW g \in Future, g # f
      PROVE  /\ slots'[g] = slots[g] /\ remaining'[g] = remaining[g]
             /\ resolved'[g] = resolved[g] /\ Members(g)' = Members(g)
             /\ Unfilled(g)' = Unfilled(g)
  <2>1. /\ slots'[g] = slots[g] /\ remaining'[g] = remaining[g]
        /\ resolved'[g] = resolved[g]
    BY <1>0, <1>3 DEF Return, IInv, TypeOK
  <2>2. Members(g)' = Members(g)
    BY <1>0, <1>1, <1>2, <1>3 DEF Members, IInv, TypeOK
  <2> QED BY <1>2, <2>1, <2>2 DEF Unfilled
<1>4. \A x \in Coro : state'[x] = "dead" => gatherFuture'[x] = Nobody
  BY <1>1, <1>2 DEF SlotsSound, IInv, TypeOK
<1>5. \A x \in Coro : state[x] = "dead" => state'[x] = "dead"
  BY <1>1, <1>2 DEF IInv, TypeOK
<1>6. ASSUME NEW g \in Future, g # f, kind[g] = "gather"
      PROVE  GatherSlots(g)' /\ (Owes(g) => Owes(g)')
  <2>1. GatherSlots(g)
    BY <1>6 DEF SlotsSound
  <2>2. GatherSlots(g)'
    BY <1>2, <1>3, <1>5, <1>6, <2>1 DEF GatherSlots
  <2>3. ASSUME NEW i \in Unfilled(g), Owes(g)
        PROVE  gatherFuture'[items[g][i]] = g /\ gatherSlot'[items[g][i]] = i
    <3>1. gatherFuture[items[g][i]] = g /\ gatherSlot[items[g][i]] = i
      BY <2>3 DEF Owes
    <3>2. items[g][i] # c
      BY <1>0, <1>6, <3>1
    <3> QED BY <1>2, <3>1, <3>2 DEF IInv, TypeOK
  <2> QED BY <1>2, <1>3, <1>6, <2>2, <2>3 DEF Owes
<1>7. ASSUME f \in Future
      PROVE  GatherSlots(f)' /\ (Owes(f) => Owes(f)')
  <2>1. PICK i : i = gatherSlot[c]
    OBVIOUS
  <2>2. /\ GatherSlots(f) /\ ~resolved[f]
        /\ i \in Unfilled(f) /\ items[f][i] = c
        /\ slots'[f] = [slots[f] EXCEPT ![i] = c]
        /\ remaining'[f] = remaining[f] - 1
        /\ resolved'[f] = (remaining[f] = 1)
        /\ Unfilled(f)' = Unfilled(f) \ {i}
        /\ Len(slots'[f]) = Len(slots[f])
    BY <1>0, <1>7, <2>1, ReturnWrites
  <2>3. /\ IsFiniteSet(Unfilled(f)) /\ Cardinality(Unfilled(f)) = remaining[f]
        /\ Cardinality(Unfilled(f) \ {i}) = remaining[f] - 1
        /\ IsFiniteSet(Unfilled(f) \ {i})
    <3>1. items[f] \in Seq(Handle) /\ DOMAIN items[f] = 1..Len(items[f])
          /\ Len(items[f]) \in Nat
      BY <1>7 DEF IInv, TypeOK
    <3>2. Unfilled(f) \in SUBSET (1..Len(items[f]))
          /\ IsFiniteSet(1..Len(items[f]))
      BY <3>1, FS_Interval DEF Unfilled
    <3>3. IsFiniteSet(Unfilled(f))
      BY <3>2, FS_Subset
    <3> QED BY <2>2, <3>3, FS_RemoveElement DEF GatherSlots
  <2>4. resolved'[f] <=> Unfilled(f)' = {}
    <3>1. (Cardinality(Unfilled(f) \ {i}) = 0) <=> (Unfilled(f) \ {i} = {})
      BY <2>3, FS_EmptySet
    <3>2. remaining[f] \in Int
      BY <1>7 DEF IInv, TypeOK
    <3>3. remaining[f] = 1 <=> Cardinality(Unfilled(f) \ {i}) = 0
      BY <2>3, <3>2
    <3> QED BY <2>2, <3>1, <3>3
  <2>5. \A j \in DOMAIN items[f] : slots'[f][j] =
            IF j = i THEN c ELSE slots[f][j]
    <3>1. slots[f] \in Seq(Handle \cup {Nobody}) /\ items[f] \in Seq(Handle)
          /\ Len(slots[f]) = Len(items[f])
      BY <1>7, <2>2 DEF IInv, TypeOK, GatherSlots
    <3>2. DOMAIN slots[f] = DOMAIN items[f]
      BY <3>1
    <3> QED BY <2>2, <3>2
  <2>6. ASSUME NEW j \in DOMAIN items[f]
        PROVE  \/ slots'[f][j] = Nobody /\ items[f][j] \in Coro
               \/ slots'[f][j] = items[f][j] /\ (items[f][j] \in Coro =>
                                            state'[items[f][j]] = "dead")
    <3>1. CASE j = i
      BY <1>1, <1>2, <2>2, <2>5, <3>1 DEF IInv, TypeOK
    <3>2. CASE j # i
      BY <1>5, <2>2, <2>5, <3>2 DEF GatherSlots
    <3> QED BY <3>1, <3>2
  <2>7. ASSUME NEW x \in Members(f)'
        PROVE  gatherSlot'[x] \in Unfilled(f)' /\ items'[f][gatherSlot'[x]] = x
    <3>1. x \in Members(f) /\ x # c
      BY <1>2, <1>7, <2>7 DEF Members, IInv, TypeOK
    <3>2. gatherSlot[x] \in Unfilled(f) /\ items[f][gatherSlot[x]] = x
      BY <2>2, <3>1 DEF GatherSlots
    <3> QED BY <1>2, <2>2, <3>1, <3>2
  <2>8. GatherSlots(f)'
    <3>1. remaining'[f] = Cardinality(Unfilled(f)')
      BY <2>2, <2>3
    <3>2. Len(slots'[f]) = Len(items'[f])
      BY <1>2, <2>2 DEF GatherSlots
    <3> QED BY <1>2, <2>4, <2>6, <2>7, <3>1, <3>2 DEF GatherSlots
  <2>9. ASSUME Owes(f), NEW j \in Unfilled(f)'
        PROVE  gatherFuture'[items'[f][j]] = f /\ gatherSlot'[items'[f][j]] = j
    <3>1. j \in Unfilled(f) /\ j # i
      BY <2>2
    <3>2. gatherFuture[items[f][j]] = f /\ gatherSlot[items[f][j]] = j
      BY <2>9, <3>1 DEF Owes
    <3>3. items[f][j] # c
      BY <2>1, <3>1, <3>2
    <3> QED BY <1>2, <3>2, <3>3 DEF IInv, TypeOK
  <2> QED BY <2>8, <2>9 DEF Owes
<1>8. SlotsSound'
  BY <1>2, <1>4, <1>6, <1>7 DEF SlotsSound
<1>9. ASSUME OwedSound PROVE OwedSound'
  <2>1. ASSUME NEW g \in Future, kind'[g] = "gather" PROVE Owes(g)'
    <3>1. Owes(g) /\ kind[g] = "gather"
      BY <1>2, <1>9, <2>1 DEF OwedSound
    <3> QED BY <1>6, <1>7, <3>1
  <2> QED BY <2>1 DEF OwedSound
<1> QED BY <1>8, <1>9

\* Every step preserves what is known of the gathers.
LEMMA SlotsStep ==
    ASSUME IInv, SlotsSound, [Next]_vars
    PROVE  SlotsSound' /\ (~SharedAwait /\ OwedSound => OwedSound')
<1> DEFINE Goal == SlotsSound' /\ (~SharedAwait /\ OwedSound => OwedSound')
<1> SUFFICES Goal
  OBVIOUS
<1> USE DEF vars, coVars, memVars, futVars, ioVars, waitVars, slotVars,
            errVars, mainVars
<1>0. TypeOK
  BY DEF IInv
<1>1. ASSUME NEW f \in Future, NEW list \in GatherLists, Gather(f, list)
      PROVE  Goal
  <2>1. list \in Seq(Handle)
    BY SeqDef DEF GatherLists
  <2> QED BY <1>1, <2>1, GatherStepSlots, GatherStepOwed
<1>2. CASE Return
  BY <1>2, ReturnStepSlots
<1>3. ASSUME NEW f \in Future, UvCallback(f) PROVE Goal
  <2>1. kind[f] = "io"
    BY <1>3 DEF UvCallback, IInv, CallbacksExact, CurrentSound, Driving
  <2> QED BY <1>0, <1>3, <2>1, GathersKept DEF UvCallback, IInv, TypeOK
<1>4. ASSUME NEW f \in Future, StartIo(f) PROVE Goal
  <2>1. \A g \in Future : (kind'[g] = "gather") = (kind[g] = "gather")
    BY <1>0, <1>4 DEF StartIo, TypeOK
  <2> QED BY <1>4, <2>1 DEF StartIo, SlotsSound, OwedSound, GatherSlots, Owes,
                            Unfilled, Members
<1>5. ASSUME NEW c \in Coro, Spawn(c) PROVE Goal
  <2>1. \A x \in Coro : state'[x] = "dead" <=> state[x] = "dead"
    BY <1>0, <1>5 DEF Spawn, TypeOK
  <2> QED BY <1>0, <1>5, <2>1, GathersKept DEF Spawn
<1>6. ASSUME NEW d \in Coro, AwaitCoro(d) PROVE Goal
  <2>1. \A x \in Coro : state'[x] = "dead" <=> state[x] = "dead"
    BY <1>0, <1>6 DEF AwaitCoro, TypeOK, IInv, CurrentSound
  <2> QED BY <1>0, <1>6, <2>1, GathersKept DEF AwaitCoro
<1>7. ASSUME NEW f \in Future, AwaitFuture(f) PROVE Goal
  <2>1. \A x \in Coro : state'[x] = "dead" <=> state[x] = "dead"
    BY <1>0, <1>7 DEF AwaitFuture, TypeOK, IInv, CurrentSound
  <2> QED BY <1>0, <1>7, <2>1, GathersKept DEF AwaitFuture
<1>8. CASE Yield
  <2>1. \A x \in Coro : state'[x] = "dead" <=> state[x] = "dead"
    BY <1>0, <1>8 DEF Yield, TypeOK, IInv, CurrentSound
  <2> QED BY <1>0, <1>8, <2>1, GathersKept DEF Yield
<1>9. CASE RunStep
  <2>1. \A x \in Coro : state'[x] = "dead" <=> state[x] = "dead"
    BY <1>0, <1>9 DEF RunStep, TypeOK
  <2> QED BY <1>0, <1>9, <2>1, GathersKept DEF RunStep
<1>10. ASSUME NEW native \in BOOLEAN, Fail(native) PROVE Goal
  BY <1>0, <1>10, GathersKept DEF Fail
<1>11. ASSUME NEW h \in Handle, MainAwait(h) PROVE Goal
  BY <1>0, <1>11, GathersKept DEF MainAwait
<1>12. CASE MainAwaitEnds \/ UvEnter \/ UvLeave
  BY <1>0, <1>12, GathersKept DEF MainAwaitEnds, UvEnter, UvLeave
<1>13. CASE MainReturns \/ DrainEnds \/ NextScript \/ Destroy
  BY <1>0, <1>13, GathersKept DEF MainReturns, DrainEnds, NextScript, Destroy
<1>14. CASE UNCHANGED vars
  BY <1>0, <1>14, GathersKept
<1> HIDE DEF Goal
<1> QED BY <1>1, <1>2, <1>3, <1>4, <1>5, <1>6, <1>7, <1>8, <1>9, <1>10, <1>11,
          <1>12, <1>13, <1>14
       DEF Next, VmStep, UvReturnsAtOnce, Terminated, GatherSome

\* A resolved gather holds the results in the order of its list, each of
\* them final, also when a coroutine is listed or gathered twice.
THEOREM GatheredInOrder == Spec => []GatherInOrder
<1>1. Init => SlotsSound
  BY DEF Init, SlotsSound
<1>2. IInv /\ SlotsSound /\ [Next]_vars => SlotsSound'
  BY SlotsStep
<1>3. IInv /\ SlotsSound => GatherInOrder
  <2> SUFFICES ASSUME IInv, SlotsSound, NEW f \in Future,
                      kind[f] = "gather", resolved[f]
               PROVE  /\ slots[f] = items[f]
                      /\ \A i \in DOMAIN items[f] : items[f][i] \in Coro =>
                             state[items[f][i]] = "dead"
    BY DEF GatherInOrder
  <2>1. GatherSlots(f) /\ Unfilled(f) = {}
    BY DEF SlotsSound, GatherSlots
  <2>2. \A i \in DOMAIN items[f] :
            slots[f][i] = items[f][i] /\ (items[f][i] \in Coro =>
                                             state[items[f][i]] = "dead")
    BY <2>1 DEF GatherSlots, Unfilled
  <2>3. slots[f] \in Seq(Handle \cup {Nobody}) /\ items[f] \in Seq(Handle)
    BY DEF IInv, TypeOK
  <2>4. items[f] \in Seq(Handle \cup {Nobody}) /\ Len(slots[f]) = Len(items[f])
    BY <2>1, <2>3 DEF GatherSlots
  <2>5. slots[f] = items[f]
    BY <2>2, <2>3, <2>4, SeqEqual
  <2> QED BY <2>2, <2>5
<1> QED BY <1>1, <1>2, <1>3, Inductive, PTL DEF Spec

\* If no coroutine is gathered twice at a time, a gather whose coroutines
\* have all finished is resolved.
THEOREM GatheredWhenDone == ~SharedAwait => (Spec => []GatherResolvesWhenDone)
<1> SUFFICES ASSUME ~SharedAwait PROVE Spec => []GatherResolvesWhenDone
  OBVIOUS
<1>1. Init => SlotsSound /\ OwedSound
  BY DEF Init, SlotsSound, OwedSound
<1>2. /\ IInv /\ SlotsSound /\ [Next]_vars => SlotsSound'
      /\ IInv /\ SlotsSound /\ OwedSound /\ [Next]_vars => OwedSound'
  BY SlotsStep
<1>3. IInv /\ SlotsSound /\ OwedSound => GatherResolvesWhenDone
  <2> SUFFICES ASSUME IInv, SlotsSound, OwedSound, NEW f \in Future,
                      kind[f] = "gather",
                      \A i \in DOMAIN items[f] : Completed(items[f][i])
               PROVE  resolved[f]
    BY DEF GatherResolvesWhenDone
  <2>1. GatherSlots(f) /\ Owes(f)
    BY DEF SlotsSound, OwedSound
  <2>2. ASSUME NEW i \in Unfilled(f) PROVE FALSE
    <3>1. gatherFuture[items[f][i]] = f /\ f # Nobody /\ i \in DOMAIN items[f]
      BY <2>1 DEF Owes, Unfilled
    <3>2. items[f][i] \in Coro
      <4>1. slots[f][i] = Nobody /\ items[f][i] \in Handle
        BY <3>1 DEF Unfilled, IInv, TypeOK
      <4> QED BY <2>1, <3>1, <4>1 DEF GatherSlots
    <3>3. state[items[f][i]] = "dead"
      BY <3>1, <3>2 DEF Completed
    <3> QED BY <3>1, <3>2, <3>3 DEF SlotsSound
  <2> QED BY <2>1, <2>2 DEF GatherSlots
<1> QED BY <1>1, <1>2, <1>3, Inductive, PTL DEF Spec

-----------------------------------------------------------------------------
(* The driver gives up only when nothing can move.                         *)

\* With an empty queue and no request in flight, who is suspended awaits
\* an unfinished coroutine or gather.
LEMMA StuckOnCoroutines ==
    ASSUME IInv, NoLostWaiter, readyQueue = <<>>, main \in Driving,
           pendingIo = 0 \/ inFlight = {}, NEW c \in Coro,
           state[c] = "suspended"
    PROVE  /\ awaiting[c] # Nobody
           /\ ~Completed(awaiting[c])
           /\ awaiting[c] \in Future => kind[awaiting[c]] = "gather"
<1> USE DEF IInv
<1>1. Ready = {}
  BY DEF Ready
<1>2. \/ awaiting[c] \in Future /\ waiting[awaiting[c]] = c
      \/ awaiting[c] \in Coro /\ awaitedBy[awaiting[c]] = c
  BY <1>1 DEF NoLostWaiter
<1>3. inFlight = {f \in ioFutures : kind[f] = "io"}
  BY DEF CallbacksExact, Driving
<1>4. inFlight = {}
  <2>1. ASSUME pendingIo = 0 PROVE ioFutures = {}
    <3>1. IsFiniteSet(ioFutures) /\ Cardinality(ioFutures) = 0
      BY <2>1, FS_Subset DEF TypeOK, RootsExact
    <3> QED BY <3>1, FS_EmptySet
  <2> QED BY <1>3, <2>1
<1>5. CASE awaiting[c] \in Future /\ waiting[awaiting[c]] = c
  <2>1. ~resolved[awaiting[c]] /\ kind[awaiting[c]] # "fresh"
    BY <1>5 DEF WaiterSound, FreshFuture
  <2>2. awaiting[c] \in ioFutures
    BY <1>5, <2>1 DEF RootsExact
  <2> QED BY <1>3, <1>4, <1>5, <2>1, <2>2 DEF Completed, TypeOK
<1>6. CASE awaiting[c] \in Coro /\ awaitedBy[awaiting[c]] = c
  BY <1>6 DEF WaiterSound, Completed
<1> QED BY <1>2, <1>5, <1>6

\* Only the two loops of the main context go from driving back to a script
\* or to the end.
LEMMA DrivingEnds ==
    ASSUME [Next]_vars, main \in Driving, main' \in {"script", "done"},
           LoopGoesOn
    PROVE  readyQueue = <<>> /\ (pendingIo = 0 \/ inFlight = {})
<1> USE DEF vars, mainVars, Driving
<1>1. CASE MainAwaitEnds
  BY <1>1 DEF MainAwaitEnds
<1>2. CASE DrainEnds
  BY <1>2 DEF DrainEnds, DrainIsOver
<1>3. ASSUME NEW f \in Future, StartIo(f) \/ UvCallback(f) PROVE FALSE
  BY <1>3 DEF StartIo, UvCallback, NativeReturns, Abandon
<1>4. CASE GatherSome
  BY <1>4 DEF GatherSome, Gather, NativeReturns, Abandon
<1>5. ASSUME NEW x \in Handle,
             \/ x \in Coro /\ (Spawn(x) \/ AwaitCoro(x))
             \/ x \in Future /\ AwaitFuture(x)
             \/ MainAwait(x)
      PROVE  FALSE
  BY <1>5 DEF Spawn, AwaitCoro, AwaitFuture, MainAwait
<1>6. ASSUME NEW native \in BOOLEAN, Fail(native) PROVE FALSE
  BY <1>6 DEF Fail, Abandon
<1>7. CASE Yield \/ Return \/ RunStep \/ UvEnter \/ UvLeave
  BY <1>7 DEF Yield, Return, RunStep, UvEnter, UvLeave
<1>8. CASE MainReturns \/ NextScript \/ Destroy
  BY <1>8 DEF MainReturns, NextScript, Destroy
<1>9. CASE UNCHANGED vars
  BY <1>9
<1> QED BY <1>1, <1>2, <1>3, <1>4, <1>5, <1>6, <1>7, <1>8, <1>9
       DEF Next, VmStep, UvReturnsAtOnce, Terminated

\* If no object is awaited twice at a time, the driver never gives up while
\* a suspended coroutine waits for a request or for a result that is there.
THEOREM GivesUpOnlyWhenStuck == ~SharedAwait => (Spec => QuietOnlyWhenStuck)
<1> SUFFICES ASSUME ~SharedAwait PROVE Spec => QuietOnlyWhenStuck
  OBVIOUS
<1>1. ~SharedAwait
  OBVIOUS
<1>2. IInv /\ NoLostWaiter /\ [Next]_vars =>
          ((main \in Driving /\ main' \in {"script", "done"} /\ LoopGoesOn)
             => \A c \in Coro : state[c] = "suspended" =>
                    /\ awaiting[c] # Nobody
                    /\ ~Completed(awaiting[c])
                    /\ awaiting[c] \in Future => kind[awaiting[c]] = "gather")
  BY DrivingEnds, StuckOnCoroutines
<1> QED BY <1>1, <1>2, Inductive, NobodyForgotten, PTL
        DEF Spec, QuietOnlyWhenStuck

-----------------------------------------------------------------------------
(* The scheduler implements AwaitPromise.                                  *)

\* StatusOf case by case.
StatusTable ==
    \A c \in Coro :
        /\ StatusOf(c) = "unborn" <=> state[c] = "fresh"
        /\ StatusOf(c) = "finished" <=> state[c] = "dead"
        /\ StatusOf(c) = "running" <=> state[c] = "running" /\ c = current
        /\ StatusOf(c) = "failed" <=> state[c] = "running" /\ c # current
        /\ StatusOf(c) = "ready" <=> state[c] = "suspended" /\ c \in Ready
        /\ StatusOf(c) = "blocked" <=> state[c] = "suspended" /\ c \notin Ready
        /\ StatusOf(c) \in {"unborn", "finished", "running", "failed", "ready",
                            "blocked"}

LEMMA StatusIs == TypeOK => StatusTable
<1> SUFFICES ASSUME TypeOK, NEW c \in Coro
             PROVE  /\ StatusOf(c) = "unborn" <=> state[c] = "fresh"
                    /\ StatusOf(c) = "finished" <=> state[c] = "dead"
                    /\ StatusOf(c) = "running" <=> state[c] = "running" /\ c = current
                    /\ StatusOf(c) = "failed" <=> state[c] = "running" /\ c # current
                    /\ StatusOf(c) = "ready" <=> state[c] = "suspended" /\ c \in Ready
                    /\ StatusOf(c) = "blocked" <=> state[c] = "suspended" /\ c \notin Ready
                    /\ StatusOf(c) \in {"unborn", "finished", "running", "failed",
                                        "ready", "blocked"}
  BY DEF StatusTable
<1>1. CASE state[c] = "fresh"
  BY <1>1 DEF StatusOf
<1>2. CASE state[c] = "dead"
  BY <1>2 DEF StatusOf
<1>3. CASE state[c] = "running"
  BY <1>3 DEF StatusOf
<1>4. CASE state[c] = "suspended"
  BY <1>4 DEF StatusOf
<1> QED BY <1>1, <1>2, <1>3, <1>4 DEF TypeOK

LEMMA StatusIsNext == TypeOK' => StatusTable'
BY StatusIs, PTL

\* Who is blocked is registered with what it awaits, and nobody else is.
LEMMA Registered ==
    ASSUME IInv, NoLostWaiter, NEW x \in Coro
    PROVE  /\ \A f \in Future : waiting[f] = x <=>
                  StatusOf(x) = "blocked" /\ awaiting[x] = f
           /\ \A d \in Coro : awaitedBy[d] = x <=>
                  StatusOf(x) = "blocked" /\ awaiting[x] = d
           /\ StatusOf(x) = "blocked" => awaiting[x] \in Handle
<1>1. StatusOf(x) = "blocked" <=> state[x] = "suspended" /\ x \notin Ready
  BY StatusIs DEF IInv, StatusTable
<1> QED BY <1>1 DEF IInv, WaiterSound, NoLostWaiter

\* What a step has to do to be a step Complete(X, c, s) of AwaitPromise.
LEMMA CompleteMaps ==
    ASSUME NEW X \in SUBSET Handle, NEW c, NEW s, s # "blocked",
           \A h \in Handle : Completed(h)' <=> Completed(h) \/ h \in X,
           \A h \in X : ~Completed(h),
           \A x \in Coro : StatusOf(x)' =
               IF x = c THEN s
               ELSE IF StatusOf(x) = "blocked" /\ awaiting[x] \in X THEN "ready"
               ELSE StatusOf(x),
           \A x \in Coro : StatusOf(x) = "blocked" =>
               /\ x # c
               /\ awaiting[x] \notin X => awaiting'[x] = awaiting[x]
    PROVE  Promise!Complete(X, c, s)
<1> DEFINE status == [x \in Coro |-> StatusOf(x)]
           on == [x \in Coro |-> IF StatusOf(x) = "blocked" THEN awaiting[x]
                                 ELSE Nobody]
           done == {h \in Handle : Completed(h)}
           woken == {x \in Coro : status[x] = "blocked" /\ on[x] \in X}
<1>1. \A x \in Coro : x \in woken <=> StatusOf(x) = "blocked" /\ awaiting[x] \in X
  OBVIOUS
<1>2. status' = [x \in Coro |-> IF x = c THEN s
                                ELSE IF x \in woken THEN "ready" ELSE status[x]]
  BY <1>1
<1>3. on' = [x \in Coro |-> IF x \in woken THEN Nobody ELSE on[x]]
  BY <1>1
<1>4. done' = done \cup X /\ X \cap done = {}
  OBVIOUS
<1> QED BY <1>2, <1>3, <1>4 DEF Promise!Complete

\* A step that moves no coroutine and completes at most a future nobody
\* awaits; the executing coroutine may be abandoned.
LEMMA LeaveMaps ==
    ASSUME IInv, TypeOK', NoLostWaiter,
           UNCHANGED <<state, readyQueue, awaiting>>,
           current' = current \/ current' = Nobody,
           NEW X \in {{}} \cup {{f} : f \in Future},
           \A f \in X : ~resolved[f] /\ waiting[f] = Nobody,
           \A f \in Future : resolved'[f] <=> resolved[f] \/ f \in X
    PROVE  [Promise!Next]_(Promise!vars)
<1>1. StatusTable /\ StatusTable'
  BY StatusIs, StatusIsNext DEF IInv
<1>2. Ready' = Ready
  BY DEF Ready
<1>3. \A h \in Handle : Completed(h)' <=> Completed(h) \/ h \in X
  BY DEF Completed
<1>4. \A h \in X : ~Completed(h)
  BY DEF Completed
<1>5. \A x \in Coro : StatusOf(x) = "blocked" => awaiting[x] \notin X
  BY Registered
<1>6. X \in SUBSET Handle
  OBVIOUS
<1>7. CASE current' # Nobody \/ current = Nobody
  <2>1. current' = current
    BY <1>7
  <2>2. \A x \in Coro : StatusOf(x)' = StatusOf(x)
    BY <1>2, <2>1 DEF StatusOf
  <2>3. CASE X = {}
    BY <1>3, <2>2, <2>3 DEF Promise!vars
  <2>4. CASE X # {}
    <3>1. PICK f \in Future : X = {f}
      BY <2>4
    <3>2. \A x \in Coro : StatusOf(x)' =
              IF x = Nobody THEN "ready"
              ELSE IF StatusOf(x) = "blocked" /\ awaiting[x] \in X THEN "ready"
              ELSE StatusOf(x)
      BY <1>5, <2>2
    <3>3. \A x \in Coro : StatusOf(x) = "blocked" =>
              /\ x # Nobody
              /\ awaiting[x] \notin X => awaiting'[x] = awaiting[x]
      OBVIOUS
    <3>4. Promise!Complete(X, Nobody, "ready")
      BY <1>3, <1>4, <1>6, <3>2, <3>3, CompleteMaps
    <3> QED BY <3>1, <3>4 DEF Promise!Next, Promise!Resolve
  <2> QED BY <2>3, <2>4
<1>8. CASE current' = Nobody /\ current # Nobody
  <2>1. PICK c \in Coro : c = current
    BY <1>8 DEF IInv, TypeOK
  <2>2. state[c] = "running" /\ StatusOf(c) = "running"
    BY <1>1, <1>8, <2>1 DEF IInv, CurrentSound, StatusTable
  <2>3. \A x \in Coro : StatusOf(x)' =
            IF x = c THEN "failed"
            ELSE IF StatusOf(x) = "blocked" /\ awaiting[x] \in X THEN "ready"
            ELSE StatusOf(x)
    <3>1. ASSUME NEW x \in Coro, x # c PROVE StatusOf(x)' = StatusOf(x)
      BY <1>2, <1>8, <2>1, <3>1 DEF StatusOf
    <3>2. StatusOf(c)' = "failed"
      BY <1>1, <1>8, <2>1, <2>2 DEF StatusTable
    <3> QED BY <1>5, <3>1, <3>2
  <2>4. \A x \in Coro : StatusOf(x) = "blocked" =>
            /\ x # c
            /\ awaiting[x] \notin X => awaiting'[x] = awaiting[x]
    BY <2>2
  <2>5. Promise!Complete(X, c, "failed")
    BY <1>3, <1>4, <1>6, <2>3, <2>4, CompleteMaps
  <2>6. Promise!Fail(c)
    BY <2>2, <2>5 DEF Promise!Fail
  <2> QED BY <2>1, <2>6 DEF Promise!Next
<1> QED BY <1>7, <1>8

\* A step that completes nothing and moves c alone, to a status s.
LEMMA MoveMaps ==
    ASSUME TypeOK, TypeOK', NEW c \in Coro, NEW s, s # "blocked",
           StatusOf(c) # "blocked", StatusOf(c)' = s,
           \A x \in Coro : x # c => /\ StatusOf(x)' = StatusOf(x)
                                    /\ awaiting'[x] = awaiting[x],
           \A h \in Handle : Completed(h)' <=> Completed(h)
    PROVE  Promise!Complete({}, c, s)
<1>1. \A h \in Handle : Completed(h)' <=> Completed(h) \/ h \in {}
  OBVIOUS
<1>2. \A x \in Coro : StatusOf(x)' =
          IF x = c THEN s
          ELSE IF StatusOf(x) = "blocked" /\ awaiting[x] \in {} THEN "ready"
          ELSE StatusOf(x)
  OBVIOUS
<1>3. \A x \in Coro : StatusOf(x) = "blocked" =>
          x # c /\ (awaiting[x] \notin {} => awaiting'[x] = awaiting[x])
  OBVIOUS
<1>4. {} \in SUBSET Handle /\ \A h \in {} : ~Completed(h)
  OBVIOUS
<1> QED BY <1>1, <1>2, <1>3, <1>4, CompleteMaps

\* spawn, yield and the scheduler move one coroutine.
LEMMA SpawnMaps ==
    ASSUME IInv, TypeOK', NEW c \in Coro, Spawn(c)
    PROVE  Promise!Next
<1>1. StatusTable /\ StatusTable' /\ TypeOK
  BY StatusIs, StatusIsNext DEF IInv
<1>2. Ready' = Ready \cup {c}
  <2>1. readyQueue \in Seq(Coro) /\ readyQueue' = Append(readyQueue, c)
    BY DEF Spawn, IInv, TypeOK
  <2> QED BY <2>1, AppendEntries, ReadyIsEntries
<1>3. /\ state[c] = "fresh" /\ state' = [state EXCEPT ![c] = "suspended"]
      /\ UNCHANGED <<current, awaiting, resolved>>
  BY DEF Spawn, coVars, waitVars
<1>4. StatusOf(c) = "unborn" /\ StatusOf(c)' = "ready"
  BY <1>1, <1>2, <1>3 DEF StatusTable, TypeOK
<1>5. \A x \in Coro : x # c => StatusOf(x)' = StatusOf(x)
                               /\ awaiting'[x] = awaiting[x]
  <2>1. ASSUME NEW x \in Coro, x # c
        PROVE  /\ state'[x] = state[x] /\ awaiting'[x] = awaiting[x]
               /\ x \in Ready' <=> x \in Ready
               /\ x = current' <=> x = current
    BY <1>1, <1>2, <1>3, <2>1 DEF TypeOK
  <2> QED BY <2>1 DEF StatusOf
<1>6. \A h \in Handle : Completed(h)' <=> Completed(h)
  BY <1>1, <1>3 DEF Completed, TypeOK
<1>7. Promise!Complete({}, c, "ready")
  BY <1>1, <1>4, <1>5, <1>6, MoveMaps
<1> QED BY <1>4, <1>7 DEF Promise!Next, Promise!Create

LEMMA YieldMaps ==
    ASSUME IInv, TypeOK', Yield
    PROVE  Promise!Next
<1>0. PICK c \in Coro : c = current
  BY DEF Yield, IInv, TypeOK
<1>1. StatusTable /\ StatusTable' /\ TypeOK
  BY StatusIs, StatusIsNext DEF IInv
<1>2. Ready' = Ready \cup {c}
  <2>1. readyQueue \in Seq(Coro) /\ readyQueue' = Append(readyQueue, c)
    BY <1>0 DEF Yield, IInv, TypeOK
  <2> QED BY <2>1, AppendEntries, ReadyIsEntries
<1>3. /\ state[c] = "running" /\ state' = [state EXCEPT ![c] = "suspended"]
      /\ current' = Nobody /\ UNCHANGED <<awaiting, resolved>>
  BY <1>0 DEF Yield, coVars, waitVars, IInv, CurrentSound
<1>4. StatusOf(c) = "running" /\ StatusOf(c)' = "ready"
  BY <1>0, <1>1, <1>2, <1>3 DEF StatusTable, TypeOK
<1>5. \A x \in Coro : x # c => StatusOf(x)' = StatusOf(x)
                               /\ awaiting'[x] = awaiting[x]
  <2>1. ASSUME NEW x \in Coro, x # c
        PROVE  /\ state'[x] = state[x] /\ awaiting'[x] = awaiting[x]
               /\ x \in Ready' <=> x \in Ready
               /\ x = current' <=> x = current
    BY <1>0, <1>1, <1>2, <1>3, <2>1 DEF TypeOK
  <2> QED BY <2>1 DEF StatusOf
<1>6. \A h \in Handle : Completed(h)' <=> Completed(h)
  BY <1>1, <1>3 DEF Completed, TypeOK
<1>7. Promise!Complete({}, c, "ready")
  BY <1>1, <1>4, <1>5, <1>6, MoveMaps
<1> QED BY <1>4, <1>7 DEF Promise!Next, Promise!Pause

LEMMA RunStepMaps ==
    ASSUME IInv, TypeOK', RunStep
    PROVE  Promise!Next
<1>0. PICK c : c = Head(readyQueue)
  OBVIOUS
<1>1. StatusTable /\ StatusTable' /\ TypeOK
  BY StatusIs, StatusIsNext DEF IInv
<1>2. c \in Coro /\ c \in Ready /\ Ready' = Ready \ {c} /\ current = Nobody
  BY <1>0, TailEntries, ReadyIsEntries DEF RunStep, Idle, IInv, TypeOK
<1>3. /\ state[c] = "suspended" /\ state' = [state EXCEPT ![c] = "running"]
      /\ awaiting' = [awaiting EXCEPT ![c] = Nobody]
      /\ current' = c /\ UNCHANGED resolved
  <2>1. state[c] = "suspended"
    BY <1>2 DEF IInv, ReadyQueueSound
  <2> QED BY <1>0, <2>1 DEF RunStep, waitVars
<1>4. StatusOf(c) = "ready" /\ StatusOf(c)' = "running"
  BY <1>1, <1>2, <1>3 DEF StatusTable, TypeOK
<1>5. \A x \in Coro : x # c => StatusOf(x)' = StatusOf(x)
                               /\ awaiting'[x] = awaiting[x]
  <2>1. ASSUME NEW x \in Coro, x # c
        PROVE  /\ state'[x] = state[x] /\ awaiting'[x] = awaiting[x]
               /\ x \in Ready' <=> x \in Ready
               /\ x = current' <=> x = current
    BY <1>1, <1>2, <1>3, <2>1 DEF TypeOK
  <2> QED BY <2>1 DEF StatusOf
<1>6. \A h \in Handle : Completed(h)' <=> Completed(h)
  BY <1>1, <1>2, <1>3 DEF Completed, TypeOK
<1>7. Promise!Complete({}, c, "running")
  BY <1>1, <1>2, <1>4, <1>5, <1>6, MoveMaps
<1>8. \A x \in Coro : StatusOf(x) # "running"
  BY <1>1, <1>2 DEF StatusTable
<1> QED BY <1>2, <1>4, <1>7, <1>8 DEF Promise!Next, Promise!Run

\* await blocks the executing coroutine on a handle that is not completed.
LEMMA AwaitMaps ==
    ASSUME IInv, TypeOK', NEW h \in Handle,
           \/ h \in Future /\ AwaitFuture(h)
           \/ h \in Coro /\ AwaitCoro(h)
    PROVE  Promise!Next
<1>0. PICK c \in Coro : c = current
  BY DEF AwaitFuture, AwaitCoro, IInv, TypeOK
<1>1. StatusTable /\ StatusTable' /\ TypeOK
  BY StatusIs, StatusIsNext DEF IInv
<1>2. /\ state[c] = "running" /\ state' = [state EXCEPT ![c] = "suspended"]
      /\ awaiting' = [awaiting EXCEPT ![c] = h] /\ ~Completed(h)
      /\ current' = Nobody /\ UNCHANGED <<readyQueue, resolved>>
  BY <1>0 DEF AwaitFuture, AwaitCoro, QueueForAwait, Pending, waitVars, IInv,
              CurrentSound
<1>3. Ready' = Ready /\ c \notin Ready
  BY <1>2 DEF Ready, IInv, ReadyQueueSound
<1>4. StatusOf(c) = "running" /\ StatusOf(c)' = "blocked"
  BY <1>0, <1>1, <1>2, <1>3 DEF StatusTable, TypeOK
<1>5. \A x \in Coro : x # c => StatusOf(x)' = StatusOf(x)
                               /\ awaiting'[x] = awaiting[x]
  <2>1. ASSUME NEW x \in Coro, x # c
        PROVE  /\ state'[x] = state[x] /\ awaiting'[x] = awaiting[x]
               /\ x \in Ready' <=> x \in Ready
               /\ x = current' <=> x = current
    BY <1>0, <1>1, <1>2, <1>3, <2>1 DEF TypeOK
  <2> QED BY <2>1 DEF StatusOf
<1>6. \A x \in Handle : Completed(x)' <=> Completed(x)
  BY <1>1, <1>2 DEF Completed, TypeOK
<1>7. awaiting'[c] = h
  BY <1>1, <1>2 DEF TypeOK
<1>8. Promise!Block(c, h)
  <2> DEFINE status == [x \in Coro |-> StatusOf(x)]
             on == [x \in Coro |-> IF StatusOf(x) = "blocked" THEN awaiting[x]
                                   ELSE Nobody]
             done == {x \in Handle : Completed(x)}
  <2>1. status' = [status EXCEPT ![c] = "blocked"]
    BY <1>4, <1>5
  <2>2. on' = [on EXCEPT ![c] = h]
    BY <1>4, <1>5, <1>7
  <2>3. done' = done /\ h \notin done /\ status[c] = "running"
    BY <1>2, <1>4, <1>6
  <2> QED BY <2>1, <2>2, <2>3 DEF Promise!Block
<1> QED BY <1>8 DEF Promise!Next

\* A libuv callback resolves one future and readies who awaits it.
LEMMA UvCallbackMaps ==
    ASSUME IInv, TypeOK', NoLostWaiter, NEW f \in Future, UvCallback(f)
    PROVE  Promise!Next
<1>0. PICK w \in Coro \cup {Nobody} : w = waiting[f]
  BY DEF IInv, TypeOK
<1>1. StatusTable /\ StatusTable' /\ TypeOK
  BY StatusIs, StatusIsNext DEF IInv
<1>2. Ready' = {x \in Coro : x \in Ready \/ x = w}
  <2>1. readyQueue' = readyQueue \o Woken(w)
    BY <1>0 DEF UvCallback
  <2>2. Ready \subseteq Coro /\ readyQueue \in Seq(Coro) /\ Nobody \notin Coro
    BY <1>1, ReadyIsCoro DEF TypeOK
  <2> QED BY <1>0, <2>1, <2>2, WakeEntries, ReadyIsEntries
<1>3. /\ resolved' = [resolved EXCEPT ![f] = TRUE]
      /\ UNCHANGED <<state, awaiting, current>>
  BY DEF UvCallback
<1>4. ~resolved[f]
  BY DEF UvCallback, IInv, CurrentSound, CallbacksExact, RootsExact, Driving
<1>5. \A x \in Coro : x = w <=> StatusOf(x) = "blocked" /\ awaiting[x] = f
  BY <1>0, Registered
<1>6. \A x \in Coro : StatusOf(x)' =
          IF x = Nobody THEN "ready"
          ELSE IF StatusOf(x) = "blocked" /\ awaiting[x] \in {f} THEN "ready"
          ELSE StatusOf(x)
  <2>1. ASSUME NEW x \in Coro, x = w PROVE StatusOf(x)' = "ready"
    <3>1. state[x] = "suspended" /\ x \in Ready'
      BY <1>1, <1>2, <1>5, <2>1 DEF StatusTable
    <3> QED BY <1>1, <1>3, <3>1 DEF StatusTable
  <2>2. ASSUME NEW x \in Coro, x # w PROVE StatusOf(x)' = StatusOf(x)
    <3>1. x \in Ready' <=> x \in Ready
      BY <1>2, <2>2
    <3> QED BY <1>3, <3>1 DEF StatusOf
  <2> QED BY <1>5, <2>1, <2>2
<1>7. \A h \in Handle : Completed(h)' <=> Completed(h) \/ h \in {f}
  <2>1. \A h \in Future : Completed(h)' <=> Completed(h) \/ h \in {f}
    BY <1>1, <1>3 DEF Completed, TypeOK
  <2>2. \A h \in Coro : h \notin Future /\ (Completed(h)' <=> Completed(h))
    BY <1>3 DEF Completed
  <2> QED BY <2>1, <2>2
<1>8. \A h \in {f} : ~Completed(h)
  BY <1>4 DEF Completed
<1>9. \A x \in Coro : StatusOf(x) = "blocked" =>
          x # Nobody /\ (awaiting[x] \notin {f} => awaiting'[x] = awaiting[x])
  BY <1>3
<1>10. Promise!Complete({f}, Nobody, "ready")
  <2>1. {f} \in SUBSET Handle
    OBVIOUS
  <2> QED BY <1>6, <1>7, <1>8, <1>9, <2>1, CompleteMaps
<1> QED BY <1>10 DEF Promise!Next, Promise!Resolve

\* A return completes the coroutine and perhaps its gather, and readies who
\* awaits the one or the other.
LEMMA ReturnMaps ==
    ASSUME IInv, TypeOK', NoLostWaiter, Return
    PROVE  Promise!Next
<1>0. PICK c, a, f, w :
          /\ c = current /\ a = awaitedBy[c] /\ f = gatherFuture[c]
          /\ w = IF LastOf(f) THEN waiting[f] ELSE Nobody
  OBVIOUS
<1>1. StatusTable /\ StatusTable' /\ TypeOK
  BY StatusIs, StatusIsNext DEF IInv
<1>2. /\ c \in Coro /\ a \in Coro \cup {Nobody} /\ w \in Coro \cup {Nobody}
      /\ LastOf(f) => f \in Future
  BY <1>0, <1>1 DEF Return, TypeOK, LastOf
<1>3. Ready' = {x \in Coro : x \in Ready \/ x = a \/ x = w}
  <2>1. readyQueue' = (readyQueue \o Woken(a)) \o Woken(w)
    BY <1>0 DEF Return
  <2>0. Ready \subseteq Coro /\ readyQueue \in Seq(Coro) /\ Nobody \notin Coro
    BY <1>1, ReadyIsCoro DEF TypeOK
  <2>2. PICK q : q = readyQueue \o Woken(a)
    OBVIOUS
  <2>3. q \in Seq(Coro) /\ Entries(q) = {x \in Coro : x \in Ready \/ x = a}
    BY <1>2, <2>0, <2>2, WakeEntries, ReadyIsEntries
  <2>4. Entries(q \o Woken(w)) = {x \in Coro : x \in Entries(q) \/ x = w}
    BY <1>2, <2>0, <2>3, WakeEntries
  <2> QED BY <2>1, <2>2, <2>3, <2>4, ReadyIsEntries
<1>4. /\ state' = [state EXCEPT ![c] = "dead"] /\ current' = Nobody
      /\ resolved' = [g \in Future |-> resolved[g] \/ (LastOf(f) /\ g = f)]
      /\ UNCHANGED awaiting
  BY <1>0 DEF Return
<1>5. state[c] = "running" /\ StatusOf(c) = "running"
  BY <1>0, <1>1, <1>2 DEF IInv, CurrentSound, StatusTable
<1>6. PICK G : G = IF LastOf(f) THEN {f} ELSE {}
  OBVIOUS
<1> DEFINE X == {c} \cup G
<1>7. X = {c} \cup G
  OBVIOUS
<1> HIDE DEF X
<1>8. X \in SUBSET Handle /\ G \in {{}} \cup {{g} : g \in Future}
  BY <1>2, <1>6, <1>7
<1>9. \A h \in X : ~Completed(h)
  <2>1. LastOf(f) => ~resolved[f]
    <3>1. LastOf(f) => c \in Members(f)
      BY <1>0, <1>2 DEF Members
    <3> QED BY <1>2, <3>1 DEF IInv, GatherSound
  <2> QED BY <1>2, <1>5, <1>6, <1>7, <2>1 DEF Completed
<1>10. \A h \in Handle : Completed(h)' <=> Completed(h) \/ h \in X
  <2>1. ASSUME NEW h \in Future PROVE Completed(h)' <=> Completed(h) \/ h \in X
    BY <1>2, <1>4, <1>6, <1>7, <2>1 DEF Completed
  <2>2. ASSUME NEW h \in Coro PROVE Completed(h)' <=> Completed(h) \/ h \in X
    <3>1. h \notin Future /\ (h \in X <=> h = c)
      BY <1>2, <1>6, <1>7
    <3> QED BY <1>1, <1>4, <3>1 DEF Completed, TypeOK
  <2> QED BY <2>1, <2>2
<1>11. ASSUME NEW x \in Coro
       PROVE  x = a \/ x = w <=> StatusOf(x) = "blocked" /\ awaiting[x] \in X
  <2>1. x = a <=> StatusOf(x) = "blocked" /\ awaiting[x] = c
    BY <1>0, <1>2, Registered
  <2>2. x = w <=> LastOf(f) /\ StatusOf(x) = "blocked" /\ awaiting[x] = f
    <3>1. LastOf(f) => (waiting[f] = x <=> StatusOf(x) = "blocked"
                                            /\ awaiting[x] = f)
      BY <1>2, Registered
    <3> QED BY <1>0, <3>1
  <2> QED BY <1>6, <1>7, <2>1, <2>2
<1>12. ASSUME NEW x \in Coro
       PROVE  StatusOf(x)' =
                  IF x = c THEN "finished"
                  ELSE IF StatusOf(x) = "blocked" /\ awaiting[x] \in X THEN "ready"
                  ELSE StatusOf(x)
  <2>1. CASE x = c
    <3>1. state'[c] = "dead"
      BY <1>1, <1>2, <1>4 DEF TypeOK
    <3> QED BY <1>1, <2>1, <3>1 DEF StatusTable
  <2>2. CASE x # c
    <3>0. state'[x] = state[x]
      BY <1>1, <1>4, <2>2 DEF TypeOK
    <3>1. CASE x = a \/ x = w
      <4>1. StatusOf(x) = "blocked" /\ awaiting[x] \in X
        BY <1>11, <3>1
      <4>2. state[x] = "suspended" /\ x \in Ready'
        BY <1>1, <1>3, <3>1, <4>1 DEF StatusTable
      <4>3. StatusOf(x)' = "ready"
        BY <1>1, <3>0, <4>2 DEF StatusTable
      <4> QED BY <2>2, <4>1, <4>3
    <3>2. CASE x # a /\ x # w
      <4>1. ~(StatusOf(x) = "blocked" /\ awaiting[x] \in X)
        BY <1>11, <3>2
      <4>2. x \in Ready' <=> x \in Ready
        BY <1>3, <3>2
      <4>3. x = current <=> x = current'
        BY <1>0, <1>4, <2>2
      <4>4. StatusOf(x)' = StatusOf(x)
        BY <3>0, <4>2, <4>3 DEF StatusOf
      <4> QED BY <2>2, <4>1, <4>4
    <3> QED BY <3>1, <3>2
  <2> QED BY <2>1, <2>2
<1>13. \A x \in Coro : StatusOf(x) = "blocked" =>
          x # c /\ (awaiting[x] \notin X => awaiting'[x] = awaiting[x])
  BY <1>4, <1>5
<1>14. Promise!Complete(X, c, "finished")
  BY <1>8, <1>9, <1>10, <1>12, <1>13, CompleteMaps
<1>15. Promise!Finish(c)
  BY <1>2, <1>5, <1>8, <1>14 DEF X, Promise!Finish
<1> QED BY <1>2, <1>15 DEF Promise!Next

\* A new gather is resolved at once, with nobody waiting, if nothing in its
\* list is unfinished.
LEMMA GatherMaps ==
    ASSUME IInv, TypeOK', NoLostWaiter, NEW f \in Future, NEW list,
           Gather(f, list)
    PROVE  [Promise!Next]_(Promise!vars)
<1>1. /\ UNCHANGED <<state, readyQueue, awaiting>>
      /\ current' = current \/ current' = Nobody
      /\ ~resolved[f] /\ waiting[f] = Nobody
      /\ resolved' = [resolved EXCEPT ![f] = (LiveSlots(list) = {})]
  BY DEF Gather, coVars, NativeReturns, Abandon, IInv, FreshFuture
<1>2. PICK X : X = IF LiveSlots(list) = {} THEN {f} ELSE {}
  OBVIOUS
<1>3. /\ X \in {{}} \cup {{g} : g \in Future}
      /\ \A g \in X : ~resolved[g] /\ waiting[g] = Nobody
      /\ \A g \in Future : resolved'[g] <=> resolved[g] \/ g \in X
  <2>1. resolved \in [Future -> BOOLEAN]
    BY DEF IInv, TypeOK
  <2>2. \A g \in Future :
            resolved'[g] <=> IF g = f THEN LiveSlots(list) = {} ELSE resolved[g]
    BY <1>1, <2>1
  <2>3. X \in {{}} \cup {{g} : g \in Future} /\ X \subseteq {f}
        /\ (f \in X <=> LiveSlots(list) = {})
    BY <1>2
  <2> QED BY <1>1, <2>2, <2>3
<1> QED BY <1>1, <1>3, LeaveMaps

\* Every step of the scheduler is a step of AwaitPromise or changes nothing
\* that AwaitPromise speaks of.
LEMMA PromiseStep ==
    ASSUME IInv, TypeOK', NoLostWaiter, [Next]_vars
    PROVE  [Promise!Next]_(Promise!vars)
<1> USE DEF vars, coVars, memVars, futVars, ioVars, waitVars, slotVars,
            errVars, mainVars
<1> DEFINE Quietly == /\ UNCHANGED <<state, readyQueue, awaiting, resolved>>
                      /\ current' = current \/ current' = Nobody
<1>0. ASSUME Quietly PROVE [Promise!Next]_(Promise!vars)
  <2>1. /\ {} \in {{}} \cup {{f} : f \in Future}
        /\ \A f \in {} : ~resolved[f] /\ waiting[f] = Nobody
        /\ \A f \in Future : resolved'[f] <=> resolved[f] \/ f \in {}
    BY <1>0
  <2>2. UNCHANGED <<state, readyQueue, awaiting>>
        /\ (current' = current \/ current' = Nobody)
    BY <1>0
  <2> QED BY <2>1, <2>2, LeaveMaps
<1>1. ASSUME NEW c \in Coro, Spawn(c) PROVE Promise!Next
  BY <1>1, SpawnMaps
<1>2. ASSUME NEW h \in Handle, \/ h \in Future /\ AwaitFuture(h)
                               \/ h \in Coro /\ AwaitCoro(h)
      PROVE  Promise!Next
  BY <1>2, AwaitMaps
<1>3. CASE Yield
  BY <1>3, YieldMaps
<1>4. CASE RunStep
  BY <1>4, RunStepMaps
<1>5. CASE Return
  BY <1>5, ReturnMaps
<1>6. ASSUME NEW f \in Future, UvCallback(f) PROVE Promise!Next
  BY <1>6, UvCallbackMaps
<1>7. CASE GatherSome
  BY <1>7, GatherMaps DEF GatherSome
<1>8. ASSUME NEW f \in Future, StartIo(f) PROVE [Promise!Next]_(Promise!vars)
  <2>1. Quietly
    BY <1>8 DEF StartIo, NativeReturns, Abandon
  <2> QED BY <1>0, <2>1
<1>9. ASSUME NEW native \in BOOLEAN, Fail(native)
      PROVE  [Promise!Next]_(Promise!vars)
  <2>1. Quietly
    BY <1>9 DEF Fail, Abandon
  <2> QED BY <1>0, <2>1
<1>10. ASSUME NEW h \in Handle, MainAwait(h) PROVE [Promise!Next]_(Promise!vars)
  <2>1. Quietly
    BY <1>10 DEF MainAwait
  <2> QED BY <1>0, <2>1
<1>11. CASE \/ MainAwaitEnds \/ UvEnter \/ UvLeave \/ MainReturns
            \/ DrainEnds \/ NextScript \/ Destroy \/ UNCHANGED vars
  <2>1. Quietly
    BY <1>11 DEF MainAwaitEnds, UvEnter, UvLeave, MainReturns, DrainEnds,
                 NextScript, Destroy
  <2> QED BY <1>0, <2>1
<1> HIDE DEF Quietly
<1> QED BY <1>1, <1>2, <1>3, <1>4, <1>5, <1>6, <1>7, <1>8, <1>9, <1>10, <1>11
       DEF Next, VmStep, UvReturnsAtOnce, Terminated

\* If no object is awaited twice at a time, the scheduler implements the
\* promise of await: the step that completes a handle readies who awaits it.
THEOREM Implements == ~SharedAwait => (Spec => PromiseKept)
<1> SUFFICES ASSUME ~SharedAwait PROVE Spec => PromiseKept
  OBVIOUS
<1>1. ~SharedAwait
  OBVIOUS
<1>2. Init => Promise!Init
  <2> SUFFICES ASSUME Init PROVE Promise!Init
    OBVIOUS
  <2>1. \A c \in Coro : StatusOf(c) = "unborn"
    BY DEF Init, StatusOf
  <2>2. \A h \in Handle : ~Completed(h)
    BY DEF Init, Completed
  <2> QED BY <2>1, <2>2 DEF Promise!Init
<1>3. IInv /\ IInv' /\ NoLostWaiter /\ [Next]_vars
          => [Promise!Next]_(Promise!vars)
  BY PromiseStep DEF IInv
<1> QED BY <1>1, <1>2, <1>3, Inductive, NobodyForgotten, PTL
        DEF Spec, PromiseKept, Promise!Spec
=============================================================================
