------------------------------ MODULE TaskPool ------------------------------
(***************************************************************************)
(* What a pool of workers promises to the scripts that use it: tasks start *)
(* in the order of submission, a task that has started is not cancelled,   *)
(* every answer is given once, and nothing is accepted after the shutdown. *)
(***************************************************************************)
EXTENDS Sequences

CONSTANT Task

VARIABLES
    open,      \* does the pool still accept tasks?
    queue,     \* tasks accepted and not started
    started,   \* tasks started and not answered
    answer     \* what each task was answered

vars == <<open, queue, started, answer>>

Queued == {queue[i] : i \in DOMAIN queue}

Init ==
    /\ open = TRUE
    /\ queue = <<>> /\ started = {}
    /\ answer = [t \in Task |-> "none"]

Submit(t) ==
    /\ open
    /\ t \notin Queued \cup started /\ answer[t] = "none"
    /\ queue' = Append(queue, t)
    /\ UNCHANGED <<open, started, answer>>

Start ==
    /\ queue # <<>>
    /\ started' = started \cup {Head(queue)}
    /\ queue' = Tail(queue)
    /\ UNCHANGED <<open, answer>>

Answer(S) ==
    /\ S \subseteq started
    /\ started' = started \ S
    /\ answer' = [t \in Task |-> IF t \in S THEN "result" ELSE answer[t]]
    /\ UNCHANGED <<open, queue>>

\* Out of memory: the result of a started task is lost.
Lose(t) ==
    /\ t \in started
    /\ started' = started \ {t}
    /\ UNCHANGED <<open, queue, answer>>

\* The tasks not yet started are cancelled, alone or with the shutdown.
Cancel(o) ==
    /\ open /\ open' = o
    /\ answer' = [t \in Task |->
           IF t \in Queued THEN "cancelled" ELSE answer[t]]
    /\ queue' = <<>>
    /\ UNCHANGED started

\* A shutdown may also let them run.
Close == open /\ open' = FALSE /\ UNCHANGED <<queue, started, answer>>

Next ==
    \/ \E t \in Task : Submit(t) \/ Lose(t)
    \/ Start \/ Close
    \/ \E S \in SUBSET started : Answer(S)
    \/ \E o \in BOOLEAN : Cancel(o)

Spec == Init /\ [][Next]_vars
=============================================================================
