--------------------------- MODULE AwaitPromise ----------------------------
(***************************************************************************)
(* What `await` promises, with no queue, no pointer and no event loop: a   *)
(* coroutine that awaits an unfinished handle is blocked on it, and the    *)
(* step that completes a handle makes everyone blocked on it ready.        *)
(***************************************************************************)
EXTENDS FiniteSets

CONSTANTS Coro, Future, Nobody

VARIABLES
    status,     \* where each coroutine is in its life
    on,         \* what a blocked coroutine awaits
    completed   \* finished coroutines and resolved futures

vars == <<status, on, completed>>

Init ==
    /\ status = [c \in Coro |-> "unborn"]
    /\ on = [c \in Coro |-> Nobody]
    /\ completed = {}

\* The handles X complete and everyone who awaits one of them is ready; the
\* coroutine c that takes the step (Nobody for the event loop) moves to s.
Complete(X, c, s) ==
    LET woken == {x \in Coro : status[x] = "blocked" /\ on[x] \in X}
    IN  /\ X \cap completed = {}
        /\ completed' = completed \cup X
        /\ status' = [x \in Coro |-> IF x = c THEN s
                                     ELSE IF x \in woken THEN "ready"
                                     ELSE status[x]]
        /\ on' = [x \in Coro |-> IF x \in woken THEN Nobody ELSE on[x]]

Create(c) == /\ status[c] = "unborn"
             /\ Complete({}, c, "ready")

Run(c) == /\ status[c] = "ready"
          /\ \A x \in Coro : status[x] # "running"
          /\ Complete({}, c, "running")

Pause(c) == status[c] = "running" /\ Complete({}, c, "ready")

Block(c, h) == /\ status[c] = "running"
               /\ h \notin completed
               /\ status' = [status EXCEPT ![c] = "blocked"]
               /\ on' = [on EXCEPT ![c] = h]
               /\ UNCHANGED completed

\* Returning completes the coroutine and, if it was the last of a gather,
\* the future of that gather too.
Finish(c) == /\ status[c] = "running"
             /\ \E X \in {{}} \cup {{f} : f \in Future} :
                    Complete({c} \cup X, c, "finished")

Fail(c) == /\ status[c] = "running"
           /\ \E X \in {{}} \cup {{f} : f \in Future} :
                  Complete(X, c, "failed")

Resolve(f) == Complete({f}, Nobody, "ready")

Next ==
    \/ \E c \in Coro : \/ Create(c) \/ Run(c) \/ Pause(c)
                       \/ Finish(c) \/ Fail(c)
                       \/ \E h \in Coro \cup Future : Block(c, h)
    \/ \E f \in Future : Resolve(f)

Spec == Init /\ [][Next]_vars
=============================================================================
