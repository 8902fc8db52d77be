---- MODULE MCScheduler ----
(* Small instances of Scheduler for TLC. *)
EXTENDS Scheduler, TLC

Symmetry == Permutations(Coro) \cup Permutations(Future)
====
