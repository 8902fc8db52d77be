---- MODULE MCShellPool ----
(* Small instances of ShellPool for TLC. *)
EXTENDS ShellPool, TLC

Symmetry == Permutations(Worker) \cup Permutations(Task)
====
