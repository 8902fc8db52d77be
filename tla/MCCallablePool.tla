---- MODULE MCCallablePool ----
(* A small instance of CallablePool for TLC. *)
EXTENDS CallablePool
====
