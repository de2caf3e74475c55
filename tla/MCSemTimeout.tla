---------------------------- MODULE MCSemTimeout -----------------------------
(* SemTimeout: a module of its own for the run, as the other components have. *)
EXTENDS SemTimeout
==============================================================================
