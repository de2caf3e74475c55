---------------------------- MODULE MCTokenQueue -----------------------------
(* TokenQueue with two pids on short queues. *)
EXTENDS TokenQueue
CONSTANTS c1, c2
==============================================================================
