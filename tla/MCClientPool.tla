---------------------------- MODULE MCClientPool -----------------------------
(* ClientPool with a few clients on a small pool. *)
EXTENDS ClientPool
CONSTANTS c1, c2, c3, c4
==============================================================================
