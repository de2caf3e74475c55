--------------------------- MODULE MCSharedCounter ---------------------------
(* SharedCounter with the two threads of the code. *)
EXTENDS SharedCounter
CONSTANTS t1, t2
==============================================================================
