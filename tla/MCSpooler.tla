------------------------------ MODULE MCSpooler ------------------------------
(* Model values for TLC: several producers share the ring of Spooler. *)
EXTENDS Spooler
CONSTANTS p1, p2, p3
==============================================================================
