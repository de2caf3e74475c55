---------------------------- MODULE MCSpoolerFifo ----------------------------
(* Model values for TLC: one producer and the spooler. *)
EXTENDS SpoolerFifo
CONSTANTS p1
==============================================================================
