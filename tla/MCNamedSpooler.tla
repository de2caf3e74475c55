--------------------------- MODULE MCNamedSpooler ----------------------------
(* NamedSpooler with two producers. *)
EXTENDS NamedSpooler
CONSTANTS p1, p2
==============================================================================
