------------------------------ MODULE MCTpFifo -------------------------------
(* TpFifo with the sizes of the code and small inputs. *)
EXTENDS TpFifo
==============================================================================
