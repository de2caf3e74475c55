----------------------------- MODULE MCTcpServer -----------------------------
(* TcpServer with two clients. *)
EXTENDS TcpServer
CONSTANTS c1, c2
==============================================================================
