---------------------------- MODULE MCEchoServer -----------------------------
(* EchoServer with two clients and two servers. *)
EXTENDS EchoServer
CONSTANTS c1, c2, s1, s2
==============================================================================
