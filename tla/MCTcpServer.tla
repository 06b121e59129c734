---------------------------- MODULE MCTcpServer ----------------------------
(* A server with two pool threads, and clients that use up its descriptors. *)
EXTENDS TcpServer
=============================================================================
