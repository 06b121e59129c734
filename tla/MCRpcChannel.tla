---------------------------- MODULE MCRpcChannel ----------------------------
(* A small instance of RpcChannel for TLC. *)
EXTENDS RpcChannel

=============================================================================
