---------------------------- MODULE MCIoService ----------------------------
(* Small instances of IoService for TLC. *)
EXTENDS IoService

=============================================================================
