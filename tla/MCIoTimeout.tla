---------------------------- MODULE MCIoTimeout ----------------------------
(* Small instances of IoTimeout for TLC. *)
EXTENDS IoTimeout

=============================================================================
