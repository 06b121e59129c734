---------------------------- MODULE MCIoWatcher ----------------------------
(* Small instances of IoWatcher for TLC. *)
EXTENDS IoWatcher

=============================================================================
