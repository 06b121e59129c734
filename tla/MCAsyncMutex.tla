---------------------------- MODULE MCAsyncMutex ----------------------------
(* Small instances of AsyncMutex for TLC. *)
EXTENDS AsyncMutex

=============================================================================
