------------------------ MODULE MCConditionVariable ------------------------
(* Small instances of ConditionVariable for TLC. *)
EXTENDS ConditionVariable

=============================================================================
