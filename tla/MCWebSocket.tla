---------------------------- MODULE MCWebSocket ----------------------------
(* A small instance of WebSocket for TLC. *)
EXTENDS WebSocket

Frame(o, f) == [op |-> o, fin |-> f]

\* Whole and fragmented messages, control frames and a reserved opcode.
SomeFrames ==
  {Frame("text", FALSE), Frame("cont", TRUE),
   Frame("ping", TRUE), Frame("close", TRUE), Frame("reserved", TRUE)}
=============================================================================
