------------------------------ MODULE WebSocket ------------------------------
(***************************************************************************)
(* One Cold::Net::Http::WebSocket with its frame parser and its entry in   *)
(* WebSocketServer::webSockets_ (net/http/WebSocket.cpp,                   *)
(* WebSocketParser.cpp, WebSocketServer.cpp).                              *)
(*                                                                         *)
(* Everything but the calls of Send and Close runs on the loop's thread,   *)
(* so an action is a chain of code between two suspensions.  The reader is *)
(* DoRead, the pinger SendPing; whichever coroutine finds isWriting_ clear *)
(* runs DoWrite for all of them.                                           *)
(*                                                                         *)
(* A frame the peer sends is two units, its header and the rest, so that   *)
(* reads can split and join frames.  Frames this side sends are their      *)
(* opcodes.                                                                *)
(***************************************************************************)
EXTENDS Naturals, Sequences, SequencesExt, FiniteSets

CONSTANTS PeerFrames,   \* what the peer may send: records of op and fin
          MaxFrames,    \* bound on the frames the peer sends
          MaxOut        \* bound on the frames queued for the peer

ASSUME FramesAssumption ==
  PeerFrames \subseteq [op : STRING, fin : BOOLEAN] /\ MaxFrames \in Nat /\ MaxOut \in Nat

VARIABLES connected,    \* socket_.IsConnected()
          eof,          \* the peer has closed its side
          registered,   \* this WebSocket is in webSockets_
          sent,         \* frames of the peer whose header was read
          got,          \* units read so far
          parser,       \* frames parsed, frames_ and completeFrames_
          handled,      \* messages taken by TakeFrame
          failed,       \* an assertion of the parser failed: the process is gone
          reader,       \* where OnReceivedUpgradeRequest and DoRead are
          pinger,       \* where SendPing is
          pending,      \* spawned coroutines that have not started
          isWriting,    \* isWriting_
          starter,      \* the frame whose coroutine runs DoWrite
          temp,         \* writeTempBuffer_
          rest,         \* what WriteN has still to write of writeBuffer_
          queued,       \* every frame put into writeTempBuffer_, in order
          wire          \* what was written to the socket

parseVars == <<sent, got, parser, handled, failed>>
outVars == <<isWriting, starter, temp, rest, queued, wire>>
vars == <<connected, eof, registered, reader, pinger, pending, parseVars, outVars>>

Kinds == {"text", "ping", "pong", "close"}
Message == [op : {f.op : f \in PeerFrames}, parts : SUBSET (1..MaxFrames)]

TypeOK ==
  /\ {connected, eof, registered, failed, isWriting} \subseteq BOOLEAN
  /\ sent \in Seq(PeerFrames)
  /\ got \in 0..(2 * MaxFrames)
  /\ parser.parsed \in 0..MaxFrames
  /\ parser.complete \in Seq(Message) /\ handled \in Seq(Message)
  /\ reader \in {"handshake", "opened", "reading", "done"}
  /\ pinger \in {"none", "armed", "writing", "done"}
  /\ pending \in Seq(Kinds \cup {"SendPing"})
  /\ starter \in Kinds \cup {"none"}
  /\ \A s \in {temp, rest, queued, wire} : s \in Seq(Kinds)

Init ==
  /\ connected = TRUE /\ eof = FALSE /\ registered = FALSE
  /\ sent = <<>> /\ got = 0
  /\ parser = [parsed |-> 0, frames |-> <<>>, complete |-> <<>>, state |-> "more"]
  /\ handled = <<>> /\ failed = FALSE
  /\ reader = "handshake" /\ pinger = "none"
  /\ pending = <<>>
  /\ isWriting = FALSE /\ starter = "none"
  /\ temp = <<>> /\ rest = <<>> /\ queued = <<>> /\ wire = <<>>

-----------------------------------------------------------------------------
(* WebSocketParser: Parse appends to buffer_ and calls DoParse until it     *)
(* needs more.  buffer_ holds the units from 2 * parsed to got.            *)

\* The frames of a message, by position in what the peer sent.
Merged(in, frames) == [op |-> in[frames[1]].op, parts |-> ToSet(frames)]

\* A final frame ends the message; the assertion wants all frames but its first
\* to be continuations.
Completed(p, in) ==
  [p EXCEPT !.frames = <<>>, !.complete = Append(@, Merged(in, p.frames)),
            !.state = IF \A i \in 2..Len(p.frames) : in[p.frames[i]].op = "cont"
                      THEN @ ELSE "assert"]

\* A frame whose header is in the buffer; n is its position in the input, have
\* the number of units read.
DoParse(p, in, n, have) ==
  IF p.state # "more" THEN p
  ELSE IF in[n].op = "reserved" THEN [p EXCEPT !.state = "error"]
  ELSE IF have < 2 * n THEN p
  ELSE LET q == [p EXCEPT !.parsed = n, !.frames = Append(@, n)] IN
       IF in[n].fin THEN Completed(q, in) ELSE q

ParseOnce(in, have) ==           \* mutant: DoParse is called once
  IF Len(in) = parser.parsed THEN parser ELSE DoParse(parser, in, parser.parsed + 1, have)

\* The frames that begin in the buffer, one after the other.
Parse(in, have) ==
  LET after[i \in 0..(Len(in) - parser.parsed)] ==
        IF i = 0 THEN parser ELSE DoParse(after[i - 1], in, parser.parsed + i, have)
  IN after[Len(in) - parser.parsed]

-----------------------------------------------------------------------------
(* Opening: WebSocketServer::OnReceivedUpgradeRequest.                     *)

\* The response headers were written and the WebSocket registered; OnConnect
\* of the user is being called.
Open ==
  /\ reader = "handshake"
  /\ reader' = "opened" /\ registered' = TRUE
  /\ UNCHANGED <<eof, connected, pinger, pending, parseVars, outVars>>

OpenFails ==
  /\ reader = "handshake" /\ eof
  /\ reader' = "done" /\ connected' = FALSE
  /\ UNCHANGED <<eof, registered, pinger, pending, parseVars, outVars>>

\* DoRead spawns SendPing and waits in its first read.
BeginRead ==
  /\ reader = "opened"
  /\ pending' = Append(pending, "SendPing")
  /\ reader' = IF connected THEN "reading" ELSE "done"
  /\ UNCHANGED <<eof, connected, registered, pinger, parseVars, outVars>>

\* onClose_ takes the WebSocket out of the registry.
Forget == registered' = FALSE

OnErrorSilent ==                 \* mutant: onClose_ is not called
  connected' = FALSE /\ UNCHANGED registered
OnError == Forget /\ connected' = FALSE

-----------------------------------------------------------------------------
(* The reader.                                                             *)

\* The connection is given up: OnError, or onClose_ and Close, and DoRead ends.
End == OnError /\ reader' = "done"

\* Back at the head of the loop, where a ping that is too old ends the
\* connection: any amount of time may have passed.
ReadOn == End \/ UNCHANGED <<connected, registered, reader>>

SendPong == pending' = Append(pending, "pong")

\* The switch on the opcode of the frame taken.
Handle(m) ==
  /\ handled' = Append(handled, m)
  /\ \/ m.op \in {"text", "pong"} /\ ReadOn /\ UNCHANGED pending
     \/ m.op = "ping" /\ ReadOn /\ SendPong
     \/ m.op \in {"close", "cont"} /\ End /\ UNCHANGED pending

\* A read returned the next k units, in the frames they begin: they are parsed,
\* and one message is handled.
Read(k) ==
  /\ ~failed /\ reader = "reading" /\ connected /\ ~eof
  /\ got' = got + k
  /\ \E new \in [1..((got + k + 1) \div 2 - Len(sent)) -> PeerFrames] :
       LET in == sent \o new
           p == Parse(in, got + k)
       IN /\ sent' = in
          /\ \/ /\ p.state = "assert"
                /\ failed' = TRUE /\ parser' = p
                /\ UNCHANGED <<connected, registered, reader, pending, handled>>
             \/ /\ p.state = "error"
                /\ End /\ parser' = p
                /\ UNCHANGED <<pending, handled, failed>>
             \/ /\ p.state = "more" /\ p.complete = <<>>
                /\ ReadOn /\ parser' = p
                /\ UNCHANGED <<pending, handled, failed>>
             \/ /\ p.state = "more" /\ p.complete # <<>>
                /\ parser' = [p EXCEPT !.complete = Tail(@)]
                /\ Handle(Head(p.complete))
                /\ UNCHANGED failed
  /\ UNCHANGED <<eof, pinger, outVars>>

\* What resumes a read without data.
ReadOver == ~connected \/ eof

\* read() returned 0, or the socket was closed while the reader waited: the
\* socket is closed, and onClose_ is not called.
ReadEnds ==
  /\ ~failed /\ reader = "reading"
  /\ ReadOver
  /\ connected' = FALSE /\ reader' = "done"
  /\ UNCHANGED <<eof, registered, pinger, pending, parseVars, outVars>>

-----------------------------------------------------------------------------
(* Writing.                                                                *)

\* The loop of SendPing arms its timer again as long as the socket is open.
PingAgain(open) == IF open THEN "armed" ELSE "done"

\* The wrapper of TimerAwaitable resumes SendPing when the task that queued the
\* ping, and maybe wrote it, is over.
PingOver(kind, open) == pinger' = IF kind = "ping" THEN PingAgain(open) ELSE pinger

\* What the coroutine that ran DoWrite does next, open saying whether the
\* socket is connected then.
AfterWrite(kind, open) ==
  /\ connected' = (open /\ kind # "close")
  /\ PingOver(kind, open)

\* MakeFrameToBuffer, then DoWrite unless somebody is in it already.
EnqueueBusy(kind) ==             \* mutant: isWriting_ is not looked at
  /\ queued' = Append(queued, kind)
  /\ rest' = Append(temp, kind) /\ temp' = rest
  /\ isWriting' = TRUE /\ starter' = kind
  /\ pinger' = IF kind = "ping" THEN "writing" ELSE pinger
  /\ UNCHANGED <<connected, wire>>
Enqueue(kind) ==
  /\ queued' = Append(queued, kind)
  /\ \/ /\ isWriting
        /\ temp' = Append(temp, kind)
        /\ PingOver(kind, connected)
        /\ UNCHANGED <<connected, isWriting, starter, rest>>
     \/ /\ ~isWriting /\ connected
        /\ rest' = Append(temp, kind) /\ temp' = rest
        /\ isWriting' = TRUE /\ starter' = kind
        /\ pinger' = IF kind = "ping" THEN "writing" ELSE pinger
        /\ UNCHANGED connected
     \/ /\ ~isWriting /\ ~connected
        /\ temp' = Append(temp, kind)
        /\ AfterWrite(kind, FALSE)
        /\ UNCHANGED <<isWriting, starter, rest>>
  /\ UNCHANGED wire

\* The loop starts the next spawned coroutine.
RunSpawned ==
  /\ ~failed /\ pending # <<>>
  /\ pending' = Tail(pending)
  /\ \/ /\ Head(pending) = "SendPing"
        /\ pinger' = PingAgain(connected)
        /\ UNCHANGED <<connected, outVars>>
     \/ /\ Head(pending) # "SendPing"
        /\ Enqueue(Head(pending))
  /\ UNCHANGED <<eof, registered, reader, parseVars>>

\* All of writeBuffer_ is written: the loop of DoWrite swaps in what has been
\* queued meanwhile, or ends.
NextBatchNot ==                  \* mutant: no loop around the write
  isWriting' = FALSE /\ starter' = "none" /\ rest' = <<>> /\ UNCHANGED temp
    /\ AfterWrite(starter, TRUE)
NextBatch ==
  \/ /\ temp # <<>>
     /\ rest' = temp /\ temp' = <<>>
     /\ UNCHANGED <<connected, pinger, isWriting, starter>>
  \/ /\ temp = <<>>
     /\ isWriting' = FALSE /\ starter' = "none" /\ rest' = <<>> /\ temp' = <<>>
     /\ AfterWrite(starter, TRUE)

\* WriteN's socket accepted the next k frames.
Write(k) ==
  /\ ~failed /\ isWriting /\ connected
  /\ k \in 1..Len(rest)
  /\ wire' = wire \o SubSeq(rest, 1, k)
  /\ IF k = Len(rest)
       THEN NextBatch
       ELSE /\ rest' = SubSeq(rest, k + 1, Len(rest))
            /\ UNCHANGED <<connected, pinger, isWriting, starter, temp>>
  /\ UNCHANGED <<eof, registered, reader, pending, queued, parseVars>>

\* The peer is gone, or the socket was closed while the writer waited.
WriteFails ==
  /\ ~failed /\ isWriting
  /\ ~connected \/ eof
  /\ OnError
  /\ isWriting' = FALSE /\ starter' = "none"
  /\ PingOver(starter, FALSE)
  /\ UNCHANGED <<eof, reader, pending, temp, rest, queued, wire, parseVars>>

-----------------------------------------------------------------------------
(* The pinger, the peer and the user.                                      *)

PingTimer ==
  /\ ~failed /\ pinger = "armed"
  /\ connected => Len(queued) < MaxOut
  /\ Enqueue("ping")
  /\ UNCHANGED <<eof, registered, reader, pending, parseVars>>

PeerCloses ==
  /\ ~failed /\ ~eof
  /\ eof' = TRUE
  /\ UNCHANGED <<connected, registered, reader, pinger, pending, parseVars, outVars>>

InBounds == Len(queued) + Len(pending) < MaxOut

Send ==
  /\ ~failed /\ reader # "handshake"
  /\ connected /\ InBounds
  /\ pending' = Append(pending, "text")
  /\ UNCHANGED <<eof, connected, registered, reader, pinger, parseVars, outVars>>

\* The user closes a WebSocket until OnClose has told it of the end.
Close ==
  /\ ~failed /\ registered /\ InBounds
  /\ Forget
  /\ pending' = Append(pending, "close")
  /\ UNCHANGED <<eof, connected, reader, pinger, parseVars, outVars>>

-----------------------------------------------------------------------------

LoopStep ==
  \/ Open \/ OpenFails \/ BeginRead
  \/ \E k \in 1..(2 * MaxFrames - got) : Read(k)
  \/ ReadEnds
  \/ RunSpawned
  \/ \E k \in 1..MaxOut : Write(k)
  \/ WriteFails
  \/ PingTimer

\* Every coroutine of the connection has ended.
Ended ==
  /\ reader = "done" /\ pinger \in {"none", "done"}
  /\ ~isWriting /\ pending = <<>>

Next ==
  \/ LoopStep \/ Send \/ Close \/ PeerCloses
  \/ (failed \/ Ended) /\ UNCHANGED vars

Spec == Init /\ [][Next]_vars

\* The loop runs what is spawned, resumes waiters of a closed socket, fires the
\* ping timer, and the peer reads what is written to it.  It owes nothing else.
FairSpec ==
  /\ Spec
  /\ WF_vars(BeginRead) /\ WF_vars(ReadEnds)
  /\ WF_vars(RunSpawned)
  /\ WF_vars(\E k \in 1..MaxOut : Write(k)) /\ WF_vars(WriteFails)
  /\ WF_vars(PingTimer)

-----------------------------------------------------------------------------

\* Frames reach the wire in the order they were queued, none lost, torn or
\* repeated, although several coroutines queue them and one writes for all:
\* the two buffers hold what is between queueing and the wire.
WireInOrder ==
  /\ IsPrefix(wire, queued)
  /\ connected => wire \o rest \o temp = queued

\* What the frames in mean: a message ends with each final frame, the i-th one
\* say, and consists of the frames since the final one before it; it is the
\* message with the number of that final frame among them.
Ends(in, n) == {i \in 1..n : in[i].fin}

MessageAt(in, i) ==
  LET parts == {j \in 1..i : \A l \in j..(i - 1) : ~in[l].fin} IN
  [op |-> in[CHOOSE j \in parts : \A l \in parts : j <= l].op, parts |-> parts]

\* The messages are those of the first n frames, in order.
AreMessages(messages, in, n) ==
  /\ Len(messages) = Cardinality(Ends(in, n))
  /\ \A i \in Ends(in, n) : messages[Cardinality(Ends(in, i))] = MessageAt(in, i)

\* However the stream is cut into reads, the parser has found every frame that
\* is complete, and the messages handled, then those waiting in
\* completeFrames_, are the peer's.
MessagesReassembled ==
  /\ TypeOK
  /\ AreMessages(handled \o parser.complete, sent, parser.parsed)
  /\ reader = "reading" /\ ~failed => parser.parsed = got \div 2

\* A close frame of the peer has been parsed; one is still in completeFrames_.
CloseReceived == \E i \in Ends(sent, parser.parsed) : MessageAt(sent, i).op = "close"
CloseLeftBehind == \E m \in ToSet(parser.complete) : m.op = "close"

\* A WebSocket whose reader has ended is out of the registry, with two exceptions,
\* both where a read returned 0, a path that closes the socket without calling
\* onClose_ (WebSocket.cpp:20-23): the peer sent no close frame; or its close
\* frame was read together with an earlier frame and is left in completeFrames_,
\* from which DoRead takes one frame per read (lines 29-30).
ForgottenUnlessDropped ==
  reader = "done" /\ registered => eof /\ (CloseReceived => CloseLeftBehind)

\* Every queued frame is written unless the connection ends.
QueuedIsWritten ==
  \A n \in 1..MaxOut : Len(queued) >= n ~> (Len(wire) >= n \/ ~connected \/ failed)

\* Once the socket is closed, by whichever side, the reader, the writer, the
\* pinger and everything spawned end, so that nothing keeps the WebSocket.
DownEndsAll == ~connected ~> (Ended \/ failed)

\* The writer keeps going while the connection lasts, and everything ends with
\* it (WebSocket.cpp:58-103).
WriterAndEnd == QueuedIsWritten /\ DownEndsAll
=============================================================================
