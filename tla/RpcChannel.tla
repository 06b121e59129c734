----------------------------- MODULE RpcChannel -----------------------------
(***************************************************************************)
(* A Cold::Net::Rpc::RpcClient and the connection of an RpcServer that     *)
(* serves it: one RpcChannel on each side, each on its own loop            *)
(* (net/rpc/RpcChannel.cpp, RpcClient.h, RpcCodec.h, RpcServer.cpp).       *)
(*                                                                         *)
(* The client makes one call after another with StubCall.  When a call     *)
(* fails it closes the socket and stops its loop, or goes on with the next *)
(* call.  The service may answer at once or later.                         *)
(*                                                                         *)
(* A message is its call's number; on the wire it is two units, the length *)
(* and the rest.  An action is a chain of code between two suspensions.    *)
(***************************************************************************)
EXTENDS Naturals, Sequences, SequencesExt

CONSTANT MaxCalls       \* bound on the calls the client makes

ASSUME CallsAssumption == MaxCalls \in Nat

VARIABLES call,         \* the number of the last call, also the static id_
          status,       \* the caller: "connecting", "idle", in a call, or "stopped"
          entries,      \* outstandings_ of the client's channel
          answer,       \* whose response each call's message was filled with
          connected,    \* socket_->IsConnected(), both sides
          writeBuf,     \* codec_.writeBuf_, both sides
          spawned,      \* coroutines spawned and not started, both sides
          sends,        \* the Sends under way: id, next unit, does DoRpc await it
          reader,       \* where DoRpc is, both sides
          wire,         \* units written by a side and not yet read
          readBuf,      \* codec_.readBuf_, both sides
          working,      \* calls whose Closure the service holds
          givenUp,      \* somebody, or the network, gave up on an answer
          dangling      \* something destroyed was used

clientVars == <<call, status, entries, answer>>
vars == <<clientVars, connected, writeBuf, spawned, sends, reader, wire,
          readBuf, working, givenUp, dangling>>

Sides == {"client", "server"}
Other(s) == IF s = "client" THEN "server" ELSE "client"
Calls == 1..MaxCalls

TypeOK ==
  /\ call \in 0..MaxCalls
  /\ status \in {"connecting", "idle", "spawned", "waiting", "stopped"}
  /\ entries \subseteq Calls /\ working \subseteq Calls
  /\ answer \in [Calls -> 0..MaxCalls]
  /\ connected \in [Sides -> BOOLEAN]
  /\ writeBuf \in [Sides -> 0..MaxCalls]
  /\ spawned \in [Sides -> Seq([what : {"send", "resume"}, id : Calls])]
  /\ sends \in [Sides -> SUBSET [id : Calls, unit : 1..2, awaited : BOOLEAN]]
  /\ reader \in [Sides -> {"none", "reading", "sending", "done"}]
  /\ wire \in [Sides -> Seq(Calls \X (1..2))]
  /\ readBuf \in [Sides -> Seq(Calls \X (1..2))]
  /\ givenUp \in BOOLEAN /\ dangling \in BOOLEAN

Init ==
  /\ call = 0 /\ status = "connecting" /\ entries = {} /\ working = {}
  /\ answer = [n \in Calls |-> 0]
  /\ connected = [s \in Sides |-> FALSE]
  /\ writeBuf = [s \in Sides |-> 0]
  /\ spawned = [s \in Sides |-> <<>>] /\ sends = [s \in Sides |-> {}]
  /\ reader = [s \in Sides |-> "none"]
  /\ wire = [s \in Sides |-> <<>>] /\ readBuf = [s \in Sides |-> <<>>]
  /\ givenUp = FALSE /\ dangling = FALSE

\* The loop of a side runs: the server's always, the client's until Stop.
Running(s) == s = "server" \/ status # "stopped"

\* The server's channel and socket live in the frame of RpcServer::DoRpc.
ChannelGone(s) == s = "server" /\ reader["server"] = "done"

Spawn(s, what, id) ==
  spawned' = [spawned EXCEPT ![s] = Append(@, [what |-> what, id |-> id])]

-----------------------------------------------------------------------------
(* The caller.                                                             *)

\* TcpClient::Connect, its handshake included, and OnConnect of the client, which
\* runs DoRpc; or OnConnectFailed, which stops the loop.
Connect ==
  /\ status = "connecting"
  /\ \/ /\ status' = "idle"
        /\ connected' = [s \in Sides |-> TRUE]
        /\ reader' = [s \in Sides |-> "reading"]
     \/ status' = "stopped" /\ UNCHANGED <<connected, reader>>
  /\ UNCHANGED <<call, entries, answer, writeBuf, spawned, sends, wire, readBuf,
                 working, givenUp, dangling>>

\* StubCall: IoTimeoutAwaitable spawns the coroutine that makes the call.
Call ==
  /\ status = "idle" /\ call < MaxCalls
  /\ call' = call + 1 /\ status' = "spawned"
  /\ UNCHANGED <<entries, answer, connected, writeBuf, spawned, sends, reader,
                 wire, readBuf, working, givenUp, dangling>>

\* The user is done: it closes the socket and stops the loop.
Quit ==
  /\ status = "idle"
  /\ status' = "stopped"
  /\ connected' = [connected EXCEPT !["client"] = FALSE]
  /\ UNCHANGED <<call, entries, answer, writeBuf, spawned, sends, reader, wire,
                 readBuf, working, givenUp, dangling>>

\* The call returned -1, and the caller runs on in the same step.
CallFails ==
  \/ status' = "stopped" /\ connected' = [connected EXCEPT !["client"] = FALSE]
  \/ status' = "idle" /\ UNCHANGED connected

\* StubCallAwaitable::await_ready and await_suspend, with CallMethod.
CallMethod ==
  /\ Spawn("client", "send", call)
  /\ entries' = entries \cup {call}

StartCall ==
  /\ status = "spawned"
  /\ \/ ~connected["client"] /\ CallFails /\ UNCHANGED <<spawned, entries>>
     \/ connected["client"] /\ status' = "waiting" /\ CallMethod /\ UNCHANGED connected
  /\ UNCHANGED <<call, answer, writeBuf, sends, reader, wire, readBuf, working,
                 givenUp, dangling>>

\* The timer of the call: await_resume returns -1.  The entry stays.
StubTimeoutIfConnected ==        \* mutant: no timeout on a closed socket
  /\ status = "waiting" /\ connected["client"]
  /\ CallFails
  /\ givenUp' = TRUE
  /\ UNCHANGED <<call, entries, answer, writeBuf, spawned, sends, reader, wire,
                 readBuf, working, dangling>>
StubTimeout ==
  /\ status = "waiting"
  /\ CallFails
  /\ givenUp' = TRUE
  /\ UNCHANGED <<call, entries, answer, writeBuf, spawned, sends, reader, wire,
                 readBuf, working, dangling>>

-----------------------------------------------------------------------------
(* Sending, on both sides.                                                 *)

\* Send fills the buffer of the channel and waits in WriteNWithTimeout.
BeginSend(s, id, awaited) ==
  /\ writeBuf' = [writeBuf EXCEPT ![s] = id]
  /\ sends' = [sends EXCEPT ![s] = @ \cup {[id |-> id, unit |-> 1, awaited |-> awaited]}]

\* A spawned SendResponse starts.
StartSend(s) ==
  /\ Running(s) /\ spawned[s] # <<>> /\ Head(spawned[s]).what = "send"
  /\ spawned' = [spawned EXCEPT ![s] = Tail(@)]
  /\ dangling' = (dangling \/ ChannelGone(s))
  /\ IF connected[s] /\ ~ChannelGone(s)
       THEN BeginSend(s, Head(spawned[s]).id, FALSE) ELSE UNCHANGED <<writeBuf, sends>>
  /\ UNCHANGED <<clientVars, connected, reader, wire, readBuf, working, givenUp>>

\* The coroutine that ResumeCoroutine spawned resumes the caller's.
ResumeCaller ==
  /\ Running("client") /\ spawned["client"] # <<>>
  /\ LET t == Head(spawned["client"]) IN
       /\ t.what = "resume"
       /\ \/ /\ status = "waiting" /\ t.id = call
             /\ IF connected["client"] THEN status' = "idle" /\ UNCHANGED connected
                                       ELSE CallFails
             /\ UNCHANGED dangling
          \/ /\ ~(status = "waiting" /\ t.id = call)
             /\ dangling' = TRUE
             /\ UNCHANGED <<status, connected>>
  /\ spawned' = [spawned EXCEPT !["client"] = Tail(@)]
  /\ UNCHANGED <<call, entries, answer, writeBuf, sends, reader, wire, readBuf,
                 working, givenUp>>

\* What goes out is what the buffer holds when it is written.
Written(s, w) == <<writeBuf[s], w.unit>>

\* After the last unit Send returns, to DoRpc if that awaits it.
Write(s, w) ==
  /\ Running(s) /\ w \in sends[s]
  /\ dangling' = (dangling \/ ChannelGone(s))
  /\ connected[s]
  /\ wire' = [wire EXCEPT ![s] = Append(@, Written(s, w))]
  /\ sends' = [sends EXCEPT ![s] =
       (@ \ {w}) \cup (IF w.unit = 1 THEN {[w EXCEPT !.unit = 2]} ELSE {})]
  /\ reader' = [reader EXCEPT ![s] = IF w.awaited /\ w.unit = 2 THEN "reading" ELSE @]
  /\ UNCHANGED <<clientVars, connected, writeBuf, spawned, readBuf, working, givenUp>>

\* The write failed or timed out: Send closes the socket, which ends DoRpc.
WriteFails(s, w) ==
  /\ Running(s) /\ w \in sends[s]
  /\ dangling' = (dangling \/ ChannelGone(s))
  /\ connected' = [connected EXCEPT ![s] = FALSE]
  /\ sends' = [sends EXCEPT ![s] = @ \ {w}]
  /\ reader' = [reader EXCEPT ![s] = IF w.awaited THEN "done" ELSE @]
  /\ UNCHANGED <<clientVars, writeBuf, spawned, wire, readBuf, working, givenUp>>

-----------------------------------------------------------------------------
(* Receiving: DoRpc.                                                       *)

\* DoClientRpc: the entry is taken out, the response filled, the caller's
\* resumption spawned.  Entry, response and closure are dead once the call
\* has returned.
DoClientRpc(id, payload) ==
  /\ entries' = entries \ {id}
  /\ \/ /\ id \in entries /\ status = "waiting" /\ id = call
        /\ answer' = [answer EXCEPT ![id] = payload]
        /\ Spawn("client", "resume", id)
        /\ UNCHANGED dangling
     \/ /\ id \in entries /\ ~(status = "waiting" /\ id = call)
        /\ dangling' = TRUE
        /\ UNCHANGED <<answer, spawned>>
     \/ /\ id \notin entries
        /\ UNCHANGED <<answer, spawned, dangling>>
  /\ UNCHANGED <<call, status, writeBuf, sends, reader, working>>

\* DoServerRpc: the service gets the call, or the reader itself sends an error.
DoServerRpcBoth(id) ==           \* mutant: no break after the error
  /\ BeginSend("server", id, TRUE)
  /\ reader' = [reader EXCEPT !["server"] = "sending"]
  /\ working' = working \cup {id}
  /\ UNCHANGED <<clientVars, spawned, dangling>>
DoServerRpc(id) ==
  /\ \/ working' = working \cup {id} /\ UNCHANGED <<writeBuf, sends, reader>>
     \/ /\ BeginSend("server", id, TRUE)
        /\ reader' = [reader EXCEPT !["server"] = "sending"]
        /\ UNCHANGED working
  /\ UNCHANGED <<clientVars, spawned, dangling>>

\* ParseMessage and TakeMessage: one message, if it is complete.
HasMessage(b) == Len(b) >= 2
TakeNothing(b) == b              \* mutant: TakeMessage not called
TakeMessage(b) == SubSeq(b, 3, Len(b))

Read(s, k) ==
  /\ Running(s) /\ reader[s] = "reading" /\ connected[s]
  /\ k \in 1..Len(wire[Other(s)])
  /\ wire' = [wire EXCEPT ![Other(s)] = SubSeq(@, k + 1, Len(@))]
  /\ LET b == readBuf[s] \o SubSeq(wire[Other(s)], 1, k) IN
       \/ /\ ~HasMessage(b)
          /\ readBuf' = [readBuf EXCEPT ![s] = b]
          /\ UNCHANGED <<clientVars, writeBuf, spawned, sends, reader, working, dangling>>
       \/ /\ HasMessage(b)
          /\ readBuf' = [readBuf EXCEPT ![s] = TakeMessage(b)]
          /\ IF s = "client" THEN DoClientRpc(b[1][1], b[2][1])
                             ELSE DoServerRpc(b[1][1])
  /\ UNCHANGED <<connected, givenUp>>

\* A call of the client that has not been answered, as far as s can tell.
Unanswered(s) ==
  IF s = "client" THEN status = "waiting"
  ELSE working # {} \/ spawned["server"] # <<>> \/ sends["server"] # {}

\* The read ended: the socket is closed, the stream is at its end, or (early)
\* the read timed out or the connection broke.
ReadEnds(s, early) ==
  /\ Running(s) /\ reader[s] = "reading"
  /\ \/ early
     \/ ~connected[s]
     \/ ~connected[Other(s)] /\ wire[Other(s)] = <<>>
  /\ givenUp' = (givenUp \/ (early /\ Unanswered(s)))
  /\ connected' = [connected EXCEPT ![s] = FALSE]
  /\ reader' = [reader EXCEPT ![s] = "done"]
  /\ UNCHANGED <<clientVars, writeBuf, spawned, sends, wire, readBuf, working, dangling>>

\* The service runs the Closure: SendResponse spawns the sending coroutine.
Done(id) ==
  /\ id \in working
  /\ working' = working \ {id}
  /\ dangling' = (dangling \/ ChannelGone("server"))
  /\ IF connected["server"] THEN Spawn("server", "send", id) ELSE UNCHANGED spawned
  /\ UNCHANGED <<clientVars, connected, writeBuf, sends, reader, wire, readBuf, givenUp>>

-----------------------------------------------------------------------------

ClientStep == Connect \/ Call \/ Quit \/ StartCall \/ StubTimeout \/ ResumeCaller

ChannelStep(s) ==
  \/ StartSend(s)
  \/ \E w \in sends[s] : Write(s, w)
  \/ \E w \in sends[s] : WriteFails(s, w)
  \/ \E k \in 1..(2 * MaxCalls) : Read(s, k)
  \/ \E early \in BOOLEAN : ReadEnds(s, early)

Next ==
  \/ ClientStep
  \/ \E s \in Sides : ChannelStep(s)
  \/ \E id \in Calls : Done(id)

Spec == Init /\ [][Next]_vars

\* The client's loop runs spawned coroutines and fires the timer of the call.
FairSpec ==
  /\ Spec
  /\ WF_vars(StartCall) /\ WF_vars(StubTimeout)

-----------------------------------------------------------------------------

\* While everybody waits for answers and the connection lasts, nothing
\* destroyed is used: not the response and the closure of a call that returned,
\* not the caller's coroutine, not the server's channel by a response under way.
PatienceIsSafe == dangling => givenUp

\* A message is two units of one call.
Whole(units) ==
  \A i \in DOMAIN units : i < Len(units) /\ units[i][2] = 1 =>
    units[i + 1] = <<units[i][1], 2>>

\* While everybody waits for answers, messages are never mixed in the shared
\* write buffer or cut wrongly by the reader, and a response fills the message
\* of the call that asked for it.
AnswersMatch ==
  /\ TypeOK
  /\ ~givenUp => \A s \in Sides : Whole(readBuf[Other(s)] \o wire[s])
  /\ ~givenUp => \A n \in Calls : answer[n] \in {0, n}

\* A call that was made returns, on a lost connection too: that resumes nobody,
\* but the timer does.  It returns with its own response filled in unless
\* somebody gave up or a socket was closed.
EveryCallReturns ==
  \A n \in Calls :
    (call = n /\ status \in {"spawned", "waiting"}) ~>
      /\ call # n \/ status \in {"idle", "stopped"}
      /\ answer[n] = n \/ givenUp \/ \E s \in Sides : ~connected[s]
=============================================================================
