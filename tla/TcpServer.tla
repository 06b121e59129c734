------------------------------ MODULE TcpServer ------------------------------
(***************************************************************************)
(* Cold::Net::TcpServer: the coroutine DoAccept on the main service of a    *)
(* pool (net/TcpServer.h, Acceptor, AcceptAwaitable of net/IoAwaitable.h).  *)
(*                                                                         *)
(* The kernel reports the listening socket once for new connections, not    *)
(* for those left in the queue; the awaitable tries accept4 first, and      *)
(* again when it is resumed.  Only the second try sees EMFILE acted upon:   *)
(* the spare descriptor idleFd_ is given up to accept one connection and    *)
(* drop it.  Threads of the pool open and close descriptors at any time,    *)
(* other coroutines of the main service only while DoAccept is suspended.   *)
(***************************************************************************)
EXTENDS IoServicePool

CONSTANTS MaxFds,          \* descriptors left to connections, files and idleFd_
          MaxArrivals      \* bound: connections clients open

\* One descriptor is there for idleFd_, which Acceptor opens before it listens.
ASSUME ServerAssumption == MaxFds \in Nat \ {0} /\ MaxArrivals \in Nat

VARIABLES acc,        \* where DoAccept is
          backlog,    \* connections in the queue of the listening socket
          arrived,    \* connections opened so far
          edge,       \* the kernel has a read event to report
          used,       \* descriptors open, idleFd_ not counted
          idle,       \* idleFd_: the spare "null", a dropped "conn", or "none"
          exhausted,  \* the last accept failed with EMFILE
          stolen      \* another thread opened a descriptor while idleFd_ was given up

accVars == <<acc, backlog, arrived, edge, used, idle, exhausted, stolen>>
serverVars == <<poolVars, accVars>>

Free == MaxFds - used - (IF idle = "none" THEN 0 ELSE 1)

ServerInit ==
  /\ PoolInit
  /\ acc = "try" /\ backlog = 0 /\ arrived = 0 /\ edge = FALSE
  /\ used = 0 /\ idle = "null"
  /\ exhausted = FALSE /\ stolen = FALSE

\* TcpServer::Start: Listen, CoSpawn(DoAccept()), and on to the pool's Start.
Start ==
  /\ main = "listen" /\ main' = "start"
  /\ UNCHANGED <<cur, held, started, thread, alive, running, stopped, stoppedEarly, accVars>>

\* A connection is taken: TLS does its handshake before Accept returns.
Took(state) ==
  /\ backlog > 0 /\ Free > 0
  /\ backlog' = backlog - 1 /\ used' = used + 1
  /\ exhausted' = FALSE
  /\ acc' = state

\* await_ready: any error of accept4 is waited out.
AcceptReadyLazy ==               \* mutant: the first accept4 is left out
  /\ acc = "try" /\ acc' = "wait"
  /\ UNCHANGED <<backlog, used, exhausted>>
AcceptReady ==
  /\ acc = "try"
  /\ \/ \E state \in {"try", "handshake"} : Took(state)
     \/ /\ backlog = 0 \/ Free = 0
        /\ acc' = "wait" /\ exhausted' = (backlog > 0)
        /\ UNCHANGED <<backlog, used>>

Handshaking == acc \in {"handshake", "shaking"}

\* The event resumes the coroutine, or the no-op that stands in while it is
\* busy with a handshake.
Wake ==
  /\ edge /\ edge' = FALSE
  /\ \/ acc = "wait" /\ acc' = "resume"
     \/ Handshaking /\ UNCHANGED acc

\* await_resume and what Accept does with an error.
AcceptResume ==
  /\ acc = "resume"
  /\ \/ \E state \in {"try", "handshake"} : Took(state)
     \/ backlog = 0 /\ acc' = "try" /\ exhausted' = FALSE /\ UNCHANGED <<backlog, used>>
     \/ backlog > 0 /\ Free = 0 /\ acc' = "close" /\ exhausted' = TRUE /\ UNCHANGED <<backlog, used>>

\* An attempt of DoHandshake: SSL_do_handshake is done, fails, or wants to wait
\* for the client.
HandshakeReady ==
  /\ acc = "handshake"
  /\ \/ acc' = "try" /\ used' \in {used, used - 1}
     \/ acc' = "shaking" /\ UNCHANGED used

\* The client sends, which starts the next attempt with a timeout of its own, or
\* the timeout of this one closes the connection.
HandshakeResume ==
  /\ acc = "shaking"
  /\ \/ acc' = "handshake" /\ UNCHANGED used
     \/ acc' = "try" /\ used' = used - 1

\* close(idleFd_); accept; close; open.
CloseIdle == acc = "close" /\ acc' = "drop" /\ idle' = "none" /\ UNCHANGED backlog
DropOne ==
  /\ acc = "drop" /\ acc' = "close2"
  /\ IF backlog > 0 /\ Free > 0
     THEN idle' = "conn" /\ backlog' = backlog - 1
     ELSE idle' = "none" /\ UNCHANGED backlog
CloseDropped == acc = "close2" /\ acc' = "reopen" /\ idle' = "none" /\ UNCHANGED backlog
ReopenNot ==                     \* mutant: the spare descriptor is not opened again
  acc = "reopen" /\ acc' = "try" /\ UNCHANGED <<idle, backlog>>
Reopen ==
  /\ acc = "reopen" /\ acc' = "try"
  /\ idle' = IF Free > 0 THEN "null" ELSE "none"
  /\ UNCHANGED backlog

DropConnection == CloseIdle \/ DropOne \/ CloseDropped \/ Reopen

DoAccept ==
  /\ main = "run"
  /\ \/ (AcceptReady \/ AcceptResume) /\ UNCHANGED <<edge, idle>>
     \/ Wake /\ UNCHANGED <<backlog, used, idle, exhausted>>
     \/ (HandshakeReady \/ HandshakeResume) /\ UNCHANGED <<backlog, edge, idle, exhausted>>
     \/ DropConnection /\ UNCHANGED <<edge, used, exhausted>>
  /\ UNCHANGED <<poolVars, arrived, stolen>>

-----------------------------------------------------------------------------
(* Clients, and the rest of the program.                                   *)

Arrive ==
  /\ main # "listen" /\ alive
  /\ arrived < MaxArrivals
  /\ arrived' = arrived + 1 /\ backlog' = backlog + 1 /\ edge' = TRUE
  /\ UNCHANGED <<poolVars, acc, used, idle, exhausted, stolen>>

Suspended == acc = "wait" \/ Handshaking

OpenOther ==
  /\ Free > 0 /\ used' = used + 1
  /\ \/ main = "run" /\ Suspended /\ UNCHANGED stolen
     \/ /\ \E t \in Threads : thread[t] = "loop"
        /\ stolen' = (stolen \/ acc \in {"drop", "close2", "reopen"})
  /\ UNCHANGED <<poolVars, acc, backlog, arrived, edge, idle, exhausted>>

CloseOther ==
  /\ used > (IF Handshaking THEN 1 ELSE 0) /\ used' = used - 1
  /\ (main = "run" /\ Suspended) \/ \E t \in Threads : thread[t] = "loop"
  /\ UNCHANGED <<poolVars, acc, backlog, arrived, edge, idle, exhausted, stolen>>

Pool ==
  /\ MainSteps \/ SpuriousWakeUp \/ (\E t \in Threads : ThreadSteps(t)) \/ \E s \in Services : Stop(s)
  /\ UNCHANGED accVars

\* Waiting for a signal or a stop that never comes (PoolStartsAndEnds says when
\* that is), or destroyed.
Rest == main \in {"waiting", "run", "destroy", "gone"} /\ UNCHANGED serverVars

ServerNext == Start \/ Pool \/ DoAccept \/ Arrive \/ OpenOther \/ CloseOther \/ Rest

\* Threads are scheduled, and one gets a mutex that is free again and again
\* (strong fairness: Start takes it after every wake-up); nobody has to stop a
\* service or to connect, and no wake-up comes without a signal.
ServerFairness ==
  /\ WF_serverVars(MainSteps /\ UNCHANGED accVars)
  /\ \A t \in Threads : /\ WF_serverVars(ThreadSteps(t) /\ UNCHANGED accVars)
                         /\ SF_serverVars(NotifyStarted(t) /\ UNCHANGED accVars)
  /\ WF_serverVars(DoAccept)

ServerSpec == ServerInit /\ [][ServerNext]_serverVars /\ ServerFairness

-----------------------------------------------------------------------------
(* Properties.                                                             *)

\* DoAccept waits for an event the kernel will not report, with connections in
\* the queue, only after it ran out of descriptors: however many connections one
\* event stands for, and although events are lost during a handshake.
NoStrandedConnection ==
  acc = "wait" /\ ~edge /\ backlog > 0 => exhausted

\* The spare descriptor is back after every use of it, unless another thread
\* opened a descriptor while it was given up.
IdleDescriptorKept ==
  acc \in {"try", "wait", "resume", "handshake", "shaking"} /\ idle = "none" => stolen
=============================================================================
