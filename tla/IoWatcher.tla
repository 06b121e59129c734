----------------------------- MODULE IoWatcher -----------------------------
(***************************************************************************)
(* Cold::Base::IoWatcher (coro/IoWatcher.cpp) for one socket that a        *)
(* reading and a writing coroutine share, with the kernel's edge-triggered *)
(* epoll below it and the sockets above it: connect, read, write, close    *)
(* and destruction of a TcpSocket, SendTo and RecvFrom of a UdpSocket, and  *)
(* AsyncIO on a pipe or a terminal (net/BasicSocket.cpp, net/TcpSocket.h,  *)
(* net/UdpSocket.h, net/IoAwaitable.h, coro/Io.h).  The program side runs on the loop's thread; data   *)
(* arrives, the send buffer drains and the connection breaks at any time.  *)
(*                                                                         *)
(* A socket from Accept and a UDP socket are registered for reading by     *)
(* their constructors; a TCP socket from socket() and a file by the first  *)
(* operation that has to wait.                                             *)
(***************************************************************************)
EXTENDS Naturals, Sequences, SequencesExt

CONSTANTS Reader, Writer,   \* the two coroutines
          Noop,             \* std::noop_coroutine()
          FullDuplex,       \* both coroutines may wait at the same time also
                            \* on a descriptor its constructor did not register
          MaxUnits          \* bound: units a socket buffer holds

ASSUME WatcherAssumption ==
  /\ Reader # Writer /\ Noop \notin {Reader, Writer}
  /\ FullDuplex \in BOOLEAN
  /\ MaxUnits \in Nat \ {0}

VARIABLES
  ev,         \* the socket's entry of ioEvents_, if it is there
  ep,         \* epoll's entry for the descriptor: registration and ready list
  kind,       \* where the socket comes from
  link,       \* the connection, in the kernel
  avail,      \* units in the receive buffer
  room,       \* units free in the send buffer
  connected,  \* connected_
  co,         \* what every coroutine awaits
  phase,      \* "run": pending tasks and timers.  "io": after WatchIo
  active,     \* activeCoroutines_ still to be resumed
  failed      \* assertions and epoll_ctl calls that failed

vars == <<ev, ep, kind, link, avail, room, connected, co, phase, active, failed>>

Coros == {Reader, Writer}

Masks == SUBSET {"in", "out"}

NoEvent == [known |-> FALSE, events |-> {}, readHandle |-> Noop, writeHandle |-> Noop]

NotAdded == [added |-> FALSE, interest |-> {}, queued |-> FALSE]

TypeOK ==
  /\ ev \in [known : BOOLEAN, events : Masks,
             readHandle : {Reader, Noop}, writeHandle : {Writer, Noop}]
  /\ ep \in [added : BOOLEAN, interest : Masks, queued : BOOLEAN]
  /\ kind \in {"none", "accepted", "opened", "udp", "file"}
  /\ link \in {"none", "fresh", "syn", "up", "down"}
  /\ avail \in 0..MaxUnits /\ room \in 0..MaxUnits
  /\ connected \in BOOLEAN
  /\ co \in [Coros -> {"idle", "connect", "io", "received"}]
  /\ phase \in {"run", "io"}
  /\ active \in Seq(Coros) /\ Len(active) <= 2
  /\ failed \subseteq {"assert", "epoll_ctl"}

Init ==
  /\ ev = NoEvent /\ ep = NotAdded
  /\ kind = "none" /\ link = "none" /\ avail = 0 /\ room = 0
  /\ connected = FALSE
  /\ co = [c \in Coros |-> "idle"]
  /\ phase = "run" /\ active = <<>>
  /\ failed = {}

-----------------------------------------------------------------------------
(* The kernel.                                                             *)

Readable == avail > 0 \/ link = "down"
Writable == (link = "up" /\ room > 0) \/ link = "down"

Ready ==
  {e \in {"in"} : Readable} \cup {e \in {"out"} : Writable}
    \cup {e \in {"hup"} : link = "down"}

\* A hang-up is reported whether or not it was asked for.
Asked(mask) == mask \cup {"hup"}

\* epoll_ctl: a new or changed registration is checked against what is ready.
Added(mask, e) ==
  [added |-> TRUE, interest |-> mask,
   queued |-> e.queued \/ Ready \cap Asked(mask) # {}]

\* Something happened on the socket that wakes epoll up.
Poke(what) ==
  ep' = [ep EXCEPT !.queued = @ \/ (ep.added /\ what \cap Asked(ep.interest) # {})]

program == <<ev, kind, connected, co, phase, active, failed>>

DataArrives ==
  /\ link = "up" /\ avail < MaxUnits
  /\ avail' = avail + 1
  /\ Poke({"in"})
  /\ UNCHANGED <<link, room, program>>

\* TCP reports write space only to a socket that had run out of it.
PeerDrains ==
  /\ link = "up" /\ room < MaxUnits
  /\ room' = room + 1
  /\ IF room = 0 \/ kind = "udp" THEN Poke({"out"}) ELSE UNCHANGED ep
  /\ UNCHANGED <<link, avail, program>>

Establish ==
  /\ link = "syn"
  /\ link' = "up"
  /\ room' = MaxUnits
  /\ Poke({"out"})
  /\ UNCHANGED <<avail, program>>

\* The peer refuses or resets the connection.
Reset ==
  /\ link \in {"syn", "up"} /\ kind # "udp"
  /\ link' = "down"
  /\ Poke({"in", "out", "hup"})
  /\ UNCHANGED <<avail, room, program>>

-----------------------------------------------------------------------------
(* The operations of the watcher.  Each gives the socket's entry, epoll's   *)
(* entry and the failures: epoll_ctl fails when the kernel's idea of the    *)
(* registration is not the watcher's.                                       *)

kernel == <<link, avail, room>>
socket == <<kernel, kind>>

Failing(assertion, ctl) ==
  failed' = failed \cup {f \in {"assert"} : assertion} \cup {f \in {"epoll_ctl"} : ctl}

\* A known descriptor is taken to be registered for reading already.
ListenReadEvent(h) ==
  /\ ev' = [ev EXCEPT !.readHandle = h, !.known = TRUE,
                      !.events = IF ev.known THEN @ ELSE {"in"}]
  /\ ep' = IF ev.known THEN ep ELSE Added({"in"}, ep)
  /\ Failing(ev.known /\ ev.readHandle # Noop, ~ev.known /\ ep.added)

\* event.writeHandle = handle
SetWriter(e, h) == [e EXCEPT !.writeHandle = h]

ListenWriteEvent(h) ==
  /\ ev' = [SetWriter(ev, h) EXCEPT !.known = TRUE, !.events = @ \cup {"out"}]
  /\ ep' = Added(ev.events \cup {"out"}, ep)
  /\ Failing(ev.writeHandle # Noop, ev.known # ep.added)

\* The entry after a read waiter was taken off; epoll keeps its interest.
StoppedReading(e) == [e EXCEPT !.readHandle = Noop]

StopListeningReadEvent ==
  /\ ev' = StoppedReading(ev)
  /\ UNCHANGED ep
  /\ Failing(~ev.known, FALSE)

\* The mask without EPOLLOUT; an entry with nothing left is erased, whoever
\* waits on it.  e is the entry and k is epoll's.
LeftMask(e) == e.events \ {"out"}

StoppedWriting(e) ==
  IF "in" \in e.events
    THEN [e EXCEPT !.writeHandle = Noop, !.events = LeftMask(e)]
    ELSE NoEvent

AfterStopWriting(e, k) == IF "in" \in e.events THEN Added(LeftMask(e), k) ELSE NotAdded

StopListeningWriteEvent ==
  /\ ev' = StoppedWriting(ev)
  /\ ep' = AfterStopWriting(ev, ep)
  /\ Failing(~ev.known, ~ep.added)

\* What epoll_wait reports, at most once per edge.
Reported == IF ep.queued THEN Ready \cap Asked(ep.interest) ELSE {}

\* The read waiter is resumed for data, and for a hang-up as well; the write
\* waiter independently of it.
WakesReader == Reported \cap {"in", "hup"} # {}

WakesWriter == "out" \in Reported

WatchIo ==
  LET read == WakesReader /\ ev.readHandle # Noop
      write == WakesWriter
      after == IF read THEN StoppedReading(ev) ELSE ev
      drained == [ep EXCEPT !.queued = FALSE]
  IN /\ phase = "run"
     /\ phase' = "io"
     /\ active' = (IF read THEN <<ev.readHandle>> ELSE <<>>)
                   \o (IF write /\ ev.writeHandle # Noop THEN <<ev.writeHandle>> ELSE <<>>)
     /\ ev' = IF write THEN StoppedWriting(after) ELSE after
     /\ ep' = IF write THEN AfterStopWriting(after, drained) ELSE drained
     /\ Failing(FALSE, write /\ ~ep.added)
     /\ UNCHANGED <<socket, connected, co>>

\* All active coroutines ran; the loop goes round.
EndIo ==
  /\ phase = "io" /\ active = <<>>
  /\ phase' = "run"
  /\ UNCHANGED <<ev, ep, socket, connected, co, active, failed>>

-----------------------------------------------------------------------------
(* The socket.  A coroutine that is not suspended in an operation starts    *)
(* one; it suspends only if the system call would block.                    *)

\* TcpSocket for an accepted descriptor, on which data may be waiting.
Accept ==
  /\ link = "none"
  /\ kind' = "accepted"
  /\ link' = "up" /\ room' = MaxUnits
  /\ avail' \in 0..MaxUnits
  /\ connected' = TRUE
  /\ ev' = [NoEvent EXCEPT !.known = TRUE, !.events = {"in"}]
  /\ ep' = [added |-> TRUE, interest |-> {"in"}, queued |-> ep.queued \/ avail' > 0]
  /\ Failing(FALSE, ep.added)
  /\ UNCHANGED <<co, phase, active>>

\* TcpSocket(service): socket().
Open ==
  /\ link = "none"
  /\ kind' = "opened"
  /\ link' = "fresh"
  /\ UNCHANGED <<avail, room, ev, ep, connected, co, phase, active, failed>>

\* UdpSocket(service).
OpenUdp ==
  /\ link = "none"
  /\ kind' = "udp"
  /\ link' = "up" /\ room' = MaxUnits
  /\ ListenReadEvent(Noop)
  /\ UNCHANGED <<avail, connected, co, phase, active>>

\* AsyncIO(service, name, mode) and AsyncIO(service, fd).
OpenFile ==
  /\ link = "none"
  /\ kind' = "file"
  /\ link' = "up" /\ room' = MaxUnits
  /\ avail' \in 0..MaxUnits
  /\ UNCHANGED <<ev, ep, connected, co, phase, active, failed>>

MayWait(c) ==
  /\ co[c] = "idle"
  /\ kind \in {"accepted", "udp"} \/ FullDuplex \/ \A d \in Coros : co[d] = "idle"

Await(c, what) ==
  /\ co' = [co EXCEPT ![c] = what]
  /\ UNCHANGED <<socket, connected, phase, active>>

\* ConnectAwaitable: EINPROGRESS.
Connect ==
  /\ link = "fresh" /\ MayWait(Writer)
  /\ ListenWriteEvent(Writer)
  /\ link' = "syn"
  /\ co' = [co EXCEPT ![Writer] = "connect"]
  /\ UNCHANGED <<kind, avail, room, connected, phase, active>>

\* ReadAwaitable: read() gives something, or fails, or would block.
WouldBlockAssumed == TRUE                   \* mutant: await_ready returns false
WouldBlock == ~Readable

Read ==
  /\ connected /\ co[Reader] = "idle"
  /\ \E k \in 1..avail : avail' = avail - k
  /\ UNCHANGED <<ev, ep, kind, link, room, connected, co, phase, active, failed>>

ReadBlocks ==
  /\ connected /\ MayWait(Reader) /\ WouldBlock
  /\ ListenReadEvent(Reader)
  /\ Await(Reader, "io")

\* WriteAwaitable.
Write ==
  /\ connected /\ co[Writer] = "idle" /\ link = "up"
  /\ \E k \in 1..room : room' = room - k
  /\ UNCHANGED <<ev, ep, kind, link, avail, connected, co, phase, active, failed>>

WriteBlocks ==
  /\ connected /\ MayWait(Writer) /\ ~Writable
  /\ ListenWriteEvent(Writer)
  /\ Await(Writer, "io")

\* SendToAwaitable.
SendTo ==
  /\ kind = "udp" /\ link = "up" /\ co[Writer] = "idle" /\ room > 0
  /\ room' = room - 1
  /\ UNCHANGED <<ev, ep, kind, link, avail, connected, co, phase, active, failed>>

SendToBlocks ==
  /\ kind = "udp" /\ MayWait(Writer) /\ ~Writable
  /\ ListenWriteEvent(Writer)
  /\ Await(Writer, "io")

\* RecvFromAwaitable waits, also if await_ready already received a datagram.
RecvFrom ==
  /\ kind = "udp" /\ MayWait(Reader)
  /\ ListenReadEvent(Reader)
  /\ avail' = IF avail > 0 THEN avail - 1 ELSE 0
  /\ co' = [co EXCEPT ![Reader] = IF Readable THEN "received" ELSE "io"]
  /\ UNCHANGED <<kind, link, room, connected, phase, active>>

\* The awaitables of AsyncIO wait without having tried.
AsyncRead ==
  /\ kind = "file" /\ MayWait(Reader)
  /\ ListenReadEvent(Reader)
  /\ Await(Reader, "io")

AsyncWrite ==
  /\ kind = "file" /\ MayWait(Writer)
  /\ ListenWriteEvent(Writer)
  /\ Await(Writer, "io")

\* The timeout task of a ...WithTimeout operation: SetTimeout stops listening
\* and the coroutine is resumed.  Timers run before WatchIo.
TimeoutRead ==
  /\ phase = "run" /\ co[Reader] # "idle"
  /\ StopListeningReadEvent
  /\ Await(Reader, "idle")

TimeoutWrite ==
  /\ phase = "run" /\ co[Writer] # "idle"
  /\ StopListeningWriteEvent
  /\ Await(Writer, "idle")

\* The loop resumes an active coroutine: await_resume repeats the system call
\* once, unless it received already.  connect's outcome is SO_ERROR.
Amounts(n) == IF kind = "udp" THEN {1} ELSE 1..n
MayUse == connected \/ kind \in {"udp", "file"}
CanRead == co[Reader] = "io" /\ MayUse /\ avail > 0
CanWrite == co[Writer] = "io" /\ MayUse /\ link = "up" /\ room > 0

RunReader ==
  /\ active # <<>> /\ Head(active) = Reader
  /\ active' = Tail(active)
  /\ co' = [co EXCEPT ![Reader] = "idle"]
  /\ IF CanRead THEN \E k \in Amounts(avail) : avail' = avail - k ELSE UNCHANGED avail
  /\ UNCHANGED <<ev, ep, kind, link, room, connected, phase, failed>>

RunWriter ==
  /\ active # <<>> /\ Head(active) = Writer
  /\ active' = Tail(active)
  /\ co' = [co EXCEPT ![Writer] = "idle"]
  /\ connected' = (connected \/ (co[Writer] = "connect" /\ link = "up"))
  /\ IF CanWrite THEN \E k \in Amounts(room) : room' = room - k ELSE UNCHANGED room
  /\ UNCHANGED <<ev, ep, kind, link, avail, phase, failed>>

\* BasicSocket::Close(): shutdown() of both directions; the descriptor and its
\* registration stay.
ShutDownNot == UNCHANGED <<link, ep>>       \* mutant: only the flag is cleared
ShutDown == link' = "down" /\ Poke({"in", "out", "hup"})

Close ==
  /\ connected \/ kind = "udp"
  /\ connected' = FALSE
  /\ ShutDown
  /\ UNCHANGED <<ev, kind, avail, room, co, phase, active, failed>>

\* StopListeningAll and close().  Nobody uses the descriptor.
ForgottenNot == ev                          \* mutant: the entry stays
Forgotten == NoEvent

Released ==
  /\ link # "none" /\ \A c \in Coros : co[c] = "idle"
  /\ ev' = Forgotten /\ ep' = NotAdded
  /\ Failing(FALSE, ev.known /\ ~ep.added)
  /\ link' = "none" /\ avail' = 0 /\ room' = 0
  /\ kind' = "none" /\ connected' = FALSE
  /\ UNCHANGED <<co, phase, active>>

Destroy == kind # "file" /\ Released         \* ~BasicSocket
CloseFile == kind = "file" /\ Released       \* AsyncIO::Close, ~AsyncIO

-----------------------------------------------------------------------------

Loop == WatchIo \/ RunReader \/ RunWriter \/ EndIo

Program ==
  \/ Accept \/ Open \/ OpenUdp \/ OpenFile \/ Connect \/ Read \/ ReadBlocks \/ Write \/ WriteBlocks
  \/ SendTo \/ SendToBlocks \/ RecvFrom \/ AsyncRead \/ AsyncWrite
  \/ TimeoutRead \/ TimeoutWrite \/ Close \/ Destroy \/ CloseFile

Next == Loop \/ Program \/ DataArrives \/ PeerDrains \/ Establish \/ Reset

Spec == Init /\ [][Next]_vars

\* The loop's thread is scheduled.  Nothing is assumed of the network.
FairSpec == Spec /\ WF_vars(Loop)

-----------------------------------------------------------------------------

\* epoll and ioEvents_ agree on every registration, so no epoll_ctl call fails
\* (lines 50, 73, 97 and 111) and none of the watcher's assertions does
\* (lines 56, 65, 81 and 89), also when a descriptor number is used again.
WatcherAgreesWithKernel ==
  /\ TypeOK
  /\ failed = {}
  /\ ev.known = ep.added
  /\ ev.known => ev.events = ep.interest

\* A coroutine that is suspended for something it does not have yet, and that the
\* system call said was not there.  A RecvFrom that already has its datagram and
\* an AsyncRead, which did not ask, wait for one more edge.
Waiting(c) ==
  \/ co[c] = "connect"
  \/ co[c] = "io" /\ (kind = "file" => c = Writer)

\* Edge triggering loses no edge: what a suspended coroutine waits for, once
\* it is there, is on epoll's ready list or the coroutine is in the active one.
NoLostEdge ==
  /\ Waiting(Reader) /\ Readable => ep.queued \/ Reader \in ToSet(active)
  /\ Waiting(Writer) /\ Writable => ep.queued \/ Writer \in ToSet(active)

\* A coroutine that waits on a connection that was reset, or that this side
\* closed, is resumed.
DownWakesWaiters ==
  \A c \in Coros :
    (Waiting(c) /\ (link = "down" \/ (co[c] = "io" /\ ~MayUse))) ~> co[c] = "idle"
=============================================================================
