----------------------------- MODULE IoTimeout -----------------------------
(***************************************************************************)
(* co_await socket.ReadWithTimeout(...) and its like on the event loop: the *)
(* composition of IoTimeoutAwaitable and AsyncRead (coro/Io.h), of the      *)
(* awaitables that receive (net/IoAwaitable.h), the phases of               *)
(* IoService::Start, the timer and the edge-triggered watcher.  Everything  *)
(* runs on one thread; a resume() runs the resumed coroutine, and what it   *)
(* resumes in turn, to the next suspension, so a step here is one such      *)
(* chain.  Data arrives and time passes in between.                         *)
(*                                                                         *)
(* A client coroutine performs the operations 1..MaxOps one after another   *)
(* on one descriptor: a TCP socket, one with TLS, a UDP socket, or a pipe   *)
(* behind AsyncIO.  Operation n creates an inner coroutine n, which awaits  *)
(* the read and then resumes the client; a timer whose task sets the        *)
(* timeout flag and resumes the inner coroutine; and a wrapper (WrapTask),  *)
(* spawned through CoSpawn, which awaits the inner coroutine.  With TLS the *)
(* inner coroutine spawns a helper, MaxOps + n, which reads for it.         *)
(***************************************************************************)
EXTENDS Naturals, Sequences, SequencesExt

CONSTANTS MaxOps,     \* bound: operations of the client
          MaxData,    \* bound: units of data in the receive buffer
          Kinds,      \* of descriptors: "tcp", "tls", "udp", "pipe"
          Noop        \* std::noop_coroutine()

ASSUME OpsAssumption ==
  MaxOps \in Nat \ {0} /\ MaxData \in Nat \ {0} /\ Noop \notin Nat

Ops == 1..MaxOps

Helper(n) == MaxOps + n

VARIABLES
  kind,       \* of the descriptor
  registered, \* the watcher has an IoEvent for it
  kept,       \* RecvFroms that received in await_ready and wait nevertheless
  phase,      \* of the loop: "pending", "timers", "wait", "io", "reap"
  batch,      \* wrappers and helpers the pending phase has still to run; 0: the client's
  pending,    \* wrappers spawned since
  op,         \* the operation the client awaits; 0: not started
  finished,   \* the client returned and its socket is destroyed
  inner,      \* state of every inner coroutine
  awaited,    \* its wrapper awaits it
  timer,      \* state of every timer
  timedOut,   \* timeout_ of every awaitable
  handle,     \* readHandle of the socket's IoEvent
  active,     \* what WatchIo returned
  avail,      \* units in the receive buffer
  queued,     \* the socket is on epoll's ready list
  lost,       \* units read and not given to the client
  early,      \* history: a timeout task found its inner coroutine not started
  failed      \* the assertion, or the undefined behaviour, that ended the program

timeoutVars == <<kind, registered, kept, phase, batch, pending, op, finished, inner, awaited, timer, timedOut,
                 handle, active, avail, queued, lost, early, failed>>

\* The constructor of a socket registers the descriptor for reading with a noop
\* handle, that of AsyncIO does not.
Registers(k) == k # "pipe"

\* The client was spawned.
TimeoutInit ==
  /\ kind \in Kinds /\ registered = Registers(kind) /\ kept = {}
  /\ phase = "pending"
  /\ batch = <<0>> /\ pending = <<>>
  /\ op = 0 /\ finished = FALSE
  /\ inner = [n \in Ops |-> "none"]
  /\ awaited = [n \in Ops |-> FALSE]
  /\ timer = [n \in Ops |-> "off"]
  /\ timedOut = [n \in Ops |-> FALSE]
  /\ handle = Noop /\ active = Noop
  /\ avail = 0 /\ queued = FALSE /\ lost = 0 /\ early = FALSE
  /\ failed = "none"

-----------------------------------------------------------------------------
(* Pieces of a chain of resumptions.  h is the handle the IoEvent has at    *)
(* that point of the chain.                                                *)

\* IoTimeoutAwaitable::await_suspend of operation n: the timer is armed with
\* the timeout task, and the wrapper of a fresh inner coroutine is spawned.
\* i and m are the inner coroutines and the timers so far.
IssueUntimed(n, i, m) ==                      \* mutant: the timer is not armed
  /\ op' = n
  /\ inner' = [i EXCEPT ![n] = "fresh"]
  /\ timer' = m
  /\ pending' = Append(pending, n)
Issue(n, i, m) ==
  /\ op' = n
  /\ inner' = [i EXCEPT ![n] = "fresh"]
  /\ timer' = [m EXCEPT ![n] = "armed"]
  /\ pending' = Append(pending, n)

\* The timer as IoTimeoutAwaitable::await_resume and the destructor of its
\* Timer leave it.
Cancelled(n) ==
  [timer EXCEPT ![n] = IF @ \in {"armed", "due"} THEN "cancelled" ELSE @]

\* The inner coroutine n has its result and resumes the client, which issues
\* the next operation or returns and destroys the socket (StopListeningAll).
\* fired: the chain started in the timeout task of n.
Complete(n, fired, h) ==
  LET m == IF fired THEN [timer EXCEPT ![n] = "fired"] ELSE Cancelled(n)
      i == [inner EXCEPT ![n] = "done"]
  IN IF n < MaxOps
       THEN /\ Issue(n + 1, i, m)
            /\ handle' = h
            /\ UNCHANGED finished
       ELSE /\ finished' = TRUE
            /\ inner' = i
            /\ timer' = m
            /\ handle' = Noop
            /\ UNCHANGED <<op, pending>>

\* IoWatcher::ListenReadEvent, with its assertion; adding the descriptor to
\* epoll reports what is there.
Listen(n, h) ==
  /\ IF h = Noop THEN handle' = n /\ UNCHANGED failed
                 ELSE handle' = h /\ failed' = "listen"
  /\ registered' = TRUE
  /\ queued' = (IF registered THEN queued ELSE avail > 0)
  /\ inner' = [inner EXCEPT ![n] = "suspended"]
  /\ UNCHANGED <<op, finished>>

\* await_ready found nothing to read: EAGAIN.
WouldBlock == avail = 0

\* A read() that takes k units of what is available.
Take(k) == k \in 1..avail /\ avail' = avail - k

\* The chain leaves the watcher as it is.
WatcherKept == UNCHANGED <<registered, queued, failed>>

\* The inner coroutine n runs to its first suspension.  fired: its timeout task
\* started it, so that what it gets is discarded because the flag is set.
Fired(n, fired) == timer' = IF fired THEN [timer EXCEPT ![n] = "fired"] ELSE timer
StartRead(n, fired, h) ==            \* ReadAwaitable::await_ready tries to read
  /\ kind = "tcp"
  /\ \/ /\ WouldBlock
        /\ Listen(n, h) /\ Fired(n, fired)
        /\ UNCHANGED <<pending, avail, kept, lost>>
     \/ /\ \E k \in 1..avail : Take(k) /\ lost' = IF fired THEN lost + k ELSE lost
        /\ Complete(n, fired, h)
        /\ WatcherKept /\ UNCHANGED kept
StartRecvFrom(n, fired, h) ==        \* receives, and waits in any case
  /\ kind = "udp"
  /\ IF WouldBlock THEN UNCHANGED <<avail, kept>> ELSE Take(1) /\ kept' = kept \cup {n}
  /\ Listen(n, h) /\ Fired(n, fired)
  /\ UNCHANGED <<pending, lost>>
StartAsyncRead(n, fired, h) ==       \* waits without trying
  /\ kind = "pipe"
  /\ Listen(n, h) /\ Fired(n, fired)
  /\ UNCHANGED <<pending, avail, kept, lost>>
StartTls(n, fired, h) ==             \* spawns the helper
  /\ kind = "tls"
  /\ pending' = Append(pending, Helper(n))
  /\ inner' = [inner EXCEPT ![n] = "suspended"] /\ Fired(n, fired)
  /\ handle' = h
  /\ WatcherKept /\ UNCHANGED <<op, finished, avail, kept, lost>>

StartInner(n, fired, h) ==
  StartRead(n, fired, h) \/ StartRecvFrom(n, fired, h) \/ StartAsyncRead(n, fired, h) \/ StartTls(n, fired, h)

\* await_resume with the flag set returns without reading; a datagram received
\* before is gone.
ReadAnyway(n) ==                              \* mutant: reads, then looks
  \/ avail = 0 /\ UNCHANGED <<avail, lost>>
  \/ \E k \in 1..avail : Take(k) /\ lost' = lost + k
ReadNothing(n) == lost' = (IF n \in kept THEN lost + 1 ELSE lost) /\ UNCHANGED avail

\* await_resume otherwise.
ReadNow(n) ==
  /\ IF n \in kept THEN UNCHANGED avail ELSE \E k \in 1..avail : (kind = "udp" => k = 1) /\ Take(k)
  /\ UNCHANGED lost

\* A chain resumes a coroutine that has finished.
ResumeFinished ==
  /\ failed' = "resume"
  /\ UNCHANGED <<registered, kept, op, finished, pending, inner, timer, handle, queued, avail, lost>>

-----------------------------------------------------------------------------
(* The phases of the loop.                                                 *)

Live == failed = "none"

RunClient ==
  /\ Live /\ phase = "pending" /\ batch # <<>> /\ Head(batch) = 0
  /\ batch' = Tail(batch)
  /\ Issue(1, inner, timer)
  /\ UNCHANGED <<kind, registered, kept, phase, finished, awaited, timedOut, handle, active, avail,
                 queued, lost, early, failed>>

\* WrapTask: co_await t sets the continuation and resumes the inner coroutine,
\* wherever it is.
RunWrapper(n) ==
  /\ Live /\ phase = "pending" /\ batch # <<>> /\ Head(batch) = n
  /\ batch' = Tail(batch)
  /\ awaited' = [awaited EXCEPT ![n] = TRUE]
  /\ \/ inner[n] = "fresh" /\ StartInner(n, FALSE, handle)
     \/ /\ inner[n] = "suspended"                \* started by its timeout task
        /\ ReadNothing(n) /\ Complete(n, FALSE, handle)
        /\ WatcherKept /\ UNCHANGED kept
     \/ inner[n] = "done" /\ ResumeFinished
  /\ UNCHANGED <<kind, phase, timedOut, active, early>>

\* The helper of a TLS read, when it first runs or the watcher resumes it: it
\* reads until it has a record, and wakes the inner coroutine unless that was
\* resumed meanwhile.
HelperReads(n) ==
  \/ /\ inner[n] # "suspended"
     /\ UNCHANGED <<registered, op, finished, pending, inner, timer, handle, queued, avail, failed>>
  \/ /\ inner[n] = "suspended" /\ WouldBlock
     /\ Listen(n, handle)
     /\ UNCHANGED <<pending, timer, avail>>
  \/ /\ inner[n] = "suspended"
     /\ \E k \in 1..avail : Take(k)
     /\ Complete(n, FALSE, handle)
     /\ WatcherKept

RunHelper(n) ==
  /\ Live /\ phase = "pending" /\ batch # <<>> /\ Head(batch) = Helper(n)
  /\ batch' = Tail(batch)
  /\ HelperReads(n)
  /\ UNCHANGED <<kind, kept, phase, awaited, timedOut, active, lost, early>>

EndPending ==
  /\ Live /\ phase = "pending" /\ batch = <<>>
  /\ phase' = "timers"
  /\ UNCHANGED <<kind, registered, kept, batch, pending, op, finished, inner, awaited, timer, timedOut,
                 handle, active, avail, queued, lost, early, failed>>

\* The handle after SetTimeout: StopListeningReadEvent.
StopListeningNot == handle                    \* mutant: left registered
StopListening == Noop

\* The timeout task: SetTimeout, with the assertion of StopListeningReadEvent
\* that the descriptor is registered, then resume the inner coroutine, wherever
\* it is.
FireTimer(n) ==
  /\ Live /\ phase = "timers" /\ timer[n] = "due"
  /\ timedOut' = [timedOut EXCEPT ![n] = TRUE]
  /\ early' = (early \/ inner[n] = "fresh")
  /\ \/ /\ ~registered
        /\ failed' = "stop"
        /\ UNCHANGED <<registered, kept, op, finished, pending, inner, timer, handle, queued, avail, lost>>
     \/ registered /\ inner[n] = "fresh" /\ StartInner(n, TRUE, StopListening)
     \/ /\ registered /\ inner[n] = "suspended"
        /\ ReadNothing(n) /\ Complete(n, TRUE, StopListening)
        /\ WatcherKept /\ UNCHANGED kept
     \/ registered /\ inner[n] \in {"done", "freed"} /\ ResumeFinished
  /\ UNCHANGED <<kind, phase, batch, awaited, active>>

EndTimers ==
  /\ Live /\ phase = "timers"
  /\ \A n \in Ops : timer[n] # "due"
  /\ phase' = "wait"
  /\ UNCHANGED <<kind, registered, kept, batch, pending, op, finished, inner, awaited, timer, timedOut,
                 handle, active, avail, queued, lost, early, failed>>

\* WatchIo: epoll reports the socket once per edge, and only if it is still
\* readable, with TLS also for part of a record; a handle that is not noop
\* becomes active.
WatchIo ==
  /\ Live /\ phase = "wait"
  /\ queued' = FALSE
  /\ IF queued /\ (avail > 0 \/ kind = "tls")
       THEN active' = handle /\ handle' = Noop
       ELSE active' = Noop /\ UNCHANGED handle
  /\ phase' = "io"
  /\ UNCHANGED <<kind, registered, kept, batch, pending, op, finished, inner, awaited, timer, timedOut,
                 avail, lost, early, failed>>

\* The event loop resumes the active coroutine: await_resume.
RunActive(n) ==
  /\ Live /\ phase = "io" /\ active = n
  /\ active' = Noop
  /\ \/ kind = "tls" /\ HelperReads(n) /\ UNCHANGED lost
     \/ /\ kind # "tls" /\ inner[n] = "suspended"
        /\ IF timedOut[n] THEN ReadNothing(n) ELSE ReadNow(n)
        /\ Complete(n, FALSE, handle)
        /\ WatcherKept
     \/ kind # "tls" /\ inner[n] \in {"done", "freed"} /\ ResumeFinished
  /\ UNCHANGED <<kind, kept, phase, batch, awaited, timedOut, early>>

EndIo ==
  /\ Live /\ phase = "io" /\ active = Noop
  /\ phase' = "reap"
  /\ UNCHANGED <<kind, registered, kept, batch, pending, op, finished, inner, awaited, timer, timedOut,
                 handle, active, avail, queued, lost, early, failed>>

\* The frames of completed wrappers are destroyed, and with them their inner
\* coroutines; the next iteration swaps in the pending wrappers.
Reap ==
  /\ Live /\ phase = "reap"
  /\ inner' = [n \in Ops |-> IF inner[n] = "done" /\ awaited[n] THEN "freed" ELSE inner[n]]
  /\ batch' = pending
  /\ pending' = <<>>
  /\ phase' = "pending"
  /\ UNCHANGED <<kind, registered, kept, op, finished, awaited, timer, timedOut, handle, active, avail,
                 queued, lost, early, failed>>

-----------------------------------------------------------------------------
(* The environment.                                                        *)

\* Part of a TLS record.
PartArrives ==
  /\ Live /\ ~finished /\ kind = "tls"
  /\ queued' = TRUE
  /\ UNCHANGED <<kind, registered, kept, phase, batch, pending, op, finished, inner, awaited, timer,
                 timedOut, handle, active, avail, lost, early, failed>>

DataArrives ==
  /\ Live /\ ~finished /\ avail < MaxData
  /\ avail' = avail + 1
  /\ queued' = TRUE
  /\ UNCHANGED <<kind, registered, kept, phase, batch, pending, op, finished, inner, awaited, timer,
                 timedOut, handle, active, lost, early, failed>>

Expire(n) ==
  /\ Live /\ timer[n] = "armed"
  /\ timer' = [timer EXCEPT ![n] = "due"]
  /\ UNCHANGED <<kind, registered, kept, phase, batch, pending, op, finished, inner, awaited, timedOut,
                 handle, active, avail, queued, lost, early, failed>>

Aborted == ~Live /\ UNCHANGED timeoutVars

Loop ==
  \/ RunClient \/ EndPending \/ EndTimers \/ WatchIo \/ EndIo \/ Reap
  \/ \E n \in Ops : RunWrapper(n) \/ RunHelper(n) \/ FireTimer(n) \/ RunActive(n)

TimeoutNext ==
  \/ Loop
  \/ DataArrives \/ PartArrives
  \/ \E n \in Ops : Expire(n)
  \/ Aborted

TimeoutSpec == TimeoutInit /\ [][TimeoutNext]_timeoutVars

\* The loop is scheduled and a timer's time comes; data need not arrive.
FairTimeoutSpec == TimeoutSpec /\ WF_timeoutVars(Loop) /\ \A n \in Ops : WF_timeoutVars(Expire(n))

-----------------------------------------------------------------------------

\* The only way to a failed assertion of ListenReadEvent (IoWatcher.cpp:56), of
\* StopListeningReadEvent (IoWatcher.cpp:81) or of the resumption of active
\* coroutines (IoService.cpp:50), or to a wrapper that resumes a finished
\* coroutine, is a timeout that elapses before the loop first runs the inner
\* coroutine of the operation (Io.h:88-95), and the helper of a TLS read, which
\* looks whether its reader is still there, survives even that.
OnlyEarlyTimeoutsHurt == failed # "none" => early /\ kind # "tls"

\* A unit that read() took from the descriptor is delivered to the client: but
\* for an early timeout, an operation that reports ETIMEDOUT consumed nothing
\* (a RecvFrom may have, IoAwaitable.h:278), and a suspended reader never stalls
\* on data that is already there although epoll reports edges only (those that
\* wait without having tried, or with a datagram in hand, may).
NoDataLost ==
  /\ lost > 0 => kind = "udp" \/ (early /\ kind # "tls")
  /\ ~early /\ handle # Noop /\ avail > 0 => queued \/ kind \in {"udp", "pipe"}

\* Every operation completes, by data or by its timeout.
EveryOpCompletes == \A n \in Ops : op = n ~> (op # n \/ finished \/ (early /\ kind # "tls"))
=============================================================================
