------------------------------ MODULE NetProofs -----------------------------
(***************************************************************************)
(* Proofs about the networking layer: the pool of threads and the acceptor *)
(* (IoServicePool, TcpServer), for every number of threads, descriptors    *)
(* and connections; reads with a timeout (IoTimeout), for every number of  *)
(* operations and units; the HTTP server (HttpServer, Router), for every   *)
(* set of routes, streams of requests and limits.                          *)
(***************************************************************************)
EXTENDS TcpServer, IoTimeout, HttpServer, SequenceTheorems, FiniteSetTheorems, WellFoundedInduction, TLAPS

-----------------------------------------------------------------------------
(* The pool.                                                               *)

Starting == {"check", "tested", "waiting", "woken"}
Begun == {"notified", "task", "loop", "exited"}

PoolTypeOK ==
  /\ main \in {"listen", "start", "run", "destroy", "gone"} \cup Starting
  /\ cur \in 1..(PoolSize + 1)
  /\ held \in BOOLEAN /\ alive \in BOOLEAN
  /\ started \in [Threads -> BOOLEAN]
  /\ thread \in [Threads -> {"none", "begin"} \cup Begun]
  /\ running \in [Services -> BOOLEAN]
  /\ stopped \subseteq Services /\ stoppedEarly \subseteq Services

\* How far Start has come: it is at one thread, which may have failed to be
\* created; those before it have begun and those after it do not exist.
StartedInOrder ==
  /\ main = "listen" => cur = 1
  /\ main \in Starting => cur \in Threads
  /\ \A t \in Threads :
       /\ started[t] <=> thread[t] \in Begun
       /\ main \in {"listen", "start"} \cup Starting /\ t < cur => started[t]
       /\ main \in {"listen", "start"} /\ t >= cur => thread[t] = "none"
       /\ main \in Starting /\ t > cur => thread[t] = "none"
       /\ main \in {"run", "destroy", "gone"} => started[t]

\* How far the destructor has come.
JoinedInOrder ==
  /\ alive <=> main # "gone"
  /\ main = "destroy" => \A t \in Threads : t < cur => Joined(t)
  /\ main = "gone" => \A t \in Threads : Joined(t)

\* Thread::Start waits on the condition variable only while the thread it waits
\* for has its signal still to send, or could not be created: the mutex is held
\* from the test of started_ to the wait, and started_ is set under it.
StartNotMissed ==
  main = "waiting" => thread[cur] \in {"none", "begin"} /\ ~started[cur]

MutexHeld ==
  /\ held <=> main \in {"check", "tested"}
  /\ main = "tested" => thread[cur] \in {"none", "begin"}

PoolInv == PoolTypeOK /\ StartedInOrder /\ JoinedInOrder /\ MutexHeld /\ StartNotMissed

LEMMA PoolInitInv == ServerInit => PoolInv
<1> USE DEF ServerInit, PoolInit, Threads
<1>1. ServerInit => cur \in 1..(PoolSize + 1)
  BY PoolSizeAssumption
<1>2. ServerInit => PoolTypeOK
  BY <1>1 DEF PoolTypeOK, Services
<1>3. ServerInit => StartedInOrder
  BY PoolSizeAssumption DEF StartedInOrder, Starting, Begun
<1>4. ServerInit => JoinedInOrder
  BY DEF JoinedInOrder
<1>5. ServerInit => MutexHeld /\ StartNotMissed
  BY DEF MutexHeld, StartNotMissed
<1> QED
  BY <1>2, <1>3, <1>4, <1>5 DEF PoolInv

\* Every step of the pool, and the start of the server.
LEMMA PoolStep ==
  ASSUME PoolInv,
         \/ Start \/ MainSteps \/ SpuriousWakeUp
         \/ (\E t \in Threads : ThreadSteps(t)) \/ \E s \in Services : Stop(s)
  PROVE  PoolInv'
<1> USE PoolSizeAssumption
    DEF PoolInv, PoolTypeOK, StartedInOrder, JoinedInOrder, MutexHeld, StartNotMissed,
        Starting, Begun, Joined, Threads
<1>1. CASE Start
  BY <1>1 DEF Start
<1>2. CASE Create
  BY <1>2 DEF Create
<1>3. CASE CheckStarted
  <2>1. CASE started[cur]
    <3>1. main' = "start" /\ cur' = cur + 1 /\ held' = FALSE
          /\ UNCHANGED <<started, thread, alive, running, stopped, stoppedEarly>>
      BY <1>3, <2>1 DEF CheckStarted
    <3>2. cur \in Threads /\ main = "check"
      BY <1>3 DEF CheckStarted
    <3>3. cur' \in 1..(PoolSize + 1) /\ \A t \in Threads : t < cur' <=> t < cur \/ t = cur
      BY <3>1, <3>2
    <3>4. PoolTypeOK'
      BY <3>1, <3>3
    <3>5. \A t \in Threads : t >= cur' <=> t > cur
      BY <3>1, <3>2
    <3>6. StartedInOrder'
      BY <2>1, <3>1, <3>2, <3>3, <3>5
    <3>7. JoinedInOrder' /\ MutexHeld' /\ StartNotMissed'
      BY <3>1, <3>2
    <3> QED
      BY <3>4, <3>6, <3>7
  <2>2. CASE ~started[cur]
    BY <1>3, <2>2 DEF CheckStarted
  <2> QED
    BY <2>1, <2>2
<1>4. CASE Wait
  BY <1>4 DEF Wait
<1>5. CASE WakeUp \/ SpuriousWakeUp
  BY <1>5 DEF WakeUp, SpuriousWakeUp, AfterWait
<1>6. CASE RunMain
  BY <1>6 DEF RunMain, Services
<1>7. CASE MainLoopEnds
  BY <1>7 DEF MainLoopEnds
<1>8. CASE Join
  BY <1>8 DEF Join
<1>9. CASE Destroy
  <2>1. alive' = FALSE /\ main' = "gone" /\ \A t \in Threads : Joined(t)
    BY <1>9 DEF Destroy
  <2>2. JoinedInOrder'
    BY <1>9, <2>1 DEF Destroy
  <2>3. StartedInOrder' /\ MutexHeld' /\ StartNotMissed'
    BY <1>9, <2>1 DEF Destroy
  <2>4. PoolTypeOK'
    BY <1>9, <2>1 DEF Destroy
  <2> QED
    BY <2>2, <2>3, <2>4
<1>10. ASSUME NEW t \in Threads, NotifyStarted(t) PROVE PoolInv'
  BY <1>10 DEF NotifyStarted
<1>11. ASSUME NEW t \in Threads, TakeTask(t) PROVE PoolInv'
  BY <1>11 DEF TakeTask
<1>12. ASSUME NEW t \in Threads, RunService(t) PROVE PoolInv'
  BY <1>12 DEF RunService, Services
<1>13. ASSUME NEW t \in Threads, LoopEnds(t) PROVE PoolInv'
  BY <1>13 DEF LoopEnds
<1>14. ASSUME NEW s \in Services, Stop(s) PROVE PoolInv'
  BY <1>14 DEF Stop, Services
<1> QED
  BY <1>1, <1>2, <1>3, <1>4, <1>5, <1>6, <1>7, <1>8, <1>9, <1>10, <1>11, <1>12, <1>13, <1>14
  DEF MainSteps, ThreadSteps

LEMMA PoolPreserved ==
  ASSUME PoolInv, [ServerNext]_serverVars
  PROVE  PoolInv'
<1>1. CASE UNCHANGED poolVars
  BY <1>1 DEF poolVars, PoolInv, PoolTypeOK, StartedInOrder, JoinedInOrder, MutexHeld,
              StartNotMissed, Joined
<1>2. CASE Start \/ Pool
  BY <1>2, PoolStep DEF Pool
<1> QED
  BY <1>1, <1>2 DEF ServerNext, DoAccept, Arrive, OpenOther, CloseOther, Rest, serverVars

-----------------------------------------------------------------------------
(* The accepting coroutine.                                                *)

GivenUp == {"drop", "close2", "reopen"}

AccTypeOK ==
  /\ acc \in {"try", "wait", "resume", "handshake", "shaking", "close"} \cup GivenUp
  /\ backlog \in Nat /\ arrived \in Nat /\ used \in Nat
  /\ idle \in {"null", "conn", "none"}

AccFlagsOK == edge \in BOOLEAN /\ exhausted \in BOOLEAN /\ stolen \in BOOLEAN

\* Descriptors are never used beyond the limit, and a handshake has one.
DescriptorsCounted ==
  /\ used <= MaxFds /\ (idle # "none" => used < MaxFds)
  /\ Handshaking => used > 0

\* idleFd_ while it is given up: one descriptor stays free for it.
PlaceKept ==
  /\ acc \in GivenUp => stolen \/ used < MaxFds
  /\ acc \in {"drop", "reopen"} => idle = "none"
  /\ acc \notin GivenUp /\ idle = "none" => stolen

AccInv == AccTypeOK /\ DescriptorsCounted /\ PlaceKept /\ NoStrandedConnection

LEMMA AccInitInv == ServerInit => AccInv
BY ServerAssumption
DEF ServerInit, AccInv, AccTypeOK, DescriptorsCounted, PlaceKept, NoStrandedConnection, GivenUp,
    Handshaking

LEMMA AccPreserved ==
  ASSUME AccInv, [ServerNext]_serverVars
  PROVE  AccInv'
<1>0. Free > 0 <=> used < MaxFds /\ (idle # "none" => used + 1 < MaxFds)
  BY ServerAssumption DEF Free, AccInv, AccTypeOK
<1> USE ServerAssumption
    DEF AccInv, AccTypeOK, DescriptorsCounted, PlaceKept, NoStrandedConnection, GivenUp,
        Handshaking
<1>1. CASE UNCHANGED accVars
  BY <1>1 DEF accVars
<1>2. CASE DoAccept
  <2>0. UNCHANGED <<arrived, stolen>>
    BY <1>2 DEF DoAccept
  <2>1. CASE AcceptReady /\ UNCHANGED <<edge, idle>>
    <3>1. CASE \E state \in {"try", "handshake"} : Took(state)
      BY <1>0, <2>0, <2>1, <3>1 DEF AcceptReady, Took
    <3>2. CASE acc' = "wait" /\ exhausted' = (backlog > 0) /\ UNCHANGED <<backlog, used>>
      <4>1. acc = "try"
        BY <2>1 DEF AcceptReady
      <4> QED
        BY <2>0, <2>1, <3>2, <4>1
    <3> QED
      BY <2>1, <3>1, <3>2 DEF AcceptReady
  <2>2. CASE AcceptResume /\ UNCHANGED <<edge, idle>>
    BY <1>0, <2>0, <2>2 DEF AcceptResume, Took
  <2>3. CASE Wake /\ UNCHANGED <<backlog, used, idle, exhausted>>
    BY <1>0, <2>0, <2>3 DEF Wake
  <2>4. CASE HandshakeReady /\ UNCHANGED <<backlog, edge, idle, exhausted>>
    BY <1>0, <2>0, <2>4 DEF HandshakeReady
  <2>5. CASE HandshakeResume /\ UNCHANGED <<backlog, edge, idle, exhausted>>
    BY <1>0, <2>0, <2>5 DEF HandshakeResume
  <2>6. CASE CloseIdle /\ UNCHANGED <<edge, used, exhausted>>
    BY <1>0, <2>0, <2>6 DEF CloseIdle
  <2>7. CASE DropOne /\ UNCHANGED <<edge, used, exhausted>>
    BY <1>0, <2>0, <2>7 DEF DropOne
  <2>8. CASE CloseDropped /\ UNCHANGED <<edge, used, exhausted>>
    BY <1>0, <2>0, <2>8 DEF CloseDropped
  <2>9. CASE Reopen /\ UNCHANGED <<edge, used, exhausted>>
    BY <1>0, <2>0, <2>9 DEF Reopen
  <2> QED
    BY ONLY <1>2, <2>1, <2>2, <2>3, <2>4, <2>5, <2>6, <2>7, <2>8, <2>9 DEF DoAccept, DropConnection
<1>3. CASE Arrive
  BY <1>3 DEF Arrive
<1>4. CASE OpenOther
  <2> USE DEF OpenOther
  <2>1. DescriptorsCounted' /\ AccTypeOK'
    BY <1>0, <1>4
  <2>2. NoStrandedConnection'
    BY <1>4
  <2>3. CASE UNCHANGED stolen /\ Suspended
    BY <1>4, <2>1, <2>2, <2>3 DEF Suspended
  <2>4. CASE stolen' = (stolen \/ acc \in {"drop", "close2", "reopen"})
    BY <1>4, <2>1, <2>2, <2>4
  <2> QED
    BY <1>4, <2>3, <2>4
<1>5. CASE CloseOther
  <2>1. used > 0 /\ (Handshaking => used > 1) /\ used' = used - 1
    BY <1>5 DEF CloseOther
  <2> QED
    BY <1>5, <2>1 DEF CloseOther
<1> QED
  BY <1>1, <1>2, <1>3, <1>4, <1>5 DEF ServerNext, Start, Pool, Rest, serverVars

LEMMA FlagsPreserved ==
  ASSUME AccInv, AccFlagsOK, [ServerNext]_serverVars
  PROVE  AccFlagsOK'
<1> USE DEF AccFlagsOK
<1>1. CASE UNCHANGED accVars
  BY <1>1 DEF accVars
<1>2. CASE DoAccept
  <2>1. edge' \in BOOLEAN
    BY <1>2 DEF DoAccept, Wake
  <2>2. exhausted' \in BOOLEAN
    <3>1. exhausted' \in {exhausted, TRUE, FALSE} \/ exhausted' = (backlog > 0)
      BY <1>2 DEF DoAccept, AcceptReady, AcceptResume, Took
    <3>2. (backlog > 0) \in BOOLEAN
      <4>1. backlog \in Nat
        BY DEF AccInv, AccTypeOK
      <4> QED
        BY <4>1
    <3> QED
      BY <3>1, <3>2, Zenon
  <2> QED
    BY <1>2, <2>1, <2>2 DEF DoAccept
<1>3. CASE Arrive \/ CloseOther
  BY <1>3 DEF Arrive, CloseOther
<1>4. CASE OpenOther
  BY <1>4 DEF OpenOther
<1> QED
  BY <1>1, <1>2, <1>3, <1>4 DEF ServerNext, Start, Pool, Rest, serverVars

-----------------------------------------------------------------------------
(* What is proved.                                                         *)

\* The state of the pool and of the accepting coroutine keeps its type; used is
\* never decremented below zero and never passes the limit on descriptors.
THEOREM TcpServerType == ServerSpec => [](PoolTypeOK /\ AccTypeOK /\ AccFlagsOK /\ DescriptorsCounted)
<1>1. PoolInv /\ AccInv /\ [ServerNext]_serverVars => PoolInv' /\ AccInv'
  BY PoolPreserved, AccPreserved
<1>2. PoolInv /\ AccInv => PoolTypeOK /\ AccTypeOK /\ DescriptorsCounted
  BY DEF PoolInv, AccInv
<1>3. ServerInit => AccFlagsOK
  BY DEF ServerInit, AccFlagsOK
<1>4. AccInv /\ AccFlagsOK /\ [ServerNext]_serverVars => AccFlagsOK'
  BY FlagsPreserved
<1> QED
  BY <1>1, <1>2, <1>3, <1>4, PoolInitInv, AccInitInv, PTL DEF ServerSpec

\* Once ~IoServicePool has returned, every thread of the pool has ended: the
\* destructor joins them all, since Start has started them all.
THEOREM PoolObjectsSafe == ServerSpec => []ObjectsOutliveThreads
<1>1. PoolInv => ObjectsOutliveThreads
  BY DEF PoolInv, JoinedInOrder, Joined, PoolTypeOK, ObjectsOutliveThreads
<1>2. PoolInv /\ [ServerNext]_serverVars => PoolInv'
  BY PoolPreserved
<1> QED
  BY <1>1, <1>2, PoolInitInv, PTL DEF ServerSpec

\* Thread::Start never waits for a signal that was already sent: its thread has
\* still to send it, or was not created.
THEOREM StartSignalNotMissed == ServerSpec => []StartNotMissed
<1>1. PoolInv => StartNotMissed
  BY DEF PoolInv
<1>2. PoolInv /\ [ServerNext]_serverVars => PoolInv'
  BY PoolPreserved
<1> QED
  BY <1>1, <1>2, PoolInitInv, PTL DEF ServerSpec

\* A server that sleeps with connections in the queue and no event to come has run
\* out of descriptors.
THEOREM ConnectionsNotStranded == ServerSpec => []NoStrandedConnection
<1>1. AccInv => NoStrandedConnection
  BY DEF AccInv
<1>2. AccInv /\ [ServerNext]_serverVars => AccInv'
  BY AccPreserved
<1> QED
  BY <1>1, <1>2, AccInitInv, PTL DEF ServerSpec

\* Outside the sequence close, accept, close, open, the acceptor has its spare
\* descriptor unless another thread took its place.
THEOREM SpareDescriptorKept == ServerSpec => []IdleDescriptorKept
<1>1. AccInv => IdleDescriptorKept
  BY DEF AccInv, PlaceKept, GivenUp, IdleDescriptorKept
<1>2. AccInv /\ [ServerNext]_serverVars => AccInv'
  BY AccPreserved
<1> QED
  BY <1>1, <1>2, AccInitInv, PTL DEF ServerSpec

-----------------------------------------------------------------------------
(* Reads with a timeout.                                                   *)

\* What no step ever leaves, whatever failed.
Over == {"done", "freed"}

IoTypeOK ==
  /\ op \in 0..MaxOps
  /\ batch \in Seq(Nat) /\ pending \in Seq(Nat)
  /\ inner \in [Ops -> {"none", "fresh", "suspended"} \cup Over]
  /\ timer \in [Ops -> {"off", "armed", "due", "fired", "cancelled"}]
  /\ DOMAIN timedOut = Ops
  /\ handle \in Ops \cup {Noop} /\ active \in Ops \cup {Noop}
  /\ avail \in Nat /\ lost \in Nat

\* What the loop has still to run, in order.
Queue == batch \o pending

\* What stands at place i of the queue: the client before it started; the wrapper
\* of the present operation, in the last place; with TLS that wrapper followed by
\* the helper its timeout task has spawned; with TLS the helper, in the last place,
\* nobody else waiting for the socket; with TLS a helper whose reader is over.
IsClient(i) == Queue[i] = 0 /\ op = 0 /\ Len(Queue) = 1
IsWrapper(i) == op > 0 /\ Queue[i] = op /\ i = Len(Queue) /\ inner[op] = "fresh"
IsOverrun(i) ==
  /\ op > 0 /\ Queue[i] = op /\ inner[op] = "suspended" /\ timer[op] = "fired"
  /\ i + 1 = Len(Queue) /\ Queue[Len(Queue)] = Helper(op)
IsHelper(i) ==
  /\ op > 0 /\ Queue[i] = Helper(op) /\ inner[op] = "suspended"
  /\ i = Len(Queue) /\ handle = Noop /\ active = Noop
IsStale(i) == \E m \in Ops : Queue[i] = Helper(m) /\ inner[m] \in Over

InPlace(i) ==
  \/ IsClient(i) \/ IsWrapper(i)
  \/ kind = "tls" /\ (IsOverrun(i) \/ IsHelper(i) \/ IsStale(i))

QueueInOrder ==
  /\ \A i \in 1..Len(Queue) : InPlace(i)
  /\ phase # "pending" => batch = <<>>

\* Operations follow one another.
OneOperation ==
  \A n \in Ops :
    /\ n < op => inner[n] \in Over
    /\ n = op => inner[n] # "none" /\ (inner[n] \in Over => n = MaxOps)
    /\ n > op => inner[n] = "none"
    /\ timer[n] \in {"armed", "due"} => n = op /\ inner[n] \in {"fresh", "suspended"}
    /\ kind # "tls" /\ timedOut[n] => inner[n] \in Over
    /\ inner[n] = "suspended" => registered

\* At most one coroutine waits for the descriptor, or is about to be resumed.
OneWaiter ==
  /\ \A n \in Ops : n \in {handle, active} => n = op /\ inner[n] = "suspended"
  /\ handle = Noop \/ active = Noop
  /\ active # Noop => phase = "io"
  /\ kind # "pipe" => registered

\* Data that is there has its edge still to be reported.
EdgeToCome == handle # Noop /\ avail > 0 => queued \/ kind \in {"udp", "pipe"}

NothingLost == kind # "udp" => kept = {} /\ lost = 0

Sound == QueueInOrder /\ OneOperation /\ OneWaiter /\ EdgeToCome /\ NothingLost /\ Live

IoInv == IoTypeOK /\ (kind = "tls" \/ ~early => Sound)


-----------------------------------------------------------------------------
(* How a step moves the queue.                                             *)

\* k entries left at the front, and x joined at the end.
Left(k) ==
  /\ Len(Queue') = Len(Queue) - k
  /\ \A i \in 1..Len(Queue') : Queue'[i] = Queue[i + k]
LeftAndJoined(k, x) ==
  /\ Len(Queue') = Len(Queue) - k + 1
  /\ \A i \in 1..(Len(Queue) - k) : Queue'[i] = Queue[i + k]
  /\ Queue'[Len(Queue')] = x

LEMMA QueueIs ==
  ASSUME NEW b \in Seq(Nat), NEW p \in Seq(Nat)
  PROVE  /\ Len(b \o p) = Len(b) + Len(p)
         /\ \A i \in 1..Len(b) : (b \o p)[i] = b[i]
         /\ \A i \in 1..Len(p) : (b \o p)[Len(b) + i] = p[i]
BY ConcatProperties

LEMMA QueueSame ==
  ASSUME IoTypeOK, UNCHANGED <<batch, pending>>
  PROVE  Left(0)
<1>1. Queue' = Queue /\ Queue \in Seq(Nat)
  BY ConcatProperties DEF Queue, IoTypeOK
<1> QED
  BY <1>1 DEF Left

LEMMA QueuePop ==
  ASSUME IoTypeOK, batch # <<>>, batch' = Tail(batch), UNCHANGED pending
  PROVE  Left(1) /\ Len(Queue) >= 1 /\ Queue[1] = Head(batch)
<1>1. /\ Tail(batch) \in Seq(Nat) /\ Len(Tail(batch)) = Len(batch) - 1 /\ Len(batch) >= 1
      /\ \A i \in 1..Len(Tail(batch)) : Tail(batch)[i] = batch[i + 1]
      /\ Head(batch) = batch[1]
  BY HeadTailProperties, EmptySeq DEF IoTypeOK
<1>2. Queue' = Tail(batch) \o pending
  BY DEF Queue
<1> DEFINE b == Tail(batch)
<1> HIDE DEF b
<1>3. /\ Len(b \o pending) = Len(b) + Len(pending)
      /\ \A i \in 1..Len(b) : (b \o pending)[i] = b[i]
      /\ \A i \in 1..Len(pending) : (b \o pending)[Len(b) + i] = pending[i]
  BY <1>1, QueueIs DEF b, IoTypeOK
<1>4. /\ Len(Queue) = Len(batch) + Len(pending)
      /\ \A i \in 1..Len(batch) : Queue[i] = batch[i]
      /\ \A i \in 1..Len(pending) : Queue[Len(batch) + i] = pending[i]
  BY QueueIs DEF Queue, IoTypeOK
<1>5. Len(Queue') = Len(Queue) - 1 /\ Len(batch) \in Nat /\ Len(pending) \in Nat
  BY <1>1, <1>2, <1>3, <1>4 DEF b, IoTypeOK
<1>6. ASSUME NEW i \in 1..Len(Queue') PROVE Queue'[i] = Queue[i + 1]
  <2>1. CASE i <= Len(b)
    <3>1. Queue'[i] = b[i] /\ b[i] = batch[i + 1] /\ i + 1 \in 1..Len(batch)
      BY <1>1, <1>2, <1>3, <1>5, <2>1 DEF b
    <3> QED
      BY <3>1, <1>4
  <2>2. CASE i > Len(b)
    <3> DEFINE j == i - Len(b)
    <3>1. j \in 1..Len(pending) /\ i = Len(b) + j
      BY <1>1, <1>4, <1>5, <2>2 DEF b
    <3> HIDE DEF j
    <3>2. Queue'[i] = pending[j] /\ i + 1 = Len(batch) + j
      BY <3>1, <1>1, <1>2, <1>3, <1>5 DEF b
    <3> QED
      BY <3>1, <3>2, <1>4
  <2> QED
    BY <2>1, <2>2, <1>1, <1>5 DEF b
<1> QED
  BY <1>1, <1>4, <1>5, <1>6 DEF Left

LEMMA QueuePush ==
  ASSUME IoTypeOK, NEW x \in Nat, UNCHANGED batch, pending' = Append(pending, x)
  PROVE  LeftAndJoined(0, x)
<1>1. /\ Append(pending, x) \in Seq(Nat) /\ Len(Append(pending, x)) = Len(pending) + 1
      /\ \A i \in 1..Len(pending) : Append(pending, x)[i] = pending[i]
      /\ Append(pending, x)[Len(pending) + 1] = x
  BY AppendProperties DEF IoTypeOK
<1> DEFINE p == Append(pending, x)
<1>2. Queue' = batch \o p
  BY DEF Queue
<1> HIDE DEF p
<1>3. /\ Len(batch \o p) = Len(batch) + Len(p)
      /\ \A i \in 1..Len(batch) : (batch \o p)[i] = batch[i]
      /\ \A i \in 1..Len(p) : (batch \o p)[Len(batch) + i] = p[i]
  BY <1>1, QueueIs DEF p, IoTypeOK
<1>4. /\ Len(Queue) = Len(batch) + Len(pending)
      /\ \A i \in 1..Len(batch) : Queue[i] = batch[i]
      /\ \A i \in 1..Len(pending) : Queue[Len(batch) + i] = pending[i]
  BY QueueIs DEF Queue, IoTypeOK
<1>5. /\ Len(p) = Len(pending) + 1 /\ Len(batch) \in Nat /\ Len(pending) \in Nat
      /\ Len(Queue') = Len(Queue) + 1
  BY <1>1, <1>2, <1>3, <1>4 DEF p, IoTypeOK
<1>6. ASSUME NEW i \in 1..Len(Queue) PROVE Queue'[i] = Queue[i]
  <2>1. CASE i <= Len(batch)
    BY <2>1, <1>2, <1>3, <1>4
  <2>2. CASE i > Len(batch)
    <3> DEFINE j == i - Len(batch)
    <3>1. j \in 1..Len(pending) /\ i = Len(batch) + j
      BY <1>4, <1>5, <2>2
    <3> HIDE DEF j
    <3>2. j \in 1..Len(p) /\ p[j] = pending[j]
      BY <3>1, <1>1, <1>5 DEF p
    <3> QED
      BY <3>1, <3>2, <1>2, <1>3, <1>4
  <2> QED
    BY <2>1, <2>2, <1>5
<1>7. Queue'[Len(Queue')] = x
  <2>1. Len(p) \in 1..Len(p) /\ Len(Queue') = Len(batch) + Len(p)
    BY <1>5, <1>2, <1>3
  <2>2. p[Len(p)] = x
    BY <1>1, <1>5 DEF p
  <2> QED
    BY <2>1, <2>2, <1>2, <1>3
<1> QED
  BY <1>4, <1>5, <1>6, <1>7 DEF LeftAndJoined

LEMMA QueuePopPush ==
  ASSUME IoTypeOK, NEW x \in Nat, batch # <<>>, batch' = Tail(batch), pending' = Append(pending, x)
  PROVE  LeftAndJoined(1, x) /\ Len(Queue) >= 1 /\ Queue[1] = Head(batch)
<1>1. /\ Tail(batch) \in Seq(Nat) /\ Len(Tail(batch)) = Len(batch) - 1 /\ Len(batch) >= 1
      /\ \A i \in 1..Len(Tail(batch)) : Tail(batch)[i] = batch[i + 1]
      /\ Head(batch) = batch[1]
  BY HeadTailProperties, EmptySeq DEF IoTypeOK
<1>2. /\ Append(pending, x) \in Seq(Nat) /\ Len(Append(pending, x)) = Len(pending) + 1
      /\ \A i \in 1..Len(pending) : Append(pending, x)[i] = pending[i]
      /\ Append(pending, x)[Len(pending) + 1] = x
  BY AppendProperties DEF IoTypeOK
<1> DEFINE b == Tail(batch)
           p == Append(pending, x)
<1>3. Queue' = b \o p
  BY DEF Queue
<1> HIDE DEF b, p
<1>4. /\ Len(b \o p) = Len(b) + Len(p)
      /\ \A i \in 1..Len(b) : (b \o p)[i] = b[i]
      /\ \A i \in 1..Len(p) : (b \o p)[Len(b) + i] = p[i]
  BY <1>1, <1>2, QueueIs DEF b, p, IoTypeOK
<1>5. /\ Len(Queue) = Len(batch) + Len(pending)
      /\ \A i \in 1..Len(batch) : Queue[i] = batch[i]
      /\ \A i \in 1..Len(pending) : Queue[Len(batch) + i] = pending[i]
  BY QueueIs DEF Queue, IoTypeOK
<1>6. /\ Len(p) = Len(pending) + 1 /\ Len(b) = Len(batch) - 1
      /\ Len(batch) \in Nat /\ Len(pending) \in Nat /\ Len(b) \in Nat
      /\ Len(Queue') = Len(Queue)
  BY <1>1, <1>2, <1>3, <1>4, <1>5 DEF b, p, IoTypeOK
<1>7. ASSUME NEW i \in 1..(Len(Queue) - 1) PROVE Queue'[i] = Queue[i + 1]
  <2>1. CASE i <= Len(b)
    <3>1. i \in 1..Len(b) /\ i + 1 \in 1..Len(batch)
      BY <1>5, <1>6, <2>1
    <3>2. Queue'[i] = b[i]
      BY <1>3, <1>4, <3>1
    <3>3. b[i] = batch[i + 1]
      BY <1>1, <1>6, <3>1 DEF b
    <3> QED
      BY <1>5, <3>1, <3>2, <3>3
  <2>2. CASE i > Len(b)
    <3> DEFINE j == i - Len(b)
    <3>1. j \in 1..Len(pending) /\ i = Len(b) + j
      BY <1>5, <1>6, <2>2
    <3> HIDE DEF j
    <3>2. j \in 1..Len(p) /\ p[j] = pending[j] /\ i + 1 = Len(batch) + j
      BY <3>1, <1>2, <1>6 DEF p
    <3> QED
      BY <3>1, <3>2, <1>3, <1>4, <1>5
  <2> QED
    BY <2>1, <2>2, <1>6
<1>8. Queue'[Len(Queue')] = x
  <2>0. Len(Queue') = Len(b) + Len(p)
    BY <1>3, <1>4
  <2>1. Len(p) \in 1..Len(p)
    BY <1>6
  <2>2. p[Len(p)] = x
    BY <1>2, <1>6 DEF p
  <2> QED
    BY <2>0, <2>1, <2>2, <1>3, <1>4
<1> QED
  BY <1>1, <1>5, <1>6, <1>7, <1>8 DEF LeftAndJoined

-----------------------------------------------------------------------------
(* Type correctness.                                                       *)

LEMMA IoTypeInit == TimeoutInit => IoTypeOK
BY OpsAssumption DEF TimeoutInit, IoTypeOK, Ops, Over

\* Where the pieces of a chain leave the coroutines, the timers and the queue.
ChainTypeOK ==
  /\ op \in 0..MaxOps
  /\ pending \in Seq(Nat)
  /\ inner \in [Ops -> {"none", "fresh", "suspended"} \cup Over]
  /\ timer \in [Ops -> {"off", "armed", "due", "fired", "cancelled"}]
  /\ handle \in Ops \cup {Noop}
  /\ avail \in Nat /\ lost \in Nat

LEMMA CompleteType ==
  ASSUME IoTypeOK, NEW n \in Ops, NEW fired \in BOOLEAN, NEW h \in Ops \cup {Noop},
         Complete(n, fired, h)
  PROVE  /\ op' \in 0..MaxOps
         /\ pending' \in Seq(Nat)
         /\ inner' \in [Ops -> {"none", "fresh", "suspended"} \cup Over]
         /\ timer' \in [Ops -> {"off", "armed", "due", "fired", "cancelled"}]
         /\ handle' \in Ops \cup {Noop}
<1> DEFINE m == IF fired THEN [timer EXCEPT ![n] = "fired"] ELSE Cancelled(n)
           i == [inner EXCEPT ![n] = "done"]
<1>1. m \in [Ops -> {"off", "armed", "due", "fired", "cancelled"}]
  <2>1. CASE fired
    BY <2>1 DEF IoTypeOK
  <2>2. CASE ~fired
    BY <2>2 DEF IoTypeOK, Cancelled
  <2> QED
    BY <2>1, <2>2
<1>2. i \in [Ops -> {"none", "fresh", "suspended"} \cup Over]
  BY DEF IoTypeOK, Over
<1>3. (n < MaxOps /\ Issue(n + 1, i, m) /\ handle' = h)
        \/ (n >= MaxOps /\ inner' = i /\ timer' = m /\ handle' = Noop /\ UNCHANGED <<op, pending>>)
  BY OpsAssumption DEF Complete, Ops
<1> HIDE DEF m, i
<1>4. CASE n < MaxOps /\ Issue(n + 1, i, m) /\ handle' = h
  <2>1. n + 1 \in Ops /\ n + 1 \in Nat
    BY <1>4, OpsAssumption DEF Ops
  <2>2. op' = n + 1 /\ inner' = [i EXCEPT ![n + 1] = "fresh"] /\ timer' = [m EXCEPT ![n + 1] = "armed"]
        /\ pending' = Append(pending, n + 1)
    BY <1>4 DEF Issue
  <2>3. pending' \in Seq(Nat)
    BY <2>1, <2>2, AppendProperties DEF IoTypeOK
  <2>4. inner' \in [Ops -> {"none", "fresh", "suspended"} \cup Over]
    BY <1>2, <2>2
  <2>5. timer' \in [Ops -> {"off", "armed", "due", "fired", "cancelled"}]
    BY <1>1, <2>2
  <2> QED
    BY <1>4, <2>1, <2>2, <2>3, <2>4, <2>5 DEF Ops
<1>5. CASE n >= MaxOps /\ inner' = i /\ timer' = m /\ handle' = Noop /\ UNCHANGED <<op, pending>>
  BY <1>1, <1>2, <1>5 DEF IoTypeOK
<1> QED
  BY <1>3, <1>4, <1>5

LEMMA ListenType ==
  ASSUME IoTypeOK, NEW n \in Ops, NEW h \in Ops \cup {Noop}, Listen(n, h)
  PROVE  /\ op' \in 0..MaxOps
         /\ inner' \in [Ops -> {"none", "fresh", "suspended"} \cup Over]
         /\ handle' \in Ops \cup {Noop}
BY DEF IoTypeOK, Listen

LEMMA FiredType ==
  ASSUME IoTypeOK, NEW n \in Ops, NEW fired \in BOOLEAN, Fired(n, fired)
  PROVE  timer' \in [Ops -> {"off", "armed", "due", "fired", "cancelled"}]
BY DEF IoTypeOK, Fired

LEMMA TakeType ==
  ASSUME IoTypeOK, NEW k, Take(k)
  PROVE  avail' \in Nat /\ k \in Nat /\ lost + k \in Nat
BY DEF IoTypeOK, Take

LEMMA StartInnerType ==
  ASSUME IoTypeOK, NEW n \in Ops, NEW fired \in BOOLEAN, NEW h \in Ops \cup {Noop},
         StartInner(n, fired, h)
  PROVE  ChainTypeOK'
<1>0. IoTypeOK
  OBVIOUS
<1>1. CASE StartRead(n, fired, h)
  <2>1. CASE Listen(n, h) /\ Fired(n, fired) /\ UNCHANGED <<pending, avail, kept, lost>>
    BY <2>1, ListenType, FiredType DEF ChainTypeOK, IoTypeOK
  <2>2. CASE (\E k \in 1..avail : Take(k) /\ lost' = IF fired THEN lost + k ELSE lost) /\ Complete(n, fired, h)
    <3>1. avail' \in Nat /\ lost' \in Nat
      BY <2>2, TakeType DEF IoTypeOK
    <3> QED
      BY <2>2, <3>1, CompleteType DEF ChainTypeOK
  <2> QED
    BY <1>1, <2>1, <2>2 DEF StartRead
<1>2. CASE StartRecvFrom(n, fired, h)
  <2>1. Listen(n, h) /\ Fired(n, fired) /\ UNCHANGED <<pending, lost>> /\ (Take(1) \/ UNCHANGED avail)
    BY <1>2 DEF StartRecvFrom
  <2>2. avail' \in Nat
    BY <2>1, TakeType DEF IoTypeOK
  <2> QED
    BY <2>1, <2>2, ListenType, FiredType DEF ChainTypeOK, IoTypeOK
<1>3. CASE StartAsyncRead(n, fired, h)
  BY <1>3, ListenType, FiredType DEF StartAsyncRead, ChainTypeOK, IoTypeOK
<1>4. CASE StartTls(n, fired, h)
  <2>1. Helper(n) \in Nat
    BY OpsAssumption DEF Helper, Ops
  <2>2. pending' \in Seq(Nat)
    BY <1>4, <2>1, AppendProperties DEF StartTls, IoTypeOK
  <2>3. timer' \in [Ops -> {"off", "armed", "due", "fired", "cancelled"}]
    BY <1>4, FiredType DEF StartTls
  <2> QED
    BY <1>4, <2>2, <2>3 DEF StartTls, ChainTypeOK, IoTypeOK
<1> QED
  BY <1>1, <1>2, <1>3, <1>4 DEF StartInner

LEMMA ReadType ==
  ASSUME IoTypeOK, NEW n, ReadNothing(n) \/ ReadNow(n)
  PROVE  avail' \in Nat /\ lost' \in Nat
<1>1. CASE ReadNothing(n)
  BY <1>1 DEF ReadNothing, IoTypeOK
<1>2. CASE ReadNow(n)
  <2>1. avail' = avail \/ \E k \in 1..avail : Take(k)
    BY <1>2 DEF ReadNow
  <2> QED
    BY <1>2, <2>1, TakeType DEF ReadNow, IoTypeOK
<1> QED
  BY <1>1, <1>2

LEMMA HelperReadsType ==
  ASSUME IoTypeOK, NEW n \in Ops, HelperReads(n), UNCHANGED lost
  PROVE  ChainTypeOK'
<1>0. handle \in Ops \cup {Noop}
  BY DEF IoTypeOK
<1>1. CASE UNCHANGED <<registered, op, finished, pending, inner, timer, handle, queued, avail, failed>>
  BY <1>1 DEF ChainTypeOK, IoTypeOK
<1>2. CASE Listen(n, handle) /\ UNCHANGED <<pending, timer, avail>>
  BY <1>0, <1>2, ListenType DEF ChainTypeOK, IoTypeOK
<1>3. CASE (\E k \in 1..avail : Take(k)) /\ Complete(n, FALSE, handle)
  BY <1>0, <1>3, TakeType, CompleteType DEF ChainTypeOK, IoTypeOK
<1> QED
  BY <1>1, <1>2, <1>3 DEF HelperReads

\* The operations of the loop and of its environment that n is a parameter of.
LEMMA IoTypeOpStep ==
  ASSUME IoTypeOK, NEW n \in Ops,
         RunWrapper(n) \/ RunHelper(n) \/ FireTimer(n) \/ RunActive(n) \/ Expire(n)
  PROVE  IoTypeOK'
<1>0. handle \in Ops \cup {Noop} /\ FALSE \in BOOLEAN /\ TRUE \in BOOLEAN
  BY DEF IoTypeOK
<1>1. CASE RunWrapper(n)
  <2>1. Tail(batch) \in Seq(Nat)
    BY <1>1, HeadTailProperties DEF RunWrapper, IoTypeOK
  <2>2. ChainTypeOK'
    <3>1. CASE StartInner(n, FALSE, handle)
      BY <1>0, <3>1, StartInnerType
    <3>2. CASE ReadNothing(n) /\ Complete(n, FALSE, handle)
      BY <1>0, <3>2, ReadType, CompleteType DEF ChainTypeOK
    <3>3. CASE ResumeFinished
      BY <3>3 DEF ResumeFinished, ChainTypeOK, IoTypeOK
    <3> QED
      BY <1>1, <3>1, <3>2, <3>3 DEF RunWrapper
  <2> QED
    BY <1>1, <2>1, <2>2 DEF RunWrapper, ChainTypeOK, IoTypeOK
<1>2. CASE RunHelper(n)
  <2>1. Tail(batch) \in Seq(Nat)
    BY <1>2, HeadTailProperties DEF RunHelper, IoTypeOK
  <2>2. ChainTypeOK'
    BY <1>2, HelperReadsType DEF RunHelper
  <2> QED
    BY <1>2, <2>1, <2>2 DEF RunHelper, ChainTypeOK, IoTypeOK
<1>3. CASE FireTimer(n)
  <2>1. StopListening \in Ops \cup {Noop}
    BY DEF StopListening
  <2>2. ChainTypeOK'
    <3>1. CASE StartInner(n, TRUE, StopListening)
      BY <1>0, <2>1, <3>1, StartInnerType
    <3>2. CASE ReadNothing(n) /\ Complete(n, TRUE, StopListening)
      BY <1>0, <2>1, <3>2, ReadType, CompleteType DEF ChainTypeOK
    <3>3. CASE UNCHANGED <<registered, kept, op, finished, pending, inner, timer, handle, queued, avail, lost>>
      BY <3>3 DEF ChainTypeOK, IoTypeOK
    <3> QED
      BY <1>3, <3>1, <3>2, <3>3 DEF FireTimer, ResumeFinished
  <2> QED
    BY <1>3, <2>2 DEF FireTimer, ChainTypeOK, IoTypeOK
<1>4. CASE RunActive(n)
  <2>1. ChainTypeOK'
    <3>1. CASE HelperReads(n) /\ UNCHANGED lost
      BY <3>1, HelperReadsType
    <3>2. CASE (ReadNothing(n) \/ ReadNow(n)) /\ Complete(n, FALSE, handle)
      BY <1>0, <3>2, ReadType, CompleteType DEF ChainTypeOK
    <3>3. CASE ResumeFinished
      BY <3>3 DEF ResumeFinished, ChainTypeOK, IoTypeOK
    <3> QED
      BY <1>4, <3>1, <3>2, <3>3 DEF RunActive
  <2> QED
    BY <1>4, <2>1 DEF RunActive, ChainTypeOK, IoTypeOK
<1>5. CASE Expire(n)
  BY <1>5 DEF Expire, IoTypeOK
<1> QED
  BY <1>1, <1>2, <1>3, <1>4, <1>5

LEMMA IoTypePreserved ==
  ASSUME IoTypeOK, [TimeoutNext]_timeoutVars
  PROVE  IoTypeOK'
<1>1. CASE RunClient
  <2>1. Tail(batch) \in Seq(Nat) /\ Append(pending, 1) \in Seq(Nat)
    BY <1>1, HeadTailProperties, AppendProperties DEF RunClient, IoTypeOK
  <2>2. 1 \in Ops
    BY OpsAssumption DEF Ops
  <2> QED
    BY <1>1, <2>1, <2>2 DEF RunClient, Issue, IoTypeOK, Ops
<1>2. CASE EndPending \/ EndTimers \/ EndIo \/ PartArrives \/ UNCHANGED timeoutVars
  BY <1>2 DEF EndPending, EndTimers, EndIo, PartArrives, timeoutVars, IoTypeOK
<1>3. CASE WatchIo
  BY <1>3 DEF WatchIo, IoTypeOK
<1>4. CASE Reap
  BY <1>4 DEF Reap, IoTypeOK, Over
<1>5. CASE DataArrives
  BY <1>5 DEF DataArrives, IoTypeOK
<1> QED
  BY <1>1, <1>2, <1>3, <1>4, <1>5, IoTypeOpStep DEF TimeoutNext, Loop, Aborted

-----------------------------------------------------------------------------
(* Steps that leave every operation where it is.                           *)

Calm ==
  /\ UNCHANGED <<op, kind, registered, timedOut>>
  /\ \A n \in Ops : inner'[n] = inner[n] \/ {inner[n], inner'[n]} \subseteq Over
  /\ \A n \in Ops : timer'[n] = timer[n] \/ (timer[n] = "armed" /\ timer'[n] = "due")

LEMMA QueueLen ==
  ASSUME IoTypeOK
  PROVE  Queue \in Seq(Nat) /\ Len(Queue) \in Nat
BY ConcatProperties DEF Queue, IoTypeOK

LEMMA CalmOperation ==
  ASSUME IoTypeOK, OneOperation, Calm
  PROVE  OneOperation'
BY DEF OneOperation, Calm, Over

LEMMA CalmQueue ==
  ASSUME IoTypeOK, IoTypeOK', QueueInOrder, Calm, NEW k \in {0, 1}, Left(k),
         handle = Noop /\ active = Noop => handle' = Noop /\ active' = Noop
  PROVE  \A i \in 1..Len(Queue') : InPlace(i)'
<1> SUFFICES ASSUME NEW i \in 1..Len(Queue') PROVE InPlace(i)'
  OBVIOUS
<1>1. /\ Len(Queue) \in Nat /\ Len(Queue') \in Nat /\ Len(Queue') = Len(Queue) - k
      /\ i + k \in 1..Len(Queue) /\ Queue'[i] = Queue[i + k]
  BY QueueLen DEF Left
<1>2. InPlace(i + k)
  BY <1>1 DEF QueueInOrder
<1>3. op > 0 => op \in Ops
  BY DEF IoTypeOK, Ops
<1>4. CASE IsClient(i + k)
  BY <1>1, <1>4 DEF IsClient, InPlace, Calm
<1>5. CASE IsWrapper(i + k)
  BY <1>1, <1>3, <1>5 DEF IsWrapper, InPlace, Calm, Over
<1>6. CASE kind = "tls" /\ IsOverrun(i + k)
  <2>1. Len(Queue') \in 1..Len(Queue') /\ Queue'[Len(Queue')] = Queue[Len(Queue)]
    BY <1>1, <1>6 DEF IsOverrun, Left
  <2>2. IsOverrun(i)'
    BY <1>1, <1>3, <1>6, <2>1 DEF IsOverrun, Calm, Over, Helper
  <2> QED
    BY <1>6, <2>2 DEF InPlace, Calm
<1>7. CASE kind = "tls" /\ IsHelper(i + k)
  <2>1. IsHelper(i)'
    BY <1>1, <1>3, <1>7 DEF IsHelper, Calm, Over, Helper
  <2> QED
    BY <1>7, <2>1 DEF InPlace, Calm
<1>8. CASE kind = "tls" /\ IsStale(i + k)
  <2>1. IsStale(i)'
    BY <1>1, <1>8 DEF IsStale, Calm, Helper
  <2> QED
    BY <1>8, <2>1 DEF InPlace, Calm
<1> QED
  BY <1>2, <1>4, <1>5, <1>6, <1>7, <1>8 DEF InPlace

LEMMA ReapQueue ==
  ASSUME IoTypeOK, batch = <<>>, batch' = pending, pending' = <<>>
  PROVE  Left(0)
<1>1. Queue = pending /\ Queue' = pending
  BY ConcatEmptySeq DEF Queue, IoTypeOK
<1> QED
  BY <1>1 DEF Left, IoTypeOK

\* The phases of the loop and the environment.
LEMMA CalmStep ==
  ASSUME IoTypeOK, IoTypeOK', Sound,
         \/ EndPending \/ EndTimers \/ WatchIo \/ EndIo \/ Reap \/ DataArrives \/ PartArrives
         \/ (\E n \in Ops : Expire(n)) \/ UNCHANGED timeoutVars
  PROVE  Sound'
<1>0. Noop \notin Ops
  BY OpsAssumption DEF Ops
<1>1. /\ Calm
      /\ handle = Noop /\ active = Noop => handle' = Noop /\ active' = Noop
  <2>1. CASE EndPending \/ EndTimers \/ EndIo \/ DataArrives \/ PartArrives \/ UNCHANGED timeoutVars
    BY <2>1 DEF EndPending, EndTimers, EndIo, DataArrives, PartArrives, timeoutVars, Calm
  <2>2. CASE WatchIo
    BY <2>2 DEF WatchIo, Calm
  <2>3. CASE Reap
    BY <2>3 DEF Reap, Calm, IoTypeOK, Over
  <2>4. ASSUME NEW n \in Ops, Expire(n) PROVE Calm /\ UNCHANGED <<handle, active>>
    BY <2>4 DEF Expire, Calm, IoTypeOK
  <2> QED
    BY <2>1, <2>2, <2>3, <2>4
<1>2. Left(0)
  <2>1. CASE Reap
    BY <2>1, ReapQueue DEF Reap, Sound, QueueInOrder
  <2>2. CASE UNCHANGED <<batch, pending>>
    BY <2>2, QueueSame
  <2> QED
    BY <2>1, <2>2 DEF EndPending, EndTimers, WatchIo, EndIo, DataArrives, PartArrives, Expire, timeoutVars
<1>3. \A i \in 1..Len(Queue') : InPlace(i)'
  BY <1>1, <1>2, CalmQueue DEF Sound
<1>4. OneOperation'
  BY <1>1, CalmOperation DEF Sound
<1>5. CASE EndPending \/ EndTimers \/ EndIo \/ UNCHANGED timeoutVars
  BY <1>3, <1>4, <1>5
  DEF EndPending, EndTimers, EndIo, timeoutVars, Sound, QueueInOrder, OneWaiter, EdgeToCome,
      NothingLost, Live
<1>6. CASE DataArrives \/ PartArrives
  BY <1>3, <1>4, <1>6
  DEF DataArrives, PartArrives, Sound, QueueInOrder, OneWaiter, EdgeToCome, NothingLost, Live
<1>7. CASE WatchIo
  <2>1. OneWaiter'
    BY <1>0, <1>7 DEF WatchIo, Sound, OneWaiter, Live, IoTypeOK
  <2>2. EdgeToCome'
    BY <1>7 DEF WatchIo, Sound, EdgeToCome
  <2> QED
    BY <1>3, <1>4, <1>7, <2>1, <2>2 DEF WatchIo, Sound, QueueInOrder, NothingLost, Live
<1>8. CASE Reap
  <2>1. OneWaiter'
    BY <1>0, <1>8 DEF Reap, Sound, OneWaiter, IoTypeOK
  <2> QED
    BY <1>3, <1>4, <1>8, <2>1 DEF Reap, Sound, QueueInOrder, EdgeToCome, NothingLost, Live
<1>9. ASSUME NEW n \in Ops, Expire(n) PROVE Sound'
  BY <1>3, <1>4, <1>9
  DEF Expire, Sound, QueueInOrder, OneWaiter, EdgeToCome, NothingLost, Live
<1> QED
  BY <1>5, <1>6, <1>7, <1>8, <1>9

-----------------------------------------------------------------------------
(* The end of an operation.                                                *)

\* The present operation is over and the next one, if any, is issued.
Advance ==
  /\ op \in Ops /\ op' \in Ops
  /\ (op' = op /\ op = MaxOps) \/ op' = op + 1
  /\ \A m \in Ops : inner'[m] = IF m = op THEN "done" ELSE IF m = op' THEN "fresh" ELSE inner[m]
  /\ \A m \in Ops : timer'[m] \in {"armed", "due"} => m # op /\ (m = op' \/ timer[m] \in {"armed", "due"})

LEMMA CompleteAdvances ==
  ASSUME IoTypeOK, op \in Ops, NEW fired \in BOOLEAN, NEW h, Complete(op, fired, h)
  PROVE  /\ Advance
         /\ handle' \in {h, Noop}
         /\ (op' = op /\ UNCHANGED pending) \/ (op' = op + 1 /\ pending' = Append(pending, op'))
<1> DEFINE m == IF fired THEN [timer EXCEPT ![op] = "fired"] ELSE Cancelled(op)
           i == [inner EXCEPT ![op] = "done"]
<1>1. /\ m \in [Ops -> {"off", "armed", "due", "fired", "cancelled"}]
      /\ m[op] \notin {"armed", "due"} /\ \A n \in Ops : n # op => m[n] = timer[n]
  <2>1. CASE fired
    BY <2>1 DEF IoTypeOK
  <2>2. CASE ~fired
    BY <2>2 DEF IoTypeOK, Cancelled
  <2> QED
    BY <2>1, <2>2
<1>2. /\ i \in [Ops -> {"none", "fresh", "suspended"} \cup Over]
      /\ i[op] = "done" /\ \A n \in Ops : n # op => i[n] = inner[n]
  BY DEF IoTypeOK, Over
<1>3. \/ op < MaxOps /\ Issue(op + 1, i, m) /\ handle' = h
      \/ op = MaxOps /\ inner' = i /\ timer' = m /\ handle' = Noop /\ UNCHANGED <<op, pending>>
  BY OpsAssumption DEF Complete, Ops
<1> HIDE DEF m, i
<1>4. CASE op < MaxOps /\ Issue(op + 1, i, m) /\ handle' = h
  <2>1. op + 1 \in Ops /\ op + 1 # op
    BY <1>4, OpsAssumption DEF Ops
  <2>2. /\ op' = op + 1 /\ pending' = Append(pending, op')
        /\ inner' = [i EXCEPT ![op + 1] = "fresh"] /\ timer' = [m EXCEPT ![op + 1] = "armed"]
    BY <1>4 DEF Issue
  <2>3. \A n \in Ops : inner'[n] = IF n = op THEN "done" ELSE IF n = op' THEN "fresh" ELSE inner[n]
    BY <1>2, <2>1, <2>2
  <2>4. \A n \in Ops : timer'[n] \in {"armed", "due"} => n # op /\ (n = op' \/ timer[n] \in {"armed", "due"})
    BY <1>1, <2>1, <2>2
  <2> QED
    BY <1>4, <2>1, <2>2, <2>3, <2>4 DEF Advance
<1>5. CASE op = MaxOps /\ inner' = i /\ timer' = m /\ handle' = Noop /\ UNCHANGED <<op, pending>>
  <2>1. \A n \in Ops : inner'[n] = IF n = op THEN "done" ELSE IF n = op' THEN "fresh" ELSE inner[n]
    BY <1>2, <1>5
  <2>2. \A n \in Ops : timer'[n] \in {"armed", "due"} => n # op /\ (n = op' \/ timer[n] \in {"armed", "due"})
    BY <1>1, <1>5
  <2> QED
    BY <1>5, <2>1, <2>2 DEF Advance
<1> QED
  BY <1>3, <1>4, <1>5

LEMMA AdvanceOperation ==
  ASSUME IoTypeOK, OneOperation, Advance, UNCHANGED <<kind, registered>>,
         \A m \in Ops : timedOut'[m] => timedOut[m] \/ m = op
  PROVE  OneOperation'
<1> SUFFICES ASSUME NEW n \in Ops
             PROVE  /\ n < op' => inner'[n] \in Over
                    /\ n = op' => inner'[n] # "none" /\ (inner'[n] \in Over => n = MaxOps)
                    /\ n > op' => inner'[n] = "none"
                    /\ timer'[n] \in {"armed", "due"} => n = op' /\ inner'[n] \in {"fresh", "suspended"}
                    /\ kind' # "tls" /\ timedOut'[n] => inner'[n] \in Over
                    /\ inner'[n] = "suspended" => registered'
  BY DEF OneOperation
<1>1. op \in Nat /\ op' \in Nat /\ n \in Nat
  BY OpsAssumption DEF Advance, Ops
<1>2. CASE n = op
  BY <1>1, <1>2 DEF Advance, OneOperation, Over
<1>3. CASE n # op /\ n = op'
  BY <1>1, <1>3 DEF Advance, OneOperation, Over
<1>4. CASE n # op /\ n # op'
  BY <1>1, <1>4 DEF Advance, OneOperation, Over
<1> QED
  BY <1>2, <1>3, <1>4

\* Once the present operation is over, nothing but its helper may be in the
\* queue before the next wrapper.
OverAfter(k) ==
  \A i \in 1..Len(Queue) : i > k => kind = "tls" /\ (IsStale(i) \/ Queue[i] = Helper(op))

LEMMA AdvanceQueue ==
  ASSUME IoTypeOK, OneOperation, Advance, UNCHANGED kind,
         NEW k \in {0, 1}, OverAfter(k), k <= Len(Queue),
         \/ op' = op /\ Left(k)
         \/ op' = op + 1 /\ LeftAndJoined(k, op')
  PROVE  \A i \in 1..Len(Queue') : InPlace(i)'
<1> SUFFICES ASSUME NEW i \in 1..Len(Queue') PROVE InPlace(i)'
  OBVIOUS
<1>0. Len(Queue) \in Nat
  BY QueueLen
<1>1. ASSUME i + k \in 1..Len(Queue), Queue'[i] = Queue[i + k] PROVE InPlace(i)'
  <2>1. i + k > k
    BY <1>0, <1>1
  <2>2. kind = "tls" /\ (IsStale(i + k) \/ Queue[i + k] = Helper(op))
    BY <1>1, <2>1 DEF OverAfter
  <2>3. PICK m \in Ops : Queue[i + k] = Helper(m) /\ inner'[m] \in Over
    <3>1. op \in Ops /\ inner'[op] \in Over
      BY DEF Advance, Over
    <3>2. ASSUME NEW m \in Ops, inner[m] \in Over PROVE inner'[m] \in Over
      <4>1. m # op => m # op'
        BY <3>2, OpsAssumption DEF Advance, OneOperation, Over, Ops
      <4> QED
        BY <3>1, <3>2, <4>1 DEF Advance
    <3> QED
      BY <2>2, <3>1, <3>2 DEF IsStale
  <2>4. IsStale(i)'
    BY <1>1, <2>3 DEF IsStale, Helper
  <2> QED
    BY <2>2, <2>4 DEF InPlace
<1>2. CASE op' = op /\ Left(k)
  BY <1>0, <1>1, <1>2 DEF Left
<1>3. CASE op' = op + 1 /\ LeftAndJoined(k, op')
  <2>1. CASE i <= Len(Queue) - k
    BY <1>0, <1>1, <1>3, <2>1 DEF LeftAndJoined
  <2>2. CASE i > Len(Queue) - k
    <3>1. i = Len(Queue') /\ Queue'[i] = op'
      BY <1>0, <1>3, <2>2 DEF LeftAndJoined
    <3>2. op' > 0 /\ inner'[op'] = "fresh"
      BY <1>3, OpsAssumption DEF Advance, Ops
    <3> QED
      BY <3>1, <3>2 DEF InPlace, IsWrapper
  <2> QED
    BY <2>1, <2>2, <1>0
<1> QED
  BY <1>2, <1>3

\* What a chain that ends the present operation makes of it all.
LEMMA AdvanceSound ==
  ASSUME IoTypeOK, Sound, op \in Ops, NEW fired \in BOOLEAN, Complete(op, fired, Noop),
         NEW k \in {0, 1}, OverAfter(k),
         (k = 0 /\ UNCHANGED batch) \/ (k = 1 /\ batch # <<>> /\ batch' = Tail(batch)),
         phase' = phase, UNCHANGED <<kind, registered, failed>>, active' = Noop,
         \A m \in Ops : timedOut'[m] => timedOut[m] \/ m = op,
         kind # "udp" => kept' = {} /\ lost' = 0
  PROVE  Sound'
<1>1. /\ Advance /\ handle' = Noop
      /\ (op' = op /\ UNCHANGED pending) \/ (op' = op + 1 /\ pending' = Append(pending, op'))
  BY CompleteAdvances
<1>2. op' \in Nat
  BY <1>1, OpsAssumption DEF Advance, Ops
<1>3. k <= Len(Queue) /\ (\/ op' = op /\ Left(k)
                          \/ op' = op + 1 /\ LeftAndJoined(k, op'))
  <2>1. CASE k = 0
    <3>1. op' = op /\ UNCHANGED pending => Left(0)
      BY <2>1, QueueSame
    <3>2. op' = op + 1 /\ pending' = Append(pending, op') => LeftAndJoined(0, op')
      BY <1>2, <2>1, QueuePush
    <3> QED
      BY <1>1, <2>1, <3>1, <3>2, QueueLen
  <2>2. CASE k = 1
    BY <1>1, <1>2, <2>2, QueuePop, QueuePopPush
  <2> QED
    BY <2>1, <2>2
<1>4. \A i \in 1..Len(Queue') : InPlace(i)'
  BY <1>1, <1>3, AdvanceQueue DEF Sound
<1>5. phase' # "pending" => batch' = <<>>
  BY DEF Sound, QueueInOrder
<1>6. OneOperation'
  BY <1>1, AdvanceOperation DEF Sound
<1>7. OneWaiter'
  BY <1>1, OpsAssumption DEF Sound, OneWaiter, Ops
<1>8. EdgeToCome' /\ NothingLost' /\ Live'
  BY <1>1 DEF Sound, EdgeToCome, NothingLost, Live
<1> QED
  BY <1>4, <1>5, <1>6, <1>7, <1>8 DEF Sound, QueueInOrder

-----------------------------------------------------------------------------
(* The inner coroutine of the present operation waits.                     *)

LEMMA SuspendOperation ==
  ASSUME IoTypeOK, OneOperation, op \in Ops, inner[op] \notin Over,
         UNCHANGED <<op, kind>>, inner' = [inner EXCEPT ![op] = "suspended"], registered',
         \A m \in Ops : timer'[m] \in {"armed", "due"} => timer[m] \in {"armed", "due"},
         kind = "tls" \/ UNCHANGED timedOut
  PROVE  OneOperation'
<1>1. \A m \in Ops : inner'[m] = IF m = op THEN "suspended" ELSE inner[m]
  BY DEF IoTypeOK
<1> SUFFICES ASSUME NEW n \in Ops
             PROVE  /\ n < op' => inner'[n] \in Over
                    /\ n = op' => inner'[n] # "none" /\ (inner'[n] \in Over => n = MaxOps)
                    /\ n > op' => inner'[n] = "none"
                    /\ timer'[n] \in {"armed", "due"} => n = op' /\ inner'[n] \in {"fresh", "suspended"}
                    /\ kind' # "tls" /\ timedOut'[n] => inner'[n] \in Over
                    /\ inner'[n] = "suspended" => registered'
  BY DEF OneOperation
<1>2. op \in Nat /\ n \in Nat
  BY OpsAssumption DEF Ops
<1>3. CASE n = op
  BY <1>1, <1>2, <1>3 DEF OneOperation, Over
<1>4. CASE n # op
  BY <1>1, <1>2, <1>4 DEF OneOperation, Over
<1> QED
  BY <1>3, <1>4

\* An operation that runs for the first time is alone in the queue.
LEMMA FreshAlone ==
  ASSUME IoTypeOK, Sound, NEW n \in Ops, Len(Queue) >= 1, Queue[1] = n
  PROVE  /\ n = op
         /\ \/ inner[n] = "fresh" /\ Len(Queue) = 1 /\ handle = Noop /\ active = Noop
            \/ /\ kind = "tls" /\ inner[n] = "suspended" /\ timer[n] = "fired"
               /\ Len(Queue) = 2 /\ Queue[2] = Helper(n) /\ handle = Noop /\ active = Noop
<1>1. Len(Queue) \in Nat
  BY QueueLen
<1>2. InPlace(1)
  BY <1>1 DEF Sound, QueueInOrder
<1>3. \A m \in Ops : Helper(m) \in Nat /\ n # Helper(m) /\ n \in Nat /\ n > 0
  BY OpsAssumption DEF Ops, Helper
<1>4. op > 0 => op \in Ops
  BY DEF IoTypeOK, Ops
<1>5. CASE IsWrapper(1)
  <2>1. n = op /\ inner[n] = "fresh" /\ Len(Queue) = 1
    BY <1>5 DEF IsWrapper
  <2>2. n \notin {handle, active}
    BY <2>1 DEF Sound, OneWaiter
  <2>3. handle = Noop /\ active = Noop
    BY <2>1, <2>2 DEF Sound, OneWaiter, IoTypeOK
  <2> QED
    BY <2>1, <2>3
<1>6. CASE kind = "tls" /\ IsOverrun(1)
  <2>1. n = op /\ inner[n] = "suspended" /\ timer[n] = "fired" /\ Len(Queue) = 2 /\ Queue[2] = Helper(n)
    <3>1. n = op /\ inner[n] = "suspended" /\ timer[n] = "fired"
          /\ 1 + 1 = Len(Queue) /\ Queue[Len(Queue)] = Helper(n)
      BY <1>6 DEF IsOverrun
    <3>2. Len(Queue) = 2
      BY <3>1
    <3> QED
      BY <3>1, <3>2, Zenon
  <2>2. InPlace(2) /\ Helper(n) \in Nat /\ Helper(n) # n /\ Helper(n) # 0
    BY <1>3, <2>1, OpsAssumption DEF Sound, QueueInOrder, Helper, Ops
  <2>3. ~IsClient(2) /\ ~IsWrapper(2) /\ ~IsOverrun(2)
    BY <2>1, <2>2 DEF IsClient, IsWrapper, IsOverrun
  <2>4. ~IsStale(2)
    <3>1. \A m \in Ops : Helper(m) = Helper(n) => m = n
      BY OpsAssumption DEF Helper, Ops
    <3> QED
      BY <2>1, <3>1 DEF IsStale, Over
  <2>5. handle = Noop /\ active = Noop
    BY <2>2, <2>3, <2>4 DEF InPlace, IsHelper
  <2> QED
    BY <1>6, <2>1, <2>5
<1>7. ~IsClient(1) /\ ~IsStale(1)
  BY <1>3 DEF IsClient, IsStale
<1>8. ~IsHelper(1)
  BY <1>3, <1>4 DEF IsHelper
<1> QED
  BY <1>2, <1>5, <1>6, <1>7, <1>8 DEF InPlace

\* Whoever waits for the descriptor, or is about to be resumed, has nothing left
\* in the queue.
LEMMA WaiterNotQueued ==
  ASSUME IoTypeOK, Sound, op \in Ops, inner[op] = "suspended", handle # Noop \/ active # Noop,
         NEW i \in 1..Len(Queue)
  PROVE  kind = "tls" /\ IsStale(i)
<1>1. Len(Queue) \in Nat
  BY QueueLen
<1>2. InPlace(i)
  BY DEF Sound, QueueInOrder
<1>3. ~IsClient(i) /\ ~IsWrapper(i) /\ ~IsHelper(i)
  BY OpsAssumption DEF IsClient, IsWrapper, IsHelper, Ops
<1>4. CASE IsOverrun(i)
  <2> DEFINE l == Len(Queue)
  <2>1. l \in 1..Len(Queue) /\ Queue[l] = Helper(op)
    BY <1>1, <1>4 DEF IsOverrun
  <2>2. InPlace(l)
    BY <2>1 DEF Sound, QueueInOrder
  <2>3. \A m \in Ops : Helper(m) \in Nat /\ Helper(m) # op /\ Helper(m) # 0 /\ (Helper(m) = Helper(op) => m = op)
    BY OpsAssumption DEF Helper, Ops
  <2>4. ~IsClient(l) /\ ~IsWrapper(l) /\ ~IsOverrun(l) /\ ~IsHelper(l)
    BY <1>1, <2>1, <2>3 DEF IsClient, IsWrapper, IsOverrun, IsHelper
  <2>5. ~IsStale(l)
    BY <2>1, <2>3 DEF IsStale, Over
  <2> QED
    BY <2>2, <2>4, <2>5 DEF InPlace
<1> QED
  BY <1>2, <1>3, <1>4 DEF InPlace

\* The wrapper starts the inner coroutine, which listens.
LEMMA ListenSound ==
  ASSUME IoTypeOK, Sound, op \in Ops, inner[op] \notin Over, Listen(op, Noop),
         \A i \in 1..Len(Queue') : InPlace(i)', phase' # "pending" => batch' = <<>>,
         UNCHANGED <<kind, timedOut>>, active' = Noop,
         \A m \in Ops : timer'[m] \in {"armed", "due"} => timer[m] \in {"armed", "due"},
         kind # "udp" => kept' = {} /\ lost' = 0,
         kind \notin {"udp", "pipe"} => avail' = 0
  PROVE  Sound'
<1>1. /\ handle' = op /\ UNCHANGED <<op, failed>> /\ registered' = TRUE
      /\ inner' = [inner EXCEPT ![op] = "suspended"]
  BY DEF Listen
<1>2. OneOperation'
  BY <1>1, SuspendOperation DEF Sound
<1>3. OneWaiter'
  BY <1>1, OpsAssumption DEF OneWaiter, IoTypeOK, Ops
<1>4. EdgeToCome' /\ NothingLost' /\ Live'
  BY <1>1 DEF Sound, EdgeToCome, NothingLost, Live
<1> QED
  BY <1>2, <1>3, <1>4 DEF Sound, QueueInOrder

\* The helper that was spawned is in its place.
LEMMA HelperInPlace ==
  ASSUME IoTypeOK, op \in Ops, UNCHANGED <<op, kind>>, kind = "tls",
         inner' = [inner EXCEPT ![op] = "suspended"], handle' = Noop, active' = Noop,
         Queue'[Len(Queue')] = Helper(op)
  PROVE  InPlace(Len(Queue))'
<1>1. op > 0 /\ inner'[op'] = "suspended" /\ Helper(op)' = Helper(op)
  BY OpsAssumption DEF IoTypeOK, Ops, Helper
<1> QED
  BY <1>1 DEF InPlace, IsHelper

-----------------------------------------------------------------------------
(* The steps of an operation.                                              *)

LEMMA RunClientSound ==
  ASSUME IoTypeOK, Sound, RunClient
  PROVE  Sound'
<1>1. /\ op' = 1 /\ 1 \in Ops
      /\ inner' = [inner EXCEPT ![1] = "fresh"] /\ timer' = [timer EXCEPT ![1] = "armed"]
      /\ batch # <<>> /\ batch' = Tail(batch) /\ pending' = Append(pending, 1)
      /\ Head(batch) = 0 /\ phase = "pending"
  BY OpsAssumption DEF RunClient, Issue, Ops
<1>2. LeftAndJoined(1, 1) /\ Len(Queue) >= 1 /\ Queue[1] = 0
  BY <1>1, QueuePopPush
<1>3. Len(Queue) = 1 /\ op = 0
  <2>1. InPlace(1)
    BY <1>2, QueueLen DEF Sound, QueueInOrder
  <2>2. \A m \in Ops : Helper(m) # 0
    BY OpsAssumption DEF Helper, Ops
  <2>3. op > 0 => op \in Ops
    BY DEF IoTypeOK, Ops
  <2>4. ~IsWrapper(1) /\ ~IsOverrun(1) /\ ~IsHelper(1) /\ ~IsStale(1)
    BY <1>2, <2>2, <2>3 DEF IsWrapper, IsOverrun, IsHelper, IsStale
  <2> QED
    BY <2>1, <2>4 DEF InPlace, IsClient
<1>4. Len(Queue') = 1 /\ Queue'[1] = 1
  BY <1>2, <1>3 DEF LeftAndJoined
<1>5. inner'[1] = "fresh"
  BY <1>1 DEF IoTypeOK
<1>6. \A i \in 1..Len(Queue') : InPlace(i)'
  BY <1>1, <1>4, <1>5 DEF InPlace, IsWrapper
<1>7. handle = Noop /\ active = Noop
  <2>1. \A n \in Ops : n # op
    BY <1>3, OpsAssumption DEF Ops
  <2> QED
    BY <2>1 DEF Sound, OneWaiter, IoTypeOK
<1>8. OneOperation'
  <2>1. \A n \in Ops : n \in Nat /\ n >= 1
    BY OpsAssumption DEF Ops
  <2>2. \A n \in Ops : inner'[n] = IF n = 1 THEN "fresh" ELSE inner[n]
    BY <1>1 DEF IoTypeOK
  <2>3. \A n \in Ops : timer'[n] = IF n = 1 THEN "armed" ELSE timer[n]
    BY <1>1 DEF IoTypeOK
  <2>4. \A n \in Ops : inner[n] = "none" /\ timer[n] \notin {"armed", "due"}
    BY <1>3, <2>1 DEF Sound, OneOperation
  <2>5. UNCHANGED <<kind, timedOut, registered>>
    BY DEF RunClient
  <2>6. \A n \in Ops : kind = "tls" \/ ~timedOut[n]
    BY <2>4 DEF Sound, OneOperation, Over
  <2> QED
    BY <1>1, <2>1, <2>2, <2>3, <2>4, <2>5, <2>6 DEF OneOperation, Over
<1>9. OneWaiter' /\ EdgeToCome' /\ NothingLost' /\ Live'
  BY <1>7, OpsAssumption DEF RunClient, Sound, OneWaiter, EdgeToCome, NothingLost, Live, Ops
<1> QED
  BY <1>1, <1>6, <1>8, <1>9 DEF RunClient, Sound, QueueInOrder

LEMMA RunWrapperSound ==
  ASSUME IoTypeOK, Sound, NEW n \in Ops, RunWrapper(n)
  PROVE  Sound'
<1>1. /\ batch # <<>> /\ batch' = Tail(batch) /\ Head(batch) = n
      /\ UNCHANGED <<kind, phase, timedOut, active>> /\ phase = "pending"
  BY DEF RunWrapper
<1>2. Len(Queue) >= 1 /\ Queue[1] = n
  <2>1. Queue[1] = batch[1] /\ Len(Queue) = Len(batch) + Len(pending) /\ Len(batch) >= 1
    BY <1>1, QueueIs, EmptySeq DEF Queue, IoTypeOK
  <2> QED
    BY <1>1, <2>1, QueueLen DEF IoTypeOK
<1>3. /\ n = op /\ handle = Noop /\ active = Noop
      /\ \/ inner[n] = "fresh" /\ Len(Queue) = 1
         \/ /\ kind = "tls" /\ inner[n] = "suspended"
            /\ Len(Queue) = 2 /\ Queue[2] = Helper(n)
  BY <1>2, FreshAlone
<1>4. CASE inner[n] = "fresh"
  <2>1. StartInner(n, FALSE, Noop) /\ Len(Queue) = 1
    BY <1>3, <1>4 DEF RunWrapper
  <2>2. UNCHANGED pending => Len(Queue') = 0
    BY <1>1, <2>1, QueuePop DEF Left
  <2>3. CASE Listen(n, Noop) /\ Fired(n, FALSE) /\ UNCHANGED <<pending, lost>>
             /\ (kind # "udp" => UNCHANGED kept) /\ (kind = "tcp" => WouldBlock /\ UNCHANGED avail)
             /\ kind \in {"tcp", "udp", "pipe"}
    <3>1. \A i \in 1..Len(Queue') : InPlace(i)'
      BY <2>2, <2>3
    <3>2. timer' = timer
      BY <2>3 DEF Fired
    <3>3. kind # "udp" => kept' = {} /\ lost' = 0
      BY <2>3 DEF Sound, NothingLost
    <3>4. kind \notin {"udp", "pipe"} => avail' = 0
      BY <2>3 DEF WouldBlock
    <3>5. op \in Ops /\ inner[op] \notin Over /\ Listen(op, Noop)
      BY <1>3, <1>4, <2>3 DEF Over
    <3> QED
      BY <1>1, <1>3, <3>1, <3>2, <3>3, <3>4, <3>5, ListenSound
  <2>4. CASE Complete(n, FALSE, Noop) /\ WatcherKept /\ UNCHANGED <<kept, lost>> /\ kind = "tcp"
    <3>1. OverAfter(1)
      BY <2>1 DEF OverAfter
    <3>2. UNCHANGED <<registered, failed>> /\ kept' = {} /\ lost' = 0
      BY <2>4 DEF WatcherKept, Sound, NothingLost
    <3> QED
      BY <1>1, <1>3, <2>4, <3>1, <3>2, AdvanceSound
  <2>5. CASE StartTls(n, FALSE, Noop)
    <3>1. /\ pending' = Append(pending, Helper(n)) /\ inner' = [inner EXCEPT ![n] = "suspended"]
          /\ timer' = timer /\ handle' = Noop /\ kind = "tls"
          /\ UNCHANGED <<registered, queued, failed, op, avail, kept, lost>>
      BY <2>5 DEF StartTls, Fired, WatcherKept
    <3>2. Helper(n) \in Nat
      BY OpsAssumption DEF Helper, Ops
    <3>3. Len(Queue') = 1 /\ Queue'[Len(Queue')] = Helper(op)
      BY <1>1, <1>3, <2>1, <3>1, <3>2, QueuePopPush DEF LeftAndJoined
    <3>4. InPlace(Len(Queue))'
      BY <1>1, <1>3, <3>1, <3>3, HelperInPlace
    <3>5. \A i \in 1..Len(Queue') : InPlace(i)'
      BY <3>3, <3>4
    <3>6. OneOperation'
      BY <1>1, <1>3, <1>4, <3>1, SuspendOperation DEF Sound, OneWaiter, Over
    <3>7. OneWaiter' /\ EdgeToCome' /\ NothingLost' /\ Live'
      BY <1>1, <1>3, <3>1, OpsAssumption DEF Sound, OneWaiter, EdgeToCome, NothingLost, Live, Ops
    <3> QED
      BY <1>1, <3>5, <3>6, <3>7 DEF Sound, QueueInOrder
  <2> QED
    BY <2>1, <2>3, <2>4, <2>5 DEF StartInner, StartRead, StartRecvFrom, StartAsyncRead
<1>5. CASE kind = "tls" /\ inner[n] = "suspended" /\ Len(Queue) = 2 /\ Queue[2] = Helper(n)
  <2>1. ReadNothing(n) /\ Complete(n, FALSE, Noop) /\ WatcherKept /\ UNCHANGED kept
    BY <1>3, <1>5 DEF RunWrapper
  <2>2. OverAfter(1)
    BY <1>3, <1>5 DEF OverAfter
  <2>3. UNCHANGED <<registered, failed>> /\ kept' = {} /\ lost' = 0
    BY <1>5, <2>1 DEF ReadNothing, WatcherKept, Sound, NothingLost
  <2> QED
    BY <1>1, <1>3, <2>1, <2>2, <2>3, AdvanceSound
<1> QED
  BY <1>3, <1>4, <1>5

\* The helper, when it first runs or the watcher resumes it, with its reader
\* waiting.
LEMMA HelperReadsSound ==
  ASSUME IoTypeOK, Sound, op \in Ops, inner[op] = "suspended", HelperReads(op), kind = "tls",
         handle = Noop, active' = Noop, phase' = phase, UNCHANGED <<kind, timedOut, kept, lost>>,
         NEW k \in {0, 1},
         (k = 0 /\ UNCHANGED batch) \/ (k = 1 /\ batch # <<>> /\ batch' = Tail(batch)),
         OverAfter(k), \A i \in 1..Len(Queue) : i > k => IsStale(i)
  PROVE  Sound'
<1>1. kept' = {} /\ lost' = 0
  BY DEF Sound, NothingLost
<1>2. CASE WouldBlock /\ Listen(op, Noop) /\ UNCHANGED <<pending, timer, avail>>
  <2>1. Left(k) /\ k <= Len(Queue)
    BY <1>2, QueueSame, QueuePop, QueueLen
  <2>2. ASSUME NEW i \in 1..Len(Queue') PROVE InPlace(i)'
    <3>1. i + k \in 1..Len(Queue) /\ i + k > k /\ Queue'[i] = Queue[i + k]
      <4>1. CASE k = 0
        BY <2>1, <4>1, QueueLen DEF Left
      <4>2. CASE k = 1
        BY <2>1, <4>2, QueueLen DEF Left
      <4> QED
        BY <4>1, <4>2
    <3>2. PICK m \in Ops : Queue[i + k] = Helper(m) /\ inner[m] \in Over
      <4>1. IsStale(i + k)
        BY <3>1
      <4> QED
        BY <4>1 DEF IsStale
    <3>3. inner'[m] \in Over
      BY <1>2, <3>2 DEF Listen, IoTypeOK, Over
    <3>4. IsStale(i)'
      BY <3>1, <3>2, <3>3 DEF IsStale, Helper
    <3> QED
      BY <3>4 DEF InPlace
  <2>3. inner[op] \notin Over /\ avail' = 0
    BY <1>2 DEF Over, WouldBlock
  <2>4. phase' # "pending" => batch' = <<>>
    BY <1>2 DEF Sound, QueueInOrder
  <2> QED
    BY <1>1, <1>2, <2>2, <2>3, <2>4, ListenSound
<1>3. CASE Complete(op, FALSE, Noop) /\ WatcherKept
  <2>1. UNCHANGED <<registered, failed>>
    BY <1>3 DEF WatcherKept
  <2> QED
    BY <1>1, <1>3, <2>1, AdvanceSound
<1> QED
  BY <1>2, <1>3 DEF HelperReads


LEMMA RunHelperSound ==
  ASSUME IoTypeOK, IoTypeOK', Sound, NEW n \in Ops, RunHelper(n)
  PROVE  Sound'
<1>1. /\ batch # <<>> /\ batch' = Tail(batch) /\ Head(batch) = Helper(n) /\ HelperReads(n)
      /\ UNCHANGED <<kind, kept, phase, awaited, timedOut, active, lost, early>> /\ phase = "pending"
  BY DEF RunHelper
<1>2. Len(Queue) >= 1 /\ Queue[1] = Helper(n) /\ Len(Queue) \in Nat
  <2>1. Queue[1] = batch[1] /\ Len(Queue) = Len(batch) + Len(pending) /\ Len(batch) >= 1
    BY <1>1, QueueIs, EmptySeq DEF Queue, IoTypeOK
  <2> QED
    BY <1>1, <2>1, QueueLen DEF IoTypeOK
<1>3. InPlace(1)
  BY <1>2 DEF Sound, QueueInOrder
<1>4. \A m \in Ops : m # Helper(n) /\ Helper(n) # 0 /\ (Helper(m) = Helper(n) => m = n)
  BY OpsAssumption DEF Helper, Ops
<1>5. op > 0 => op \in Ops
  BY DEF IoTypeOK, Ops
<1>6. kind = "tls" /\ (IsHelper(1) \/ IsStale(1))
  <2>1. ~IsClient(1) /\ ~IsWrapper(1) /\ ~IsOverrun(1)
    BY <1>2, <1>4, <1>5 DEF IsClient, IsWrapper, IsOverrun
  <2> QED
    BY <1>3, <2>1 DEF InPlace
<1>7. active = Noop
  BY <1>1 DEF Sound, OneWaiter
<1>8. CASE IsHelper(1)
  <2>1. n = op /\ inner[op] = "suspended" /\ Len(Queue) = 1 /\ handle = Noop
    BY <1>2, <1>4, <1>5, <1>8 DEF IsHelper
  <2>2. \A i \in 1..Len(Queue) : ~(i > 1)
    BY <2>1
  <2>3. OverAfter(1) /\ \A i \in 1..Len(Queue) : i > 1 => IsStale(i)
    BY <2>2 DEF OverAfter
  <2> QED
    BY <1>1, <1>6, <1>7, <2>1, <2>3, HelperReadsSound
<1>9. CASE IsStale(1)
  <2>1. inner[n] \in Over
    BY <1>2, <1>4, <1>9 DEF IsStale
  <2>2. UNCHANGED <<registered, op, finished, pending, inner, timer, handle, queued, avail, failed>>
    BY <1>1, <2>1 DEF HelperReads, Over
  <2>3. Calm /\ Left(1)
    BY <1>1, <2>2, QueuePop DEF Calm
  <2>4. \A i \in 1..Len(Queue') : InPlace(i)'
    BY <1>1, <2>2, <2>3, CalmQueue DEF Sound
  <2>5. OneOperation'
    BY <2>3, CalmOperation DEF Sound
  <2>6. OneWaiter' /\ EdgeToCome' /\ NothingLost' /\ Live'
    BY <1>1, <2>2 DEF Sound, OneWaiter, EdgeToCome, NothingLost, Live
  <2> QED
    BY <1>1, <2>4, <2>5, <2>6 DEF Sound, QueueInOrder
<1> QED
  BY <1>6, <1>8, <1>9

LEMMA RunActiveSound ==
  ASSUME IoTypeOK, Sound, NEW n \in Ops, RunActive(n)
  PROVE  Sound'
<1>1. /\ phase = "io" /\ active = n /\ active' = Noop
      /\ UNCHANGED <<kind, kept, phase, batch, awaited, timedOut, early>>
  BY DEF RunActive
<1>2. n = op /\ inner[op] = "suspended" /\ handle = Noop /\ active # Noop
  BY <1>1, OpsAssumption DEF Sound, OneWaiter, Ops
<1>3. \A i \in 1..Len(Queue) : kind = "tls" /\ IsStale(i)
  BY <1>2, WaiterNotQueued
<1>4. OverAfter(0) /\ \A i \in 1..Len(Queue) : i > 0 => IsStale(i)
  BY <1>3 DEF OverAfter
<1>5. CASE kind = "tls"
  <2>1. HelperReads(op) /\ UNCHANGED lost
    BY <1>2, <1>5 DEF RunActive
  <2>2. 0 \in {0, 1} /\ ((0 = 0 /\ UNCHANGED batch) \/ (0 = 1 /\ batch # <<>> /\ batch' = Tail(batch)))
    BY <1>1
  <2>3. phase' = phase /\ op \in Ops /\ UNCHANGED <<kind, timedOut, kept, lost>>
    BY <1>1, <1>2, <2>1
  <2> QED
    BY <1>1, <1>2, <1>4, <1>5, <2>1, <2>2, <2>3, HelperReadsSound
<1>6. CASE kind # "tls"
  <2>1. /\ IF timedOut[n] THEN ReadNothing(n) ELSE ReadNow(n)
        /\ Complete(op, FALSE, Noop) /\ WatcherKept
    BY <1>2, <1>6 DEF RunActive
  <2>2. ~timedOut[n]
    BY <1>2, <1>6 DEF Sound, OneOperation, Over
  <2>3. UNCHANGED <<registered, failed, lost>>
    BY <2>1, <2>2 DEF ReadNow, WatcherKept
  <2>4. kind # "udp" => kept' = {} /\ lost' = 0
    BY <1>1, <2>3 DEF Sound, NothingLost
  <2>5. 0 \in {0, 1} /\ ((0 = 0 /\ UNCHANGED batch) \/ (0 = 1 /\ batch # <<>> /\ batch' = Tail(batch)))
    BY <1>1
  <2>6. phase' = phase /\ op \in Ops /\ \A m \in Ops : timedOut'[m] => timedOut[m] \/ m = op
    BY <1>1, <1>2
  <2> QED
    BY <1>1, <1>2, <1>4, <2>1, <2>3, <2>4, <2>5, <2>6, AdvanceSound
<1> QED
  BY <1>5, <1>6

LEMMA FireTimerSound ==
  ASSUME IoTypeOK, Sound, NEW n \in Ops, FireTimer(n), kind = "tls" \/ ~early'
  PROVE  Sound'
<1>1. /\ phase = "timers" /\ timer[n] = "due"
      /\ timedOut' = [timedOut EXCEPT ![n] = TRUE] /\ early' = (early \/ inner[n] = "fresh")
      /\ UNCHANGED <<kind, phase, batch, awaited, active>>
  BY DEF FireTimer
<1>2. n = op /\ inner[op] \in {"fresh", "suspended"}
  BY <1>1 DEF Sound, OneOperation
<1>3. active = Noop /\ batch = <<>>
  BY <1>1 DEF Sound, OneWaiter, QueueInOrder
<1>4. registered
  <2>1. CASE inner[op] = "suspended"
    BY <1>2, <2>1 DEF Sound, OneOperation
  <2>2. CASE inner[op] = "fresh"
    <3>1. kind = "tls"
      BY <1>1, <1>2, <2>2
    <3> QED
      BY <3>1 DEF Sound, OneWaiter
  <2> QED
    BY <1>2, <2>1, <2>2
<1>5. \A m \in Ops : timedOut'[m] => timedOut[m] \/ m = op
  BY <1>1, <1>2 DEF IoTypeOK
<1>6. CASE inner[op] = "fresh"
  <2>1. kind = "tls"
    BY <1>1, <1>2, <1>6
  <2>2. StartTls(op, TRUE, Noop)
    BY <1>2, <1>4, <1>6, <2>1
    DEF FireTimer, StartInner, StartRead, StartRecvFrom, StartAsyncRead, StopListening
  <2>3. /\ pending' = Append(pending, Helper(n)) /\ inner' = [inner EXCEPT ![op] = "suspended"]
        /\ timer' = [timer EXCEPT ![op] = "fired"] /\ handle' = Noop
        /\ UNCHANGED <<registered, queued, failed, op, avail, kept, lost>>
    BY <1>2, <2>2 DEF StartTls, Fired, WatcherKept
  <2>4. Helper(n) \in Nat
    BY OpsAssumption DEF Helper, Ops
  <2>5. LeftAndJoined(0, Helper(n))
    BY <1>1, <2>3, <2>4, QueuePush
  <2>6. Len(Queue') = Len(Queue) + 1 /\ Queue'[Len(Queue')] = Helper(op) /\ Len(Queue) \in Nat
    BY <1>2, <2>5, QueueLen DEF LeftAndJoined
  <2>7. InPlace(Len(Queue))'
    BY <1>1, <1>2, <1>3, <2>1, <2>3, <2>6, HelperInPlace
  <2>8. ASSUME NEW i \in 1..Len(Queue) PROVE InPlace(i)'
    <3>1. Queue'[i] = Queue[i] /\ InPlace(i)
      BY <2>5, <2>6 DEF LeftAndJoined, Sound, QueueInOrder
    <3>2. ~IsClient(i) /\ ~IsOverrun(i) /\ ~IsHelper(i)
      BY <1>2, <1>6, OpsAssumption DEF IsClient, IsOverrun, IsHelper, Ops
    <3>3. CASE IsWrapper(i)
      <4>1. inner'[op'] = "suspended" /\ timer'[op'] = "fired" /\ op' > 0
        BY <1>2, <2>3, OpsAssumption DEF IoTypeOK, Ops
      <4>2. i + 1 = Len(Queue') /\ Queue'[i] = op'
        BY <2>3, <2>6, <3>1, <3>3 DEF IsWrapper
      <4>3. IsOverrun(i)'
        BY <2>3, <2>6, <4>1, <4>2 DEF IsOverrun, Helper
      <4> QED
        BY <1>1, <2>1, <4>3 DEF InPlace
    <3>4. CASE IsStale(i)
      <4>1. PICK m \in Ops : Queue[i] = Helper(m) /\ inner[m] \in Over
        BY <3>4 DEF IsStale
      <4>2. inner'[m] \in Over
        BY <1>6, <2>3, <4>1 DEF IoTypeOK, Over
      <4>3. IsStale(i)'
        BY <3>1, <4>1, <4>2 DEF IsStale, Helper
      <4> QED
        BY <1>1, <2>1, <4>3 DEF InPlace
    <3> QED
      BY <3>1, <3>2, <3>3, <3>4 DEF InPlace
  <2>9. \A i \in 1..Len(Queue') : InPlace(i)'
    <3>1. \A i \in 1..Len(Queue') : i \in 1..Len(Queue) \/ i = Len(Queue')
      BY <2>6
    <3> QED
      BY <2>7, <2>8, <3>1
  <2>10. OneOperation'
    <3>1. \A m \in Ops : timer'[m] \in {"armed", "due"} => timer[m] \in {"armed", "due"}
      BY <2>3 DEF IoTypeOK
    <3> QED
      BY <1>1, <1>2, <1>4, <1>6, <2>1, <2>3, <3>1, SuspendOperation DEF Sound, Over
  <2>11. OneWaiter' /\ EdgeToCome' /\ NothingLost' /\ Live'
    BY <1>1, <1>3, <2>3, OpsAssumption DEF Sound, OneWaiter, EdgeToCome, NothingLost, Live, Ops
  <2> QED
    BY <1>1, <1>3, <2>9, <2>10, <2>11 DEF Sound, QueueInOrder
<1>7. CASE inner[op] = "suspended"
  <2>1. /\ ReadNothing(n) /\ Complete(op, TRUE, Noop) /\ WatcherKept /\ UNCHANGED kept
    BY <1>2, <1>4, <1>7 DEF FireTimer, StopListening
  <2>2. UNCHANGED <<registered, failed>> /\ (kind # "udp" => kept' = {} /\ lost' = 0)
    BY <2>1 DEF ReadNothing, WatcherKept, Sound, NothingLost
  <2>3. OverAfter(0)
    <3> SUFFICES ASSUME NEW i \in 1..Len(Queue)
                 PROVE  kind = "tls" /\ (IsStale(i) \/ Queue[i] = Helper(op))
      BY DEF OverAfter
    <3>1. InPlace(i)
      BY DEF Sound, QueueInOrder
    <3>2. ~IsClient(i) /\ ~IsWrapper(i) /\ ~IsOverrun(i)
      BY <1>1, <1>2, <1>7, OpsAssumption DEF IsClient, IsWrapper, IsOverrun, Ops
    <3> QED
      BY <3>1, <3>2 DEF InPlace, IsHelper
  <2>4. 0 \in {0, 1} /\ ((0 = 0 /\ UNCHANGED batch) \/ (0 = 1 /\ batch # <<>> /\ batch' = Tail(batch)))
    BY <1>1
  <2>5. phase' = phase /\ op \in Ops /\ active' = Noop /\ UNCHANGED kind
    BY <1>1, <1>2, <1>3
  <2> QED
    BY <1>5, <2>1, <2>2, <2>3, <2>4, <2>5, AdvanceSound
<1> QED
  BY <1>2, <1>6, <1>7

-----------------------------------------------------------------------------
(* What is proved.                                                         *)

LEMMA IoInitInv == TimeoutInit => IoInv
<1> SUFFICES ASSUME TimeoutInit PROVE IoInv
  OBVIOUS
<1>1. IoTypeOK
  BY IoTypeInit
<1>2. Len(Queue) = 1 /\ Queue[1] = 0
  <2>1. batch = <<0>> /\ pending = <<>>
    BY DEF TimeoutInit
  <2>2. Queue = <<0>>
    BY <1>1, <2>1, ConcatEmptySeq DEF Queue, IoTypeOK
  <2> QED
    BY <2>2
<1>3. QueueInOrder
  BY <1>2 DEF TimeoutInit, QueueInOrder, InPlace, IsClient
<1>4. OneOperation
  BY OpsAssumption DEF TimeoutInit, OneOperation, Ops, Over
<1>5. OneWaiter
  <2>1. handle = Noop /\ active = Noop /\ (kind # "pipe" => registered)
    BY Zenon DEF TimeoutInit, Registers
  <2>2. Noop \notin Ops
    BY OpsAssumption DEF Ops
  <2> QED
    BY <2>1, <2>2 DEF OneWaiter
<1>6. EdgeToCome /\ NothingLost /\ Live
  BY DEF TimeoutInit, EdgeToCome, NothingLost, Live
<1> QED
  BY <1>1, <1>3, <1>4, <1>5, <1>6 DEF IoInv, Sound

LEMMA IoInvPreserved ==
  ASSUME IoInv, [TimeoutNext]_timeoutVars
  PROVE  IoInv'
<1>1. IoTypeOK /\ IoTypeOK'
  BY IoTypePreserved DEF IoInv
<1>2. kind' = kind /\ (~early' => ~early)
  <2>1. CASE \E n \in Ops : FireTimer(n)
    BY <2>1, Zenon DEF FireTimer
  <2>2. CASE UNCHANGED <<kind, early>>
    BY <2>2
  <2>3. CASE \E n \in Ops : RunWrapper(n) \/ RunHelper(n) \/ RunActive(n) \/ Expire(n)
    BY <2>2, <2>3 DEF RunWrapper, RunHelper, RunActive, Expire
  <2>4. CASE RunClient \/ EndPending \/ EndTimers \/ WatchIo \/ EndIo \/ Reap \/ DataArrives \/ PartArrives
    BY <2>2, <2>4 DEF RunClient, EndPending, EndTimers, WatchIo, EndIo, Reap, DataArrives, PartArrives
  <2>5. CASE UNCHANGED timeoutVars
    BY <2>2, <2>5 DEF timeoutVars
  <2> QED
    BY <2>1, <2>3, <2>4, <2>5 DEF TimeoutNext, Loop, Aborted
<1> SUFFICES ASSUME kind = "tls" \/ ~early' PROVE Sound'
  BY <1>1, <1>2 DEF IoInv
<1>3. Sound
  BY <1>2 DEF IoInv
<1>4. ASSUME NEW n \in Ops, RunWrapper(n) \/ RunHelper(n) \/ FireTimer(n) \/ RunActive(n)
      PROVE  Sound'
  BY <1>1, <1>3, <1>4, RunWrapperSound, RunHelperSound, FireTimerSound, RunActiveSound
<1>5. CASE RunClient
  BY <1>1, <1>3, <1>5, RunClientSound
<1> QED
  BY <1>1, <1>3, <1>4, <1>5, CalmStep DEF TimeoutNext, Loop, Aborted

\* But for a timeout that elapses before the inner coroutine first runs, and with
\* TLS even then, no assertion of the watcher or of the event loop fails and no
\* finished coroutine is resumed, for every number of operations and of units.
THEOREM TimeoutsSafe == TimeoutSpec => []OnlyEarlyTimeoutsHurt
<1>1. IoInv => OnlyEarlyTimeoutsHurt
  BY DEF IoInv, Sound, Live, OnlyEarlyTimeoutsHurt
<1>2. IoInv /\ [TimeoutNext]_timeoutVars => IoInv'
  BY IoInvPreserved
<1> QED
  BY <1>1, <1>2, IoInitInv, PTL DEF TimeoutSpec

\* Under the same conditions what read() took reaches the client, and a reader
\* that waits with data in the buffer has an edge of epoll still to come.
THEOREM TimeoutsLoseNothing == TimeoutSpec => []NoDataLost
<1>1. IoInv => NoDataLost
  BY DEF IoInv, Sound, NothingLost, EdgeToCome, NoDataLost
<1>2. IoInv /\ [TimeoutNext]_timeoutVars => IoInv'
  BY IoInvPreserved
<1> QED
  BY <1>1, <1>2, IoInitInv, PTL DEF TimeoutSpec

\* At most one coroutine waits for the descriptor or is about to be resumed, it
\* belongs to the operation the client awaits, and that operation's wrapper and
\* helper stand last in the queue.
THEOREM OneReaderAtATime ==
  TimeoutSpec => [](kind = "tls" \/ ~early => OneOperation /\ OneWaiter /\ QueueInOrder)
<1>1. IoInv => (kind = "tls" \/ ~early => OneOperation /\ OneWaiter /\ QueueInOrder)
  BY DEF IoInv, Sound
<1>2. IoInv /\ [TimeoutNext]_timeoutVars => IoInv'
  BY IoInvPreserved
<1> QED
  BY <1>1, <1>2, IoInitInv, PTL DEF TimeoutSpec

-----------------------------------------------------------------------------
(* Induction.                                                              *)

\* Induction over the naturals for a set, which the first-order provers can
\* instantiate.
LEMMA SetInduction ==
  ASSUME NEW T, 0 \in T, \A n \in Nat : n \in T => n + 1 \in T
  PROVE  \A n \in Nat : n \in T
<1> DEFINE Out == {n \in Nat : n \notin T}
           Less == OpToRel(<, Nat)
<1>1. SUFFICES ASSUME Out # {} PROVE FALSE
  OBVIOUS
<1>2. PICK x \in Out : \A y \in Out : ~(<<y, x>> \in Less)
  <2>1. IsWellFoundedOn(Less, Nat)
    BY NatLessThanWellFounded
  <2>2. Out \subseteq Nat
    OBVIOUS
  <2> HIDE DEF Out, Less
  <2> QED
    BY <1>1, <2>1, <2>2, WFMin
<1>3. x # 0 /\ x \in Nat
  OBVIOUS
<1>4. x - 1 \in Nat /\ x - 1 < x /\ (x - 1) + 1 = x
  BY <1>3
<1>5. x - 1 \notin T
  BY <1>4
<1>6. x - 1 \in Out
  BY <1>4, <1>5
<1>7. <<x - 1, x>> \in Less
  BY <1>3, <1>4 DEF OpToRel
<1> QED
  BY <1>2, <1>6, <1>7

LEMMA LeastNatural ==
  ASSUME NEW S, S \subseteq Nat, S # {}
  PROVE  \E x \in S : \A y \in S : x <= y
<1> DEFINE Less == OpToRel(<, Nat)
<1>1. PICK x \in S : \A y \in S : ~(<<y, x>> \in Less)
  <2>1. IsWellFoundedOn(Less, Nat)
    BY NatLessThanWellFounded
  <2> HIDE DEF Less
  <2> QED
    BY <2>1, WFMin
<1>2. ASSUME NEW y \in S PROVE x <= y
  <2>1. x \in Nat /\ y \in Nat
    OBVIOUS
  <2>2. ~(<<y, x>> \in Less)
    BY <1>1
  <2>3. y < x => <<y, x>> \in Less
    BY <2>1 DEF OpToRel
  <2>4. ~(y < x)
    BY <2>2, <2>3
  <2> QED
    BY <2>1, <2>4
<1> QED
  BY <1>2

-----------------------------------------------------------------------------
(* Routing.                                                                *)

\* The elements of a sequence that are in a set.
OnlyStep(s, S, q, i) == IF s[i] \in S THEN Append(q, s[i]) ELSE q
IsOnly(g, s, S, k) == g = [i \in 0..k |-> IF i = 0 THEN <<>> ELSE OnlyStep(s, S, g[i - 1], i)]

LEMMA OnlyExists ==
  ASSUME NEW s, NEW S, NEW k \in Nat
  PROVE  \E g : IsOnly(g, s, S, k)
<1> DEFINE D(q, i) == OnlyStep(s, S, q, i)
           R(g, n) == g = [i \in 0..n |-> IF i = 0 THEN <<>> ELSE D(g[i - 1], i)]
           T == {n \in Nat : \E g : R(g, n)}
<1> HIDE DEF D
<1>1. 0 \in T
  <2> DEFINE g == [i \in 0..0 |-> <<>>]
  <2>1. g = [i \in 0..0 |-> IF i = 0 THEN <<>> ELSE D(g[i - 1], i)]
    OBVIOUS
  <2> QED
    BY <2>1
<1>2. ASSUME NEW n \in Nat, n \in T PROVE n + 1 \in T
  <2>1. PICK g : R(g, n)
    BY <1>2
  <2> DEFINE h == [i \in 0..(n + 1) |-> IF i = n + 1 THEN D(g[n], n + 1) ELSE g[i]]
  <2>2. ASSUME NEW i \in 0..(n + 1) PROVE h[i] = IF i = 0 THEN <<>> ELSE D(h[i - 1], i)
    <3>1. CASE i = 0
      BY <2>1, <3>1
    <3>2. CASE i = n + 1
      <4>1. n \in 0..(n + 1) /\ n # n + 1 /\ i - 1 = n /\ i # 0
        BY <3>2
      <4>2. h[n] = g[n] /\ h[i] = D(g[n], n + 1)
        BY <3>2, <4>1
      <4> HIDE DEF h
      <4> QED
        BY <3>2, <4>1, <4>2
    <3>3. CASE i # 0 /\ i # n + 1
      <4>1. i - 1 \in 0..(n + 1) /\ i - 1 # n + 1 /\ i \in 0..n /\ i - 1 \in 0..n
        BY <3>3
      <4>2. h[i] = g[i] /\ h[i - 1] = g[i - 1]
        BY <3>3, <4>1
      <4>3. g[i] = D(g[i - 1], i)
        BY <2>1, <3>3, <4>1
      <4> HIDE DEF h
      <4> QED
        BY <3>3, <4>2, <4>3
    <3> QED
      BY <3>1, <3>2, <3>3
  <2>3. h = [i \in 0..(n + 1) |-> h[i]]
    OBVIOUS
  <2>4. R(h, n + 1)
    <3> HIDE DEF h
    <3> QED
      BY <2>2, <2>3
  <2>5. n + 1 \in Nat
    OBVIOUS
  <2> HIDE DEF h, R
  <2> QED
    BY <2>4, <2>5
<1>3. \A n \in Nat : n \in T
  <2>1. \A n \in Nat : n \in T => n + 1 \in T
    BY <1>2
  <2> HIDE DEF T
  <2> QED
    BY <1>1, <2>1, SetInduction
<1>4. PICK g : R(g, k)
  BY <1>3
<1> QED
  BY <1>4 DEF IsOnly, D

LEMMA OnlyFacts ==
  ASSUME NEW T, NEW s \in Seq(T), NEW S
  PROVE  Only(s, S) \in Seq(T) /\ ToSet(Only(s, S)) = ToSet(s) \cap S
<1> DEFINE k == Len(s)
           f == CHOOSE g : g = [i \in 0..k |-> IF i = 0 THEN <<>>
                                 ELSE IF s[i] \in S THEN Append(g[i - 1], s[i]) ELSE g[i - 1]]
<1>1. k \in Nat /\ DOMAIN s = 1..k
  OBVIOUS
<1>2. \E g : g = [i \in 0..k |-> IF i = 0 THEN <<>> ELSE IF s[i] \in S THEN Append(g[i - 1], s[i]) ELSE g[i - 1]]
  <2>1. \E g : IsOnly(g, s, S, k)
    <3> HIDE DEF k
    <3> QED
      BY <1>1, OnlyExists
  <2> QED
    BY <2>1 DEF IsOnly, OnlyStep
<1>3. f = [i \in 0..k |-> IF i = 0 THEN <<>> ELSE IF s[i] \in S THEN Append(f[i - 1], s[i]) ELSE f[i - 1]]
  BY <1>2, Zenon
<1>4. Only(s, S) = f[k]
  BY DEF Only
<1> HIDE DEF f
<1> DEFINE P == {n \in Nat : n <= k => f[n] \in Seq(T) /\ ToSet(f[n]) = {s[i] : i \in 1..n} \cap S}
<1>5. 0 \in P
  <2>1. f[0] = <<>> /\ 1..0 = {} /\ ToSet(<<>>) = {} /\ <<>> \in Seq(T)
    BY <1>1, <1>3 DEF ToSet
  <2> QED
    BY <2>1
<1>6. ASSUME NEW n \in Nat, n \in P PROVE n + 1 \in P
  <2> SUFFICES ASSUME n + 1 <= k
               PROVE  f[n + 1] \in Seq(T) /\ ToSet(f[n + 1]) = {s[i] : i \in 1..(n + 1)} \cap S
    OBVIOUS
  <2>1. n <= k /\ n + 1 \in 0..k /\ n + 1 # 0 /\ (n + 1) - 1 = n /\ n + 1 \in 1..k
    BY <1>1
  <2>2. f[n] \in Seq(T) /\ ToSet(f[n]) = {s[i] : i \in 1..n} \cap S
    BY <1>6, <2>1
  <2>3. f[n + 1] = IF s[n + 1] \in S THEN Append(f[n], s[n + 1]) ELSE f[n]
    BY <1>3, <2>1
  <2>4. {s[i] : i \in 1..(n + 1)} = {s[i] : i \in 1..n} \cup {s[n + 1]}
    <3>1. 1..(n + 1) = 1..n \cup {n + 1}
      OBVIOUS
    <3> QED
      BY <3>1
  <2>5. s[n + 1] \in T
    BY <1>1, <2>1
  <2>6. Append(f[n], s[n + 1]) \in Seq(T) /\ ToSet(Append(f[n], s[n + 1])) = ToSet(f[n]) \cup {s[n + 1]}
    <3> DEFINE q == f[n]
               x == s[n + 1]
    <3>1. q \in Seq(T) /\ x \in T
      BY <2>2, <2>5
    <3> HIDE DEF q, x
    <3>2. /\ DOMAIN Append(q, x) = 1..(Len(q) + 1) /\ DOMAIN q = 1..Len(q) /\ Len(q) \in Nat
          /\ \A i \in 1..Len(q) : Append(q, x)[i] = q[i]
          /\ Append(q, x)[Len(q) + 1] = x /\ Append(q, x) \in Seq(T)
      BY <3>1
    <3>3. ToSet(Append(q, x)) = ToSet(q) \cup {x}
      BY <3>2 DEF ToSet
    <3> QED
      BY <3>2, <3>3 DEF q, x
  <2> QED
    BY <2>2, <2>3, <2>4, <2>6
<1>7. k \in P
  <2>1. \A n \in Nat : n \in P => n + 1 \in P
    BY <1>6
  <2> HIDE DEF P
  <2> QED
    BY <1>1, <1>5, <2>1, SetInduction
<1>8. ToSet(s) = {s[i] : i \in 1..k}
  BY <1>1 DEF ToSet
<1> QED
  BY <1>1, <1>4, <1>7, <1>8

Routes == Seq(Seq(STRING) \X STRING)

\* What the names and marks of a decoded url can be.
Names == STRING \cup {"a", "/", "?", "index.html"}

LEMMA RoutesFacts == ServletRoutes \in Routes /\ FilterRoutes \in Routes
BY RoutesAssumption DEF Routes

\* params_ of a node holds the filters inserted there.
LEMMA ParamsFacts ==
  ASSUME NEW node
  PROVE  /\ Params(node) \in Seq(Filters)
         /\ \A i \in DOMAIN FilterRoutes : FilterRoutes[i][1] = node => FilterRoutes[i][2] \in ToSet(Params(node))
<1> DEFINE P == Seq(STRING) \X STRING
           H == {r \in ToSet(FilterRoutes) : r[1] = node}
           here == Only(FilterRoutes, H)
<1>1. FilterRoutes \in Seq(P)
  BY RoutesFacts DEF Routes
<1>2. here \in Seq(P) /\ ToSet(here) = ToSet(FilterRoutes) \cap H
  <2> HIDE DEF P, H
  <2> QED
    BY <1>1, OnlyFacts
<1>3. Params(node) = [i \in DOMAIN here |-> here[i][2]]
  BY DEF Params, At
<1>4. DOMAIN here = 1..Len(here) /\ Len(here) \in Nat
  <2> HIDE DEF here, P
  <2> QED
    BY <1>2
<1>5. \A i \in DOMAIN here : here[i] \in ToSet(FilterRoutes)
  <2>1. \A i \in DOMAIN here : here[i] \in ToSet(here)
    <3> HIDE DEF here
    <3> QED
      BY DEF ToSet
  <2> HIDE DEF here
  <2> QED
    BY <1>2, <2>1
<1>6. \A r \in ToSet(FilterRoutes) : r[2] \in Filters
  BY DEF ToSet, Filters
<1>7. Params(node) \in Seq(Filters)
  <2> HIDE DEF here
  <2>1. \A i \in 1..Len(here) : here[i][2] \in Filters
    BY <1>4, <1>5, <1>6
  <2> QED
    BY <1>3, <1>4, <2>1
<1>8. ASSUME NEW i \in DOMAIN FilterRoutes, FilterRoutes[i][1] = node
      PROVE  FilterRoutes[i][2] \in ToSet(Params(node))
  <2>1. FilterRoutes[i] \in ToSet(FilterRoutes) /\ FilterRoutes[i] \in H
    BY <1>8 DEF ToSet
  <2>2. FilterRoutes[i] \in ToSet(here)
    <3> HIDE DEF here, H
    <3> QED
      BY <1>2, <2>1
  <2>3. PICK j \in DOMAIN here : here[j] = FilterRoutes[i]
    <3> HIDE DEF here
    <3> QED
      BY <2>2 DEF ToSet
  <2> HIDE DEF here
  <2> QED
    BY <1>3, <2>3 DEF ToSet
<1> QED
  BY <1>7, <1>8

LEMMA NodesClosed ==
  ASSUME NEW i \in DOMAIN FilterRoutes, NEW m \in 0..Len(FilterRoutes[i][1])
  PROVE  SubSeq(FilterRoutes[i][1], 1, m) \in Nodes(FilterRoutes)
<1> DEFINE p == FilterRoutes[i][1]
<1>1. FilterRoutes[i] \in ToSet(FilterRoutes)
  BY DEF ToSet
<1>2. SubSeq(p, 1, m) \in Prefixes(p)
  BY DEF Prefixes
<1>3. Prefixes(p) \in {Prefixes(r[1]) : r \in ToSet(FilterRoutes)}
  BY <1>1
<1> HIDE DEF p
<1>4. SubSeq(p, 1, m) \in Nodes(FilterRoutes)
  BY <1>2, <1>3 DEF Nodes
<1> QED
  BY <1>4 DEF p

\* The walk from the root stops where no child fits.
LEMMA DepthFacts ==
  ASSUME NEW path \in Seq(Names)
  PROVE  /\ Depth(FilterRoutes, path) \in 0..Len(path)
         /\ Depth(FilterRoutes, path) < Len(path) =>
              SubSeq(path, 1, Depth(FilterRoutes, path) + 1) \notin Nodes(FilterRoutes)
<1> DEFINE N == Nodes(FilterRoutes)
           ok(n) == SubSeq(path, 1, n) \in N /\ (n < Len(path) => SubSeq(path, 1, n + 1) \notin N)
           S == {n \in 0..Len(path) : n < Len(path) => SubSeq(path, 1, n + 1) \notin N}
<1>1. Len(path) \in Nat /\ <<>> \in N /\ SubSeq(path, 1, 0) = <<>>
  <2>1. <<>> \in N
    <3> DEFINE A == UNION {Prefixes(r[1]) : r \in ToSet(FilterRoutes)}
    <3>1. N = {<<>>} \cup A
      BY DEF Nodes
    <3> HIDE DEF A, N
    <3> QED
      BY <3>1
  <2>2. 0 < 1
    OBVIOUS
  <2>3. SubSeq(path, 1, 0) = <<>>
    BY <2>2, SubSeqEmpty
  <2> QED
    BY <2>1, <2>3
<1>2. Len(path) \in S /\ S \subseteq Nat
  BY <1>1
<1>3. PICK n \in S : \A y \in S : n <= y
  <2> HIDE DEF S
  <2> QED
    BY <1>2, LeastNatural
<1>4. n \in 0..Len(path) /\ (n < Len(path) => SubSeq(path, 1, n + 1) \notin N)
  BY <1>3
<1>5. SubSeq(path, 1, n) \in N
  <2>1. CASE n = 0
    BY <1>1, <2>1
  <2>2. CASE n # 0
    <3>1. n - 1 \in 0..Len(path) /\ n - 1 < Len(path) /\ ~(n <= n - 1) /\ (n - 1) + 1 = n
      BY <1>1, <1>4, <2>2
    <3>2. n - 1 \notin S
      <4> HIDE DEF S
      <4> QED
        BY <1>3, <3>1
    <3> HIDE DEF N
    <3> QED
      BY <3>1, <3>2
  <2> QED
    BY <2>1, <2>2
<1>6. \E d \in 0..Len(path) : ok(d)
  BY <1>4, <1>5
<1>7. Depth(FilterRoutes, path) = CHOOSE d \in 0..Len(path) : ok(d)
  BY DEF Depth
<1>8. Depth(FilterRoutes, path) \in 0..Len(path) /\ ok(Depth(FilterRoutes, path))
  <2> DEFINE d == CHOOSE x \in 0..Len(path) : ok(x)
  <2>1. d \in 0..Len(path) /\ ok(d)
    <3> HIDE DEF N
    <3> QED
      BY <1>6
  <2> HIDE DEF N
  <2> QED
    BY <1>7, <2>1
<1> QED
  BY <1>8

LEMMA ConcatSet ==
  ASSUME NEW S, NEW s \in Seq(S), NEW u \in Seq(S)
  PROVE  s \o u \in Seq(S) /\ ToSet(s) \subseteq ToSet(s \o u) /\ ToSet(u) \subseteq ToSet(s \o u)
<1>1. /\ s \o u \in Seq(S) /\ DOMAIN (s \o u) = 1..(Len(s) + Len(u)) /\ DOMAIN s = 1..Len(s) /\ DOMAIN u = 1..Len(u)
      /\ Len(s) \in Nat /\ Len(u) \in Nat
      /\ \A i \in 1..Len(s) : (s \o u)[i] = s[i]
      /\ \A i \in 1..Len(u) : (s \o u)[Len(s) + i] = u[i]
  OBVIOUS
<1>2. ToSet(s) \subseteq ToSet(s \o u)
  BY <1>1 DEF ToSet
<1>3. ToSet(u) \subseteq ToSet(s \o u)
  <2>1. \A i \in 1..Len(u) : Len(s) + i \in 1..(Len(s) + Len(u))
    BY <1>1
  <2> QED
    BY <1>1, <2>1 DEF ToSet
<1> QED
  BY <1>1, <1>2, <1>3

IsChain(g, path, k) == g = [i \in 0..k |-> IF i = 0 THEN <<>> ELSE g[i - 1] \o WildParams(path, i - 1)]

LEMMA ChainExists ==
  ASSUME NEW path, NEW k \in Nat
  PROVE  \E g : IsChain(g, path, k)
<1> DEFINE D(q, i) == q \o WildParams(path, i - 1)
           R(g, n) == g = [i \in 0..n |-> IF i = 0 THEN <<>> ELSE D(g[i - 1], i)]
           T == {n \in Nat : \E g : R(g, n)}
<1> HIDE DEF D
<1>1. 0 \in T
  <2> DEFINE g == [i \in 0..0 |-> <<>>]
  <2>1. g = [i \in 0..0 |-> IF i = 0 THEN <<>> ELSE D(g[i - 1], i)]
    OBVIOUS
  <2> QED
    BY <2>1
<1>2. ASSUME NEW n \in Nat, n \in T PROVE n + 1 \in T
  <2>1. PICK g : R(g, n)
    BY <1>2
  <2> DEFINE h == [i \in 0..(n + 1) |-> IF i = n + 1 THEN D(g[n], n + 1) ELSE g[i]]
  <2>2. ASSUME NEW i \in 0..(n + 1) PROVE h[i] = IF i = 0 THEN <<>> ELSE D(h[i - 1], i)
    <3>1. CASE i = 0
      BY <2>1, <3>1
    <3>2. CASE i = n + 1
      <4>1. n \in 0..(n + 1) /\ n # n + 1 /\ i - 1 = n /\ i # 0
        BY <3>2
      <4>2. h[n] = g[n] /\ h[i] = D(g[n], n + 1)
        BY <3>2, <4>1
      <4> HIDE DEF h
      <4> QED
        BY <3>2, <4>1, <4>2
    <3>3. CASE i # 0 /\ i # n + 1
      <4>1. i - 1 \in 0..(n + 1) /\ i - 1 # n + 1 /\ i \in 0..n /\ i - 1 \in 0..n
        BY <3>3
      <4>2. h[i] = g[i] /\ h[i - 1] = g[i - 1]
        BY <3>3, <4>1
      <4>3. g[i] = D(g[i - 1], i)
        BY <2>1, <3>3, <4>1
      <4> HIDE DEF h
      <4> QED
        BY <3>3, <4>2, <4>3
    <3> QED
      BY <3>1, <3>2, <3>3
  <2>3. h = [i \in 0..(n + 1) |-> h[i]]
    OBVIOUS
  <2>4. R(h, n + 1)
    <3> HIDE DEF h
    <3> QED
      BY <2>2, <2>3
  <2>5. n + 1 \in Nat
    OBVIOUS
  <2> HIDE DEF h, R
  <2> QED
    BY <2>4, <2>5
<1>3. \A n \in Nat : n \in T
  <2>1. \A n \in Nat : n \in T => n + 1 \in T
    BY <1>2
  <2> HIDE DEF T
  <2> QED
    BY <1>1, <2>1, SetInduction
<1>4. PICK g : R(g, k)
  BY <1>3
<1> QED
  BY <1>4 DEF IsChain, D

\* Chain holds the "**" filters of the first k nodes, and those of the path itself
\* where the walk reaches its end.
LEMMA ChainFacts ==
  ASSUME NEW path, NEW k \in Nat
  PROVE  /\ Chain(path, k) \in Seq(Filters)
         /\ \A m \in 0..(k - 1) : ToSet(WildParams(path, m)) \subseteq ToSet(Chain(path, k))
         /\ Depth(FilterRoutes, path) = Len(path) => ToSet(Params(path)) \subseteq ToSet(Chain(path, k))
<1> DEFINE f == CHOOSE g : g = [i \in 0..k |-> IF i = 0 THEN <<>> ELSE g[i - 1] \o WildParams(path, i - 1)]
           e == IF Depth(FilterRoutes, path) = Len(path) THEN Params(path) ELSE <<>>
<1>1. \E g : g = [i \in 0..k |-> IF i = 0 THEN <<>> ELSE g[i - 1] \o WildParams(path, i - 1)]
  BY ChainExists, Zenon DEF IsChain
<1>2. f = [i \in 0..k |-> IF i = 0 THEN <<>> ELSE f[i - 1] \o WildParams(path, i - 1)]
  BY <1>1, Zenon
<1>3. Chain(path, k) = f[k] \o e
  BY DEF Chain
<1> HIDE DEF f
<1> DEFINE P == {n \in Nat : n <= k =>
                   f[n] \in Seq(Filters) /\ \A m \in 0..(n - 1) : ToSet(WildParams(path, m)) \subseteq ToSet(f[n])}
<1>4. 0 \in P
  <2>1. f[0] = <<>> /\ 0..(0 - 1) = {} /\ <<>> \in Seq(Filters)
    BY <1>2
  <2> QED
    BY <2>1
<1>5. ASSUME NEW n \in Nat, n \in P PROVE n + 1 \in P
  <2> SUFFICES ASSUME n + 1 <= k
               PROVE  /\ f[n + 1] \in Seq(Filters)
                      /\ \A m \in 0..((n + 1) - 1) : ToSet(WildParams(path, m)) \subseteq ToSet(f[n + 1])
    OBVIOUS
  <2>1. n <= k /\ n + 1 \in 0..k /\ n + 1 # 0 /\ (n + 1) - 1 = n
    OBVIOUS
  <2>2. f[n] \in Seq(Filters) /\ \A m \in 0..(n - 1) : ToSet(WildParams(path, m)) \subseteq ToSet(f[n])
    BY <1>5, <2>1
  <2>3. f[n + 1] = f[n] \o WildParams(path, n)
    BY <1>2, <2>1
  <2>4. WildParams(path, n) \in Seq(Filters)
    BY ParamsFacts DEF WildParams
  <2>5. /\ f[n + 1] \in Seq(Filters) /\ ToSet(f[n]) \subseteq ToSet(f[n + 1])
        /\ ToSet(WildParams(path, n)) \subseteq ToSet(f[n + 1])
    BY <2>2, <2>3, <2>4, ConcatSet
  <2>6. \A m \in 0..n : m \in 0..(n - 1) \/ m = n
    OBVIOUS
  <2> QED
    BY <2>1, <2>2, <2>5, <2>6
<1>6. k \in P
  <2>1. \A n \in Nat : n \in P => n + 1 \in P
    BY <1>5
  <2> HIDE DEF P
  <2> QED
    BY <1>4, <2>1, SetInduction
<1>7. e \in Seq(Filters)
  <2>1. Params(path) \in Seq(Filters) /\ <<>> \in Seq(Filters)
    BY ParamsFacts
  <2> QED
    BY <2>1
<1>8. /\ f[k] \o e \in Seq(Filters) /\ ToSet(f[k]) \subseteq ToSet(f[k] \o e) /\ ToSet(e) \subseteq ToSet(f[k] \o e)
  <2>1. f[k] \in Seq(Filters)
    BY <1>6
  <2> HIDE DEF e
  <2> QED
    BY <1>7, <2>1, ConcatSet
<1> QED
  BY <1>3, <1>6, <1>8

\* Every prefix of a registered path is a node: the walk passes it.
LEMMA WalkPasses ==
  ASSUME NEW path \in Seq(Names), NEW i \in DOMAIN FilterRoutes,
         NEW m \in 0..Len(path), m <= Len(FilterRoutes[i][1]),
         \A n \in 0..m : SubSeq(path, 1, n) = SubSeq(FilterRoutes[i][1], 1, n)
  PROVE  m <= Depth(FilterRoutes, path)
<1> DEFINE d == Depth(FilterRoutes, path)
           p == FilterRoutes[i][1]
<1>1. d \in 0..Len(path) /\ (d < Len(path) => SubSeq(path, 1, d + 1) \notin Nodes(FilterRoutes))
  BY DepthFacts
<1>2. Len(path) \in Nat /\ m \in Nat /\ d \in Nat /\ m <= Len(path)
  BY <1>1
<1>3. p \in Seq(STRING)
  BY RoutesFacts DEF Routes
<1>4. Len(p) \in Nat
  <2> HIDE DEF p
  <2> QED
    BY <1>3
<1> SUFFICES ASSUME d < m PROVE FALSE
  BY <1>2
<1>5. d + 1 \in 0..m /\ d < Len(path)
  BY <1>2
<1>6. d + 1 \in 0..Len(p)
  BY <1>2, <1>4, <1>5
<1>7. SubSeq(p, 1, d + 1) \in Nodes(FilterRoutes)
  <2> HIDE DEF d
  <2> QED
    BY <1>6, NodesClosed DEF p
<1> QED
  BY <1>1, <1>5, <1>7

\* MatchChain collects every filter whose pattern covers the path.
LEMMA MatchChainCovers ==
  ASSUME NEW path \in Seq(Names)
  PROVE  MatchChain(path) \in Seq(Filters) /\ Covering(path) \subseteq ToSet(MatchChain(path))
<1> DEFINE d == Depth(FilterRoutes, path)
           k == IF d = Len(path) THEN d ELSE d + 1
<1>1. d \in 0..Len(path) /\ Len(path) \in Nat
  BY DepthFacts
<1>2. k \in Nat
  BY <1>1
<1>3. MatchChain(path) = Chain(path, k)
  BY DEF MatchChain
<1>4. /\ Chain(path, k) \in Seq(Filters)
      /\ \A m \in 0..(k - 1) : ToSet(WildParams(path, m)) \subseteq ToSet(Chain(path, k))
      /\ d = Len(path) => ToSet(Params(path)) \subseteq ToSet(Chain(path, k))
  <2> HIDE DEF k
  <2> QED
    BY <1>2, ChainFacts
<1>5. ASSUME NEW i \in DOMAIN FilterRoutes, Covers(FilterRoutes[i][1], path)
      PROVE  FilterRoutes[i][2] \in ToSet(Chain(path, k))
  <2> DEFINE p == FilterRoutes[i][1]
             f == FilterRoutes[i][2]
  <2>1. p \in Seq(Names)
    <3>1. p \in Seq(STRING)
      BY RoutesFacts DEF Routes
    <3> HIDE DEF p
    <3> QED
      BY <3>1 DEF Names
  <2>2. f \in ToSet(Params(p))
    BY ParamsFacts
  <2>3. CASE p = path
    <3>1. Len(path) <= d
      <4>1. Len(path) \in 0..Len(path) /\ Len(path) <= Len(p)
        BY <1>1, <2>3
      <4>2. \A n \in 0..Len(path) : SubSeq(path, 1, n) = SubSeq(p, 1, n)
        BY <2>3
      <4> QED
        BY <4>1, <4>2, WalkPasses
    <3>2. d = Len(path)
      BY <1>1, <3>1
    <3> HIDE DEF k
    <3> QED
      BY <1>4, <2>2, <2>3, <3>2
  <2>4. CASE /\ p # <<>> /\ Last(p) = Wild
             /\ Len(path) >= Len(p)
             /\ SubSeq(path, 1, Len(p) - 1) = Front(p)
    <3> DEFINE m == Len(p) - 1
    <3>1. Len(p) \in Nat /\ Len(p) > 0 /\ p = Append(Front(p), Wild)
      <4>0. p # <<>> /\ Last(p) = Wild
        BY <2>4
      <4> HIDE DEF p
      <4>1. Len(p) \in Nat /\ Len(p) > 0
        BY <2>1, <4>0
      <4>2. Front(p) \in Seq(Names) /\ p = Append(Front(p), Last(p))
        BY <2>1, <4>0, <4>1 DEF Front, Last
      <4> QED
        BY <4>0, <4>1, <4>2
    <3>2. m \in 0..Len(path) /\ m <= Len(p) /\ m < Len(path) /\ m \in Nat
      BY <1>1, <2>4, <3>1
    <3>3. ASSUME NEW n \in 0..m PROVE SubSeq(path, 1, n) = SubSeq(p, 1, n)
      <4>1. SubSeq(path, 1, m) = SubSeq(p, 1, m)
        BY <2>4 DEF Front
      <4>2. n \in Nat /\ n <= m
        BY <3>2
      <4>3. ASSUME NEW s \in Seq(Names), NEW x \in Nat, x <= Len(s), NEW y \in 0..x
            PROVE  SubSeq(s, 1, y) = SubSeq(SubSeq(s, 1, x), 1, y)
        <5>1. /\ SubSeq(s, 1, x) \in Seq(Names) /\ Len(SubSeq(s, 1, x)) = x
              /\ \A j \in 1..x : SubSeq(s, 1, x)[j] = s[j]
          BY <4>3
        <5> DEFINE u == SubSeq(s, 1, x)
        <5> HIDE DEF u
        <5>2. /\ SubSeq(u, 1, y) \in Seq(Names) /\ Len(SubSeq(u, 1, y)) = y
              /\ \A j \in 1..y : SubSeq(u, 1, y)[j] = u[j]
          BY <5>1 DEF u
        <5>3. /\ SubSeq(s, 1, y) \in Seq(Names) /\ Len(SubSeq(s, 1, y)) = y
              /\ \A j \in 1..y : SubSeq(s, 1, y)[j] = s[j]
          BY <4>3
        <5>4. \A j \in 1..y : u[j] = s[j]
          BY <5>1 DEF u
        <5>5. SubSeq(s, 1, y) = SubSeq(u, 1, y)
          BY <5>2, <5>3, <5>4, SeqEqual
        <5> QED
          BY <5>5 DEF u
      <4>4. SubSeq(path, 1, n) = SubSeq(SubSeq(path, 1, m), 1, n)
        <5> HIDE DEF m
        <5> QED
          BY <3>2, <4>2, <4>3
      <4>5. SubSeq(p, 1, n) = SubSeq(SubSeq(p, 1, m), 1, n)
        <5> HIDE DEF m, p
        <5> QED
          BY <2>1, <3>2, <4>2, <4>3
      <4> QED
        BY <4>1, <4>4, <4>5
    <3>4. m <= d
      <4>1. \A n \in 0..m : SubSeq(path, 1, n) = SubSeq(p, 1, n)
        BY <3>3
      <4> HIDE DEF m, d
      <4> QED
        BY <3>2, <4>1, WalkPasses DEF d
    <3>5. m \in 0..(k - 1)
      BY <1>1, <3>2, <3>4
    <3>6. WildParams(path, m) = Params(p)
      BY <2>4, <3>1 DEF WildParams
    <3> HIDE DEF k, m
    <3> QED
      BY <1>4, <2>2, <3>5, <3>6
  <2> QED
    BY <1>5, <2>3, <2>4 DEF Covers
<1> HIDE DEF k
<1> QED
  BY <1>3, <1>4, <1>5 DEF Covering

LEMMA Extremes ==
  ASSUME NEW n \in Nat, NEW I, I \subseteq 1..n, I # {}
  PROVE  Min(I) \in I /\ Max(I) \in I
<1>1. \E x \in I : \A y \in I : x =< y
  <2>1. I \subseteq Nat
    OBVIOUS
  <2> QED
    BY <2>1, LeastNatural
<1>2. \E x \in I : \A y \in I : x >= y
  <2> DEFINE J == {n - x : x \in I}
  <2>1. J \subseteq Nat /\ J # {}
    <3>1. PICK x \in I : TRUE
      OBVIOUS
    <3>2. n - x \in J
      OBVIOUS
    <3>3. \A y \in 1..n : n - y \in Nat
      OBVIOUS
    <3> QED
      BY <3>2, <3>3
  <2>2. PICK j \in J : \A y \in J : j <= y
    <3> HIDE DEF J
    <3> QED
      BY <2>1, LeastNatural
  <2>3. PICK x \in I : j = n - x
    OBVIOUS
  <2>4. ASSUME NEW y \in I PROVE x >= y
    <3>1. n - y \in J
      OBVIOUS
    <3>2. n - x <= n - y
      <4> HIDE DEF J
      <4> QED
        BY <2>2, <2>3, <3>1
    <3>3. x \in Nat /\ y \in Nat
      OBVIOUS
    <3> QED
      BY <3>2, <3>3
  <2> QED
    BY <2>4
<1> QED
  BY <1>1, <1>2 DEF Min, Max

\* Decoding and cutting a url leaves a sequence of names and marks.
LEMMA DecodeUrlFacts ==
  ASSUME NEW raw \in Seq(STRING)
  PROVE  DecodeUrl(raw) \in Seq(Names) /\ SplitToViews(DecodeUrl(raw)) \in Seq(Names)
<1> DEFINE url == [i \in DOMAIN raw |-> UrlDecode(raw[i])]
           H == {i \in 1..Len(url) : url[i] = "#"}
           hash == IF H # {} THEN Max(H) ELSE 0
           view == IF hash = 0 THEN url ELSE SubSeq(url, 1, hash - 1)
           Q == {i \in 1..Len(view) : view[i] = "?"}
           query == IF Q # {} THEN Min(Q) ELSE 0
<1>1. url \in Seq(Names) /\ Len(url) \in Nat
  <2>1. \A c \in STRING : UrlDecode(c) \in Names
    <3> TAKE c \in STRING
    <3> DEFINE plain == [x \in {"%61", "%2F", "%3F"} |->
                           CASE x = "%61" -> "a" [] x = "%2F" -> "/" [] x = "%3F" -> "?"]
    <3>1. CASE c \in {"%61", "%2F", "%3F"}
      <4>1. UrlDecode(c) = plain[c]
        BY <3>1 DEF UrlDecode
      <4>2. plain["%61"] = "a" /\ plain["%2F"] = "/" /\ plain["%3F"] = "?"
        OBVIOUS
      <4>3. plain[c] \in {"a", "/", "?"}
        BY <3>1, <4>2, Zenon
      <4> HIDE DEF plain
      <4> QED
        BY <4>1, <4>3 DEF Names
    <3>2. CASE c \notin {"%61", "%2F", "%3F"}
      BY <3>2 DEF UrlDecode, Names
    <3> QED
      BY <3>1, <3>2
  <2>2. DOMAIN raw = 1..Len(raw) /\ Len(raw) \in Nat /\ \A i \in 1..Len(raw) : raw[i] \in STRING
    OBVIOUS
  <2>3. \A i \in 1..Len(raw) : UrlDecode(raw[i]) \in Names
    BY <2>1, <2>2
  <2> QED
    BY <2>2, <2>3
<1> HIDE DEF url
<1>2. hash = 0 \/ hash \in 1..Len(url)
  <2>1. H \subseteq 1..Len(url)
    OBVIOUS
  <2> HIDE DEF H
  <2> QED
    BY <1>1, <2>1, Extremes
<1> HIDE DEF hash
<1>3. view \in Seq(Names) /\ Len(view) \in Nat /\ Len(view) <= Len(url)
  <2>1. CASE hash = 0
    BY <1>1, <2>1
  <2>2. CASE hash # 0
    <3>1. hash \in 1..Len(url)
      BY <1>2, <2>2
    <3>2. SubSeq(url, 1, hash - 1) \in Seq(Names) /\ Len(SubSeq(url, 1, hash - 1)) = hash - 1
      BY <1>1, <3>1
    <3> QED
      BY <1>1, <2>2, <3>1, <3>2
  <2> QED
    BY <2>1, <2>2
<1> HIDE DEF view
<1>4. query = 0 \/ query \in 1..Len(view)
  <2>1. Q \subseteq 1..Len(view)
    OBVIOUS
  <2> HIDE DEF Q
  <2> QED
    BY <1>3, <2>1, Extremes
<1>5. DecodeUrl(raw) = IF query = 0 THEN url ELSE SubSeq(url, 1, query - 1)
  BY DEF DecodeUrl, SelectInSeq, SelectLastInSeq, url, hash, view
<1> HIDE DEF query
<1>6. DecodeUrl(raw) \in Seq(Names)
  <2>1. CASE query = 0
    BY <1>1, <1>5, <2>1
  <2>2. CASE query # 0
    <3>1. query \in 1..Len(url)
      BY <1>1, <1>3, <1>4, <2>2
    <3>2. SubSeq(url, 1, query - 1) \in Seq(Names)
      BY <1>1, <3>1
    <3> QED
      BY <1>5, <2>2, <3>2
  <2> QED
    BY <2>1, <2>2
<1>7. SplitToViews(DecodeUrl(raw)) \in Seq(Names)
  BY <1>6, OnlyFacts DEF SplitToViews
<1> QED
  BY <1>6, <1>7

LEMMA SplitFacts ==
  ASSUME NEW url \in Seq(Names)
  PROVE  SplitToViews(url) \in Seq(Names) /\ ToSet(SplitToViews(url)) = ToSet(url) \ {"/"}
<1>1. ToSet(url) \cap (ToSet(url) \ {"/"}) = ToSet(url) \ {"/"}
  OBVIOUS
<1> QED
  BY <1>1, OnlyFacts DEF SplitToViews

\* A servlet is reached only where no filter of the chain returned false: all of
\* them ran.
LEMMA DispatchCovers ==
  ASSUME NEW url \in Seq(Names), NEW veto
  PROVE  /\ DoDispathcer(url, veto) = [ran |-> DoDispathcer(url, veto).ran, by |-> DoDispathcer(url, veto).by,
                                       found |-> DoDispathcer(url, veto).found]
         /\ DoDispathcer(url, veto).ran \in Seq(Filters)
         /\ DoDispathcer(url, veto).by \in Servlets \/ ~DoDispathcer(url, veto).found =>
              Covering(SplitToViews(url)) \subseteq ToSet(DoDispathcer(url, veto).ran)
<1> DEFINE path == SplitToViews(url)
           chain == MatchChain(path)
           I == {i \in 1..Len(chain) : chain[i] \in veto}
           stop == IF I # {} THEN Min(I) ELSE 0
           d == DoDispathcer(url, veto)
<1>1. path \in Seq(Names)
  BY SplitFacts
<1>2. chain \in Seq(Filters) /\ Covering(path) \subseteq ToSet(chain)
  <2> HIDE DEF path
  <2> QED
    BY <1>1, MatchChainCovers
<1>3. d = IF stop # 0 THEN [ran |-> SubSeq(chain, 1, stop), by |-> chain[stop], found |-> TRUE]
          ELSE [ran |-> chain, by |-> TryMatch(path), found |-> TryMatch(path) # NoServlet]
  BY DEF DoDispathcer, SelectInSeq
<1> HIDE DEF d, chain
<1>4. stop = 0 \/ stop \in 1..Len(chain)
  <2>1. I \subseteq 1..Len(chain) /\ Len(chain) \in Nat
    BY <1>2
  <2> HIDE DEF I
  <2> QED
    BY <2>1, Extremes
<1> HIDE DEF stop, path
<1>5. CASE stop = 0
  <2>1. d = [ran |-> chain, by |-> TryMatch(path), found |-> TryMatch(path) # NoServlet]
    BY <1>3, <1>5
  <2>2. d.ran = chain /\ d = [ran |-> d.ran, by |-> d.by, found |-> d.found]
    BY <2>1
  <2> QED
    BY <1>2, <2>2 DEF d, path
<1>6. CASE stop # 0
  <2>1. d = [ran |-> SubSeq(chain, 1, stop), by |-> chain[stop], found |-> TRUE]
    BY <1>3, <1>6
  <2>2. d.by = chain[stop] /\ d.found /\ d.ran = SubSeq(chain, 1, stop) /\ d = [ran |-> d.ran, by |-> d.by, found |-> d.found]
    BY <2>1
  <2>3. chain[stop] \in Filters /\ SubSeq(chain, 1, stop) \in Seq(Filters)
    BY <1>2, <1>4, <1>6
  <2>4. d.by \notin Servlets
    BY <2>2, <2>3, RoutesAssumption
  <2> QED
    BY <2>2, <2>3, <2>4 DEF d
<1> QED
  BY <1>5, <1>6

\* The same for ForwardTo, which tries the root again as /index.html.
LEMMA ForwardCovers ==
  ASSUME NEW url \in Seq(Names), NEW veto, ForwardTo(url, veto).by \in Servlets
  PROVE  Covering(SplitToViews(url)) \subseteq ToSet(ForwardTo(url, veto).ran)
<1> DEFINE first == DoDispathcer(url, veto)
           second == DoDispathcer(Index, veto)
<1>1. ForwardTo(url, veto) = IF first.found \/ url # Root THEN first ELSE [second EXCEPT !.ran = first.ran \o @]
  BY DEF ForwardTo
<1>2. /\ first.ran \in Seq(Filters)
      /\ first.by \in Servlets \/ ~first.found => Covering(SplitToViews(url)) \subseteq ToSet(first.ran)
  BY DispatchCovers
<1>3. Index \in Seq(Names)
  BY DEF Index, Names
<1>4. second.ran \in Seq(Filters) /\ second = [ran |-> second.ran, by |-> second.by, found |-> second.found]
  BY <1>3, DispatchCovers
<1> HIDE DEF first, second
<1>5. CASE first.found \/ url # Root
  BY <1>1, <1>2, <1>5
<1>6. CASE ~first.found /\ url = Root
  <2>1. ForwardTo(url, veto) = [second EXCEPT !.ran = first.ran \o @]
    BY <1>1, <1>6
  <2>2. ForwardTo(url, veto).ran = first.ran \o second.ran
    BY <1>4, <2>1
  <2>3. ToSet(first.ran) \subseteq ToSet(first.ran \o second.ran)
    BY <1>2, <1>4, ConcatSet
  <2> QED
    BY <1>2, <1>6, <2>2, <2>3
<1> QED
  BY <1>5, <1>6

-----------------------------------------------------------------------------
(* The parser.                                                             *)

TokenKinds == {"none", "url", "version", "field", "value", "eol", "end", "body"}

\* Where a token is in its request.
TokenOk(t) ==
  /\ t = [req |-> t.req, token |-> t.token, n |-> t.n, headers |-> t.headers]
  /\ t.req \in 0..Len(stream) /\ t.token \in TokenKinds /\ t.n \in Nat /\ t.headers \in Nat
  /\ t.req = 0 <=> t.token = "none"
  /\ LET r == stream[t.req] IN
     /\ t.token = "url" => t.n > 0 /\ t.n <= r.size /\ t.headers = 0
     /\ t.token = "version" => t.headers = 0
     /\ t.token = "field" => t.n <= r.field
     /\ t.token = "value" => t.n <= r.value
     /\ t.token \in {"field", "value", "eol"} => t.headers > 0 /\ t.headers <= r.headers
     /\ t.token \in {"end", "body"} => t.headers = r.headers
     /\ t.token = "body" => t.n > 0 /\ t.n <= r.body

\* The requests that end at t or before it.
Ended(t) == IF IsLast(t) THEN t.req ELSE t.req - 1

\* What the parser holds of the request t is in.
Partial(p, t) ==
  LET r == stream[t.req] IN
  /\ t.token = "url" => p.buf = t.n /\ t.n <= MaxUrlSize /\ p.headers = 0 /\ p.val = 0 /\ p.check
  /\ t.token = "version" => p.buf = 0 /\ p.headers = 0 /\ p.val = 0 /\ p.check
  /\ t.token = "field" => p.buf = t.n /\ t.n <= MaxHeaderFieldSize /\ p.val = 0
  /\ t.token = "value" => p.val = t.n /\ t.n <= MaxHeaderValueSize
  /\ t.token \in {"field", "value"} => p.headers + 1 = t.headers
  /\ t.token \in {"eol", "end"} => p.headers = t.headers /\ p.buf = 0 /\ p.val = 0
  /\ t.token = "body" => p.headers = t.headers /\ p.val = 0 /\ ~p.check /\ r.length \in 0..MaxBodySize
  /\ t.token \notin {"none", "body"} => p.check
  /\ t.token \notin {"none", "url"} => r.size <= MaxUrlSize /\ ~Dots(r.url)
  /\ t.token \in {"field", "value", "eol", "end", "body"} => t.headers <= MaxHeaderCount
  /\ t.token \in {"value", "eol"} => r.field <= MaxHeaderFieldSize
  /\ t.token = "eol" => r.value <= MaxHeaderValueSize
  /\ t.token \in {"field", "value", "eol", "end", "body"} /\ t.headers > 1 =>
       r.field <= MaxHeaderFieldSize /\ r.value <= MaxHeaderValueSize
  /\ t.token \in {"end", "body"} /\ t.headers > 0 =>
       r.field <= MaxHeaderFieldSize /\ r.value <= MaxHeaderValueSize

\* Nothing of a request is held.
Idle(p) == p.buf = 0 /\ p.val = 0 /\ p.headers = 0 /\ p.check

ParserShape(p) ==
  /\ p = [buf |-> p.buf, val |-> p.val, headers |-> p.headers, check |-> p.check, queue |-> p.queue, bad |-> p.bad]
  /\ p.buf \in Nat /\ p.val \in Nat /\ p.headers \in Nat

\* A parser that took nothing past its limits has the requests after the from-th
\* in its queue; a request past them comes after the from-th.
ParserOk(p, t, from) ==
  /\ ParserShape(p)
  /\ IF p.bad THEN \E j \in (from + 1)..t.req : ~Legal(stream[j])
     ELSE /\ from <= Ended(t)
          /\ p.queue = [k \in 1..(Ended(t) - from) |-> from + k]
          /\ \A j \in 1..Ended(t) : Legal(stream[j])
          /\ IF IsLast(t) THEN Idle(p) ELSE Partial(p, t)

-----------------------------------------------------------------------------
(* The responses.                                                          *)

RespFields == {"of", "status", "body", "size", "length", "keep", "by", "ran", "session", "setCookie"}
RespShape(r) == r = [f \in RespFields |-> r[f]]

\* Whom resp answers.
RespOf ==
  /\ pc \in Sending => IF resp.of = Bad THEN parser.bad /\ ~resp.keep ELSE ~parser.bad /\ resp.of = taken
  /\ resp.of \in 0..taken

BodyOk(r) ==
  /\ r.body \in {"none", "text", "file", "failed"} /\ r.status \in Statuses
  /\ r.body = "none" => r.length = Unframed
  /\ r.body \in {"text", "file"} => r.size \in Nat /\ r.length = r.size
  /\ r.length \in Int

RespBody ==
  /\ BodyOk(resp)
  /\ pc = "page" => (resp.body = "failed" => resp.status # "OK") /\ (resp.body = "file" => resp.status = "OK")
  /\ pc = "header" =>
       (resp.body = "failed" => resp.status \in BarePages) /\ (resp.body = "file" => resp.status = "OK")

\* A response has its request's own session or an earlier one; a request that
\* was given a session named none that is still there.
SessionOk(session, setCookie, i) ==
  /\ session \in 0..i
  /\ setCookie = NoSession \/ (setCookie = i /\ session = i /\ stream[i].cookie \notin sessions)

\* The wire holds one response for each request taken, or all but the one in hand.
WireLen ==
  /\ pc = "read" => Len(wire) = taken /\ ~parser.bad
  /\ pc \in {"page", "header"} => Len(wire) = IF resp.of = Bad THEN taken ELSE taken - 1
  /\ pc \in {"read", "page", "header"} => \A i \in DOMAIN wire : wire[i].of # Bad
  /\ pc \in {"text", "file", "sent"} =>
       /\ Len(wire) = IF resp.of = Bad THEN taken + 1 ELSE taken
       /\ wire # <<>> /\ wire[Len(wire)].of = resp.of

Answer(i) ==
  IF wire[i].of = Bad
  THEN /\ i = Len(wire) /\ wire[i].session = NoSession /\ wire[i].setCookie = NoSession
       /\ \E j \in i..Len(stream) : ~Legal(stream[j]) /\ (~joined => j = i)
  ELSE /\ wire[i].of = i /\ i <= Len(stream) /\ Legal(stream[i])
       /\ SessionOk(wire[i].session, wire[i].setCookie, i)

WireOk == \A i \in DOMAIN wire : Answer(i)

Whole(w) == w.sent = IF w.length = Unframed THEN 0 ELSE w.length

Framing ==
  /\ \A i \in DOMAIN wire : i < Len(wire) \/ pc \in {"read", "page", "header", "sent"} => Whole(wire[i])
  /\ pc \in {"text", "file"} => left \in Nat /\ wire[Len(wire)].length = wire[Len(wire)].sent + left

Heads == [of : Nat, status : Statuses, length : Int, sent : Nat, session : Nat, setCookie : Nat]

StreamInv ==
  /\ stream \in Streams /\ TokenOk(at) /\ joined \in BOOLEAN
  /\ taken \in 0..Len(stream) /\ taken <= at.req /\ sessions \subseteq 1..taken
  /\ ParserOk(parser, at, taken)
  /\ ~joined => IF parser.bad THEN ~Legal(stream[taken + 1]) ELSE Ended(at) = taken

RespInv == RespShape(resp) /\ RespOf /\ RespBody /\ SessionOk(resp.session, resp.setCookie, resp.of)

WireInv == wire \in Seq(Heads) /\ WireLen /\ WireOk /\ Framing

HttpInv == StreamInv /\ RespInv /\ WireInv /\ NoFilterBypassed /\ AbortsExplained

-----------------------------------------------------------------------------
(* The parser takes one token.                                             *)

LEMMA RequestFacts ==
  ASSUME stream \in Streams, NEW i \in 1..Len(stream)
  PROVE  /\ stream[i].url \in Seq(STRING) /\ stream[i].size \in Nat /\ stream[i].size > 0
         /\ stream[i].headers \in Nat /\ stream[i].field \in Nat /\ stream[i].field > 0
         /\ stream[i].value \in Nat /\ stream[i].length \in Int /\ stream[i].body \in Nat
         /\ stream[i].cookie \in Nat
<1>1. stream \in Seq(Requests)
  BY StreamsAssumption
<1>2. stream[i] \in Requests
  BY <1>1
<1> QED
  BY <1>2, SMTT(30) DEF Requests

LEMMA StreamLen ==
  ASSUME stream \in Streams
  PROVE  Len(stream) \in Nat /\ DOMAIN stream = 1..Len(stream)
BY StreamsAssumption

\* The token after t: its request is the one after those that ended at t.
LEMMA FollowingFacts ==
  ASSUME stream \in Streams, NEW t, TokenOk(t), ~NoMore(t)
  PROVE  LET u == Following(t)
             r == stream[u.req]
         IN /\ TokenOk(u) /\ u.req = Ended(t) + 1 /\ t.req <= u.req
            /\ u.token # "none" /\ (u.token = "url" /\ u.n = 1 <=> IsLast(t))
            /\ IsLast(t) => u.token = "url" /\ u.n = 1
            /\ ~IsLast(t) => u.req = t.req /\ t.token # "none"
            /\ ~IsLast(t) =>
                 \/ t.token = "url" /\ u.token = "url" /\ u.n = t.n + 1
                 \/ t.token = "url" /\ u.token = "version" /\ t.n = r.size
                 \/ t.token \in {"version", "eol"} /\ u.token = "field" /\ u.n = 1 /\ u.headers = t.headers + 1
                 \/ t.token \in {"version", "eol"} /\ u.token = "end" /\ u.headers = t.headers
                 \/ t.token = "field" /\ u.token = "field" /\ u.n = t.n + 1 /\ u.headers = t.headers
                 \/ t.token = "field" /\ u.token = "value" /\ u.n = 1 /\ t.n = r.field /\ u.headers = t.headers
                 \/ t.token = "field" /\ u.token = "eol" /\ t.n = r.field /\ r.value = 0 /\ u.headers = t.headers
                 \/ t.token = "value" /\ u.token = "value" /\ u.n = t.n + 1 /\ u.headers = t.headers
                 \/ t.token = "value" /\ u.token = "eol" /\ t.n = r.value /\ u.headers = t.headers
                 \/ t.token = "end" /\ u.token = "body" /\ u.headers = t.headers /\ u.n = 1
                 \/ t.token = "body" /\ u.token = "body" /\ u.headers = t.headers /\ u.n = t.n + 1
<1> DEFINE u == Following(t)
           r == stream[t.req]
<1>0. /\ Len(stream) \in Nat
      /\ t = [req |-> t.req, token |-> t.token, n |-> t.n, headers |-> t.headers]
      /\ t.req \in 0..Len(stream) /\ t.token \in TokenKinds /\ t.n \in Nat /\ t.headers \in Nat
      /\ t.req = 0 <=> t.token = "none"
  BY StreamLen DEF TokenOk
<1>1. CASE IsLast(t)
  <2>1. u = [req |-> t.req + 1, token |-> "url", n |-> 1, headers |-> 0]
    BY <1>1 DEF Following
  <2>2. t.req + 1 \in 1..Len(stream)
    BY <1>0, <1>1 DEF NoMore
  <2>3. 1 <= stream[t.req + 1].size
    BY <2>2, RequestFacts
  <2>4. TokenOk(u)
    BY <1>0, <2>1, <2>2, <2>3 DEF TokenOk, TokenKinds
  <2> QED
    BY <1>0, <1>1, <2>1, <2>4 DEF Ended
<1>2. CASE ~IsLast(t)
  <2>1. t.token # "none" /\ t.req \in 1..Len(stream)
    BY <1>0, <1>2 DEF IsLast
  <2>2. /\ r.size \in Nat /\ r.headers \in Nat /\ r.field \in Nat /\ r.value \in Nat /\ r.body \in Nat
        /\ r.field > 0
    BY <2>1, RequestFacts
  <2>3. /\ t.token = "url" => t.n <= r.size /\ t.headers = 0
        /\ t.token = "version" => t.headers = 0
        /\ t.token = "field" => t.n <= r.field
        /\ t.token = "value" => t.n <= r.value
        /\ t.token \in {"field", "value", "eol"} => t.headers > 0 /\ t.headers <= r.headers
        /\ t.token \in {"end", "body"} => t.headers = r.headers
        /\ t.token = "body" => t.n > 0 /\ t.n <= r.body
    BY DEF TokenOk
  <2>4. (t.token = "end" => r.body # 0) /\ (t.token = "body" => t.n # r.body)
    BY <1>2 DEF IsLast
  <2>5. t.req = Ended(t) + 1
    BY <1>0, <1>2, <2>1 DEF Ended
  <2> DEFINE Goal ==
        /\ u.req = t.req
        /\ u.token # "none" /\ ~(u.token = "url" /\ u.n = 1)
        /\ TokenOk(u)
        /\ \/ t.token = "url" /\ u.token = "url" /\ u.n = t.n + 1
           \/ t.token = "url" /\ u.token = "version" /\ t.n = r.size
           \/ t.token \in {"version", "eol"} /\ u.token = "field" /\ u.n = 1 /\ u.headers = t.headers + 1
           \/ t.token \in {"version", "eol"} /\ u.token = "end" /\ u.headers = t.headers
           \/ t.token = "field" /\ u.token = "field" /\ u.n = t.n + 1 /\ u.headers = t.headers
           \/ t.token = "field" /\ u.token = "value" /\ u.n = 1 /\ t.n = r.field /\ u.headers = t.headers
           \/ t.token = "field" /\ u.token = "eol" /\ t.n = r.field /\ r.value = 0 /\ u.headers = t.headers
           \/ t.token = "value" /\ u.token = "value" /\ u.n = t.n + 1 /\ u.headers = t.headers
           \/ t.token = "value" /\ u.token = "eol" /\ t.n = r.value /\ u.headers = t.headers
           \/ t.token = "end" /\ u.token = "body" /\ u.headers = t.headers /\ u.n = 1
           \/ t.token = "body" /\ u.token = "body" /\ u.headers = t.headers /\ u.n = t.n + 1
  <2>6. ASSUME t.token = "url" PROVE Goal
    <3>1. t.n > 0
      BY <2>6 DEF TokenOk
    <3>2. CASE t.n < r.size
      <4>1. u = [req |-> t.req, token |-> "url", n |-> t.n + 1, headers |-> t.headers]
        BY <1>0, <1>2, <2>6, <3>2 DEF Following
      <4>2. TokenOk(u)
        BY <1>0, <2>1, <2>2, <2>3, <2>6, <3>2, <4>1 DEF TokenOk, TokenKinds
      <4> HIDE DEF u
      <4> QED
        BY <1>0, <2>6, <3>1, <4>1, <4>2
    <3>3. CASE ~(t.n < r.size)
      <4>1. u = [req |-> t.req, token |-> "version", n |-> 1, headers |-> t.headers]
        BY <1>0, <1>2, <2>6, <3>3 DEF Following
      <4>2. TokenOk(u)
        BY <1>0, <2>1, <2>2, <2>3, <2>6, <3>3, <4>1 DEF TokenOk, TokenKinds
      <4>3. t.n = r.size
        BY <1>0, <2>2, <2>3, <2>6, <3>3
      <4> HIDE DEF u
      <4> QED
        BY <2>6, <4>1, <4>2, <4>3
    <3> QED
      BY <3>2, <3>3
  <2>7. ASSUME t.token \in {"version", "eol"} PROVE Goal
    <3>2. CASE t.headers < r.headers
      <4>1. u = [req |-> t.req, token |-> "field", n |-> 1, headers |-> t.headers + 1]
        BY <1>0, <1>2, <2>7, <3>2 DEF Following
      <4>2. TokenOk(u)
        BY <1>0, <2>1, <2>2, <2>3, <2>7, <3>2, <4>1, SMTT(30) DEF TokenOk, TokenKinds
      <4> HIDE DEF u
      <4> QED
        BY <2>7, <4>1, <4>2
    <3>3. CASE ~(t.headers < r.headers)
      <4>1. u = [req |-> t.req, token |-> "end", n |-> 1, headers |-> t.headers]
        BY <1>0, <1>2, <2>7, <3>3 DEF Following
      <4>2. t.headers = r.headers
        BY <1>0, <2>2, <2>3, <2>7, <3>3
      <4>3. TokenOk(u)
        BY <1>0, <2>1, <2>2, <2>3, <2>7, <4>1, <4>2 DEF TokenOk, TokenKinds
      <4> HIDE DEF u
      <4> QED
        BY <2>7, <4>1, <4>3
    <3> QED
      BY <3>2, <3>3
  <2>8. ASSUME t.token = "field" PROVE Goal
    <3>2. CASE t.n < r.field
      <4>1. u = [req |-> t.req, token |-> "field", n |-> t.n + 1, headers |-> t.headers]
        BY <1>0, <1>2, <2>8, <3>2 DEF Following
      <4>2. TokenOk(u)
        BY <1>0, <2>1, <2>2, <2>3, <2>8, <3>2, <4>1 DEF TokenOk, TokenKinds
      <4> HIDE DEF u
      <4> QED
        BY <2>8, <4>1, <4>2
    <3>3. CASE ~(t.n < r.field)
      <4>1. u = [req |-> t.req, token |-> IF r.value > 0 THEN "value" ELSE "eol", n |-> 1, headers |-> t.headers]
        BY <1>0, <1>2, <2>8, <3>3 DEF Following
      <4>2. t.n = r.field
        BY <1>0, <2>2, <2>3, <2>8, <3>3
      <4>3. TokenOk(u)
        <5>1. CASE r.value > 0
          BY <1>0, <2>1, <2>2, <2>3, <2>8, <4>1, <5>1 DEF TokenOk, TokenKinds
        <5>2. CASE ~(r.value > 0)
          BY <1>0, <2>1, <2>2, <2>3, <2>8, <4>1, <5>2 DEF TokenOk, TokenKinds
        <5> QED
          BY <5>1, <5>2
      <4>4. r.value > 0 \/ r.value = 0
        BY <2>2
      <4> HIDE DEF u
      <4> QED
        BY <2>8, <4>1, <4>2, <4>3, <4>4
    <3> QED
      BY <3>2, <3>3
  <2>9. ASSUME t.token = "value" PROVE Goal
    <3>2. CASE t.n < r.value
      <4>1. u = [req |-> t.req, token |-> "value", n |-> t.n + 1, headers |-> t.headers]
        BY <1>0, <1>2, <2>9, <3>2 DEF Following
      <4>2. TokenOk(u)
        BY <1>0, <2>1, <2>2, <2>3, <2>9, <3>2, <4>1 DEF TokenOk, TokenKinds
      <4> HIDE DEF u
      <4> QED
        BY <2>9, <4>1, <4>2
    <3>3. CASE ~(t.n < r.value)
      <4>1. u = [req |-> t.req, token |-> "eol", n |-> 1, headers |-> t.headers]
        BY <1>0, <1>2, <2>9, <3>3 DEF Following
      <4>2. TokenOk(u)
        BY <1>0, <2>1, <2>2, <2>3, <2>9, <3>3, <4>1 DEF TokenOk, TokenKinds
      <4>3. t.n = r.value
        BY <1>0, <2>2, <2>3, <2>9, <3>3
      <4> HIDE DEF u
      <4> QED
        BY <2>9, <4>1, <4>2, <4>3
    <3> QED
      BY <3>2, <3>3
  <2>10. ASSUME t.token \in {"end", "body"} PROVE Goal
    <3> DEFINE n == IF t.token = "body" THEN t.n + 1 ELSE 1
    <3>1. u = [req |-> t.req, token |-> "body", n |-> n, headers |-> t.headers]
      BY <1>0, <1>2, <2>10 DEF Following
    <3>2. n \in Nat /\ n > 0 /\ n <= r.body
      BY <1>0, <2>2, <2>3, <2>4, <2>10
    <3>0. (t.token = "body" => n = t.n + 1) /\ (t.token = "end" => n = 1)
      OBVIOUS
    <3> HIDE DEF n
    <3>3. TokenOk(u)
      BY <1>0, <2>1, <2>2, <2>3, <2>10, <3>1, <3>2 DEF TokenOk, TokenKinds
    <3> HIDE DEF u
    <3> QED
      BY <2>10, <3>0, <3>1, <3>3
  <2>11. Goal
    BY <1>0, <2>1, <2>6, <2>7, <2>8, <2>9, <2>10 DEF TokenKinds
  <2> HIDE DEF u
  <2> QED
    BY <1>0, <1>2, <2>1, <2>5, <2>11 DEF u
<1> QED
  BY <1>1, <1>2

\* What the parser holds before it takes u.
Before(p, u) ==
  LET r == stream[u.req] IN
  /\ p.check <=> ~(u.token = "body" /\ u.n > 1)
  /\ u.token = "url" => p.buf = u.n - 1 /\ p.headers = 0 /\ p.val = 0
  /\ u.token = "version" => p.headers = 0 /\ p.val = 0
  /\ u.token = "field" => p.buf = u.n - 1 /\ p.val = 0
  /\ u.token = "value" => p.val = u.n - 1
  /\ u.token \in {"field", "value", "eol"} => p.headers + 1 = u.headers
  /\ u.token = "end" => p.headers = u.headers /\ p.buf = 0 /\ p.val = 0
  /\ u.token = "body" => p.headers = u.headers /\ p.val = 0 /\ (~p.check => r.length \in 0..MaxBodySize)
  /\ u.token # "url" => r.size <= MaxUrlSize
  /\ u.token \notin {"url", "version"} => ~Dots(r.url)
  /\ u.token \in {"value", "eol"} => u.headers <= MaxHeaderCount /\ r.field <= MaxHeaderFieldSize
  /\ u.token \in {"end", "body"} => u.headers <= MaxHeaderCount
  /\ u.token = "eol" => r.value <= MaxHeaderValueSize
  /\ u.token \in {"field", "value", "eol", "end", "body"} /\ u.headers > 1 =>
       r.field <= MaxHeaderFieldSize /\ r.value <= MaxHeaderValueSize
  /\ u.token \in {"end", "body"} /\ u.headers > 0 =>
       r.field <= MaxHeaderFieldSize /\ r.value <= MaxHeaderValueSize

LEMMA LimitsFacts ==
  /\ MaxUrlSize \in Nat /\ MaxHeaderCount \in Nat /\ MaxHeaderFieldSize \in Nat
  /\ MaxHeaderValueSize \in Nat /\ MaxBodySize \in Nat /\ MaxRead \in Nat /\ FileSizes \subseteq Nat
BY LimitsAssumption

LEMMA BeforeFacts ==
  ASSUME stream \in Streams, NEW t, TokenOk(t), ~NoMore(t), NEW p, ParserShape(p),
         IF IsLast(t) THEN Idle(p) ELSE Partial(p, t)
  PROVE  Before(p, Following(t))
<1> DEFINE u == Following(t)
           r == stream[u.req]
<1>1. /\ TokenOk(u) /\ TokenOk(t)
      /\ IsLast(t) => u.token = "url" /\ u.n = 1
      /\ ~IsLast(t) => u.req = t.req /\ t.token # "none"
      /\ ~IsLast(t) =>
           \/ t.token = "url" /\ u.token = "url" /\ u.n = t.n + 1
           \/ t.token = "url" /\ u.token = "version" /\ t.n = r.size
           \/ t.token \in {"version", "eol"} /\ u.token = "field" /\ u.n = 1 /\ u.headers = t.headers + 1
           \/ t.token \in {"version", "eol"} /\ u.token = "end" /\ u.headers = t.headers
           \/ t.token = "field" /\ u.token = "field" /\ u.n = t.n + 1 /\ u.headers = t.headers
           \/ t.token = "field" /\ u.token = "value" /\ u.n = 1 /\ t.n = r.field /\ u.headers = t.headers
           \/ t.token = "field" /\ u.token = "eol" /\ t.n = r.field /\ r.value = 0 /\ u.headers = t.headers
           \/ t.token = "value" /\ u.token = "value" /\ u.n = t.n + 1 /\ u.headers = t.headers
           \/ t.token = "value" /\ u.token = "eol" /\ t.n = r.value /\ u.headers = t.headers
           \/ t.token = "end" /\ u.token = "body" /\ u.headers = t.headers /\ u.n = 1
           \/ t.token = "body" /\ u.token = "body" /\ u.headers = t.headers /\ u.n = t.n + 1
  BY FollowingFacts
<1> HIDE DEF u
<1>2. /\ t.n \in Nat /\ t.headers \in Nat /\ u.n \in Nat /\ u.headers \in Nat
      /\ t.token = "version" => t.headers = 0
      /\ t.token \in {"field", "value", "eol"} => t.headers > 0
      /\ t.token = "body" => t.n > 0
  BY <1>1 DEF TokenOk
<1>3. /\ MaxUrlSize \in Nat /\ MaxHeaderCount \in Nat /\ MaxHeaderFieldSize \in Nat
      /\ MaxHeaderValueSize \in Nat /\ MaxBodySize \in Nat
  BY LimitsFacts
<1>4. p.buf \in Nat /\ p.val \in Nat /\ p.headers \in Nat
  BY DEF ParserShape
<1>5. CASE IsLast(t)
  <2>1. p.buf = 0 /\ p.val = 0 /\ p.headers = 0 /\ p.check /\ u.token = "url" /\ u.n = 1
    BY <1>1, <1>5 DEF Idle
  <2> QED
    BY <2>1 DEF Before, u
<1>6. CASE ~IsLast(t)
  <2>1. Partial(p, t) /\ u.req = t.req
    BY <1>1, <1>6
  <2> DEFINE bt == t.token
             bu == u.token
  <2>2. CASE bt = "url" /\ bu = "url" /\ u.n = t.n + 1
    <3>1. p.buf = t.n /\ p.headers = 0 /\ p.val = 0 /\ p.check
      BY <2>1, <2>2 DEF Partial
    <3> QED
      BY <1>2, <2>2, <3>1 DEF Before, u
  <2>3. CASE bt = "url" /\ bu = "version" /\ t.n = r.size
    <3>1. p.headers = 0 /\ p.val = 0 /\ p.check /\ r.size <= MaxUrlSize
      BY <2>1, <2>3 DEF Partial
    <3> QED
      BY <2>3, <3>1 DEF Before, u
  <2>4. CASE bt \in {"version", "eol"} /\ bu = "field" /\ u.n = 1 /\ u.headers = t.headers + 1
    <3>1. /\ p.buf = 0 /\ p.val = 0 /\ p.check /\ r.size <= MaxUrlSize /\ ~Dots(r.url) /\ p.headers = t.headers
          /\ bt = "eol" => r.field <= MaxHeaderFieldSize /\ r.value <= MaxHeaderValueSize
      BY <1>2, <2>1, <2>4 DEF Partial
    <3>2. u.headers > 1 => bt = "eol"
      BY <1>2, <2>4
    <3> QED
      BY <1>2, <1>4, <2>4, <3>1, <3>2 DEF Before, u
  <2>5. CASE bt \in {"version", "eol"} /\ bu = "end" /\ u.headers = t.headers
    <3>1. /\ p.buf = 0 /\ p.val = 0 /\ p.check /\ r.size <= MaxUrlSize /\ ~Dots(r.url) /\ p.headers = t.headers
          /\ bt = "eol" => r.field <= MaxHeaderFieldSize /\ r.value <= MaxHeaderValueSize
          /\ bt = "eol" => t.headers <= MaxHeaderCount
      BY <1>2, <2>1, <2>5 DEF Partial
    <3>2. (u.headers > 0 => bt = "eol") /\ u.headers <= MaxHeaderCount
      BY <1>2, <1>3, <2>5, <3>1
    <3>3. u.headers > 1 => u.headers > 0
      BY <1>2
    <3> QED
      BY <2>5, <3>1, <3>2, <3>3 DEF Before, u
  <2>6. CASE bt = "field" /\ bu = "field" /\ u.n = t.n + 1 /\ u.headers = t.headers
    <3>1. /\ p.buf = t.n /\ p.val = 0 /\ p.check /\ r.size <= MaxUrlSize /\ ~Dots(r.url)
          /\ p.headers + 1 = t.headers
          /\ t.headers > 1 => r.field <= MaxHeaderFieldSize /\ r.value <= MaxHeaderValueSize
      BY <2>1, <2>6 DEF Partial
    <3> QED
      BY <1>2, <2>6, <3>1 DEF Before, u
  <2>7. CASE bt = "field" /\ bu = "value" /\ u.n = 1 /\ t.n = r.field /\ u.headers = t.headers
    <3>1. /\ p.val = 0 /\ p.check /\ r.size <= MaxUrlSize /\ ~Dots(r.url)
          /\ p.headers + 1 = t.headers /\ t.n <= MaxHeaderFieldSize /\ t.headers <= MaxHeaderCount
          /\ t.headers > 1 => r.field <= MaxHeaderFieldSize /\ r.value <= MaxHeaderValueSize
      BY <2>1, <2>7 DEF Partial
    <3> QED
      BY <1>2, <2>7, <3>1 DEF Before, u
  <2>8. CASE bt = "field" /\ bu = "eol" /\ t.n = r.field /\ r.value = 0 /\ u.headers = t.headers
    <3>1. /\ p.check /\ r.size <= MaxUrlSize /\ ~Dots(r.url)
          /\ p.headers + 1 = t.headers /\ t.n <= MaxHeaderFieldSize /\ t.headers <= MaxHeaderCount
      BY <2>1, <2>8 DEF Partial
    <3>2. r.value <= MaxHeaderValueSize /\ r.field <= MaxHeaderFieldSize
      BY <1>3, <2>8, <3>1
    <3> QED
      BY <1>2, <2>8, <3>1, <3>2 DEF Before, u
  <2>9. CASE bt = "value" /\ bu = "value" /\ u.n = t.n + 1 /\ u.headers = t.headers
    <3>1. /\ p.val = t.n /\ p.check /\ r.size <= MaxUrlSize /\ ~Dots(r.url)
          /\ p.headers + 1 = t.headers /\ t.headers <= MaxHeaderCount /\ r.field <= MaxHeaderFieldSize
          /\ t.headers > 1 => r.field <= MaxHeaderFieldSize /\ r.value <= MaxHeaderValueSize
      BY <2>1, <2>9 DEF Partial
    <3> QED
      BY <1>2, <2>9, <3>1 DEF Before, u
  <2>10. CASE bt = "value" /\ bu = "eol" /\ t.n = r.value /\ u.headers = t.headers
    <3>1. /\ p.check /\ r.size <= MaxUrlSize /\ ~Dots(r.url)
          /\ p.headers + 1 = t.headers /\ t.headers <= MaxHeaderCount /\ r.field <= MaxHeaderFieldSize
          /\ t.n <= MaxHeaderValueSize
      BY <2>1, <2>10 DEF Partial
    <3> QED
      BY <1>2, <2>10, <3>1 DEF Before, u
  <2>11. CASE bt \in {"end", "body"} /\ bu = "body" /\ u.headers = t.headers
              /\ (bt = "end" => u.n = 1) /\ (bt = "body" => u.n = t.n + 1)
    <3>1. /\ p.val = 0 /\ r.size <= MaxUrlSize /\ ~Dots(r.url) /\ p.headers = t.headers /\ t.headers <= MaxHeaderCount
          /\ bt = "end" => p.check
          /\ bt = "body" => ~p.check /\ r.length \in 0..MaxBodySize
          /\ t.headers > 0 => r.field <= MaxHeaderFieldSize /\ r.value <= MaxHeaderValueSize
      BY <2>1, <2>11 DEF Partial
    <3>2. (u.n > 1 <=> bt = "body") /\ (u.headers > 1 => u.headers > 0)
      BY <1>2, <2>11
    <3> QED
      BY <2>11, <3>1, <3>2 DEF Before, u
  <2> QED
    BY <1>1, <1>6, <2>2, <2>3, <2>4, <2>5, <2>6, <2>7, <2>8, <2>9, <2>10, <2>11
<1> QED
  BY <1>5, <1>6

\* A callback refuses only what is past the limits, and else leaves the parser
\* with what it should hold.
LEMMA CallbackFacts ==
  ASSUME stream \in Streams, NEW u, TokenOk(u), u.token # "none",
         NEW p, ParserShape(p), ~p.bad, Before(p, u)
  PROVE  /\ ParserShape(Callback(p, u)) /\ Callback(p, u).queue = p.queue
         /\ Callback(p, u).bad => ~Legal(stream[u.req])
         /\ ~Callback(p, u).bad => Partial(Callback(p, u), u)
<1> DEFINE r == stream[u.req]
           q == Callback(p, u)
<1>1. /\ Len(stream) \in Nat /\ u.req \in 1..Len(stream) /\ u.n \in Nat /\ u.headers \in Nat
      /\ u.token \in TokenKinds
  BY StreamLen DEF TokenOk
<1>2. /\ r.size \in Nat /\ r.headers \in Nat /\ r.field \in Nat /\ r.value \in Nat /\ r.body \in Nat
  BY <1>1, RequestFacts
<1>3. /\ u.token = "url" => u.n > 0 /\ u.n <= r.size /\ u.headers = 0
      /\ u.token = "version" => u.headers = 0
      /\ u.token = "field" => u.n <= r.field
      /\ u.token = "value" => u.n <= r.value
      /\ u.token \in {"field", "value", "eol"} => u.headers > 0 /\ u.headers <= r.headers
      /\ u.token = "body" => u.n > 0 /\ u.n <= r.body
  BY DEF TokenOk
<1>4. /\ MaxUrlSize \in Nat /\ MaxHeaderCount \in Nat /\ MaxHeaderFieldSize \in Nat
      /\ MaxHeaderValueSize \in Nat /\ MaxBodySize \in Nat
  BY LimitsFacts
<1>5. /\ p = [buf |-> p.buf, val |-> p.val, headers |-> p.headers, check |-> p.check, queue |-> p.queue, bad |-> p.bad]
      /\ p.buf \in Nat /\ p.val \in Nat /\ p.headers \in Nat
  BY DEF ParserShape
<1>6. ASSUME q = Reject(p) PROVE ParserShape(q) /\ q.queue = p.queue /\ q.bad
  <2>1. q = [p EXCEPT !.bad = TRUE]
    BY <1>6 DEF Reject
  <2> HIDE DEF q
  <2> QED
    BY <1>5, <2>1 DEF ParserShape
<1> DEFINE Goal == /\ ParserShape(q) /\ q.queue = p.queue
                   /\ q.bad => ~Legal(r)
                   /\ ~q.bad => Partial(q, u)
<1>7. ASSUME u.token = "url" PROVE Goal
  <2>1. q = IF p.buf + 1 > MaxUrlSize THEN Reject(p) ELSE [p EXCEPT !.buf = @ + 1]
    BY <1>7 DEF Callback, OnUrl
  <2>2. p.buf = u.n - 1 /\ p.headers = 0 /\ p.val = 0 /\ p.check
    BY <1>7 DEF Before
  <2> HIDE DEF q
  <2>3. CASE p.buf + 1 > MaxUrlSize
    <3>1. ~Legal(r)
      BY <1>1, <1>2, <1>3, <1>4, <1>7, <2>2, <2>3 DEF Legal
    <3> QED
      BY <1>6, <2>1, <2>3, <3>1
  <2>4. CASE ~(p.buf + 1 > MaxUrlSize)
    <3>1. q = [p EXCEPT !.buf = @ + 1]
      BY <2>1, <2>4
    <3>2. /\ ParserShape(q) /\ q.queue = p.queue /\ ~q.bad /\ q.buf = p.buf + 1 /\ q.val = p.val
          /\ q.headers = p.headers /\ (q.check <=> p.check)
      BY <1>5, <3>1 DEF ParserShape
    <3>3. q.buf = u.n /\ u.n <= MaxUrlSize
      BY <1>1, <1>4, <2>2, <2>4, <3>2
    <3> QED
      BY <1>7, <2>2, <3>2, <3>3 DEF Partial
  <2> QED
    BY <2>3, <2>4
<1>8. ASSUME u.token = "version" PROVE Goal
  <2>1. q = IF Dots(r.url) THEN Reject(p) ELSE [p EXCEPT !.buf = 0]
    BY <1>8 DEF Callback, OnVersion
  <2>2. p.headers = 0 /\ p.val = 0 /\ p.check /\ r.size <= MaxUrlSize
    BY <1>8 DEF Before
  <2> HIDE DEF q
  <2>3. CASE Dots(r.url)
    <3>1. ~Legal(r)
      BY <2>3 DEF Legal
    <3> QED
      BY <1>6, <2>1, <2>3, <3>1
  <2>4. CASE ~Dots(r.url)
    <3>1. q = [p EXCEPT !.buf = 0]
      BY <2>1, <2>4
    <3>2. /\ ParserShape(q) /\ q.queue = p.queue /\ ~q.bad /\ q.buf = 0 /\ q.val = p.val
          /\ q.headers = p.headers /\ (q.check <=> p.check)
      BY <1>5, <3>1 DEF ParserShape
    <3> QED
      BY <1>8, <2>2, <2>4, <3>2 DEF Partial
  <2> QED
    BY <2>3, <2>4
<1>9. ASSUME u.token = "field" PROVE Goal
  <2>1. q = IF p.headers + 1 > MaxHeaderCount \/ p.buf + 1 > MaxHeaderFieldSize
            THEN Reject(p) ELSE [p EXCEPT !.buf = @ + 1]
    BY <1>9 DEF Callback, OnHeaderField
  <2>2. /\ p.buf = u.n - 1 /\ p.val = 0 /\ p.headers + 1 = u.headers /\ p.check
        /\ r.size <= MaxUrlSize /\ ~Dots(r.url)
        /\ u.headers > 1 => r.field <= MaxHeaderFieldSize /\ r.value <= MaxHeaderValueSize
    BY <1>9 DEF Before
  <2> HIDE DEF q
  <2>3. CASE p.headers + 1 > MaxHeaderCount \/ p.buf + 1 > MaxHeaderFieldSize
    <3>1. ~Legal(r)
      BY <1>1, <1>2, <1>3, <1>4, <1>9, <2>2, <2>3, SMTT(30) DEF Legal
    <3> QED
      BY <1>6, <2>1, <2>3, <3>1
  <2>4. CASE ~(p.headers + 1 > MaxHeaderCount \/ p.buf + 1 > MaxHeaderFieldSize)
    <3>1. q = [p EXCEPT !.buf = @ + 1]
      BY <2>1, <2>4
    <3>2. /\ ParserShape(q) /\ q.queue = p.queue /\ ~q.bad /\ q.buf = p.buf + 1 /\ q.val = p.val
          /\ q.headers = p.headers /\ (q.check <=> p.check)
      BY <1>5, <3>1 DEF ParserShape
    <3>3. q.buf = u.n /\ u.n <= MaxHeaderFieldSize /\ u.headers <= MaxHeaderCount
      BY <1>1, <1>4, <1>5, <2>2, <2>4, <3>2, SMTT(30)
    <3> QED
      BY <1>9, <2>2, <3>2, <3>3 DEF Partial
  <2> QED
    BY <2>3, <2>4
<1>10. ASSUME u.token = "value" PROVE Goal
  <2>1. q = IF p.val + 1 > MaxHeaderValueSize THEN Reject(p) ELSE [p EXCEPT !.val = @ + 1]
    BY <1>10 DEF Callback, OnHeaderValue
  <2>2. /\ p.val = u.n - 1 /\ p.headers + 1 = u.headers /\ p.check
        /\ r.size <= MaxUrlSize /\ ~Dots(r.url) /\ u.headers <= MaxHeaderCount /\ r.field <= MaxHeaderFieldSize
        /\ u.headers > 1 => r.field <= MaxHeaderFieldSize /\ r.value <= MaxHeaderValueSize
    BY <1>10 DEF Before
  <2> HIDE DEF q
  <2>3. CASE p.val + 1 > MaxHeaderValueSize
    <3>1. ~Legal(r)
      BY <1>1, <1>2, <1>3, <1>4, <1>10, <2>2, <2>3, SMTT(30) DEF Legal
    <3> QED
      BY <1>6, <2>1, <2>3, <3>1
  <2>4. CASE ~(p.val + 1 > MaxHeaderValueSize)
    <3>1. q = [p EXCEPT !.val = @ + 1]
      BY <2>1, <2>4
    <3>2. /\ ParserShape(q) /\ q.queue = p.queue /\ ~q.bad /\ q.buf = p.buf /\ q.val = p.val + 1
          /\ q.headers = p.headers /\ (q.check <=> p.check)
      BY <1>5, <3>1 DEF ParserShape
    <3>3. q.val = u.n /\ u.n <= MaxHeaderValueSize
      BY <1>1, <1>4, <2>2, <2>4, <3>2
    <3> QED
      BY <1>10, <2>2, <3>2, <3>3 DEF Partial
  <2> QED
    BY <2>3, <2>4
<1>11. ASSUME u.token = "eol" PROVE Goal
  <2>1. q = [p EXCEPT !.headers = @ + 1, !.buf = 0, !.val = 0]
    BY <1>11 DEF Callback, OnHeaderValueComplete
  <2>2. /\ p.headers + 1 = u.headers /\ p.check
        /\ r.size <= MaxUrlSize /\ ~Dots(r.url) /\ u.headers <= MaxHeaderCount /\ r.field <= MaxHeaderFieldSize
        /\ r.value <= MaxHeaderValueSize
    BY <1>11 DEF Before
  <2> HIDE DEF q
  <2>3. /\ ParserShape(q) /\ q.queue = p.queue /\ ~q.bad /\ q.buf = 0 /\ q.val = 0
        /\ q.headers = p.headers + 1 /\ (q.check <=> p.check)
    <3>1. q = [buf |-> 0, val |-> 0, headers |-> p.headers + 1, check |-> p.check, queue |-> p.queue, bad |-> p.bad]
      BY <1>5, <2>1
    <3>2. /\ q.queue = p.queue /\ ~q.bad /\ q.buf = 0 /\ q.val = 0
          /\ q.headers = p.headers + 1 /\ q.check = p.check
      BY <3>1
    <3>3. ParserShape(q)
      BY <1>5, <3>1 DEF ParserShape
    <3> QED
      BY <3>2, <3>3
  <2> QED
    BY <1>11, <2>2, <2>3 DEF Partial
<1>12. ASSUME u.token = "end" PROVE Goal
  <2>1. q = p
    BY <1>12 DEF Callback
  <2>2. /\ p.headers = u.headers /\ p.buf = 0 /\ p.val = 0 /\ p.check
        /\ r.size <= MaxUrlSize /\ ~Dots(r.url) /\ u.headers <= MaxHeaderCount
        /\ u.headers > 0 => r.field <= MaxHeaderFieldSize /\ r.value <= MaxHeaderValueSize
    BY <1>12 DEF Before
  <2>3. u.headers > 1 => u.headers > 0
    BY <1>1
  <2> HIDE DEF q
  <2> QED
    BY <1>12, <2>1, <2>2, <2>3 DEF Partial
<1>13. ASSUME u.token = "body" PROVE Goal
  <2>1. q = IF p.check /\ r.length \notin 0..MaxBodySize
            THEN Reject(p) ELSE [p EXCEPT !.check = FALSE, !.buf = @ + 1]
    BY <1>13 DEF Callback, OnBody
  <2>2. /\ p.headers = u.headers /\ p.val = 0 /\ (~p.check => r.length \in 0..MaxBodySize)
        /\ r.size <= MaxUrlSize /\ ~Dots(r.url) /\ u.headers <= MaxHeaderCount
        /\ u.headers > 0 => r.field <= MaxHeaderFieldSize /\ r.value <= MaxHeaderValueSize
    BY <1>13 DEF Before
  <2>3. u.headers > 1 => u.headers > 0
    BY <1>1
  <2> HIDE DEF q
  <2>4. CASE p.check /\ r.length \notin 0..MaxBodySize
    <3>1. r.body > 0
      BY <1>1, <1>2, <1>3, <1>13
    <3>2. ~Legal(r)
      BY <2>4, <3>1 DEF Legal
    <3> QED
      BY <1>6, <2>1, <2>4, <3>2
  <2>5. CASE ~(p.check /\ r.length \notin 0..MaxBodySize)
    <3>1. q = [p EXCEPT !.check = FALSE, !.buf = @ + 1]
      BY <2>1, <2>5
    <3>2. /\ ParserShape(q) /\ q.queue = p.queue /\ ~q.bad /\ q.val = p.val
          /\ q.headers = p.headers /\ ~q.check
      <4>1. q = [buf |-> p.buf + 1, val |-> p.val, headers |-> p.headers, check |-> FALSE,
                 queue |-> p.queue, bad |-> p.bad]
        BY <1>5, <3>1
      <4>2. /\ q.queue = p.queue /\ ~q.bad /\ q.val = p.val /\ q.headers = p.headers /\ ~q.check
        BY <4>1
      <4>3. ParserShape(q)
        BY <1>5, <4>1 DEF ParserShape
      <4> QED
        BY <4>2, <4>3
    <3>3. r.length \in 0..MaxBodySize
      BY <2>2, <2>5
    <3> QED
      BY <1>13, <2>2, <2>3, <3>2, <3>3 DEF Partial
  <2> QED
    BY <2>4, <2>5
<1> HIDE DEF Goal
<1>14. Goal
  BY <1>1, <1>7, <1>8, <1>9, <1>10, <1>11, <1>12, <1>13 DEF TokenKinds
<1> QED
  BY <1>14 DEF Goal

\* A request whose last token was taken is within the limits.
LEMMA LastLegal ==
  ASSUME stream \in Streams, NEW u, TokenOk(u), u.token # "none", IsLast(u), NEW p, Partial(p, u)
  PROVE  Legal(stream[u.req]) /\ p.val = 0
<1> DEFINE r == stream[u.req]
<1>1. Len(stream) \in Nat /\ u.req \in 1..Len(stream) /\ u.headers \in Nat
  BY StreamLen DEF TokenOk
<1>2. r.headers \in Nat /\ r.body \in Nat
  BY <1>1, RequestFacts
<1>3. u.token \in {"end", "body"} /\ (u.token = "end" => r.body = 0)
  BY DEF IsLast
<1>4. u.headers = r.headers
  BY <1>3 DEF TokenOk
<1>5. /\ p.val = 0 /\ r.size <= MaxUrlSize /\ ~Dots(r.url) /\ u.headers <= MaxHeaderCount
      /\ u.headers > 0 => r.field <= MaxHeaderFieldSize /\ r.value <= MaxHeaderValueSize
      /\ u.token = "body" => r.length \in 0..MaxBodySize
  BY <1>3 DEF Partial
<1>6. r.body > 0 => u.token = "body"
  BY <1>2, <1>3
<1> QED
  BY <1>4, <1>5, <1>6 DEF Legal

LEMMA ExecuteFacts ==
  ASSUME stream \in Streams, NEW t, TokenOk(t), ~NoMore(t), NEW p, NEW from \in Nat, ParserOk(p, t, from)
  PROVE  /\ ParserOk(Execute(p, Following(t)), Following(t), from)
         /\ ~p.bad /\ Execute(p, Following(t)).bad => ~Legal(stream[Ended(t) + 1])
         /\ p.bad => Execute(p, Following(t)).bad
<1> DEFINE u == Following(t)
           q == Callback(p, u)
           e == Execute(p, u)
<1>1. /\ TokenOk(u) /\ u.req = Ended(t) + 1 /\ t.req <= u.req /\ u.token # "none"
  BY FollowingFacts
<1>2. /\ Len(stream) \in Nat /\ t.req \in Nat /\ u.req \in 1..Len(stream) /\ u.req \in Nat
  BY <1>1, StreamLen DEF TokenOk
<1>3. ParserShape(p)
  BY DEF ParserOk
<1> HIDE DEF u
<1>4. CASE p.bad
  <2>1. e = p
    BY <1>4 DEF Execute
  <2>2. PICK j \in (from + 1)..t.req : ~Legal(stream[j])
    BY <1>4 DEF ParserOk
  <2>3. j \in (from + 1)..u.req
    BY <1>1, <1>2
  <2>4. ParserOk(p, u, from)
    BY <1>3, <1>4, <2>2, <2>3 DEF ParserOk
  <2> QED
    BY <1>4, <2>1, <2>4 DEF u
<1>5. CASE ~p.bad
  <2>1. /\ from <= Ended(t)
        /\ p.queue = [k \in 1..(Ended(t) - from) |-> from + k]
        /\ \A j \in 1..Ended(t) : Legal(stream[j])
        /\ IF IsLast(t) THEN Idle(p) ELSE Partial(p, t)
    BY <1>5 DEF ParserOk
  <2>2. Before(p, u)
    BY <1>3, <2>1, BeforeFacts DEF u
  <2>3. /\ ParserShape(q) /\ q.queue = p.queue
        /\ q.bad => ~Legal(stream[u.req])
        /\ ~q.bad => Partial(q, u)
    BY <1>1, <1>3, <1>5, <2>2, CallbackFacts
  <2>4. Ended(t) \in Nat /\ u.req - 1 = Ended(t) /\ from + 1 <= u.req
    BY <1>1, <1>2, <2>1, SMTT(30) DEF Ended, TokenOk
  <2>5. e = IF q.bad \/ ~IsLast(u) THEN q ELSE OnMessageComplete(q, u.req)
    BY <1>5 DEF Execute
  <2> HIDE DEF q, e
  <2>6. CASE q.bad
    <3>1. u.req \in (from + 1)..u.req
      BY <1>2, <2>4
    <3>2. ParserOk(q, u, from)
      BY <2>3, <2>6, <3>1 DEF ParserOk
    <3>3. e = q
      BY <2>5, <2>6
    <3> QED
      BY <1>1, <1>5, <2>3, <2>6, <3>2, <3>3 DEF u, e
  <2>7. CASE ~q.bad /\ ~IsLast(u)
    <3>1. Ended(u) = Ended(t)
      BY <2>4, <2>7 DEF Ended
    <3>2. ParserOk(q, u, from)
      BY <2>1, <2>3, <2>7, <3>1 DEF ParserOk
    <3>3. e = q
      BY <2>5, <2>7
    <3> QED
      BY <1>5, <2>7, <3>2, <3>3 DEF u, e
  <2>8. CASE ~q.bad /\ IsLast(u)
    <3>1. Ended(u) = Ended(t) + 1
      BY <1>1, <2>8 DEF Ended
    <3>2. e = [q EXCEPT !.queue = Append(@, u.req), !.buf = 0, !.headers = 0, !.check = TRUE]
      BY <2>5, <2>8 DEF OnMessageComplete
    <3>3. e = [buf |-> 0, val |-> q.val, headers |-> 0, check |-> TRUE, queue |-> Append(q.queue, u.req), bad |-> q.bad]
      BY <2>3, <3>2 DEF ParserShape
    <3>4. Legal(stream[u.req]) /\ q.val = 0
      BY <1>1, <2>3, <2>8, LastLegal
    <3>5. ParserShape(e) /\ ~e.bad /\ Idle(e) /\ e.queue = Append(q.queue, u.req)
      <4>1. /\ e.buf = 0 /\ e.val = 0 /\ e.headers = 0 /\ e.check = TRUE /\ e.bad = q.bad
            /\ e.queue = Append(q.queue, u.req)
        BY <3>3, <3>4
      <4>2. ParserShape(e)
        BY <3>3, <3>4, <4>1 DEF ParserShape
      <4> QED
        BY <2>8, <4>1, <4>2 DEF Idle
    <3>6. Append([k \in 1..(Ended(t) - from) |-> from + k], u.req) = [k \in 1..(Ended(u) - from) |-> from + k]
      <4> DEFINE a == Ended(t)
                 b == a - from
      <4>1. a \in Nat /\ from <= a /\ b \in Nat
        BY <2>1, <2>4
      <4>2. Ended(u) - from = b + 1 /\ u.req = from + (b + 1)
        BY <1>1, <2>4, <3>1, <4>1
      <4> HIDE DEF b
      <4>3. Append([k \in 1..b |-> from + k], from + (b + 1)) = [k \in 1..(b + 1) |-> from + k]
        BY <4>1
      <4> QED
        BY <4>2, <4>3 DEF b
    <3>7. \A j \in 1..Ended(u) : Legal(stream[j])
      <4>1. \A j \in 1..(Ended(t) + 1) : j \in 1..Ended(t) \/ j = Ended(t) + 1
        BY <2>4
      <4> QED
        BY <1>1, <2>1, <3>1, <3>4, <4>1
    <3>8. from <= Ended(u)
      BY <2>1, <2>4, <3>1
    <3>9. e.queue = [k \in 1..(Ended(u) - from) |-> from + k]
      BY <2>1, <2>3, <3>5, <3>6
    <3>10. ParserOk(e, u, from)
      BY <2>8, <3>5, <3>7, <3>8, <3>9 DEF ParserOk
    <3> QED
      BY <1>5, <3>5, <3>10 DEF u, e
  <2> QED
    BY <2>6, <2>7, <2>8
<1> QED
  BY <1>4, <1>5

\* What a read has made of the stream and the parser, once it has begun.
SoFar(s, begun, from) ==
  /\ s.joined \in BOOLEAN
  /\ TokenOk(s.at) /\ ParserOk(s.parser, s.at, from)
  /\ ~s.joined => IF s.parser.bad THEN ~Legal(stream[from + 1])
                  ELSE Ended(s.at) = IF begun /\ IsLast(s.at) THEN from + 1 ELSE from

LEMMA FeedFacts ==
  ASSUME stream \in Streams, NEW s, NEW from \in Nat, NEW begun \in BOOLEAN, SoFar(s, begun, from),
         ~begun => ~NoMore(s.at)
  PROVE  SoFar(Feed(s, ~begun), TRUE, from) /\ s.at.req <= Feed(s, ~begun).at.req
<1>1. CASE NoMore(s.at)
  <2>1. Feed(s, ~begun) = s /\ begun
    BY <1>1 DEF Feed
  <2>2. SoFar(s, TRUE, from)
    BY <2>1 DEF SoFar
  <2>3. s.at.req \in Int
    BY StreamLen DEF SoFar, TokenOk
  <2>4. s.at.req <= s.at.req
    BY <2>3
  <2> QED
    BY <2>1, <2>2, <2>4, Zenon
<1>2. CASE ~NoMore(s.at)
  <2> DEFINE f == Feed(s, ~begun)
             u == Following(s.at)
             e == Execute(s.parser, u)
  <2>1. f = [at |-> u, parser |-> e, joined |-> s.joined \/ (begun /\ IsLast(s.at))]
    BY <1>2 DEF Feed
  <2>2. f.at = u /\ f.parser = e /\ f.joined = (s.joined \/ (begun /\ IsLast(s.at)))
    BY <2>1
  <2>3. TokenOk(s.at) /\ ParserOk(s.parser, s.at, from) /\ s.joined \in BOOLEAN
    BY DEF SoFar
  <2>4. TokenOk(u) /\ u.req = Ended(s.at) + 1 /\ s.at.req <= u.req
    BY <1>2, <2>3, FollowingFacts
  <2>5. /\ ParserOk(e, u, from)
        /\ ~s.parser.bad /\ e.bad => ~Legal(stream[Ended(s.at) + 1])
        /\ s.parser.bad => e.bad
    BY <1>2, <2>3, ExecuteFacts
  <2> HIDE DEF f, u, e
  <2>6. f.joined \in BOOLEAN
    BY <2>2, <2>3
  <2>7. ASSUME ~f.joined
        PROVE  IF e.bad THEN ~Legal(stream[from + 1])
               ELSE Ended(u) = IF IsLast(u) THEN from + 1 ELSE from
    <3>1. ~s.joined /\ ~(begun /\ IsLast(s.at))
      BY <2>2, <2>7
    <3>2. CASE s.parser.bad
      <4>1. ~Legal(stream[from + 1])
        BY <3>1, <3>2 DEF SoFar
      <4> QED
        BY <2>5, <3>2, <4>1
    <3>3. CASE ~s.parser.bad
      <4>1. Ended(s.at) = from
        BY <3>1, <3>3 DEF SoFar
      <4>2. Ended(u) = IF IsLast(u) THEN from + 1 ELSE from
        BY <2>4, <4>1 DEF Ended
      <4> QED
        BY <2>5, <3>3, <4>1, <4>2
    <3> QED
      BY <3>2, <3>3
  <2>8. SoFar(f, TRUE, from)
    BY <2>2, <2>4, <2>5, <2>6, <2>7 DEF SoFar
  <2> QED
    BY <2>2, <2>4, <2>8 DEF f
<1> QED
  BY <1>1, <1>2

IsAfter(g, s, k) == g = [j \in 0..k |-> IF j = 0 THEN s ELSE Feed(g[j - 1], j = 1)]

LEMMA AfterExists ==
  ASSUME NEW s, NEW k \in Nat
  PROVE  \E g : IsAfter(g, s, k)
<1> DEFINE D(q, i) == Feed(q, i = 1)
           R(g, n) == g = [i \in 0..n |-> IF i = 0 THEN s ELSE D(g[i - 1], i)]
           T == {n \in Nat : \E g : R(g, n)}
<1> HIDE DEF D
<1>1. 0 \in T
  <2> DEFINE g == [i \in 0..0 |-> s]
  <2>1. g = [i \in 0..0 |-> IF i = 0 THEN s ELSE D(g[i - 1], i)]
    OBVIOUS
  <2> QED
    BY <2>1
<1>2. ASSUME NEW n \in Nat, n \in T PROVE n + 1 \in T
  <2>1. PICK g : R(g, n)
    BY <1>2
  <2> DEFINE h == [i \in 0..(n + 1) |-> IF i = n + 1 THEN D(g[n], n + 1) ELSE g[i]]
  <2>2. ASSUME NEW i \in 0..(n + 1) PROVE h[i] = IF i = 0 THEN s ELSE D(h[i - 1], i)
    <3>1. CASE i = 0
      BY <2>1, <3>1
    <3>2. CASE i = n + 1
      <4>1. n \in 0..(n + 1) /\ n # n + 1 /\ i - 1 = n /\ i # 0
        BY <3>2
      <4>2. h[n] = g[n] /\ h[i] = D(g[n], n + 1)
        BY <3>2, <4>1
      <4> HIDE DEF h
      <4> QED
        BY <3>2, <4>1, <4>2
    <3>3. CASE i # 0 /\ i # n + 1
      <4>1. i - 1 \in 0..(n + 1) /\ i - 1 # n + 1 /\ i \in 0..n /\ i - 1 \in 0..n
        BY <3>3
      <4>2. h[i] = g[i] /\ h[i - 1] = g[i - 1]
        BY <3>3, <4>1
      <4>3. g[i] = D(g[i - 1], i)
        BY <2>1, <3>3, <4>1
      <4> HIDE DEF h
      <4> QED
        BY <3>3, <4>2, <4>3
    <3> QED
      BY <3>1, <3>2, <3>3
  <2>3. h = [i \in 0..(n + 1) |-> h[i]]
    OBVIOUS
  <2>4. R(h, n + 1)
    <3> HIDE DEF h
    <3> QED
      BY <2>2, <2>3
  <2>5. n + 1 \in Nat
    OBVIOUS
  <2> HIDE DEF h, R
  <2> QED
    BY <2>4, <2>5
<1>3. \A n \in Nat : n \in T
  <2>1. \A n \in Nat : n \in T => n + 1 \in T
    BY <1>2
  <2> HIDE DEF T
  <2> QED
    BY <1>1, <2>1, SetInduction
<1>4. PICK g : R(g, k)
  BY <1>3
<1> QED
  BY <1>4 DEF IsAfter, D

\* The same for all the tokens of a read.
LEMMA ParseFacts ==
  ASSUME stream \in Streams, TokenOk(at), ParserOk(parser, at, taken), taken \in Nat, joined \in BOOLEAN,
         ~parser.bad, ~joined => Ended(at) = taken, ~NoMore(at), NEW k \in Nat, k > 0
  PROVE  SoFar(Parse(k), TRUE, taken) /\ at.req <= Parse(k).at.req
<1> DEFINE s == [at |-> at, parser |-> parser, joined |-> joined]
           f == CHOOSE g : g = [j \in 0..k |-> IF j = 0 THEN s ELSE Feed(g[j - 1], j = 1)]
<1>1. \E g : g = [j \in 0..k |-> IF j = 0 THEN s ELSE Feed(g[j - 1], j = 1)]
  <2> HIDE DEF s
  <2>1. \E g : IsAfter(g, s, k)
    BY AfterExists
  <2> QED
    BY <2>1, Zenon DEF IsAfter
<1>2. f = [j \in 0..k |-> IF j = 0 THEN s ELSE Feed(f[j - 1], j = 1)]
  BY <1>1
<1>3. Parse(k) = f[k]
  BY DEF Parse
<1> HIDE DEF f
<1>4. s.at = at /\ s.parser = parser /\ s.joined = joined
  OBVIOUS
<1>5. SoFar(s, FALSE, taken)
  <2> HIDE DEF s
  <2> QED
    BY <1>4 DEF SoFar
<1> HIDE DEF s
<1>6. f[0] = s /\ at.req \in Int /\ at.req <= at.req
  BY <1>2, StreamLen DEF TokenOk
<1> DEFINE Good(n) == SoFar(f[n], TRUE, taken) /\ at.req <= f[n].at.req
           P == {n \in Nat : n > 0 /\ n <= k => Good(n)}
<1> HIDE DEF Good
<1>7. 0 \in P
  OBVIOUS
<1>8. ASSUME NEW n \in Nat, n \in P PROVE n + 1 \in P
  <2> SUFFICES ASSUME n + 1 <= k PROVE Good(n + 1)
    OBVIOUS
  <2>1. n + 1 \in 0..k /\ n + 1 # 0 /\ (n + 1) - 1 = n /\ n <= k /\ (n + 1 = 1 <=> n = 0)
    OBVIOUS
  <2>2. f[n + 1] = Feed(f[n], n + 1 = 1)
    BY <1>2, <2>1
  <2>3. CASE n = 0
    <3>1. f[n + 1] = Feed(s, ~FALSE)
      BY <1>6, <2>1, <2>2, <2>3
    <3>2. SoFar(Feed(s, ~FALSE), TRUE, taken) /\ s.at.req <= Feed(s, ~FALSE).at.req
      BY <1>4, <1>5, FeedFacts
    <3> QED
      BY <1>4, <3>1, <3>2 DEF Good
  <2>4. CASE n # 0
    <3>1. f[n + 1] = Feed(f[n], ~TRUE)
      BY <2>1, <2>2, <2>4
    <3>2. SoFar(f[n], TRUE, taken) /\ at.req <= f[n].at.req
      <4>1. n > 0 /\ n <= k
        BY <2>1, <2>4
      <4>2. Good(n)
        BY <1>8, <4>1
      <4> QED
        BY <4>2 DEF Good
    <3>3. SoFar(Feed(f[n], ~TRUE), TRUE, taken) /\ f[n].at.req <= Feed(f[n], ~TRUE).at.req
      BY <3>2, FeedFacts
    <3>4. f[n].at.req \in Int /\ f[n + 1].at.req \in Int
      BY <3>1, <3>2, <3>3, StreamLen, SMTT(30) DEF SoFar, TokenOk
    <3>5. at.req <= f[n + 1].at.req
      BY <1>6, <3>1, <3>2, <3>3, <3>4
    <3> QED
      BY <3>1, <3>3, <3>5 DEF Good
  <2> QED
    BY <2>3, <2>4
<1>9. k \in P
  <2>1. \A n \in Nat : n \in P => n + 1 \in P
    BY <1>8
  <2> HIDE DEF P
  <2> QED
    BY <1>7, <2>1, SetInduction
<1>10. Good(k)
  BY <1>9
<1> QED
  BY <1>3, <1>10 DEF Good

-----------------------------------------------------------------------------
(* The invariant holds initially, and the steps other than reads keep it.   *)

LEMMA HttpInit == Init => HttpInv
<1> SUFFICES ASSUME Init PROVE HttpInv
  OBVIOUS
<1> USE DEF Init
<1>1. Len(stream) \in Nat
  BY StreamLen
<1>2. TokenOk(at) /\ IsLast(at) /\ Ended(at) = 0 /\ at.req = 0
  BY <1>1 DEF TokenOk, TokenKinds, NoToken, IsLast, Ended
<1>3. ParserShape(parser) /\ ~parser.bad /\ Idle(parser) /\ parser.queue = <<>>
  BY DEF ParserShape, NewParser, Idle
<1>4. parser.queue = [k \in 1..(Ended(at) - taken) |-> taken + k]
  BY <1>2, <1>3
<1>5. ParserOk(parser, at, taken)
  BY <1>2, <1>3, <1>4 DEF ParserOk
<1>6. StreamInv
  <2>1. stream \in Streams /\ joined = FALSE /\ taken = 0 /\ sessions = {}
    OBVIOUS
  <2> HIDE DEF Init
  <2>2. taken \in 0..Len(stream) /\ taken <= at.req /\ sessions \subseteq 1..taken /\ Ended(at) = taken
    BY <1>1, <1>2, <2>1
  <2> QED
    BY <1>2, <1>3, <1>5, <2>1, <2>2 DEF StreamInv
<1>7. resp = [of |-> 0, status |-> "OK", body |-> "none", size |-> 0, length |-> Unframed,
              keep |-> TRUE, by |-> NoServlet, ran |-> {}, session |-> 0, setCookie |-> 0]
  BY DEF Fresh, Bad, NoSession
<1>8. /\ resp.of = 0 /\ resp.status = "OK" /\ resp.body = "none" /\ resp.length = Unframed
      /\ resp.session = 0 /\ resp.setCookie = 0 /\ resp.by = NoServlet
  BY <1>7
<1>9. RespInv
  <2>1. RespShape(resp)
    BY <1>7 DEF RespShape, RespFields
  <2>2. taken = 0 /\ pc = "read"
    OBVIOUS
  <2> HIDE DEF Init
  <2>3. RespOf /\ RespBody
    BY <1>8, <2>2 DEF RespOf, RespBody, BodyOk, Sending, Statuses, Unframed
  <2>4. SessionOk(resp.session, resp.setCookie, resp.of)
    BY <1>8 DEF SessionOk, NoSession
  <2> QED
    BY <2>1, <2>3, <2>4 DEF RespInv
<1>10. WireInv
  BY <1>3 DEF WireInv, WireLen, WireOk, Framing, Heads
<1>11. NoFilterBypassed /\ AbortsExplained
  BY <1>8, RoutesAssumption DEF NoFilterBypassed, AbortsExplained
<1> QED
  BY <1>6, <1>9, <1>10, <1>11 DEF HttpInv

LEMMA StreamSame ==
  ASSUME StreamInv, UNCHANGED <<stream, at, joined, parser, taken>>, sessions' \subseteq sessions
  PROVE  StreamInv'
<1>1. TokenOk(at)'
  BY DEF StreamInv, TokenOk
<1>2. (IsLast(at)' <=> IsLast(at)) /\ Ended(at)' = Ended(at)
  BY DEF IsLast, Ended
<1>3. ParserShape(parser)' /\ (Idle(parser)' <=> Idle(parser)) /\ (Partial(parser, at)' <=> Partial(parser, at))
  BY DEF StreamInv, ParserOk, ParserShape, Idle, Partial, Dots
<1>4. \A j : Legal(stream[j])' <=> Legal(stream[j])
  BY DEF Legal, Dots
<1>5. ParserOk(parser, at, taken)'
  BY <1>2, <1>3, <1>4 DEF StreamInv, ParserOk
<1> QED
  BY <1>1, <1>2, <1>4, <1>5 DEF StreamInv

LEMMA SessionSame ==
  ASSUME NEW a, NEW b, NEW i, SessionOk(a, b, i), stream' = stream, sessions' \subseteq sessions
  PROVE  SessionOk(a, b, i)'
BY DEF SessionOk

\* The responses on the wire stay as they were.
LEMMA WireSame ==
  ASSUME WireOk, UNCHANGED <<stream, joined, wire>>, sessions' \subseteq sessions
  PROVE  WireOk'
<1>1. \A j : Legal(stream[j])' <=> Legal(stream[j])
  BY DEF Legal, Dots
<1>2. ASSUME NEW i \in DOMAIN wire PROVE Answer(i)'
  <2>1. Answer(i)
    BY <1>2 DEF WireOk
  <2> QED
    BY <1>1, <2>1 DEF Answer, SessionOk
<1> QED
  BY <1>2 DEF WireOk

LEMMA FilterSame ==
  ASSUME NoFilterBypassed, stream' = stream, resp'.by = resp.by, resp'.ran = resp.ran, resp'.of = resp.of
  PROVE  NoFilterBypassed'
BY DEF NoFilterBypassed, Path

\* A step that gives the connection up, or changes nothing the invariant is about.
LEMMA GiveUpKeeps ==
  ASSUME HttpInv, UNCHANGED <<stream, at, joined, parser, taken, resp, wire>>, sessions' \subseteq sessions,
         \/ pc' = "closed"
         \/ pc' = pc /\ left' = left
  PROVE  HttpInv'
<1> USE DEF HttpInv
<1>1. StreamInv'
  BY StreamSame
<1>2. RespInv'
  <2>1. SessionOk(resp.session, resp.setCookie, resp.of)'
    BY SessionSame DEF RespInv
  <2>2. RespOf' /\ RespBody' /\ RespShape(resp)'
    BY DEF RespInv, RespOf, RespBody, RespShape, BodyOk, Sending
  <2> QED
    BY <2>1, <2>2 DEF RespInv
<1>3. WireInv'
  <2>1. WireOk'
    BY WireSame DEF WireInv
  <2>2. WireLen'
    BY DEF WireInv, WireLen
  <2>3. Framing'
    BY DEF WireInv, Framing, Whole
  <2> QED
    BY <2>1, <2>2, <2>3 DEF WireInv
<1>4. NoFilterBypassed'
  BY FilterSame
<1>5. AbortsExplained'
  BY DEF AbortsExplained, Path
<1> QED
  BY <1>1, <1>2, <1>3, <1>4, <1>5

LEMMA MakeHeadersKeeps == HttpInv /\ MakeHeaders => HttpInv'
<1> SUFFICES ASSUME HttpInv, MakeHeaders PROVE HttpInv'
  OBVIOUS
<1> USE DEF HttpInv
<1>1. /\ UNCHANGED <<stream, at, joined, parser, taken, left, file, peer, wire, sessions>>
      /\ pc = "page" /\ pc' = "header" /\ resp' = ErrorPage(resp)
  BY DEF MakeHeaders
<1>2. RespShape(resp) /\ BodyOk(resp)
  BY DEF RespInv, RespBody
<1>3. /\ resp'.of = resp.of /\ resp'.by = resp.by /\ resp'.ran = resp.ran /\ resp'.session = resp.session
      /\ resp'.setCookie = resp.setCookie /\ resp'.keep = resp.keep /\ resp'.status = resp.status
      /\ RespShape(resp') /\ BodyOk(resp')
      /\ resp' = resp \/ resp'.body = "text"
      /\ resp.status = "OK" \/ resp.status \in BarePages \/ resp'.body = "text"
  <2>1. CASE resp.status = "OK" \/ resp.status \in BarePages
    <3>1. resp' = resp
      BY <1>1, <2>1 DEF ErrorPage
    <3> QED
      BY <1>2, <2>1, <3>1
  <2>2. CASE ~(resp.status = "OK" \/ resp.status \in BarePages)
    <3>1. resp' = [resp EXCEPT !.body = "text", !.size = 1, !.length = 1]
      BY <1>1, <2>2 DEF ErrorPage, SetTextBody, SetBody
    <3>3. /\ resp'.of = resp.of /\ resp'.by = resp.by /\ resp'.ran = resp.ran /\ resp'.session = resp.session
          /\ resp'.setCookie = resp.setCookie /\ resp'.keep = resp.keep /\ resp'.status = resp.status
          /\ resp'.body = "text" /\ resp'.size = 1 /\ resp'.length = 1
      BY <1>2, <3>1 DEF RespShape, RespFields
    <3>4. RespShape(resp')
      BY <1>2, <3>1 DEF RespShape
    <3>5. BodyOk(resp')
      BY <1>2, <3>3 DEF BodyOk
    <3> QED
      BY <3>3, <3>4, <3>5
  <2> QED
    BY <2>1, <2>2
<1>4. StreamInv'
  BY <1>1, StreamSame
<1>5. RespOf'
  BY <1>1, <1>3 DEF RespInv, RespOf, Sending
<1>6. RespBody'
  BY <1>1, <1>3 DEF RespInv, RespBody, BodyOk
<1>7. SessionOk(resp.session, resp.setCookie, resp.of)'
  BY <1>1, <1>3 DEF RespInv, SessionOk
<1>8. WireInv'
  <2>1. WireOk'
    BY <1>1, WireSame DEF WireInv
  <2>2. WireLen'
    BY <1>1, <1>3 DEF WireInv, WireLen
  <2>3. Framing'
    BY <1>1 DEF WireInv, Framing, Whole
  <2> QED
    BY <1>1, <2>1, <2>2, <2>3 DEF WireInv
<1>9. NoFilterBypassed' /\ AbortsExplained'
  BY <1>1, <1>3, FilterSame DEF AbortsExplained
<1> QED
  BY <1>3, <1>4, <1>5, <1>6, <1>7, <1>8, <1>9 DEF RespInv

\* The response that is written next keeps its fields on the wire.
LEMMA WriteHeaderKeeps == HttpInv /\ WriteHeader => HttpInv'
<1> SUFFICES ASSUME HttpInv, WriteHeader PROVE HttpInv'
  OBVIOUS
<1> USE DEF HttpInv
<1> DEFINE w == [of |-> resp.of, status |-> resp.status, length |-> resp.length, sent |-> 0,
                 session |-> resp.session, setCookie |-> resp.setCookie]
<1>0. PICK n \in Nat : n = Len(wire)
  BY DEF WireInv
<1>1. /\ UNCHANGED <<stream, at, joined, parser, taken, resp, peer, sessions>>
      /\ pc = "header" /\ pc' = SendBody(resp) /\ left' = resp.size /\ wire' = Append(wire, w)
  BY DEF WriteHeader
<1>2. /\ wire \in Seq(Heads) /\ WireLen /\ WireOk /\ Framing
  BY DEF WireInv
<1>3. /\ RespShape(resp) /\ RespOf /\ RespBody /\ SessionOk(resp.session, resp.setCookie, resp.of)
  BY DEF RespInv
<1>4. /\ taken \in 0..Len(stream) /\ Len(stream) \in Nat /\ taken \in Nat
  BY StreamLen DEF StreamInv
<1>5. /\ resp.of \in 0..taken /\ IF resp.of = Bad THEN parser.bad /\ ~resp.keep ELSE ~parser.bad /\ resp.of = taken
  BY <1>1, <1>3 DEF RespOf, Sending
<1>6. /\ BodyOk(resp)
      /\ (resp.body = "failed" => resp.status \in BarePages) /\ (resp.body = "file" => resp.status = "OK")
  BY <1>1, <1>3 DEF RespBody
<1>7. /\ n = (IF resp.of = Bad THEN taken ELSE taken - 1) /\ n \in Nat
      /\ \A i \in DOMAIN wire : wire[i].of # Bad
  BY <1>0, <1>1, <1>2 DEF WireLen
<1>8. resp.session \in Nat /\ resp.setCookie \in Nat
  <2>1. resp.of \in Nat
    BY <1>4, <1>5
  <2> QED
    BY <1>3, <2>1 DEF SessionOk, NoSession
<1>9. w \in Heads
  BY <1>4, <1>5, <1>6, <1>8 DEF Heads, BodyOk
<1>10. /\ w.of = resp.of /\ w.length = resp.length /\ w.sent = 0 /\ w.session = resp.session
       /\ w.setCookie = resp.setCookie
  OBVIOUS
<1> HIDE DEF w
<1>11. /\ wire' \in Seq(Heads) /\ Len(wire') = n + 1 /\ DOMAIN wire' = 1..(n + 1) /\ DOMAIN wire = 1..n
       /\ wire'[n + 1] = w /\ \A i \in 1..n : wire'[i] = wire[i]
       /\ wire' # <<>>
  BY <1>0, <1>1, <1>2, <1>9
<1>12. StreamInv'
  BY <1>1, StreamSame
<1>13. /\ pc' \in {"sent", "aborted", "text", "file"}
       /\ pc' = "sent" => resp.body = "none"
       /\ pc' \in {"text", "file"} => resp.body \in {"text", "file"}
       /\ pc' = "aborted" => resp.body = "failed"
  BY <1>1, <1>6 DEF SendBody, BodyOk
<1>14. RespInv'
  BY <1>1, <1>3, <1>13 DEF RespInv, RespShape, RespOf, RespBody, BodyOk, SessionOk, Sending
<1>15. WireLen'
  <2>1. Len(wire') = IF resp.of = Bad THEN taken + 1 ELSE taken
    BY <1>4, <1>7, <1>11
  <2> QED
    BY <1>1, <1>7, <1>10, <1>11, <1>13, <2>1 DEF WireLen
<1>16. \A j : Legal(stream[j])' <=> Legal(stream[j])
  BY <1>1 DEF Legal, Dots
<1>17. WireOk'
  <2>1. ASSUME NEW i \in 1..n PROVE Answer(i)'
    <3>1. Answer(i) /\ wire[i].of # Bad /\ wire'[i] = wire[i]
      BY <1>2, <1>7, <1>11 DEF WireOk
    <3> QED
      BY <1>1, <1>16, <3>1 DEF Answer, SessionOk
  <2>2. Answer(n + 1)'
    <3>1. CASE resp.of = Bad
      <4>1. parser.bad /\ n = taken
        BY <1>5, <1>7, <3>1
      <4>2. PICK j \in (taken + 1)..Len(stream) : ~Legal(stream[j]) /\ (~joined => j = taken + 1)
        <5>1. CASE joined
          <6>1. PICK k \in (taken + 1)..at.req : ~Legal(stream[k])
            BY <4>1 DEF StreamInv, ParserOk
          <6>2. k \in (taken + 1)..Len(stream)
            BY <1>4 DEF StreamInv, TokenOk
          <6> QED
            BY <5>1, <6>1, <6>2
        <5>2. CASE ~joined
          <6>1. ~Legal(stream[taken + 1])
            BY <4>1, <5>2 DEF StreamInv
          <6>2. PICK k \in (taken + 1)..at.req : TRUE
            BY <4>1 DEF StreamInv, ParserOk
          <6>3. taken + 1 \in (taken + 1)..Len(stream)
            BY <1>4 DEF StreamInv, TokenOk
          <6> QED
            BY <6>1, <6>3
        <5> QED
          BY <5>1, <5>2
      <4>3. resp.session = 0 /\ resp.setCookie = 0
        BY <1>3, <3>1 DEF SessionOk, Bad, NoSession
      <4>4. j \in (n + 1)..Len(stream) /\ ~Legal(stream[j]) /\ (~joined => j = n + 1)
        BY <4>1, <4>2
      <4> QED
        BY <1>1, <1>10, <1>11, <1>16, <3>1, <4>3, <4>4 DEF Answer, NoSession
    <3>2. CASE resp.of # Bad
      <4>1. ~parser.bad /\ resp.of = taken /\ n + 1 = taken /\ taken \in 1..Len(stream)
        BY <1>4, <1>5, <1>7, <3>2 DEF Bad
      <4>2. Legal(stream[taken])
        <5>1. taken <= Ended(at) /\ (\A j \in 1..Ended(at) : Legal(stream[j])) /\ Ended(at) \in Int
          BY <1>4, <4>1 DEF StreamInv, ParserOk, Ended, TokenOk
        <5>2. taken \in 1..Ended(at)
          BY <4>1, <5>1
        <5> QED
          BY <5>1, <5>2
      <4>3. SessionOk(resp.session, resp.setCookie, taken)'
        BY <1>1, <1>3, <4>1 DEF SessionOk
      <4>4. w.of # Bad /\ w.of = n + 1 /\ n + 1 <= Len(stream)
        BY <1>4, <1>10, <3>2, <4>1
      <4> QED
        BY <1>1, <1>10, <1>11, <1>16, <4>1, <4>2, <4>3, <4>4 DEF Answer, SessionOk
    <3> QED
      BY <3>1, <3>2
  <2>3. \A i \in 1..(n + 1) : i \in 1..n \/ i = n + 1
    BY <1>7
  <2> QED
    BY <1>11, <2>1, <2>2, <2>3 DEF WireOk
<1>18. Framing'
  <2>1. ASSUME NEW i \in 1..n PROVE Whole(wire[i])
    BY <1>1, <1>2, <1>11 DEF Framing
  <2>2. ASSUME NEW i \in DOMAIN wire', i < Len(wire') \/ pc' \in {"read", "page", "header", "sent"}
        PROVE  Whole(wire[i])'
    <3>1. CASE i \in 1..n
      BY <1>11, <2>1, <3>1 DEF Whole
    <3>2. CASE i \notin 1..n
      <4>1. i = n + 1 /\ ~(i < Len(wire'))
        BY <1>7, <1>11, <3>2
      <4>2. resp.length = Unframed
        BY <1>6, <1>13, <2>2, <4>1 DEF BodyOk
      <4> QED
        BY <1>10, <1>11, <4>1, <4>2 DEF Whole
    <3> QED
      BY <3>1, <3>2
  <2>3. pc' \in {"text", "file"} => left' \in Nat /\ wire'[Len(wire')].length = wire'[Len(wire')].sent + left'
    BY <1>1, <1>6, <1>10, <1>11, <1>13 DEF BodyOk
  <2> QED
    BY <2>2, <2>3 DEF Framing
<1>19. NoFilterBypassed'
  BY <1>1, FilterSame
<1>20. AbortsExplained'
  BY <1>1, <1>6, <1>13 DEF AbortsExplained
<1> QED
  BY <1>11, <1>12, <1>14, <1>15, <1>17, <1>18, <1>19, <1>20 DEF WireInv

\* Some of a body is sent.
LEMMA BodySentKeeps ==
  ASSUME HttpInv, pc \in {"text", "file"}, NEW m \in Nat, m <= left, left' = left - m,
         wire' = [wire EXCEPT ![Len(wire)].sent = @ + m],
         UNCHANGED <<pc, stream, at, joined, parser, taken, resp, sessions>>
  PROVE  HttpInv'
<1> USE DEF HttpInv
<1>1. PICK n \in Nat : n = Len(wire)
  BY DEF WireInv
<1>2. wire \in Seq(Heads) /\ WireLen /\ WireOk /\ Framing
  BY DEF WireInv
<1>3. /\ wire # <<>> /\ left \in Nat /\ wire[n].length = wire[n].sent + left
      /\ wire[n].of = resp.of /\ n = IF resp.of = Bad THEN taken + 1 ELSE taken
  BY <1>1, <1>2 DEF WireLen, Framing
<1>4. n \in 1..n /\ DOMAIN wire = 1..n /\ wire[n] \in Heads
  <2>1. DOMAIN wire = 1..n
    BY <1>1, <1>2
  <2>2. n # 0
    <3>1. wire # <<>> /\ wire \in Seq(Heads)
      BY <1>2, <1>3
    <3>2. Len(wire) # 0
      BY <3>1, EmptySeq
    <3> QED
      BY <1>1, <3>2
  <2>3. n \in 1..n
    BY <2>2
  <2> QED
    BY <1>1, <1>2, <2>1, <2>3
<1> DEFINE w == [wire[n] EXCEPT !.sent = @ + m]
<1>5. /\ w \in Heads /\ w.of = wire[n].of /\ w.length = wire[n].length /\ w.sent = wire[n].sent + m
      /\ w.session = wire[n].session /\ w.setCookie = wire[n].setCookie
  BY <1>4 DEF Heads
<1>6. wire' = [wire EXCEPT ![n] = w]
  BY <1>1, <1>4
<1> HIDE DEF w
<1>7. /\ wire' \in Seq(Heads) /\ Len(wire') = n /\ DOMAIN wire' = 1..n /\ wire'[n] = w
      /\ \A i \in 1..n : i # n => wire'[i] = wire[i]
  BY <1>1, <1>2, <1>4, <1>5, <1>6
<1>8. /\ wire' # <<>>
      /\ \A i \in 1..n : /\ wire'[i].of = wire[i].of /\ wire'[i].session = wire[i].session
                         /\ wire'[i].setCookie = wire[i].setCookie
  BY <1>4, <1>5, <1>7
<1>9. StreamInv'
  BY StreamSame
<1>10. RespInv'
  BY SMTT(30) DEF RespInv, RespShape, RespOf, RespBody, BodyOk, SessionOk, Sending
<1>11. WireLen'
  BY <1>1, <1>2, <1>3, <1>4, <1>5, <1>7, <1>8 DEF WireLen
<1>12. WireOk'
  <2>1. \A j : Legal(stream[j])' <=> Legal(stream[j])
    BY DEF Legal, Dots
  <2>2. ASSUME NEW i \in 1..n PROVE Answer(i)'
    <3>1. Answer(i)
      BY <1>2, <1>4 DEF WireOk
    <3> QED
      BY <1>1, <1>7, <1>8, <2>1, <3>1 DEF Answer, SessionOk
  <2> QED
    BY <1>7, <2>2 DEF WireOk
<1>13. Framing'
  <2>1. ASSUME NEW i \in DOMAIN wire', i < Len(wire') PROVE Whole(wire[i])'
    <3>1. i \in 1..n /\ i # n /\ i < n
      BY <1>7, <2>1
    <3>2. Whole(wire[i]) /\ wire'[i] = wire[i]
      BY <1>1, <1>2, <1>4, <1>7, <3>1 DEF Framing
    <3> QED
      BY <3>2 DEF Whole
  <2>2. left' \in Nat /\ wire'[Len(wire')].length = wire'[Len(wire')].sent + left'
    <3>1. wire[n].sent \in Nat
      BY <1>4 DEF Heads
    <3> QED
      BY <1>3, <1>5, <1>7, <3>1
  <2> QED
    BY <2>1, <2>2 DEF Framing
<1>14. NoFilterBypassed' /\ AbortsExplained'
  BY FilterSame DEF AbortsExplained
<1> QED
  BY <1>7, <1>9, <1>10, <1>11, <1>12, <1>13, <1>14 DEF WireInv

LEMMA FinishBodyKeeps == HttpInv /\ FinishBody => HttpInv'
<1> SUFFICES ASSUME HttpInv, FinishBody PROVE HttpInv'
  OBVIOUS
<1> USE DEF HttpInv
<1>1. /\ UNCHANGED <<stream, at, joined, parser, taken, resp, left, wire, sessions>>
      /\ pc \in {"text", "file"} /\ left = 0 /\ pc' = "sent"
  BY DEF FinishBody
<1>2. StreamInv'
  BY <1>1, StreamSame
<1>3. RespInv'
  BY <1>1 DEF RespInv, RespShape, RespOf, RespBody, BodyOk, SessionOk, Sending
<1>4. WireOk'
  BY <1>1, WireSame DEF WireInv
<1>5. WireLen'
  BY <1>1 DEF WireInv, WireLen
<1>6. Framing'
  <2>1. PICK n \in Nat : n = Len(wire)
    BY DEF WireInv
  <2>2. wire \in Seq(Heads) /\ Framing /\ wire # <<>>
    BY <1>1 DEF WireInv, WireLen
  <2>3. n \in 1..n /\ DOMAIN wire = 1..n /\ wire[n] \in Heads /\ wire[n].length = wire[n].sent + left
    BY <1>1, <2>1, <2>2 DEF Framing
  <2>4. wire[n].length = wire[n].sent /\ wire[n].length # Unframed
    <3>1. wire[n].sent \in Nat
      BY <2>3 DEF Heads
    <3> QED
      BY <1>1, <2>3, <3>1 DEF Unframed
  <2>5. ASSUME NEW i \in 1..n PROVE Whole(wire[i])
    <3>1. CASE i = n
      BY <2>4, <3>1 DEF Whole
    <3>2. CASE i # n
      <4>1. i < Len(wire)
        BY <2>1, <3>2
      <4> QED
        BY <2>2, <2>3, <4>1 DEF Framing
    <3> QED
      BY <3>1, <3>2
  <2> QED
    BY <1>1, <2>3, <2>5 DEF Framing, Whole
<1>7. NoFilterBypassed' /\ AbortsExplained'
  BY <1>1, FilterSame DEF AbortsExplained
<1> QED
  BY <1>1, <1>2, <1>3, <1>4, <1>5, <1>6, <1>7 DEF WireInv

\* Only a response to a request that was within the limits leaves the connection
\* open.
LEMMA KeepAliveKeeps == HttpInv /\ KeepAliveOrClose => HttpInv'
<1> SUFFICES ASSUME HttpInv, KeepAliveOrClose PROVE HttpInv'
  OBVIOUS
<1>1. /\ UNCHANGED <<stream, at, joined, parser, taken, resp, left, wire, sessions>>
      /\ pc = "sent" /\ pc' = IF resp.keep THEN "read" ELSE "closed"
  BY DEF KeepAliveOrClose
<1>2. CASE ~resp.keep
  BY <1>1, <1>2, GiveUpKeeps
<1>3. CASE resp.keep
  <2> USE DEF HttpInv
  <2>1. pc' = "read" /\ pc \in Sending
    BY <1>1, <1>3 DEF Sending
  <2>2. resp.of # Bad /\ ~parser.bad /\ resp.of = taken
    BY <1>3, <2>1 DEF RespInv, RespOf
  <2>3. StreamInv'
    BY <1>1, StreamSame
  <2>4. RespInv'
    BY <1>1, <2>1 DEF RespInv, RespShape, RespOf, RespBody, BodyOk, SessionOk, Sending
  <2>5. WireOk'
    BY <1>1, WireSame DEF WireInv
  <2>6. WireLen'
    <3>1. Len(wire) = taken /\ wire # <<>> /\ wire[Len(wire)].of # Bad
      BY <1>1, <2>2 DEF WireInv, WireLen
    <3>2. ASSUME NEW i \in DOMAIN wire PROVE wire[i].of # Bad
      <4>1. Answer(i)
        BY <3>2 DEF WireInv, WireOk
      <4> QED
        BY <3>1, <4>1 DEF Answer
    <3> QED
      BY <1>1, <2>1, <2>2, <3>1, <3>2 DEF WireLen
  <2>7. Framing'
    BY <1>1, <2>1 DEF WireInv, Framing, Whole
  <2>8. NoFilterBypassed' /\ AbortsExplained'
    BY <1>1, <2>1, FilterSame DEF AbortsExplained
  <2> QED
    BY <1>1, <2>3, <2>4, <2>5, <2>6, <2>7, <2>8 DEF WireInv
<1> QED
  BY <1>2, <1>3

-----------------------------------------------------------------------------
(* A request becomes a response.                                           *)

\* r before a servlet sees it.
Untouched(r) ==
  /\ RespShape(r) /\ r.body = "none" /\ r.status = "OK" /\ r.length = Unframed
  /\ r.session = NoSession /\ r.setCookie = NoSession

\* What a servlet leaves of r.
Made(r, s) ==
  /\ RespShape(s) /\ s.of = r.of /\ s.by = r.by /\ s.ran = r.ran /\ s.keep = r.keep /\ BodyOk(s)
  /\ s.body = "failed" => s.status # "OK"
  /\ s.body = "file" => s.status = "OK"

LEMMA SetBodyFacts ==
  ASSUME NEW r, RespShape(r), r.status \in Statuses, NEW what \in {"text", "file", "failed"}, NEW n \in Nat,
         what = "failed" => r.status # "OK", what = "file" => r.status = "OK"
  PROVE  /\ Made(r, SetBody(r, what, n))
         /\ SetBody(r, what, n).session = r.session /\ SetBody(r, what, n).setCookie = r.setCookie
<1> DEFINE s == SetBody(r, what, n)
<1>1. s = [r EXCEPT !.body = what, !.size = n, !.length = n]
  BY DEF SetBody
<1> HIDE DEF s
<1>2. /\ s.of = r.of /\ s.status = r.status /\ s.body = what /\ s.size = n /\ s.length = n /\ s.keep = r.keep
      /\ s.by = r.by /\ s.ran = r.ran /\ s.session = r.session /\ s.setCookie = r.setCookie
  BY <1>1 DEF RespShape, RespFields
<1>3. RespShape(s)
  BY <1>1 DEF RespShape
<1>4. BodyOk(s)
  BY <1>2 DEF BodyOk
<1>5. Made(r, s)
  BY <1>2, <1>3, <1>4 DEF Made
<1> QED
  BY <1>2, <1>5 DEF s

LEMMA StatusFacts ==
  ASSUME NEW r, Untouched(r), NEW st \in Statuses
  PROVE  /\ Made(r, [r EXCEPT !.status = st]) /\ [r EXCEPT !.status = st].status = st
         /\ [r EXCEPT !.status = st].session = NoSession /\ [r EXCEPT !.status = st].setCookie = NoSession
<1> DEFINE s == [r EXCEPT !.status = st]
<1>0. RespShape(r)
  BY DEF Untouched
<1>1. s = [r EXCEPT !.status = st]
  OBVIOUS
<1> HIDE DEF s
<1>2. /\ s.of = r.of /\ s.status = st /\ s.body = r.body /\ s.size = r.size /\ s.length = r.length /\ s.keep = r.keep
      /\ s.by = r.by /\ s.ran = r.ran /\ s.session = r.session /\ s.setCookie = r.setCookie
  BY <1>0, <1>1 DEF RespShape, RespFields
<1>3. RespShape(s)
  BY <1>0, <1>1 DEF RespShape
<1>4. BodyOk(s)
  BY <1>2 DEF BodyOk, Untouched, Unframed
<1>5. Made(r, s)
  BY <1>2, <1>3, <1>4 DEF Made, Untouched
<1> QED
  BY <1>2, <1>5 DEF s, Untouched

LEMMA GetSessionFacts ==
  ASSUME NEW r, Untouched(r), r.of \in Nat, sessions \subseteq 1..(r.of - 1)
  PROVE  LET g == GetSession(r) IN
         /\ Made(r, g) /\ g.status = "OK"
         /\ \/ g.session = stream[r.of].cookie /\ g.session \in sessions /\ g.setCookie = NoSession
            \/ g.session = r.of /\ g.setCookie = r.of /\ stream[r.of].cookie \notin sessions
<1> DEFINE g == GetSession(r)
           c == stream[r.of].cookie
<1>1. CASE c \in sessions
  <2>1. g = [r EXCEPT !.session = c]
    BY <1>1 DEF GetSession, HasSession
  <2>2. RespShape(r)
    BY DEF Untouched
  <2> HIDE DEF g, c
  <2>3. /\ g.of = r.of /\ g.status = r.status /\ g.body = r.body /\ g.size = r.size /\ g.length = r.length
        /\ g.keep = r.keep /\ g.by = r.by /\ g.ran = r.ran /\ g.session = c /\ g.setCookie = r.setCookie
    BY <2>1, <2>2 DEF RespShape, RespFields
  <2>4. RespShape(g)
    BY <2>1, <2>2 DEF RespShape
  <2>5. BodyOk(g)
    BY <2>3 DEF BodyOk, Untouched, Unframed, Statuses
  <2>6. Made(r, g)
    BY <2>3, <2>4, <2>5 DEF Made, Untouched
  <2> QED
    BY <1>1, <2>3, <2>6 DEF g, c, Untouched
<1>2. CASE c \notin sessions
  <2>1. g = [r EXCEPT !.session = r.of, !.setCookie = r.of]
    BY <1>2 DEF GetSession, HasSession, CreateNewSession
  <2>2. RespShape(r)
    BY DEF Untouched
  <2> HIDE DEF g, c
  <2>3. /\ g.of = r.of /\ g.status = r.status /\ g.body = r.body /\ g.size = r.size /\ g.length = r.length
        /\ g.keep = r.keep /\ g.by = r.by /\ g.ran = r.ran /\ g.session = r.of /\ g.setCookie = r.of
    BY <2>1, <2>2 DEF RespShape, RespFields
  <2>4. RespShape(g)
    BY <2>1, <2>2 DEF RespShape
  <2>5. BodyOk(g)
    BY <2>3 DEF BodyOk, Untouched, Unframed, Statuses
  <2>6. Made(r, g)
    BY <2>3, <2>4, <2>5 DEF Made, Untouched
  <2> QED
    BY <1>2, <2>3, <2>6 DEF g, c, Untouched
<1> QED
  BY <1>1, <1>2

\* What StaticFileBody leaves of r, whether the file opened or not.
LEMMA FileFacts ==
  ASSUME NEW r, Untouched(r), NEW f \in OpenFile(r)
  PROVE  LET s == SetRelatedHeaders(f) IN
         /\ Made(r, s) /\ s.session = NoSession /\ s.setCookie = NoSession
         /\ s.body = f.body /\ f.body \in {"failed", "file"}
<1> DEFINE s == SetRelatedHeaders(f)
<1>0. RespShape(r)
  BY DEF Untouched
<1>1. ASSUME NEW st \in {"NOT_FOUND", "INTERNAL_SERVER_ERROR"}, f = [r EXCEPT !.status = st, !.body = "failed"]
      PROVE  /\ Made(r, s) /\ s.session = NoSession /\ s.setCookie = NoSession
             /\ s.body = f.body /\ f.body \in {"failed", "file"}
  <2>1. /\ f.of = r.of /\ f.status = st /\ f.body = "failed" /\ f.size = r.size /\ f.length = r.length
        /\ f.keep = r.keep /\ f.by = r.by /\ f.ran = r.ran /\ f.session = r.session /\ f.setCookie = r.setCookie
    BY <1>0, <1>1 DEF RespShape, RespFields
  <2>2. RespShape(f)
    BY <1>0, <1>1 DEF RespShape
  <2>3. s = f
    BY <2>1 DEF SetRelatedHeaders
  <2>4. BodyOk(f)
    BY <2>1 DEF BodyOk, Untouched, Unframed, Statuses
  <2> HIDE DEF s
  <2>5. Made(r, f)
    BY <2>1, <2>2, <2>4 DEF Made
  <2> QED
    BY <2>1, <2>3, <2>5 DEF Untouched
<1>2. ASSUME NEW n \in FileSizes, f = [r EXCEPT !.body = "file", !.size = n]
      PROVE  /\ Made(r, s) /\ s.session = NoSession /\ s.setCookie = NoSession
             /\ s.body = f.body /\ f.body \in {"failed", "file"}
  <2>1. /\ f.of = r.of /\ f.status = r.status /\ f.body = "file" /\ f.size = n /\ f.length = r.length
        /\ f.keep = r.keep /\ f.by = r.by /\ f.ran = r.ran /\ f.session = r.session /\ f.setCookie = r.setCookie
    BY <1>0, <1>2 DEF RespShape, RespFields
  <2>2. RespShape(f)
    BY <1>0, <1>2 DEF RespShape
  <2>3. s = [f EXCEPT !.length = n]
    BY <2>1 DEF SetRelatedHeaders
  <2> HIDE DEF s
  <2>4. /\ s.of = f.of /\ s.status = f.status /\ s.body = "file" /\ s.size = n /\ s.length = n
        /\ s.keep = f.keep /\ s.by = f.by /\ s.ran = f.ran /\ s.session = f.session /\ s.setCookie = f.setCookie
    BY <2>1, <2>2, <2>3 DEF RespShape, RespFields
  <2>5. RespShape(s)
    BY <2>2, <2>3 DEF RespShape
  <2>6. n \in Nat
    BY LimitsFacts
  <2>7. BodyOk(s)
    BY <2>1, <2>4, <2>6 DEF BodyOk, Untouched, Statuses
  <2>8. Made(r, s)
    BY <2>1, <2>4, <2>5, <2>7 DEF Made, Untouched
  <2> QED
    BY <2>1, <2>4, <2>8 DEF Untouched
<1> QED
  BY <1>1, <1>2 DEF OpenFile

\* An open file whose path has no suffix.
Throws(r, s) ==
  /\ r.by = "files" /\ s.body = "file"
  /\ DecodeUrl(stream[r.of].url) # Root /\ ToSet(Path(r.of)) \cap Suffixed = {}

\* Handle makes a response out of r, unless the path of an open file has no suffix.
LEMMA HandleFacts ==
  ASSUME stream \in Streams, NEW r, Untouched(r), r.of \in 1..Len(stream), sessions \subseteq 1..(r.of - 1),
         stream[r.of].cookie # r.of, Handle(r)
  PROVE  /\ pc' \in {"page", "aborted"} /\ Made(r, resp')
         /\ pc' = "aborted" => Throws(r, resp')
         /\ sessions' \subseteq sessions \cup {r.of}
         /\ resp'.session \in 0..r.of
         /\ resp'.setCookie = NoSession \/ ( resp'.setCookie = r.of /\ resp'.session = r.of
                                            /\ stream[r.of].cookie \notin sessions' )
<1> DEFINE Goal ==
      /\ pc' \in {"page", "aborted"} /\ Made(r, resp')
      /\ pc' = "aborted" => Throws(r, resp')
      /\ sessions' \subseteq sessions \cup {r.of}
      /\ resp'.session \in 0..r.of
      /\ resp'.setCookie = NoSession \/ ( resp'.setCookie = r.of /\ resp'.session = r.of
                                         /\ stream[r.of].cookie \notin sessions' )
<1>0. r.of \in Nat /\ r.of > 0 /\ 0 \in 0..r.of
  BY StreamLen
<1>1. /\ RespShape(r) /\ r.body = "none" /\ r.status = "OK" /\ r.length = Unframed
      /\ r.session = NoSession /\ r.setCookie = NoSession
  BY DEF Untouched
<1>2. Made(r, r)
  BY <1>1 DEF Made, BodyOk, Unframed, Statuses
<1>3. ASSUME pc' = "page", sessions' = sessions, resp' = SetTextBody(r) PROVE Goal
  <2>1. /\ Made(r, SetTextBody(r)) /\ SetTextBody(r).session = NoSession /\ SetTextBody(r).setCookie = NoSession
    BY <1>1, SetBodyFacts DEF SetTextBody, Statuses
  <2> QED
    BY <1>0, <1>3, <2>1 DEF NoSession
<1>4. ASSUME pc' = "page", sessions' = sessions, NEW st \in Statuses, resp' = [r EXCEPT !.status = st] PROVE Goal
  <2>1. Made(r, resp') /\ resp'.session = NoSession /\ resp'.setCookie = NoSession
    BY <1>4, StatusFacts
  <2> QED
    BY <1>0, <1>4, <2>1 DEF NoSession
<1>5. ASSUME pc' = "page", sessions' = sessions, resp' = r PROVE Goal
  BY <1>0, <1>1, <1>2, <1>5 DEF NoSession
<1>6. ASSUME r.by = "files", StaticFileServlet(r), sessions' = sessions PROVE Goal
  <2> DEFINE url == DecodeUrl(stream[r.of].url)
  <2>1. PICK f \in OpenFile(r) :
          /\ resp' = SetRelatedHeaders(f)
          /\ pc' = IF f.body = "failed" \/ HasSuffix(url) THEN "page" ELSE "aborted"
    BY <1>6 DEF StaticFileServlet
  <2>2. /\ Made(r, resp') /\ resp'.session = NoSession /\ resp'.setCookie = NoSession
        /\ resp'.body = f.body /\ f.body \in {"failed", "file"}
    BY <2>1, FileFacts
  <2>3. ToSet(Path(r.of)) \subseteq ToSet(url)
    <3>1. url \in Seq(Names)
      BY RequestFacts, DecodeUrlFacts
    <3>2. Path(r.of) = SplitToViews(url)
      BY DEF Path
    <3> HIDE DEF url
    <3> QED
      BY <3>1, <3>2, SplitFacts
  <2>4. ~HasSuffix(url) => url # Root /\ ToSet(Path(r.of)) \cap Suffixed = {}
    <3> HIDE DEF url
    <3> QED
      BY <2>3 DEF HasSuffix
  <2>5. pc' = "aborted" => Throws(r, resp')
    BY <1>6, <2>1, <2>2, <2>4 DEF Throws
  <2> HIDE DEF url
  <2> QED
    BY <1>0, <1>6, <2>1, <2>2, <2>5 DEF NoSession
<1>7. ASSUME pc' = "page", resp' = SetTextBody(GetSession(r)),
             \/ sessions' = sessions \cup {GetSession(r).session}
             \/ sessions' = sessions \ {GetSession(r).session}
      PROVE  Goal
  <2> DEFINE g == GetSession(r)
  <2>1. /\ Made(r, g) /\ g.status = "OK"
        /\ \/ g.session = stream[r.of].cookie /\ g.session \in sessions /\ g.setCookie = NoSession
           \/ g.session = r.of /\ g.setCookie = r.of /\ stream[r.of].cookie \notin sessions
    BY <1>0, GetSessionFacts
  <2> HIDE DEF g
  <2>2. Made(g, SetTextBody(g)) /\ SetTextBody(g).session = g.session /\ SetTextBody(g).setCookie = g.setCookie
    BY <2>1, SetBodyFacts DEF SetTextBody, Made, Statuses
  <2>3. Made(r, resp') /\ resp'.session = g.session /\ resp'.setCookie = g.setCookie
    BY <1>7, <2>1, <2>2 DEF Made, g
  <2>4. sessions' \subseteq sessions \cup {r.of} /\ sessions' \subseteq sessions \cup {g.session}
    BY <1>7, <2>1 DEF g
  <2>5. g.session \in 0..r.of
    <3>1. \A a \in Nat : a \in 0..a /\ 1..(a - 1) \subseteq 0..a
      OBVIOUS
    <3>2. r.of \in 0..r.of /\ 1..(r.of - 1) \subseteq 0..r.of
      BY <1>0, <3>1
    <3> QED
      BY <2>1, <3>2
  <2>6. g.session = r.of => stream[r.of].cookie \notin sessions'
    BY <1>0, <1>7, <2>1, <2>4 DEF g
  <2> QED
    BY <1>7, <2>1, <2>3, <2>4, <2>5, <2>6
<1> HIDE DEF Goal
<1>8. CASE r.by = "login" /\ Login(r)
  <2>1. Goal
    BY <1>7, <1>8 DEF Login
  <2> QED
    BY <2>1 DEF Goal
<1>9. CASE r.by = "logout" /\ Logout(r)
  <2>1. Goal
    BY <1>7, <1>9 DEF Logout
  <2> QED
    BY <2>1 DEF Goal
<1>10. CASE /\ \/ r.by = NoServlet /\ pc' = "page" /\ resp' = [r EXCEPT !.status = "NOT_FOUND"]
               \/ r.by = "text" /\ pc' = "page" /\ resp' = SetTextBody(r)
               \/ r.by = "redirect" /\ pc' = "page" /\ resp' = SendRedirect(r)
               \/ r.by = "files" /\ StaticFileServlet(r)
               \/ /\ r.by \notin {NoServlet, "text", "redirect", "files", "login", "logout"}
                  /\ pc' = "page" /\ resp' = r
            /\ UNCHANGED sessions
  <2>1. "NOT_FOUND" \in Statuses /\ "FOUND" \in Statuses
    BY DEF Statuses
  <2>2. Goal
    BY <1>3, <1>4, <1>5, <1>6, <1>10, <2>1 DEF SendRedirect
  <2> QED
    BY <2>2 DEF Goal
<1> QED
  BY <1>8, <1>9, <1>10 DEF Handle

-----------------------------------------------------------------------------
(* Reads.                                                                  *)

\* Taking the first request of the queue.
LEMMA TakeFacts ==
  ASSUME stream \in Streams, NEW t, TokenOk(t), NEW q, NEW from \in Nat, ParserOk(q, t, from), ~q.bad, q.queue # <<>>
  PROVE  /\ Head(q.queue) = from + 1 /\ from + 1 <= Ended(t) /\ Ended(t) <= t.req
         /\ ParserOk(TakeRequest(q), t, from + 1) /\ ~TakeRequest(q).bad
<1> DEFINE e == Ended(t)
           p == TakeRequest(q)
<1>1. /\ ParserShape(q) /\ from <= e /\ q.queue = [k \in 1..(e - from) |-> from + k]
      /\ \A j \in 1..e : Legal(stream[j])
      /\ IF IsLast(t) THEN Idle(q) ELSE Partial(q, t)
  BY DEF ParserOk
<1>2. e \in Int /\ e <= t.req
  BY StreamLen DEF Ended, TokenOk
<1> HIDE DEF e
<1>3. PICK b \in Nat : b = e - from
  BY <1>1, <1>2
<1>4. q.queue = [k \in 1..b |-> from + k] /\ b # 0
  <2>1. q.queue = [k \in 1..b |-> from + k]
    BY <1>1, <1>3
  <2>2. b # 0
    BY <2>1
  <2> QED
    BY <2>1, <2>2
<1>5. /\ Head(q.queue) = from + 1 /\ Tail(q.queue) = [k \in 1..(b - 1) |-> (from + 1) + k]
  <2> DEFINE u == [k \in 1..b |-> from + k]
             v == [k \in 1..(b - 1) |-> (from + 1) + k]
  <2>1. u \in Seq(Nat) /\ Len(u) = b /\ v \in Seq(Nat) /\ Len(v) = b - 1
    BY <1>4
  <2>2. Head(u) = from + 1
    BY <1>4
  <2>3. Tail(u) \in Seq(Nat) /\ Len(Tail(u)) = b - 1 /\ \A k \in 1..(b - 1) : Tail(u)[k] = u[k + 1]
    <3>1. u # <<>>
      BY <1>4
    <3> HIDE DEF u
    <3> QED
      BY <1>4, <2>1, <3>1, HeadTailProperties
  <2>4. \A k \in 1..(b - 1) : u[k + 1] = v[k]
    BY <1>4
  <2>5. Tail(u) = v
    <3> DEFINE w == Tail(u)
    <3>1. Len(w) = Len(v) /\ (\A k \in 1..Len(w) : w[k] = v[k]) /\ w \in Seq(Nat) /\ v \in Seq(Nat)
      <4> HIDE DEF u, v
      <4> QED
        BY <2>1, <2>3, <2>4
    <3>2. w = v
      <4> HIDE DEF v, w
      <4> QED
        BY <3>1, SeqEqual
    <3> QED
      BY <3>2
  <2> QED
    BY <1>4, <2>2, <2>5
<1>6. p = [q EXCEPT !.queue = Tail(@)]
  BY DEF TakeRequest
<1>7. /\ p = [buf |-> q.buf, val |-> q.val, headers |-> q.headers, check |-> q.check,
              queue |-> Tail(q.queue), bad |-> q.bad]
  BY <1>1, <1>6 DEF ParserShape
<1> HIDE DEF p
<1>8. /\ p.buf = q.buf /\ p.val = q.val /\ p.headers = q.headers /\ p.check = q.check
      /\ p.queue = Tail(q.queue) /\ p.bad = q.bad
  BY <1>7
<1>9. ParserShape(p)
  BY <1>1, <1>7, <1>8 DEF ParserShape
<1>10. IF IsLast(t) THEN Idle(p) ELSE Partial(p, t)
  BY <1>1, <1>8 DEF Idle, Partial
<1>11. from + 1 <= e /\ b - 1 = e - (from + 1)
  BY <1>2, <1>3, <1>4
<1>12. p.queue = [k \in 1..(e - (from + 1)) |-> (from + 1) + k]
  BY <1>5, <1>8, <1>11
<1>13. ParserOk(p, t, from + 1)
  BY <1>1, <1>8, <1>9, <1>10, <1>11, <1>12 DEF ParserOk, e
<1> QED
  BY <1>2, <1>5, <1>8, <1>11, <1>13 DEF e, p

\* The cookies a client sends were set by responses it has had.
LEMMA CookieFacts ==
  ASSUME HttpInv, pc = "read", NEW n \in Nat, HasCookies(n), NEW j \in 1..n
  PROVE  stream[j].cookie \in 0..taken
<1>1. wire \in Seq(Heads) /\ Len(wire) = taken /\ taken \in Nat /\ \A i \in DOMAIN wire : wire[i].of # Bad
  BY StreamLen DEF HttpInv, WireInv, WireLen, StreamInv
<1>2. ASSUME NEW i \in DOMAIN wire PROVE wire[i].setCookie \in 0..taken
  <2>1. Answer(i) /\ wire[i].of # Bad /\ i \in 1..taken
    BY <1>1, <1>2 DEF HttpInv, WireInv, WireOk
  <2>2. wire[i].setCookie = 0 \/ wire[i].setCookie = i
    BY <2>1 DEF Answer, SessionOk, NoSession
  <2> QED
    BY <1>1, <2>1, <2>2
<1>3. stream[j].cookie = 0 \/ \E i \in DOMAIN wire : stream[j].cookie = wire[i].setCookie
  BY DEF HasCookies, NoSession
<1> QED
  BY <1>1, <1>2, <1>3

\* Nothing on the wire is a 400 while DoHttp reads; what it holds stays true when
\* requests after them are served.
LEMMA WireAfterRead ==
  ASSUME HttpInv, pc = "read", stream' = stream, wire' = wire, sessions' \subseteq sessions \cup {taken + 1},
         \A i \in 1..taken : stream[i].cookie \in 0..taken
  PROVE  WireOk' /\ \A i \in DOMAIN wire' : wire'[i].of # Bad
<1>1. wire \in Seq(Heads) /\ Len(wire) = taken /\ taken \in Nat /\ \A i \in DOMAIN wire : wire[i].of # Bad
  BY StreamLen DEF HttpInv, WireInv, WireLen, StreamInv
<1>2. \A j : Legal(stream[j])' <=> Legal(stream[j])
  BY DEF Legal, Dots
<1>3. ASSUME NEW i \in DOMAIN wire PROVE Answer(i)'
  <2>1. Answer(i) /\ wire[i].of # Bad /\ i \in 1..taken
    BY <1>1, <1>3 DEF HttpInv, WireInv, WireOk
  <2>2. stream[i].cookie # taken + 1
    BY <1>1, <2>1
  <2>3. stream[i].cookie \notin sessions => stream[i].cookie \notin sessions'
    BY <2>2
  <2> QED
    BY <1>2, <2>1, <2>3 DEF Answer, SessionOk
<1> QED
  BY <1>1, <1>3 DEF WireOk

LEMMA ReadKeeps == ASSUME NEW k \in 1..MaxRead, HttpInv, Read(k) PROVE HttpInv'
<1> DEFINE P == Parse(k)
           q == P.parser
<1>1. /\ pc = "read" /\ ~NoMore(at) /\ at' = P.at /\ joined' = P.joined /\ HasCookies(at'.req)
      /\ UNCHANGED <<stream, left, file, peer, wire>>
  BY DEF Read
<1>2. /\ StreamInv /\ stream \in Streams /\ taken \in 0..Len(stream) /\ sessions \subseteq 1..taken
      /\ TokenOk(at) /\ ParserOk(parser, at, taken) /\ joined \in BOOLEAN /\ taken <= at.req
  BY DEF HttpInv, StreamInv
<1>3. /\ ~parser.bad /\ Len(wire) = taken /\ wire \in Seq(Heads) /\ Framing
      /\ \A i \in DOMAIN wire : wire[i].of # Bad
  BY <1>1 DEF HttpInv, WireInv, WireLen
<1>4. taken \in Nat /\ Len(stream) \in Nat /\ k \in Nat /\ k > 0
  BY <1>2, StreamLen, LimitsFacts
<1>5. SoFar(P, TRUE, taken) /\ at.req <= P.at.req
  <2>1. ~joined => Ended(at) = taken
    BY <1>3 DEF HttpInv, StreamInv
  <2> QED
    BY <1>1, <1>2, <1>3, <1>4, <2>1, ParseFacts
<1> HIDE DEF P
<1>6. /\ TokenOk(at') /\ joined' \in BOOLEAN /\ ParserOk(q, at', taken)
      /\ ~joined' => IF q.bad THEN ~Legal(stream[taken + 1])
                     ELSE Ended(at') = IF IsLast(at') THEN taken + 1 ELSE taken
  BY <1>1, <1>5 DEF SoFar
<1>7. at'.req \in Nat /\ at'.req <= Len(stream) /\ taken <= at'.req
  <2>1. at'.req \in 0..Len(stream) /\ at.req \in 0..Len(stream)
    BY <1>2, <1>6 DEF TokenOk
  <2>2. at.req <= at'.req
    BY <1>1, <1>5
  <2> QED
    BY <1>2, <1>4, <2>1, <2>2
<1>8. \A j \in 1..at'.req : stream[j].cookie \in 0..taken
  BY <1>1, <1>7, CookieFacts
<1>9. \A i \in 1..taken : stream[i].cookie \in 0..taken
  BY <1>4, <1>7, <1>8
<1>10. /\ TokenOk(at)'
       /\ \A j : Legal(stream[j])' <=> Legal(stream[j])
  <2>1. TokenOk(at)'
    BY <1>1, <1>6 DEF TokenOk
  <2>2. \A j : Legal(stream[j])' <=> Legal(stream[j])
    BY <1>1 DEF Legal, Dots
  <2> QED
    BY <2>1, <2>2
<1>11. ASSUME NEW p, NEW n \in Nat, ParserOk(p, at', n), parser' = p, taken' = n, n <= Len(stream), n <= at'.req,
              sessions' \subseteq 1..n,
              ~joined' => IF p.bad THEN ~Legal(stream[n + 1]) ELSE Ended(at') = n
       PROVE  StreamInv'
  <2>1. (IsLast(at)' <=> IsLast(at')) /\ Ended(at)' = Ended(at')
    BY <1>1 DEF IsLast, Ended
  <2>2. /\ ParserShape(parser)' /\ (Idle(parser)' <=> Idle(p)) /\ (Partial(parser, at)' <=> Partial(p, at'))
    BY <1>1, <1>11 DEF ParserOk, ParserShape, Idle, Partial, Dots
  <2>3. ParserOk(parser, at, taken)'
    BY <1>10, <1>11, <2>1, <2>2 DEF ParserOk
  <2>4. taken' \in 0..Len(stream)'
    BY <1>1, <1>4, <1>11
  <2> QED
    BY <1>1, <1>2, <1>6, <1>10, <1>11, <2>1, <2>3, <2>4 DEF StreamInv
<1>12. DOMAIN wire = 1..taken
  BY <1>3
<1> HIDE DEF q
<1>13. CASE /\ q.bad
            /\ resp' = [Fresh(Bad) EXCEPT !.status = "BAD_REQUEST", !.keep = FALSE]
            /\ parser' = q /\ pc' = "page"
            /\ UNCHANGED <<taken, sessions>>
  <2>1. StreamInv'
    BY <1>1, <1>2, <1>4, <1>6, <1>7, <1>11, <1>13
  <2>2. /\ resp'.of = Bad /\ resp'.status = "BAD_REQUEST" /\ resp'.body = "none" /\ resp'.length = Unframed
        /\ resp'.keep = FALSE /\ resp'.by = NoServlet /\ resp'.session = NoSession /\ resp'.setCookie = NoSession
        /\ RespShape(resp')
    BY <1>13 DEF Fresh, RespShape, RespFields
  <2>3. RespInv'
    <3>1. RespOf'
      BY <1>4, <1>13, <2>2 DEF RespOf, Bad
    <3>2. RespBody'
      BY <1>13, <2>2 DEF RespBody, BodyOk, Statuses, Unframed
    <3>3. SessionOk(resp.session, resp.setCookie, resp.of)'
      BY <2>2 DEF SessionOk, Bad, NoSession
    <3> QED
      BY <2>2, <3>1, <3>2, <3>3 DEF RespInv
  <2>4. WireOk' /\ \A i \in DOMAIN wire' : wire'[i].of # Bad
    BY <1>1, <1>9, <1>13, WireAfterRead
  <2>5. WireLen'
    BY <1>1, <1>3, <1>13, <2>2, <2>4 DEF WireLen
  <2>6. Framing'
    BY <1>1, <1>3, <1>13 DEF Framing, Whole
  <2>7. NoFilterBypassed' /\ AbortsExplained'
    BY <1>13, <2>2, RoutesAssumption DEF NoFilterBypassed, AbortsExplained
  <2> QED
    BY <1>1, <1>3, <2>1, <2>3, <2>4, <2>5, <2>6, <2>7 DEF HttpInv, WireInv
<1>14. CASE ~q.bad /\ ~HasRequest(q) /\ parser' = q /\ UNCHANGED <<pc, taken, resp, sessions>>
  <2>1. Ended(at') = taken
    <3>1. PICK b : b = Ended(at') - taken
      OBVIOUS
    <3>2. taken <= Ended(at') /\ q.queue = [j \in 1..b |-> taken + j] /\ q.queue = <<>>
      BY <1>6, <1>14, <3>1 DEF ParserOk, HasRequest
    <3>3. Ended(at') \in Int
      BY <1>7 DEF Ended
    <3>4. b \in Nat
      BY <1>4, <3>1, <3>2, <3>3
    <3>5. b = 0
      BY <3>2, <3>4
    <3> QED
      BY <1>4, <3>1, <3>3, <3>5
  <2>2. StreamInv'
    BY <1>1, <1>2, <1>4, <1>6, <1>7, <1>11, <1>14, <2>1
  <2>3. RespInv'
    BY <1>1, <1>14 DEF HttpInv, RespInv, RespShape, RespOf, RespBody, BodyOk, SessionOk, Sending
  <2>4. WireOk' /\ \A i \in DOMAIN wire' : wire'[i].of # Bad
    BY <1>1, <1>9, <1>14, WireAfterRead
  <2>5. WireLen'
    BY <1>1, <1>3, <1>14, <2>4 DEF WireLen
  <2>6. Framing'
    BY <1>1, <1>3, <1>14 DEF Framing, Whole
  <2>7. NoFilterBypassed' /\ AbortsExplained'
    BY <1>1, <1>14, FilterSame DEF AbortsExplained, HttpInv
  <2> QED
    BY <1>1, <1>3, <2>2, <2>3, <2>4, <2>5, <2>6, <2>7 DEF HttpInv, WireInv
<1>15. CASE /\ ~q.bad /\ HasRequest(q) /\ taken' = taken + 1 /\ parser' = TakeRequest(q)
            /\ LET i == Head(q.queue) IN
               \/ /\ CheckWhetherUpgradeRequest(stream[i])
                  /\ pc' = "upgraded" /\ UNCHANGED <<resp, sessions>>
               \/ /\ ~CheckWhetherUpgradeRequest(stream[i])
                  /\ Serve(i)
  <2> DEFINE i == taken + 1
  <2>1. /\ Head(q.queue) = i /\ i <= Ended(at') /\ Ended(at') <= at'.req
        /\ ParserOk(TakeRequest(q), at', i) /\ ~TakeRequest(q).bad
    BY <1>2, <1>4, <1>6, <1>15, TakeFacts DEF HasRequest
  <2>2. i \in Nat /\ i \in 1..Len(stream) /\ i <= at'.req /\ i \in 1..at'.req
    <3>1. Ended(at') \in Int
      BY <1>7 DEF Ended
    <3> QED
      BY <1>4, <1>7, <2>1, <3>1
  <2>3. ~joined' => Ended(at') = i
    <3>1. ~joined' => Ended(at') = taken + 1 \/ Ended(at') = taken
      BY <1>6, <1>15
    <3>2. Ended(at') # taken
      BY <1>4, <2>1
    <3> QED
      BY <3>1, <3>2
  <2>4. stream[i].cookie # i
    <3>1. stream[i].cookie \in 0..taken
      BY <1>8, <2>2
    <3> QED
      BY <1>4, <3>1
  <2>5. ASSUME sessions' \subseteq sessions \cup {i} PROVE StreamInv'
    <3>1. sessions' \subseteq 1..i
      BY <1>2, <1>4, <2>5
    <3> QED
      BY <1>11, <1>15, <2>1, <2>2, <2>3, <3>1
  <2>6. ASSUME sessions' \subseteq sessions \cup {i}
        PROVE  WireOk' /\ \A j \in DOMAIN wire' : wire'[j].of # Bad
    BY <1>1, <1>9, <2>6, WireAfterRead
  <2>7. parser' = TakeRequest(q) /\ ~parser'.bad /\ taken' = i
    BY <1>15, <2>1
  <2>8. CASE pc' = "upgraded" /\ UNCHANGED <<resp, sessions>>
    <3>1. StreamInv' /\ WireOk'
      BY <2>5, <2>6, <2>8
    <3>2. RespOf'
      <4>1. resp.of \in 0..taken
        BY DEF HttpInv, RespInv, RespOf
      <4>2. resp.of \in 0..i
        BY <1>4, <4>1
      <4> QED
        BY <2>7, <2>8, <4>2 DEF RespOf, Sending
    <3>3. RespInv'
      BY <1>1, <2>8, <3>2 DEF HttpInv, RespInv, RespShape, RespBody, BodyOk, SessionOk
    <3>4. WireLen' /\ Framing'
      BY <1>1, <1>3, <2>8 DEF WireLen, Framing, Whole
    <3>5. NoFilterBypassed' /\ AbortsExplained'
      BY <1>1, <2>8, FilterSame DEF AbortsExplained, HttpInv
    <3> QED
      BY <1>1, <1>3, <3>1, <3>3, <3>4, <3>5 DEF HttpInv, WireInv
  <2>9. CASE Serve(i)
    <3>1. PICK veto \in SUBSET Filters :
            Handle([Fresh(i) EXCEPT !.keep = IsKeepAlive(stream[i]),
                                    !.by = ForwardTo(DecodeUrl(stream[i].url), veto).by,
                                    !.ran = ToSet(ForwardTo(DecodeUrl(stream[i].url), veto).ran)])
      BY <2>9 DEF Serve
    <3> DEFINE d == ForwardTo(DecodeUrl(stream[i].url), veto)
               r == [Fresh(i) EXCEPT !.keep = IsKeepAlive(stream[i]), !.by = d.by, !.ran = ToSet(d.ran)]
    <3>2. Untouched(r) /\ r.of = i /\ r.by = d.by /\ r.ran = ToSet(d.ran)
      <4> HIDE DEF d
      <4>1. /\ r.of = i /\ r.by = d.by /\ r.ran = ToSet(d.ran) /\ r.body = "none" /\ r.status = "OK"
            /\ r.length = Unframed /\ r.session = NoSession /\ r.setCookie = NoSession
        BY DEF Fresh
      <4>2. RespShape(r)
        BY DEF Fresh, RespShape, RespFields
      <4> QED
        BY <4>1, <4>2 DEF Untouched
    <3>3. Handle(r)
      BY <3>1
    <3>4. d.by \in Servlets => Covering(Path(i)) \subseteq ToSet(d.ran)
      <4>1. DecodeUrl(stream[i].url) \in Seq(Names)
        BY <1>2, <2>2, RequestFacts, DecodeUrlFacts
      <4> QED
        BY <4>1, ForwardCovers DEF Path
    <3> HIDE DEF d, r
    <3>5. /\ pc' \in {"page", "aborted"} /\ Made(r, resp')
          /\ pc' = "aborted" => Throws(r, resp')
          /\ sessions' \subseteq sessions \cup {r.of}
          /\ resp'.session \in 0..r.of
          /\ resp'.setCookie = NoSession \/ ( resp'.setCookie = r.of /\ resp'.session = r.of
                                             /\ stream[r.of].cookie \notin sessions' )
      <4>1. sessions \subseteq 1..(i - 1)
        BY <1>2, <1>4
      <4> HIDE DEF i
      <4> QED
        BY <1>2, <2>2, <2>4, <3>2, <3>3, <4>1, HandleFacts
    <3>6. StreamInv' /\ WireOk' /\ \A j \in DOMAIN wire' : wire'[j].of # Bad
      BY <2>5, <2>6, <3>2, <3>5
    <3>7. /\ resp'.of = i /\ resp'.by = d.by /\ resp'.ran = ToSet(d.ran)
          /\ RespShape(resp') /\ BodyOk(resp')
          /\ resp'.body = "failed" => resp'.status # "OK"
          /\ resp'.body = "file" => resp'.status = "OK"
      BY <3>2, <3>5 DEF Made
    <3>8. i # Bad
      BY <1>4 DEF Bad
    <3>9. RespInv'
      <4>1. RespOf'
        BY <2>2, <2>7, <3>5, <3>7, <3>8 DEF RespOf, Sending
      <4>2. RespBody'
        BY <3>5, <3>7 DEF RespBody
      <4>3. SessionOk(resp.session, resp.setCookie, resp.of)'
        BY <1>1, <3>2, <3>5, <3>7 DEF SessionOk
      <4> QED
        BY <3>7, <4>1, <4>2, <4>3 DEF RespInv
    <3>10. WireLen'
      <4>1. Len(wire') = taken' - 1
        BY <1>1, <1>3, <1>4, <2>7
      <4> QED
        BY <3>5, <3>6, <3>7, <3>8, <4>1 DEF WireLen
    <3>11. Framing'
      BY <1>1, <1>3, <3>5 DEF Framing, Whole
    <3>12. NoFilterBypassed'
      BY <1>1, <3>4, <3>7 DEF NoFilterBypassed, Path
    <3>13. AbortsExplained'
      <4>1. pc' = "aborted" => Throws(r, resp')
        BY <3>5
      <4> QED
        BY <1>1, <3>2, <3>7, <4>1 DEF AbortsExplained, Throws, Path
    <3> QED
      BY <1>1, <1>3, <3>6, <3>9, <3>10, <3>11, <3>12, <3>13 DEF HttpInv, WireInv
  <2> QED
    BY <1>15, <2>1, <2>8, <2>9
<1> QED
  BY <1>13, <1>14, <1>15 DEF Read, q, P

LEMMA HttpNext == HttpInv /\ [Next]_vars => HttpInv'
<1> SUFFICES ASSUME HttpInv, [Next]_vars PROVE HttpInv'
  OBVIOUS
<1>1. ASSUME NEW k \in 1..MaxRead, Read(k) PROVE HttpInv'
  BY <1>1, ReadKeeps
<1>2. CASE ReadEnds
  BY <1>2, GiveUpKeeps DEF ReadEnds, Close
<1>3. CASE MakeHeaders
  BY <1>3, MakeHeadersKeeps
<1>4. CASE WriteFails
  BY <1>4, GiveUpKeeps DEF WriteFails, Close
<1>5. CASE WriteHeader
  BY <1>5, WriteHeaderKeeps
<1>6. ASSUME NEW n \in 1..MaxRead, WriteText(n) \/ SendFile(n) PROVE HttpInv'
  <2>1. n \in Nat
    BY LimitsFacts
  <2> QED
    BY <1>6, <2>1, BodySentKeeps DEF WriteText, SendFile
<1>7. CASE FinishBody
  BY <1>7, FinishBodyKeeps
<1>8. CASE KeepAliveOrClose
  BY <1>8, KeepAliveKeeps
<1>9. CASE PeerChanges
  BY <1>9, GiveUpKeeps DEF PeerChanges
<1>10. CASE Truncate
  BY <1>10, GiveUpKeeps DEF Truncate
<1>11. CASE Invalidate
  <2>1. sessions' \subseteq sessions
    BY <1>11 DEF Invalidate
  <2> QED
    BY <1>11, <2>1, GiveUpKeeps DEF Invalidate
<1>12. CASE Done
  BY <1>12, GiveUpKeeps DEF Done, vars
<1>13. CASE UNCHANGED vars
  BY <1>13, GiveUpKeeps DEF vars
<1> QED
  BY <1>1, <1>2, <1>3, <1>4, <1>5, <1>6, <1>7, <1>8, <1>9, <1>10, <1>11, <1>12, <1>13 DEF Next, Send

LEMMA HttpInvariant == Spec => []HttpInv
<1>1. Init => HttpInv
  BY HttpInit
<1>2. HttpInv /\ [Next]_vars => HttpInv'
  BY HttpNext
<1> QED
  BY <1>1, <1>2, PTL DEF Spec

-----------------------------------------------------------------------------
(* The theorems about the HTTP server.                                     *)

\* DispatcherServlet::DoDispathcer lets no request reach a servlet past a filter
\* whose pattern covers its url, whatever is registered, however the url is encoded
\* and also where the root is forwarded to /index.html.
THEOREM FiltersNotBypassed == Spec => []NoFilterBypassed
<1>1. HttpInv => NoFilterBypassed
  BY DEF HttpInv
<1> QED
  BY <1>1, HttpInvariant, PTL

\* The assertions of StaticFileBody::Send and the exception of SetRelatedHeaders are
\* reached only through an error page handler that sets no body for a file that could
\* not be opened, or by a file that is open and has a path without a suffix: a missing
\* file is answered, whatever its name.
THEOREM AbortsAreExplained == Spec => []AbortsExplained
<1>1. HttpInv => AbortsExplained
  BY DEF HttpInv
<1> QED
  BY <1>1, HttpInvariant, PTL

\* However reads cut the stream, DoHttp writes one response for each request, in
\* order, whole and with the right session, only for requests within the limits, and
\* a 400 only where something was past them.
THEOREM ResponsesMatchRequests == Spec => []AnswersMatchRequests
<1>1. HttpInv => AnswersMatchRequests
  <2> SUFFICES ASSUME HttpInv PROVE AnswersMatchRequests
    OBVIOUS
  <2>1. /\ wire \in Seq(Heads) /\ WireLen /\ WireOk /\ Framing /\ stream \in Streams
    BY DEF HttpInv, WireInv, StreamInv
  <2>2. PICK n \in Nat : n = Len(wire) /\ DOMAIN wire = 1..n
    BY <2>1
  <2>3. DOMAIN stream = 1..Len(stream) /\ Len(stream) \in Nat
    BY <2>1, StreamLen
  <2>4. WellFramed
    BY <2>1 DEF WellFramed, Framing, Whole
  <2>5. SessionsKept
    <3> SUFFICES ASSUME NEW i \in DOMAIN wire, wire[i].session # NoSession, wire[i].setCookie # NoSession
                 PROVE  /\ stream[i].cookie \notin sessions
                        /\ \A j \in 1..(i - 1) : wire[j].session # wire[i].session
      BY DEF SessionsKept
    <3>1. Answer(i) /\ i \in 1..n
      BY <2>1, <2>2 DEF WireOk
    <3>2. wire[i].session = i /\ stream[i].cookie \notin sessions
      BY <3>1 DEF Answer, SessionOk
    <3>3. ASSUME NEW j \in 1..(i - 1) PROVE wire[j].session # i
      <4>1. j \in 1..n /\ j # n /\ j < i /\ j \in Nat
        BY <3>1
      <4>2. Answer(j)
        BY <2>1, <2>2, <4>1 DEF WireOk
      <4>3. wire[j].session \in 0..j
        BY <2>2, <4>1, <4>2 DEF Answer, SessionOk
      <4> QED
        BY <3>1, <4>1, <4>3
    <3> QED
      BY <3>2, <3>3
  <2>6. ASSUME NEW i \in DOMAIN wire
        PROVE  IF wire[i].of = Bad
               THEN /\ i = Len(wire) /\ pc # "read"
                    /\ \E j \in DOMAIN stream : j >= i /\ ~Legal(stream[j])
               ELSE wire[i].of = i /\ Legal(stream[i])
    <3>1. Answer(i) /\ i \in 1..n
      BY <2>1, <2>2 DEF WireOk
    <3>2. CASE wire[i].of = Bad
      <4>1. pc # "read"
        BY <2>1, <3>2 DEF WireLen
      <4>2. PICK j \in i..Len(stream) : ~Legal(stream[j])
        BY <3>1, <3>2 DEF Answer
      <4>3. j \in DOMAIN stream /\ j >= i
        BY <2>3, <3>1
      <4> QED
        BY <3>1, <3>2, <4>1, <4>2, <4>3 DEF Answer
    <3>3. CASE wire[i].of # Bad
      BY <3>1, <3>3 DEF Answer
    <3> QED
      BY <3>2, <3>3
  <2> QED
    BY <2>4, <2>5, <2>6 DEF AnswersMatchRequests
<1> QED
  BY <1>1, HttpInvariant, PTL

\* As long as no read held the end of one request and the beginning of the next, no
\* request waits in the parser while DoHttp waits for input, and a 400 answers the
\* very request that is past the limits.
THEOREM NoRequestWaits == Spec => []PromptUnlessJoined
<1>1. HttpInv => PromptUnlessJoined
  <2> SUFFICES ASSUME HttpInv, ~joined
               PROVE  /\ pc = "read" => parser.queue = <<>>
                      /\ \A i \in DOMAIN wire : wire[i].of = Bad => ~Legal(stream[i])
    BY DEF PromptUnlessJoined
  <2>1. ASSUME pc = "read" PROVE parser.queue = <<>>
    <3>1. ~parser.bad
      BY <2>1 DEF HttpInv, WireInv, WireLen
    <3>2. Ended(at) = taken /\ taken \in 0..Len(stream) /\ Len(stream) \in Nat
      BY <3>1, StreamLen DEF HttpInv, StreamInv
    <3>3. Ended(at) - taken = 0
      BY <3>2
    <3>4. parser.queue = [k \in 1..(Ended(at) - taken) |-> taken + k]
      BY <3>1 DEF HttpInv, StreamInv, ParserOk
    <3> QED
      BY <3>3, <3>4
  <2>2. ASSUME NEW i \in DOMAIN wire, wire[i].of = Bad PROVE ~Legal(stream[i])
    <3>1. Answer(i)
      BY DEF HttpInv, WireInv, WireOk
    <3> QED
      BY <2>2, <3>1 DEF Answer
  <2> QED
    BY <2>1, <2>2
<1> QED
  BY <1>1, HttpInvariant, PTL
=============================================================================
