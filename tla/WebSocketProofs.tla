-------------------------- MODULE WebSocketProofs --------------------------
(***************************************************************************)
(* Proofs about WebSocket, for every set of frames the peer may send and   *)
(* every bound: what is written, when the registry forgets, and what the   *)
(* parser makes of the stream.                                             *)
(***************************************************************************)
EXTENDS WebSocket, SequenceTheorems, FiniteSetTheorems, WellFoundedInduction, TLAPS

-----------------------------------------------------------------------------
(* Sequences of frames.                                                    *)

LEMMA PrefixOfConcat ==
  ASSUME NEW S, NEW s \in Seq(S), NEW u \in Seq(S)
  PROVE  IsPrefix(s, s \o u)
<1>1. s \o u \in Seq(S) /\ Len(s) \in Nat /\ Len(s) <= Len(s \o u)
  BY ConcatProperties, LenProperties
<1>2. SubSeq(s, 1, Len(s)) = SubSeq(s \o u, 1, Len(s))
  <2>1. CASE Len(s) = 0
    BY <1>1, <2>1, SubSeqEmpty
  <2>2. CASE Len(s) # 0
    <3>1. 1 \in 1..Len(s) /\ Len(s) \in 1..Len(s)
      BY <1>1, <2>2
    <3> QED
      BY <3>1, SubSeqOfConcat1
  <2> QED
    BY <2>1, <2>2
<1> QED
  BY <1>1, <1>2 DEF IsPrefix

LEMMA PrefixAppend ==
  ASSUME NEW S, NEW s \in Seq(S), NEW u \in Seq(S), NEW x \in S, IsPrefix(s, u)
  PROVE  IsPrefix(s, Append(u, x))
<1>1. Len(s) \in Nat /\ Len(u) \in Nat /\ Len(s) <= Len(u) /\ Len(Append(u, x)) = Len(u) + 1
  BY AppendProperties, LenProperties DEF IsPrefix
<1>2. SubSeq(Append(u, x), 1, Len(s)) = SubSeq(u, 1, Len(s))
  <2>1. CASE Len(s) = 0
    BY <2>1, SubSeqEmpty
  <2>2. CASE Len(s) # 0
    <3>1. 1 \in 1..Len(u) /\ Len(s) \in 1..Len(u) /\ <<x>> \in Seq(S)
      BY <1>1, <2>2
    <3>2. SubSeq(u \o <<x>>, 1, Len(s)) = SubSeq(u, 1, Len(s))
      BY <3>1, SubSeqOfConcat1
    <3> QED
      BY <3>2, AppendIsConcat
  <2> QED
    BY <2>1, <2>2
<1> QED
  BY <1>1, <1>2 DEF IsPrefix

\* What is between queueing and the wire is not changed by where it is.
LEMMA Regroup ==
  ASSUME NEW S, NEW w \in Seq(S), NEW r \in Seq(S), NEW m \in Seq(S)
  PROVE  /\ (w \o r) \o <<>> = w \o r /\ (w \o <<>>) \o m = w \o m /\ (w \o m) \o <<>> = (w \o <<>>) \o m
         /\ \A x \in S : (w \o r) \o Append(m, x) = Append((w \o r) \o m, x)
         /\ \A k \in 1..Len(r) : (w \o SubSeq(r, 1, k)) \o SubSeq(r, k + 1, Len(r)) = w \o r
<1>0. \A a, b, c \in Seq(S) : (a \o b) \o c = a \o (b \o c)
  BY ConcatAssociative, SMTT(60)
<1>1. \A u \in Seq(S) : u \o <<>> = u
  BY ConcatEmptySeq
<1>2. w \o r \in Seq(S) /\ w \o m \in Seq(S) /\ (w \o r) \o m \in Seq(S)
  BY ConcatProperties
<1>3. ASSUME NEW x \in S PROVE (w \o r) \o Append(m, x) = Append((w \o r) \o m, x)
  <2>1. <<x>> \in Seq(S)
    OBVIOUS
  <2>2. Append(m, x) = m \o <<x>> /\ Append((w \o r) \o m, x) = ((w \o r) \o m) \o <<x>>
    BY <1>2, AppendIsConcat
  <2> QED
    BY <1>2, <2>1, <2>2, ConcatAssociative, SMTT(30)
<1>4. ASSUME NEW k \in 1..Len(r)
      PROVE  (w \o SubSeq(r, 1, k)) \o SubSeq(r, k + 1, Len(r)) = w \o r
  <2>1. Len(r) \in Nat /\ 1 \in 1..(Len(r) + 1) /\ k \in 0..Len(r) /\ Len(r) \in k..Len(r)
    BY LenProperties
  <2>2. SubSeq(r, 1, k) \o SubSeq(r, k + 1, Len(r)) = SubSeq(r, 1, Len(r))
    BY <2>1, ConcatAdjacentSubSeq
  <2>3. SubSeq(r, 1, Len(r)) = r
    BY SubSeqFull
  <2>4. SubSeq(r, 1, k) \in Seq(S) /\ SubSeq(r, k + 1, Len(r)) \in Seq(S)
    OBVIOUS
  <2>6. (w \o SubSeq(r, 1, k)) \o SubSeq(r, k + 1, Len(r)) = w \o (SubSeq(r, 1, k) \o SubSeq(r, k + 1, Len(r)))
    BY <1>0, <2>4, ZenonT(60)
  <2> QED
    BY ONLY <2>2, <2>3, <2>6
<1> QED
  BY <1>1, <1>2, <1>3, <1>4

-----------------------------------------------------------------------------
(* What is queued and what is written.                                     *)

OutTypes ==
  /\ temp \in Seq(Kinds) /\ rest \in Seq(Kinds) /\ queued \in Seq(Kinds) /\ wire \in Seq(Kinds)
  /\ pending \in Seq(Kinds \cup {"SendPing"})
  /\ starter \in Kinds \cup {"none"}

\* The buffer in flight is empty unless somebody is in DoWrite; when the
\* connection is gone it may hold what was not written.
IdleEmpty == connected /\ ~isWriting => rest = <<>>

WriteInv == OutTypes /\ IdleEmpty /\ WireInOrder

LEMMA WriteInit == Init => WriteInv
<1> SUFFICES ASSUME Init PROVE WriteInv
  OBVIOUS
<1>1. temp = <<>> /\ rest = <<>> /\ queued = <<>> /\ wire = <<>> /\ pending = <<>> /\ starter = "none"
  BY DEF Init
<1>2. <<>> \in Seq(Kinds) /\ <<>> \in Seq(Kinds \cup {"SendPing"})
  OBVIOUS
<1>3. <<>> \o <<>> = <<>>
  BY <1>2, ConcatEmptySeq
<1>4. IsPrefix(<<>>, <<>>)
  BY <1>2, <1>3, PrefixOfConcat
<1> QED
  BY <1>1, <1>2, <1>3, <1>4 DEF WriteInv, OutTypes, IdleEmpty, WireInOrder

\* A step that queues and writes nothing, and does not bring the connection back.
LEMMA WriteElsewhere ==
  ASSUME WriteInv, UNCHANGED outVars, connected' => connected,
         pending' \in Seq(Kinds \cup {"SendPing"})
  PROVE  WriteInv'
BY DEF WriteInv, OutTypes, IdleEmpty, WireInOrder, outVars

LEMMA EnqueueInOrder ==
  ASSUME WriteInv, NEW kind \in Kinds, Enqueue(kind), pending' \in Seq(Kinds \cup {"SendPing"})
  PROVE  WriteInv'
<1>1. /\ temp \in Seq(Kinds) /\ rest \in Seq(Kinds) /\ queued \in Seq(Kinds) /\ wire \in Seq(Kinds)
      /\ IsPrefix(wire, queued)
  BY DEF WriteInv, OutTypes, WireInOrder
<1>2. queued' = Append(queued, kind) /\ wire' = wire
  BY DEF Enqueue
<1>3. queued' \in Seq(Kinds) /\ IsPrefix(wire, queued')
  BY <1>1, <1>2, PrefixAppend, AppendProperties
<1>4. Append(temp, kind) \in Seq(Kinds)
  BY <1>1, AppendProperties
<1>a. (wire \o rest) \o Append(temp, kind) = Append((wire \o rest) \o temp, kind)
  BY <1>1, Regroup
<1>b. connected => (wire \o rest) \o Append(temp, kind) = queued'
  <2>1. connected => (wire \o rest) \o temp = queued
    BY DEF WriteInv, WireInOrder
  <2> QED
    BY ONLY <1>2, <1>a, <2>1
<1>5. CASE /\ temp' = Append(temp, kind) /\ UNCHANGED <<isWriting, starter, rest>>
           /\ connected' => connected
  <2>1. connected => (wire \o rest) \o temp' = queued'
    BY <1>b, <1>5
  <2> QED
    BY <1>1, <1>2, <1>3, <1>4, <1>5, <2>1 DEF WriteInv, OutTypes, IdleEmpty, WireInOrder
<1>6. CASE /\ ~isWriting /\ connected /\ rest' = Append(temp, kind) /\ temp' = rest
           /\ isWriting' = TRUE /\ starter' = kind
  <2>1. rest = <<>>
    BY <1>6 DEF WriteInv, IdleEmpty
  <2>2. (wire \o rest) \o Append(temp, kind) = queued'
    BY <1>b, <1>6
  <2>3. (wire \o Append(temp, kind)) \o <<>> = (wire \o <<>>) \o Append(temp, kind)
    BY <1>1, <1>4, Regroup
  <2>4. (wire' \o rest') \o temp' = queued'
    BY <1>2, <1>6, <2>1, <2>2, <2>3
  <2> QED
    BY <1>1, <1>2, <1>3, <1>4, <1>6, <2>4 DEF WriteInv, OutTypes, IdleEmpty, WireInOrder
<1>7. CASE isWriting /\ temp' = Append(temp, kind) /\ UNCHANGED <<connected, isWriting, starter, rest>>
  BY <1>5, <1>7
<1>8. CASE ~connected /\ temp' = Append(temp, kind) /\ AfterWrite(kind, FALSE) /\ UNCHANGED <<isWriting, starter, rest>>
  <2>1. connected' => connected
    BY <1>8 DEF AfterWrite
  <2> QED
    BY <1>5, <1>8, <2>1
<1> QED
  BY <1>6, <1>7, <1>8 DEF Enqueue

LEMMA WriteInOrder ==
  ASSUME WriteInv, NEW k, Write(k)
  PROVE  WriteInv'
<1>1. /\ temp \in Seq(Kinds) /\ rest \in Seq(Kinds) /\ queued \in Seq(Kinds) /\ wire \in Seq(Kinds)
      /\ (wire \o rest) \o temp = queued /\ connected /\ k \in 1..Len(rest)
      /\ wire' = wire \o SubSeq(rest, 1, k) /\ UNCHANGED <<queued, pending>>
  BY DEF WriteInv, OutTypes, WireInOrder, Write
<1>2. SubSeq(rest, 1, k) \in Seq(Kinds) /\ SubSeq(rest, k + 1, Len(rest)) \in Seq(Kinds)
  BY <1>1
<1>3. wire' \in Seq(Kinds) /\ wire' \o SubSeq(rest, k + 1, Len(rest)) = wire \o rest
  BY <1>1, <1>2, Regroup, ConcatProperties, ZenonT(60)
<1>4. CASE k # Len(rest)
  <2>1. rest' = SubSeq(rest, k + 1, Len(rest)) /\ UNCHANGED <<connected, isWriting, starter, temp>> /\ isWriting
    BY <1>4 DEF Write
  <2>2. (wire' \o rest') \o temp' = queued'
    BY <1>1, <1>3, <2>1
  <2>3. IsPrefix(wire', queued')
    <3>1. rest' \in Seq(Kinds) /\ rest' \o temp \in Seq(Kinds)
      BY <1>1, <1>2, <2>1, ConcatProperties
    <3>a. (wire' \o rest') \o temp = wire' \o (rest' \o temp)
      <4>1. wire' \in Seq(Kinds) /\ rest' \in Seq(Kinds) /\ temp \in Seq(Kinds)
        BY <1>1, <1>3, <3>1
      <4>2. \A a, b, c \in Seq(Kinds) : (a \o b) \o c = a \o (b \o c)
        BY ConcatAssociative
      <4> QED
        BY ONLY <4>1, <4>2
    <3>2. wire' \o (rest' \o temp) = queued'
      BY <2>1, <2>2, <3>a
    <3>3. IsPrefix(wire', wire' \o (rest' \o temp))
      BY <1>3, <3>1, PrefixOfConcat
    <3> QED
      BY <3>2, <3>3
  <2> QED
    BY <1>1, <1>2, <1>3, <2>1, <2>2, <2>3 DEF WriteInv, OutTypes, IdleEmpty, WireInOrder
<1>5. CASE k = Len(rest)
  <2>1. wire' = wire \o rest /\ wire' \o temp = queued
    BY <1>1, <1>5, SubSeqFull
  <2>2. IsPrefix(wire', queued')
    BY <1>1, <1>3, <2>1, PrefixOfConcat
  <2>3. <<>> \in Seq(Kinds) /\ wire' \o <<>> = wire' /\ (wire' \o temp) \o <<>> = wire' \o temp
    <3>1. wire' \o temp \in Seq(Kinds)
      BY <1>1, <2>1
    <3> QED
      BY <1>3, <3>1, ConcatEmptySeq
  <2>4. CASE rest' = temp /\ temp' = <<>> /\ UNCHANGED <<connected, isWriting, starter>> /\ isWriting
    <3>1. (wire' \o rest') \o temp' = queued'
      BY <1>1, <2>1, <2>3, <2>4
    <3> QED
      BY <1>1, <1>3, <2>2, <2>3, <2>4, <3>1 DEF WriteInv, OutTypes, IdleEmpty, WireInOrder
  <2>5. CASE temp = <<>> /\ rest' = <<>> /\ temp' = <<>> /\ starter' = "none"
    <3>1. (wire' \o rest') \o temp' = queued'
      BY <1>1, <2>1, <2>3, <2>5
    <3> QED
      BY <1>1, <1>3, <2>2, <2>3, <2>5, <3>1 DEF WriteInv, OutTypes, IdleEmpty, WireInOrder
  <2> QED
    BY <1>5, <2>4, <2>5 DEF Write, NextBatch
<1> QED
  BY <1>4, <1>5

LEMMA WriteStep == WriteInv /\ [Next]_vars => WriteInv'
<1> SUFFICES ASSUME WriteInv, [Next]_vars PROVE WriteInv'
  OBVIOUS
<1>0. pending \in Seq(Kinds \cup {"SendPing"})
  BY DEF WriteInv, OutTypes
<1>1. /\ \A x \in Kinds \cup {"SendPing"} : Append(pending, x) \in Seq(Kinds \cup {"SendPing"})
      /\ {"text", "ping", "pong", "close"} \subseteq Kinds
      /\ pending # <<>> => Tail(pending) \in Seq(Kinds \cup {"SendPing"}) /\ Head(pending) \in Kinds \cup {"SendPing"}
  BY <1>0 DEF Kinds
<1>2. CASE Open \/ OpenFails \/ BeginRead \/ ReadEnds \/ Send \/ Close \/ PeerCloses
  BY <1>0, <1>1, <1>2, WriteElsewhere DEF Open, OpenFails, BeginRead, ReadEnds, Send, Close, PeerCloses
<1>3. ASSUME NEW k, Read(k) PROVE WriteInv'
  <2>1. UNCHANGED outVars /\ (connected' => connected)
    BY <1>3 DEF Read
  <2>2. pending' \in {pending, Append(pending, "pong")}
    BY <1>3 DEF Read, Handle, SendPong
  <2> QED
    BY <1>0, <1>1, <2>1, <2>2, WriteElsewhere
<1>4. CASE RunSpawned
  <2>1. pending' \in Seq(Kinds \cup {"SendPing"}) /\ Head(pending) \in Kinds \cup {"SendPing"}
    BY <1>1, <1>4 DEF RunSpawned
  <2>2. CASE UNCHANGED <<connected, outVars>>
    BY <2>1, <2>2, WriteElsewhere
  <2>3. CASE Head(pending) # "SendPing" /\ Enqueue(Head(pending))
    BY <2>1, <2>3, EnqueueInOrder
  <2> QED
    BY <1>4, <2>2, <2>3 DEF RunSpawned
<1>5. ASSUME NEW k, Write(k) PROVE WriteInv'
  BY <1>5, WriteInOrder
<1>6. CASE WriteFails
  BY <1>0, <1>6 DEF WriteFails, OnError, WriteInv, OutTypes, IdleEmpty, WireInOrder
<1>7. CASE PingTimer
  BY <1>0, <1>1, <1>7, EnqueueInOrder DEF PingTimer
<1>8. CASE UNCHANGED vars
  BY <1>0, <1>8, WriteElsewhere DEF vars
<1> QED
  BY <1>2, <1>3, <1>4, <1>5, <1>6, <1>7, <1>8 DEF Next, LoopStep

\* Whichever coroutines queue frames and whichever of them writes for all, what
\* is on the wire is a prefix of what was queued, and while the connection lasts
\* the two buffers of DoWrite hold exactly the remainder.
THEOREM FramesInOrder == Spec => []WireInOrder
<1>1. WriteInv => WireInOrder
  BY DEF WriteInv
<1> QED
  BY <1>1, WriteInit, WriteStep, PTL DEF Spec

-----------------------------------------------------------------------------
(* The registry.                                                           *)

Closing == "close" \in ToSet(pending) \/ starter = "close"

\* A WebSocket whose reader has ended is kept only after the peer closed its side.
KeptOnlyAtEof == reader = "done" /\ registered => eof

\* Before the handshake is over nothing is queued.  The socket of a registered
\* WebSocket is open, or the peer went away; a close frame is queued only after
\* the registry forgot the WebSocket.
RegistryInv ==
  /\ pending \in Seq(Kinds \cup {"SendPing"})
  /\ reader = "handshake" =>
       connected /\ ~registered /\ pending = <<>> /\ ~isWriting /\ starter = "none" /\ pinger = "none"
  /\ registered => (connected \/ eof) /\ ~Closing
  /\ KeptOnlyAtEof

LEMMA RegistryInit == Init => RegistryInv
<1>1. ToSet(<<>>) = {} /\ <<>> \in Seq(Kinds \cup {"SendPing"})
  BY DEF ToSet
<1> QED
  BY <1>1 DEF Init, RegistryInv, KeptOnlyAtEof, Closing

\* The loop's queue of spawned coroutines.
LEMMA PendingSet ==
  ASSUME NEW S, NEW s \in Seq(S)
  PROVE  /\ \A x \in S : Append(s, x) \in Seq(S) /\ ToSet(Append(s, x)) = ToSet(s) \cup {x}
         /\ s # <<>> => /\ Tail(s) \in Seq(S) /\ ToSet(Tail(s)) \subseteq ToSet(s)
                        /\ Head(s) \in ToSet(s) /\ Head(s) \in S
<1>1. ASSUME NEW x \in S PROVE Append(s, x) \in Seq(S) /\ ToSet(Append(s, x)) = ToSet(s) \cup {x}
  <2>1. /\ DOMAIN Append(s, x) = 1..(Len(s) + 1) /\ DOMAIN s = 1..Len(s) /\ Len(s) \in Nat
        /\ \A i \in 1..Len(s) : Append(s, x)[i] = s[i]
        /\ Append(s, x)[Len(s) + 1] = x /\ Append(s, x) \in Seq(S)
    OBVIOUS
  <2> QED
    BY <2>1 DEF ToSet
<1>2. ASSUME s # <<>>
      PROVE  /\ Tail(s) \in Seq(S) /\ ToSet(Tail(s)) \subseteq ToSet(s)
             /\ Head(s) \in ToSet(s) /\ Head(s) \in S
  <2>1. /\ Len(s) \in Nat \ {0} /\ DOMAIN s = 1..Len(s) /\ Head(s) = s[1] /\ s[1] \in S
        /\ DOMAIN Tail(s) = 1..(Len(s) - 1) /\ Tail(s) \in Seq(S)
        /\ \A i \in 1..(Len(s) - 1) : Tail(s)[i] = s[i + 1]
    BY <1>2
  <2> QED
    BY <2>1 DEF ToSet
<1> QED
  BY <1>1, <1>2

\* Queueing a frame changes the writer and, when the socket is closed, nothing
\* the registry depends on.
LEMMA EnqueueFacts ==
  ASSUME NEW kind, Enqueue(kind)
  PROVE  /\ connected' => connected
         /\ connected => (connected' <=> TRUE)
         /\ starter' \in {starter, kind}
<1>1. CASE UNCHANGED <<connected, starter>>
  BY <1>1
<1>2. CASE connected /\ starter' = kind /\ UNCHANGED connected
  BY <1>2
<1>3. CASE ~connected /\ AfterWrite(kind, FALSE) /\ UNCHANGED starter
  BY <1>3 DEF AfterWrite
<1> QED
  BY <1>1, <1>2, <1>3 DEF Enqueue

LEMMA RegistryEnqueue ==
  ASSUME RegistryInv, reader # "handshake", NEW kind, Enqueue(kind),
         kind = "close" => "close" \in ToSet(pending),
         pending' \in Seq(Kinds \cup {"SendPing"}), ToSet(pending') \subseteq ToSet(pending),
         UNCHANGED <<eof, registered, reader>>
  PROVE  RegistryInv'
<1>1. registered => connected' \/ eof'
  BY EnqueueFacts DEF RegistryInv
<1>2. registered => ~Closing'
  BY EnqueueFacts DEF RegistryInv, Closing
<1> QED
  BY <1>1, <1>2 DEF RegistryInv, KeptOnlyAtEof

LEMMA RegistryStep == RegistryInv /\ [Next]_vars => RegistryInv'
<1> SUFFICES ASSUME RegistryInv, [Next]_vars PROVE RegistryInv'
  OBVIOUS
<1>0. pending \in Seq(Kinds \cup {"SendPing"})
  BY DEF RegistryInv
<1>1. /\ \A x \in {"text", "ping", "pong", "close", "SendPing"} :
           Append(pending, x) \in Seq(Kinds \cup {"SendPing"}) /\ ToSet(Append(pending, x)) = ToSet(pending) \cup {x}
      /\ pending # <<>> => /\ Tail(pending) \in Seq(Kinds \cup {"SendPing"}) /\ ToSet(Tail(pending)) \subseteq ToSet(pending)
                           /\ Head(pending) \in ToSet(pending) /\ Head(pending) \in Kinds \cup {"SendPing"}
  BY <1>0, PendingSet DEF Kinds
<1>2. CASE Open
  <2>1. ToSet(<<>>) = {}
    BY DEF ToSet
  <2> QED
    BY <1>2, <2>1 DEF Open, RegistryInv, KeptOnlyAtEof, Closing, outVars
<1>3. CASE OpenFails
  BY <1>3 DEF OpenFails, RegistryInv, KeptOnlyAtEof, outVars
<1>4. CASE BeginRead
  <2>1. ~Closing => ~Closing'
    BY <1>1, <1>4 DEF BeginRead, Closing, outVars
  <2> QED
    BY <1>1, <1>4, <2>1 DEF BeginRead, RegistryInv, KeptOnlyAtEof
<1>5. ASSUME NEW k, Read(k) PROVE RegistryInv'
  <2>1. /\ reader = "reading" /\ UNCHANGED <<eof, outVars>> /\ pending' \in {pending, Append(pending, "pong")}
        /\ (registered' = FALSE /\ reader' = "done") \/ UNCHANGED <<connected, registered, reader>>
    BY <1>5 DEF Read, Handle, SendPong, End, ReadOn, OnError, Forget
  <2>2. (~Closing => ~Closing') /\ pending' \in Seq(Kinds \cup {"SendPing"})
    BY <1>0, <1>1, <2>1 DEF Closing, outVars
  <2> QED
    BY <2>1, <2>2 DEF RegistryInv, KeptOnlyAtEof
<1>6. CASE ReadEnds
  BY <1>6 DEF ReadEnds, ReadOver, RegistryInv, KeptOnlyAtEof, Closing, outVars
<1>7. CASE RunSpawned
  <2>1. /\ pending # <<>> /\ pending' = Tail(pending) /\ UNCHANGED <<eof, registered, reader>>
        /\ reader # "handshake"
    BY <1>7 DEF RunSpawned, RegistryInv
  <2>2. CASE UNCHANGED <<connected, outVars>>
    <3>1. ~Closing => ~Closing'
      BY <1>1, <2>1, <2>2 DEF Closing, outVars
    <3> QED
      BY <1>1, <2>1, <2>2, <3>1 DEF RegistryInv, KeptOnlyAtEof
  <2>3. CASE Enqueue(Head(pending))
    <3>1. Head(pending) = "close" => "close" \in ToSet(pending)
      BY <1>1, <2>1
    <3> QED
      BY <1>1, <2>1, <2>3, <3>1, RegistryEnqueue
  <2> QED
    BY <1>7, <2>2, <2>3 DEF RunSpawned
<1>8. ASSUME NEW k, Write(k) PROVE RegistryInv'
  <2>1. /\ reader # "handshake" /\ connected /\ UNCHANGED <<eof, registered, reader, pending>>
    BY <1>8 DEF Write, RegistryInv
  <2>2. starter' \in {starter, "none"} /\ (starter # "close" => connected')
    BY <1>8, <2>1 DEF Write, NextBatch, AfterWrite
  <2>3. registered => starter # "close" /\ ~Closing'
    BY <2>1, <2>2 DEF RegistryInv, Closing
  <2> QED
    BY <2>1, <2>2, <2>3 DEF RegistryInv, KeptOnlyAtEof
<1>9. CASE WriteFails
  BY <1>9 DEF WriteFails, OnError, Forget, RegistryInv, KeptOnlyAtEof
<1>10. CASE PingTimer
  <2>1. reader # "handshake" /\ Enqueue("ping") /\ UNCHANGED <<eof, registered, reader, pending>>
    BY <1>10 DEF PingTimer, RegistryInv
  <2> QED
    BY <1>0, <2>1, RegistryEnqueue
<1>11. CASE Send
  <2>1. ~Closing => ~Closing'
    BY <1>1, <1>11 DEF Send, Closing, outVars
  <2> QED
    BY <1>1, <1>11, <2>1 DEF Send, RegistryInv, KeptOnlyAtEof
<1>12. CASE Close
  BY <1>1, <1>12 DEF Close, Forget, RegistryInv, KeptOnlyAtEof
<1>13. CASE PeerCloses
  BY <1>13 DEF PeerCloses, RegistryInv, KeptOnlyAtEof, Closing, outVars
<1>14. CASE UNCHANGED vars
  BY <1>14 DEF vars, RegistryInv, KeptOnlyAtEof, Closing, outVars
<1> QED
  BY <1>2, <1>3, <1>4, <1>5, <1>6, <1>7, <1>8, <1>9, <1>10, <1>11, <1>12, <1>13, <1>14 DEF Next, LoopStep

-----------------------------------------------------------------------------
(* Induction over the frames.                                              *)

\* Induction over the naturals for a set, which the first-order provers can
\* instantiate.
LEMMA SetInduction ==
  ASSUME NEW T, 0 \in T, \A n \in Nat : n \in T => n + 1 \in T
  PROVE  \A n \in Nat : n \in T
<1> DEFINE Out == {n \in Nat : n \notin T}
           Less == OpToRel(<, Nat)
<1>1. SUFFICES ASSUME Out # {} PROVE FALSE
  OBVIOUS
<1>2. PICK x \in Out : \A y \in Out : ~(<<y, x>> \in Less)
  <2>1. IsWellFoundedOn(Less, Nat)
    BY NatLessThanWellFounded
  <2>2. Out \subseteq Nat
    OBVIOUS
  <2> HIDE DEF Out, Less
  <2> QED
    BY <1>1, <2>1, <2>2, WFMin
<1>3. x # 0 /\ x \in Nat
  OBVIOUS
<1>4. x - 1 \in Nat /\ x - 1 < x /\ (x - 1) + 1 = x
  BY <1>3
<1>5. x - 1 \notin T
  BY <1>4
<1>6. x - 1 \in Out
  BY <1>4, <1>5
<1>7. <<x - 1, x>> \in Less
  BY <1>3, <1>4 DEF OpToRel
<1> QED
  BY <1>2, <1>6, <1>7

\* The function in the definition of Parse, which is defined by recursion on the
\* number of frames looked at.
IsRun(g, p, in, have, k) ==
  g = [i \in 0..k |-> IF i = 0 THEN p ELSE DoParse(g[i - 1], in, p.parsed + i, have)]

LEMMA RunExists ==
  ASSUME NEW p, NEW in, NEW have, NEW k \in Nat
  PROVE  \E g : IsRun(g, p, in, have, k)
<1> DEFINE D(q, i) == DoParse(q, in, p.parsed + i, have)
           R(g, n) == g = [i \in 0..n |-> IF i = 0 THEN p ELSE D(g[i - 1], i)]
           T == {n \in Nat : \E g : R(g, n)}
<1> HIDE DEF D
<1>1. 0 \in T
  <2> DEFINE g == [i \in 0..0 |-> p]
  <2>1. g = [i \in 0..0 |-> IF i = 0 THEN p ELSE D(g[i - 1], i)]
    OBVIOUS
  <2> QED
    BY <2>1
<1>2. ASSUME NEW n \in Nat, n \in T PROVE n + 1 \in T
  <2>1. PICK g : R(g, n)
    BY <1>2
  <2> DEFINE h == [i \in 0..(n + 1) |-> IF i = n + 1 THEN D(g[n], n + 1) ELSE g[i]]
  <2>2. ASSUME NEW i \in 0..(n + 1) PROVE h[i] = IF i = 0 THEN p ELSE D(h[i - 1], i)
    <3>1. CASE i = 0
      BY <2>1, <3>1
    <3>2. CASE i = n + 1
      <4>1. n \in 0..(n + 1) /\ n # n + 1 /\ i - 1 = n /\ i # 0
        BY <3>2
      <4>2. h[n] = g[n] /\ h[i] = D(g[n], n + 1)
        BY <3>2, <4>1
      <4> HIDE DEF h
      <4> QED
        BY <3>2, <4>1, <4>2
    <3>3. CASE i # 0 /\ i # n + 1
      <4>1. i - 1 \in 0..(n + 1) /\ i - 1 # n + 1 /\ i \in 0..n /\ i - 1 \in 0..n
        BY <3>3
      <4>2. h[i] = g[i] /\ h[i - 1] = g[i - 1]
        BY <3>3, <4>1
      <4>3. g[i] = D(g[i - 1], i)
        BY <2>1, <3>3, <4>1
      <4> HIDE DEF h
      <4> QED
        BY <3>3, <4>2, <4>3
    <3> QED
      BY <3>1, <3>2, <3>3
  <2>3. h = [i \in 0..(n + 1) |-> h[i]]
    OBVIOUS
  <2>4. R(h, n + 1)
    <3> HIDE DEF h
    <3> QED
      BY <2>2, <2>3
  <2>5. n + 1 \in Nat
    OBVIOUS
  <2> HIDE DEF h, R
  <2> QED
    BY <2>4, <2>5
<1>3. \A n \in Nat : n \in T
  <2>1. \A n \in Nat : n \in T => n + 1 \in T
    BY <1>2
  <2> HIDE DEF T
  <2> QED
    BY <1>1, <2>1, SetInduction
<1>4. PICK g : R(g, k)
  BY <1>3
<1> QED
  BY <1>4 DEF IsRun, D

LEMMA ParseIsRun ==
  ASSUME NEW in, NEW have, Len(in) - parser.parsed \in Nat
  PROVE  \E g : /\ IsRun(g, parser, in, have, Len(in) - parser.parsed)
                /\ Parse(in, have) = g[Len(in) - parser.parsed]
<1> DEFINE k == Len(in) - parser.parsed
           g == CHOOSE a : a = [i \in 0..k |-> IF i = 0 THEN parser ELSE DoParse(a[i - 1], in, parser.parsed + i, have)]
<1>1. \E a : a = [i \in 0..k |-> IF i = 0 THEN parser ELSE DoParse(a[i - 1], in, parser.parsed + i, have)]
  <2>1. k \in Nat
    OBVIOUS
  <2>2. \E a : IsRun(a, parser, in, have, k)
    <3> HIDE DEF k
    <3> QED
      BY <2>1, RunExists
  <2> QED
    BY <2>2 DEF IsRun
<1>2. g = [i \in 0..k |-> IF i = 0 THEN parser ELSE DoParse(g[i - 1], in, parser.parsed + i, have)]
  BY <1>1
<1>3. Parse(in, have) = g[k]
  BY DEF Parse
<1> QED
  BY <1>2, <1>3 DEF IsRun

LEMMA LeastNatural ==
  ASSUME NEW S, S \subseteq Nat, S # {}
  PROVE  \E x \in S : \A y \in S : x <= y
<1> DEFINE Less == OpToRel(<, Nat)
<1>1. PICK x \in S : \A y \in S : ~(<<y, x>> \in Less)
  <2>1. IsWellFoundedOn(Less, Nat)
    BY NatLessThanWellFounded
  <2> HIDE DEF Less
  <2> QED
    BY <2>1, WFMin
<1>2. ASSUME NEW y \in S PROVE x <= y
  <2>1. x \in Nat /\ y \in Nat
    OBVIOUS
  <2>2. ~(<<y, x>> \in Less)
    BY <1>1
  <2>3. y < x => <<y, x>> \in Less
    BY <2>1 DEF OpToRel
  <2>4. ~(y < x)
    BY <2>2, <2>3
  <2> QED
    BY <2>1, <2>4
<1> QED
  BY <1>2

-----------------------------------------------------------------------------
(* The messages of the first n frames.                                     *)

LEMMA EndsFinite ==
  ASSUME NEW in, NEW n \in Nat
  PROVE  /\ IsFiniteSet(Ends(in, n)) /\ Cardinality(Ends(in, n)) \in Nat
         /\ \A i \in Ends(in, n) : /\ i \in 1..n /\ in[i].fin
                                   /\ Cardinality(Ends(in, i)) \in 1..Cardinality(Ends(in, n))
<1>1. ASSUME NEW m \in Nat PROVE IsFiniteSet(Ends(in, m)) /\ Cardinality(Ends(in, m)) \in Nat
  <2>1. IsFiniteSet(1..m)
    BY FS_Interval
  <2>2. Ends(in, m) \in SUBSET (1..m)
    BY DEF Ends
  <2> QED
    BY <2>1, <2>2, FS_Subset, FS_CardinalityType
<1>2. ASSUME NEW i \in Ends(in, n)
      PROVE  i \in 1..n /\ in[i].fin /\ Cardinality(Ends(in, i)) \in 1..Cardinality(Ends(in, n))
  <2>1. i \in 1..n /\ in[i].fin
    BY DEF Ends
  <2>2. i \in Nat /\ i \in 1..i
    BY <2>1
  <2>3. i \in Ends(in, i)
    BY <2>1, <2>2 DEF Ends
  <2>4. Cardinality(Ends(in, i)) # 0
    BY <1>1, <2>2, <2>3, FS_EmptySet
  <2>5. Ends(in, i) \in SUBSET Ends(in, n)
    BY <2>1 DEF Ends
  <2>6. Cardinality(Ends(in, i)) <= Cardinality(Ends(in, n))
    BY <1>1, <2>5, FS_Subset
  <2>7. Cardinality(Ends(in, i)) \in Nat /\ Cardinality(Ends(in, n)) \in Nat
    BY <1>1, <2>2
  <2>8. \A a, b \in Nat : a # 0 /\ a <= b => a \in 1..b
    OBVIOUS
  <2> QED
    BY <2>1, <2>4, <2>6, <2>7, <2>8
<1> QED
  BY <1>1, <1>2

LEMMA EndsNext ==
  ASSUME NEW in, NEW n \in Nat
  PROVE  /\ in[n + 1].fin => /\ Ends(in, n + 1) = Ends(in, n) \cup {n + 1}
                             /\ Cardinality(Ends(in, n + 1)) = Cardinality(Ends(in, n)) + 1
         /\ ~in[n + 1].fin => Ends(in, n + 1) = Ends(in, n)
<1>1. 1..(n + 1) = 1..n \cup {n + 1} /\ n + 1 \notin 1..n
  OBVIOUS
<1>2. in[n + 1].fin => Ends(in, n + 1) = Ends(in, n) \cup {n + 1}
  BY <1>1 DEF Ends
<1>3. ~in[n + 1].fin => Ends(in, n + 1) = Ends(in, n)
  BY <1>1 DEF Ends
<1>4. n + 1 \notin Ends(in, n)
  BY <1>1 DEF Ends
<1> QED
  BY <1>2, <1>3, <1>4, EndsFinite, FS_AddElement

\* The messages of frames that were read do not change when more are read.
LEMMA MessagesStay ==
  ASSUME NEW in, NEW more, NEW n \in Nat, \A i \in 1..n : more[i] = in[i],
         NEW messages, AreMessages(messages, in, n)
  PROVE  AreMessages(messages, more, n)
<1>1. \A i \in 0..n : Ends(more, i) = Ends(in, i)
  BY DEF Ends
<1>2. ASSUME NEW i \in 1..n PROVE MessageAt(more, i) = MessageAt(in, i)
  <2> DEFINE P == {j \in 1..i : \A l \in j..(i - 1) : ~in[l].fin}
             Q == {j \in 1..i : \A l \in j..(i - 1) : ~more[l].fin}
             first == CHOOSE j \in P : \A l \in P : j <= l
  <2>1. P = Q
    OBVIOUS
  <2>2. i \in P /\ P \subseteq Nat
    OBVIOUS
  <2>3. \E j \in P : \A l \in P : j <= l
    <3> HIDE DEF P
    <3> QED
      BY <2>2, LeastNatural
  <2>4. first \in P
    <3> HIDE DEF P
    <3> QED
      BY <2>3
  <2>5. first \in 1..n
    <3>1. P \subseteq 1..n
      OBVIOUS
    <3> HIDE DEF P, first
    <3> QED
      BY <2>4, <3>1
  <2>6. MessageAt(in, i) = [op |-> in[first].op, parts |-> P]
    BY DEF MessageAt
  <2>7. MessageAt(more, i) = [op |-> more[first].op, parts |-> P]
    <3>1. MessageAt(more, i) = [op |-> more[CHOOSE j \in Q : \A l \in Q : j <= l].op, parts |-> Q]
      BY DEF MessageAt
    <3>2. first = CHOOSE j \in Q : \A l \in Q : j <= l
      <4> HIDE DEF P, Q
      <4> QED
        BY <2>1 DEF first
    <3> HIDE DEF P, Q, first
    <3> QED
      BY <2>1, <3>1, <3>2
  <2> HIDE DEF first, P, Q
  <2> QED
    BY <2>5, <2>6, <2>7
<1>3. n \in 0..n /\ \A i \in 1..n : i \in 0..n
  OBVIOUS
<1>4. \A i \in Ends(in, n) : i \in 1..n
  BY DEF Ends
<1> QED
  BY <1>1, <1>2, <1>3, <1>4 DEF AreMessages

LEMMA MessagesGrow ==
  ASSUME NEW S, NEW in, NEW n \in Nat, NEW messages \in Seq(S), AreMessages(messages, in, n)
  PROVE  /\ ~in[n + 1].fin => AreMessages(messages, in, n + 1)
         /\ in[n + 1].fin /\ MessageAt(in, n + 1) \in S =>
              AreMessages(Append(messages, MessageAt(in, n + 1)), in, n + 1)
<1>1. ~in[n + 1].fin => AreMessages(messages, in, n + 1)
  BY EndsNext DEF AreMessages
<1>2. ASSUME in[n + 1].fin, MessageAt(in, n + 1) \in S
      PROVE  AreMessages(Append(messages, MessageAt(in, n + 1)), in, n + 1)
  <2> DEFINE c == Cardinality(Ends(in, n))
             m == MessageAt(in, n + 1)
             all == Append(messages, m)
  <2>1. Len(messages) = c /\ c \in Nat
    BY EndsFinite DEF AreMessages
  <2>2. Len(all) = c + 1 /\ all[c + 1] = m /\ \A i \in 1..c : all[i] = messages[i]
    BY <1>2, <2>1, AppendProperties
  <2>3. Ends(in, n + 1) = Ends(in, n) \cup {n + 1} /\ Cardinality(Ends(in, n + 1)) = c + 1
    BY <1>2, EndsNext
  <2>4. ASSUME NEW i \in Ends(in, n) PROVE all[Cardinality(Ends(in, i))] = MessageAt(in, i)
    <3>1. Cardinality(Ends(in, i)) \in 1..c
      BY EndsFinite
    <3>2. messages[Cardinality(Ends(in, i))] = MessageAt(in, i)
      BY DEF AreMessages
    <3> HIDE DEF c, all
    <3> QED
      BY <2>2, <3>1, <3>2
  <2> HIDE DEF c, all
  <2> QED
    BY <2>2, <2>3, <2>4 DEF AreMessages, all
<1> QED
  BY <1>1, <1>2

-----------------------------------------------------------------------------
(* The parser.                                                             *)

Parsers ==
  [parsed : Nat, frames : Seq(Nat), complete : Seq(Message), state : {"more", "error", "assert"}]

\* frames_ holds the frames since the last final one, all of them without fin.
ParserOK(p, in) ==
  /\ p \in Parsers
  /\ p.parsed <= Len(in) /\ Len(p.frames) <= p.parsed
  /\ \A j \in 1..Len(p.frames) : p.frames[j] = (p.parsed - Len(p.frames)) + j
  /\ \A i \in 1..p.parsed : i > p.parsed - Len(p.frames) => ~in[i].fin
  /\ p.parsed > Len(p.frames) => in[p.parsed - Len(p.frames)].fin

\* After m frames of the buffer were looked at, the parser has taken all of them
\* but the last, whose end may not have been read.
LookedAt(p, m, have) ==
  p.state = "more" => \/ p.parsed = m /\ 2 * m <= have
                      \/ p.parsed = m - 1 /\ have < 2 * m

LEMMA MergedIsMessage ==
  ASSUME NEW in \in Seq(PeerFrames), Len(in) <= MaxFrames, NEW p, ParserOK(p, in), p.parsed < Len(in)
  PROVE  /\ Merged(in, Append(p.frames, p.parsed + 1)) = MessageAt(in, p.parsed + 1)
         /\ MessageAt(in, p.parsed + 1) \in Message
<1> DEFINE n == p.parsed + 1
           f == Append(p.frames, n)
           a == p.parsed - Len(p.frames)
           parts == {j \in 1..n : \A l \in j..(n - 1) : ~in[l].fin}
<1>1. /\ p.parsed \in Nat /\ p.frames \in Seq(Nat) /\ Len(p.frames) \in Nat /\ Len(p.frames) <= p.parsed
      /\ Len(in) \in Nat
  BY DEF ParserOK, Parsers
<1>2. a \in Nat /\ n \in Nat /\ n - 1 = p.parsed /\ a < n /\ n <= Len(in) /\ n = a + (Len(p.frames) + 1)
  BY <1>1
<1>3. f \in Seq(Nat) /\ Len(f) = Len(p.frames) + 1 /\ \A j \in 1..Len(f) : f[j] = a + j
  <2>1. /\ f \in Seq(Nat) /\ Len(f) = Len(p.frames) + 1 /\ f[Len(p.frames) + 1] = n
        /\ \A j \in 1..Len(p.frames) : f[j] = p.frames[j]
    <3> DEFINE g == p.frames
    <3>1. g \in Seq(Nat) /\ n \in Nat
      BY <1>1, <1>2
    <3> HIDE DEF g, n
    <3>2. /\ Append(g, n) \in Seq(Nat) /\ Len(Append(g, n)) = Len(g) + 1 /\ Append(g, n)[Len(g) + 1] = n
          /\ \A j \in 1..Len(g) : Append(g, n)[j] = g[j]
      BY <3>1, AppendProperties
    <3> QED
      BY <3>2 DEF g
  <2>2. \A j \in 1..Len(p.frames) : p.frames[j] = a + j
    BY DEF ParserOK
  <2>3. \A j \in 1..(Len(p.frames) + 1) : j \in 1..Len(p.frames) \/ j = Len(p.frames) + 1
    BY <1>1
  <2> HIDE DEF f, a, n
  <2> QED
    BY <1>2, <2>1, <2>2, <2>3
<1>4. ToSet(f) = (a + 1)..n
  <2>1. DOMAIN f = 1..Len(f)
    BY <1>3
  <2>2. ASSUME NEW x \in ToSet(f) PROVE x \in (a + 1)..n
    <3>1. PICK j \in 1..Len(f) : x = f[j]
      BY <2>1 DEF ToSet
    <3>2. x = a + j /\ j \in Nat /\ 1 <= j /\ j <= Len(p.frames) + 1
      BY <1>1, <1>3, <3>1
    <3> HIDE DEF f, a, n
    <3> QED
      BY <1>1, <1>2, <3>2
  <2>3. ASSUME NEW x \in (a + 1)..n PROVE x \in ToSet(f)
    <3> HIDE DEF f, a, n
    <3>1. x - a \in 1..Len(f) /\ a + (x - a) = x
      BY <1>1, <1>2, <1>3
    <3>2. f[x - a] = x
      BY <1>3, <3>1
    <3> QED
      BY <2>1, <3>1, <3>2 DEF ToSet
  <2> HIDE DEF f
  <2> QED
    BY <2>2, <2>3
<1>5. parts = (a + 1)..n
  <2>1. \A i \in 1..(n - 1) : i > a => ~in[i].fin
    BY <1>2 DEF ParserOK
  <2>2. a > 0 => in[a].fin
    <3>1. a > 0 => p.parsed > Len(p.frames)
      BY <1>1
    <3> QED
      BY <3>1 DEF ParserOK
  <2> HIDE DEF a, n
  <2>3. ASSUME NEW j \in (a + 1)..n PROVE j \in parts
    <3>1. j \in 1..n /\ \A l \in j..(n - 1) : l \in 1..(n - 1) /\ l > a
      BY <1>2
    <3> QED
      BY <2>1, <3>1
  <2>4. ASSUME NEW j \in parts, ~(j \in (a + 1)..n) PROVE FALSE
    <3>1. j \in 1..n
      OBVIOUS
    <3>2. a > 0 /\ a \in j..(n - 1)
      BY <1>2, <2>4, <3>1
    <3> QED
      BY <2>2, <3>2
  <2> HIDE DEF parts
  <2>5. \A j \in parts : j \in (a + 1)..n
    BY <2>4
  <2> QED
    BY <2>3, <2>5
<1>6. (CHOOSE j \in parts : \A l \in parts : j <= l) = a + 1
  <2> HIDE DEF a, n, parts
  <2>1. a + 1 \in parts /\ \A l \in parts : a + 1 <= l
    BY <1>2, <1>5
  <2>2. \A j \in parts : (\A l \in parts : j <= l) => j = a + 1
    <3>1. \A j \in parts : j \in Nat /\ a + 1 <= j
      BY <1>2, <1>5
    <3> QED
      BY <1>2, <2>1, <3>1
  <2> QED
    BY <2>1, <2>2
<1>7. f[1] = a + 1
  <2> HIDE DEF a, n, f
  <2> QED
    BY <1>1, <1>3
<1>8. Merged(in, f) = [op |-> in[a + 1].op, parts |-> (a + 1)..n]
  <2> HIDE DEF a, n, f
  <2> QED
    BY <1>4, <1>7 DEF Merged
<1>9. MessageAt(in, n) = [op |-> in[a + 1].op, parts |-> (a + 1)..n]
  <2>1. MessageAt(in, n) = [op |-> in[CHOOSE j \in parts : \A l \in parts : j <= l].op, parts |-> parts]
    <3> HIDE DEF n
    <3> QED
      BY DEF MessageAt
  <2> HIDE DEF a, n, parts
  <2> QED
    BY <1>5, <1>6, <2>1
<1>10. [op |-> in[a + 1].op, parts |-> (a + 1)..n] \in Message
  <2> HIDE DEF a, n
  <2>1. a + 1 \in 1..Len(in)
    BY <1>1, <1>2
  <2>2. in[a + 1] \in PeerFrames
    BY <2>1
  <2>3. (a + 1)..n \subseteq 1..MaxFrames
    BY <1>1, <1>2, FramesAssumption
  <2> QED
    BY <2>2, <2>3 DEF Message
<1> QED
  BY <1>8, <1>9, <1>10

\* The parser's place in the frames in, and what it has taken from them after
\* the messages before were handled.
ParsedSoFar(p, before, in, m, have) ==
  /\ ParserOK(p, in) /\ LookedAt(p, m, have)
  /\ AreMessages(before \o p.complete, in, p.parsed)

LEMMA DoParseStep ==
  ASSUME NEW in \in Seq(PeerFrames), Len(in) <= MaxFrames, NEW have \in Nat,
         NEW m \in 1..Len(in), 2 * m <= have + 1, NEW before \in Seq(Message),
         NEW p, ParsedSoFar(p, before, in, m - 1, have)
  PROVE  ParsedSoFar(DoParse(p, in, m, have), before, in, m, have)
<1>1. /\ p \in Parsers /\ p.parsed \in Nat /\ p.frames \in Seq(Nat) /\ Len(p.frames) \in Nat
      /\ p.complete \in Seq(Message) /\ Len(in) \in Nat /\ Len(p.frames) <= p.parsed
      /\ p.state \in {"more", "error", "assert"}
      /\ ParserOK(p, in) /\ AreMessages(before \o p.complete, in, p.parsed)
  BY DEF ParsedSoFar, ParserOK, Parsers
<1>2. CASE p.state # "more"
  <2>1. DoParse(p, in, m, have) = p
    BY <1>2 DEF DoParse
  <2> QED
    BY <1>1, <1>2, <2>1 DEF ParsedSoFar, LookedAt
<1>3. CASE p.state = "more" /\ in[m].op = "reserved"
  <2> DEFINE q == [p EXCEPT !.state = "error"]
  <2>1. DoParse(p, in, m, have) = q
    BY <1>3 DEF DoParse
  <2>2. /\ q \in Parsers /\ q.parsed = p.parsed /\ q.frames = p.frames /\ q.complete = p.complete
        /\ q.state = "error"
    BY <1>1 DEF Parsers
  <2> HIDE DEF q
  <2>3. ParserOK(q, in)
    BY <1>1, <2>2 DEF ParserOK
  <2> QED
    BY <1>1, <2>1, <2>2, <2>3 DEF ParsedSoFar, LookedAt
<1>4. ASSUME p.state = "more" PROVE p.parsed = m - 1 /\ 2 * (m - 1) <= have
  <2>1. 2 * (m - 1) < have
    OBVIOUS
  <2> QED
    BY <1>1, <1>4, <2>1 DEF ParsedSoFar, LookedAt
<1>5. CASE p.state = "more" /\ in[m].op # "reserved" /\ have < 2 * m
  <2>1. DoParse(p, in, m, have) = p
    BY <1>5 DEF DoParse
  <2> QED
    BY <1>1, <1>4, <1>5, <2>1 DEF ParsedSoFar, LookedAt
<1>6. CASE p.state = "more" /\ in[m].op # "reserved" /\ ~(have < 2 * m)
  <2> DEFINE f == Append(p.frames, m)
             q == [p EXCEPT !.parsed = m, !.frames = Append(@, m)]
  <2>1. m \in Nat /\ m = p.parsed + 1 /\ p.parsed < Len(in) /\ p.parsed = m - 1 /\ 2 * m <= have
    BY <1>1, <1>4, <1>6
  <2>2. /\ f \in Seq(Nat) /\ Len(f) = Len(p.frames) + 1 /\ f[Len(p.frames) + 1] = m
        /\ \A j \in 1..Len(p.frames) : f[j] = p.frames[j]
    <3> DEFINE g == p.frames
    <3>1. g \in Seq(Nat)
      BY <1>1
    <3> HIDE DEF g
    <3>2. /\ Append(g, m) \in Seq(Nat) /\ Len(Append(g, m)) = Len(g) + 1 /\ Append(g, m)[Len(g) + 1] = m
          /\ \A j \in 1..Len(g) : Append(g, m)[j] = g[j]
      BY <2>1, <3>1, AppendProperties
    <3> QED
      BY <3>2 DEF g
  <2>3. q \in Parsers /\ q.parsed = m /\ q.frames = f /\ q.complete = p.complete /\ q.state = "more"
    BY <1>1, <1>6, <2>1, <2>2 DEF Parsers
  <2>4. before \o p.complete \in Seq(Message)
    <3> DEFINE c == p.complete
    <3>1. c \in Seq(Message)
      BY <1>1
    <3> HIDE DEF c
    <3> QED
      BY <3>1, ConcatProperties DEF c
  <2>5. CASE ~in[m].fin
    <3>1. DoParse(p, in, m, have) = q
      BY <1>6, <2>5 DEF DoParse
    <3> HIDE DEF q, f
    <3>2. AreMessages(before \o q.complete, in, m)
      BY <1>1, <2>1, <2>3, <2>4, <2>5, MessagesGrow
    <3>3. ParserOK(q, in)
      <4>1. q.parsed <= Len(in) /\ Len(q.frames) <= q.parsed
            /\ q.parsed - Len(q.frames) = p.parsed - Len(p.frames)
        <5>1. Len(q.frames) = Len(p.frames) + 1 /\ q.parsed = p.parsed + 1
          BY <2>1, <2>2, <2>3
        <5>2. \A a, b, c \in Nat : a < c /\ b <= a =>
                a + 1 <= c /\ b + 1 <= a + 1 /\ (a + 1) - (b + 1) = a - b
          OBVIOUS
        <5> DEFINE a == p.parsed
                   b == Len(p.frames)
                   c == Len(in)
        <5>3. a \in Nat /\ b \in Nat /\ c \in Nat /\ a < c /\ b <= a
          BY <1>1, <2>1
        <5>4. q.parsed = a + 1 /\ Len(q.frames) = b + 1
          BY <5>1
        <5> HIDE DEF a, b, c
        <5>5. a + 1 <= c /\ b + 1 <= a + 1 /\ (a + 1) - (b + 1) = a - b
          BY <5>2, <5>3
        <5>6. q.parsed <= c /\ Len(q.frames) <= q.parsed /\ q.parsed - Len(q.frames) = a - b
          BY <5>4, <5>5
        <5> QED
          BY <5>6 DEF a, b, c
      <4>2. \A j \in 1..Len(q.frames) : q.frames[j] = (q.parsed - Len(q.frames)) + j
        <5>1. \A j \in 1..Len(q.frames) : j \in 1..Len(p.frames) \/ j = Len(p.frames) + 1
          BY <1>1, <2>2, <2>3, SMTT(30)
        <5>2. \A j \in 1..Len(p.frames) : q.frames[j] = (p.parsed - Len(p.frames)) + j
          BY <1>1, <2>2, <2>3 DEF ParserOK
        <5>3. q.frames[Len(p.frames) + 1] = (p.parsed - Len(p.frames)) + (Len(p.frames) + 1)
          <6>1. q.frames[Len(p.frames) + 1] = m
            BY <2>2, <2>3
          <6>2. m = (p.parsed - Len(p.frames)) + (Len(p.frames) + 1)
            BY <1>1, <2>1, SMTT(30)
          <6> QED
            BY <6>1, <6>2
        <5> QED
          BY <4>1, <5>1, <5>2, <5>3
      <4>3. \A i \in 1..q.parsed : i > q.parsed - Len(q.frames) => ~in[i].fin
        <5>1. \A i \in 1..p.parsed : i > p.parsed - Len(p.frames) => ~in[i].fin
          BY <1>1 DEF ParserOK
        <5>2. \A i \in 1..m : i \in 1..p.parsed \/ i = m
          BY <1>1, <2>1, SMTT(30)
        <5> QED
          BY <2>3, <2>5, <4>1, <5>1, <5>2
      <4>4. q.parsed > Len(q.frames) => in[q.parsed - Len(q.frames)].fin
        <5>1. q.parsed > Len(q.frames) => p.parsed > Len(p.frames)
          <6>1. Len(q.frames) = Len(p.frames) + 1 /\ q.parsed = p.parsed + 1
            BY <2>1, <2>2, <2>3
          <6> QED
            BY <1>1, <6>1
        <5> QED
          BY <1>1, <4>1, <5>1 DEF ParserOK
      <4> QED
        BY <2>3, <4>1, <4>2, <4>3, <4>4 DEF ParserOK
    <3> QED
      BY <2>1, <2>3, <3>1, <3>2, <3>3 DEF ParsedSoFar, LookedAt
  <2>6. CASE in[m].fin
    <3> DEFINE r == Completed(q, in)
               msg == Merged(in, f)
    <3>1. DoParse(p, in, m, have) = r
      BY <1>6, <2>6 DEF DoParse
    <3>2. msg = MessageAt(in, m) /\ msg \in Message
      BY <1>1, <2>1, MergedIsMessage
    <3>3. Append(p.complete, msg) \in Seq(Message)
      BY <1>1, <3>2, AppendProperties
    <3>4. /\ r \in Parsers /\ r.parsed = m /\ r.frames = <<>> /\ r.complete = Append(p.complete, msg)
          /\ r.state \in {"more", "assert"}
      <4> HIDE DEF q, f, msg
      <4> DEFINE s == IF \A i \in 2..Len(q.frames) : in[q.frames[i]].op = "cont" THEN q.state ELSE "assert"
      <4>1. r = [q EXCEPT !.frames = <<>>, !.complete = Append(@, msg), !.state = s]
        BY <2>3 DEF Completed, msg
      <4>2. s \in {"more", "assert"}
        BY <2>3
      <4> DEFINE c == Append(q.complete, msg)
      <4>3. c \in Seq(Message) /\ c = Append(p.complete, msg)
        BY <2>3, <3>3
      <4>4. r = [q EXCEPT !.frames = <<>>, !.complete = c, !.state = s]
        BY <4>1
      <4>5. <<>> \in Seq(Nat) /\ s \in {"more", "error", "assert"}
        BY <4>2
      <4> HIDE DEF r, s, c
      <4>6. r \in Parsers
        BY <2>3, <4>3, <4>4, <4>5 DEF Parsers
      <4>7. r.parsed = q.parsed /\ r.frames = <<>> /\ r.complete = c /\ r.state = s
        BY <2>3, <4>4 DEF Parsers
      <4> QED
        BY <2>3, <4>2, <4>3, <4>6, <4>7
    <3>5. before \o r.complete = Append(before \o p.complete, msg)
      <4> DEFINE c == p.complete
      <4>1. c \in Seq(Message) /\ msg \in Message
        BY <1>1, <3>2
      <4> HIDE DEF c, msg
      <4>2. <<msg>> \in Seq(Message) /\ before \o c \in Seq(Message)
        BY <4>1, ConcatProperties
      <4>3. Append(c, msg) = c \o <<msg>> /\ Append(before \o c, msg) = (before \o c) \o <<msg>>
        BY <4>1, <4>2, AppendIsConcat
      <4>4. (before \o c) \o <<msg>> = before \o (c \o <<msg>>)
        BY <4>1, <4>2, ConcatAssociative, SMTT(30)
      <4>5. before \o Append(c, msg) = Append(before \o c, msg)
        BY <4>3, <4>4
      <4> QED
        BY <3>4, <4>5 DEF c, msg
    <3> HIDE DEF r, q, f, msg
    <3>6. AreMessages(before \o r.complete, in, m)
      BY <1>1, <2>1, <2>4, <2>6, <3>2, <3>5, MessagesGrow
    <3>7. ParserOK(r, in)
      <4>1. Len(r.frames) = 0
        BY <3>4
      <4>2. r.parsed - 0 = m /\ r.parsed <= Len(in) /\ 0 <= r.parsed /\ ~(\E i \in 1..m : i > m)
        <5>1. m - 0 = m /\ m <= Len(in) /\ 0 <= m /\ ~(\E i \in 1..m : i > m)
          BY <1>1
        <5> QED
          BY <3>4, <5>1
      <4>3. 1..0 = {}
        OBVIOUS
      <4> QED
        <5>1. r.parsed - Len(r.frames) = m /\ r.parsed = m /\ 1..Len(r.frames) = {}
          BY <3>4, <4>1, <4>2, <4>3
        <5>2. \A i \in 1..r.parsed : i > r.parsed - Len(r.frames) => ~in[i].fin
          BY <4>2, <5>1
        <5>3. in[r.parsed - Len(r.frames)].fin
          BY <2>6, <5>1
        <5>4. r.parsed <= Len(in) /\ Len(r.frames) <= r.parsed
          BY <4>1, <4>2
        <5>5. \A j \in 1..Len(r.frames) : r.frames[j] = (r.parsed - Len(r.frames)) + j
          BY <5>1
        <5> QED
          BY <3>4, <5>2, <5>3, <5>4, <5>5 DEF ParserOK
    <3> QED
      BY <2>1, <3>1, <3>4, <3>6, <3>7 DEF ParsedSoFar, LookedAt
  <2> QED
    BY <2>5, <2>6
<1> QED
  BY <1>1, <1>2, <1>3, <1>5, <1>6

\* Parse takes every frame whose end was read, and every message they end.
LEMMA ParseTakesAll ==
  ASSUME NEW in \in Seq(PeerFrames), Len(in) <= MaxFrames, NEW have \in Nat,
         2 * Len(in) <= have + 1, handled \in Seq(Message),
         ParsedSoFar(parser, handled, in, parser.parsed, have)
  PROVE  ParsedSoFar(Parse(in, have), handled, in, Len(in), have)
<1> DEFINE k == Len(in) - parser.parsed
<1>1. parser.parsed \in Nat /\ Len(in) \in Nat /\ parser.parsed <= Len(in)
  BY DEF ParsedSoFar, ParserOK, Parsers
<1>2. k \in Nat /\ parser.parsed + k = Len(in)
  BY <1>1
<1>3. PICK g : IsRun(g, parser, in, have, k) /\ Parse(in, have) = g[k]
  BY <1>2, ParseIsRun
<1> DEFINE T == {i \in Nat : i <= k => ParsedSoFar(g[i], handled, in, parser.parsed + i, have)}
<1>4. g = [i \in 0..k |-> IF i = 0 THEN parser ELSE DoParse(g[i - 1], in, parser.parsed + i, have)]
  BY <1>3 DEF IsRun
<1>5. 0 \in T
  <2>1. g[0] = parser /\ parser.parsed + 0 = parser.parsed
    BY <1>1, <1>2, <1>4
  <2> QED
    BY <2>1
<1>6. ASSUME NEW i \in Nat, i \in T PROVE i + 1 \in T
  <2> SUFFICES ASSUME i + 1 <= k
               PROVE  ParsedSoFar(g[i + 1], handled, in, parser.parsed + (i + 1), have)
    OBVIOUS
  <2> DEFINE m == parser.parsed + (i + 1)
  <2>1. i <= k /\ i + 1 \in 0..k /\ i + 1 # 0 /\ (i + 1) - 1 = i
    BY <1>2
  <2>2. m \in 1..Len(in) /\ m - 1 = parser.parsed + i /\ 2 * m <= have + 1
    <3>1. \A a, b, c, l \in Nat : a + c = l /\ b + 1 <= c /\ 2 * l <= have + 1 =>
            a + (b + 1) \in 1..l /\ (a + (b + 1)) - 1 = a + b /\ 2 * (a + (b + 1)) <= have + 1
      OBVIOUS
    <3> HIDE DEF k
    <3> QED
      BY <1>1, <1>2, <3>1
  <2>3. g[i + 1] = DoParse(g[i], in, m, have)
    BY <1>4, <2>1
  <2>4. ParsedSoFar(g[i], handled, in, m - 1, have)
    BY <1>6, <2>1, <2>2
  <2> HIDE DEF m
  <2>5. ParsedSoFar(DoParse(g[i], in, m, have), handled, in, m, have)
    BY <2>2, <2>4, DoParseStep
  <2> QED
    BY <2>3, <2>5 DEF m
<1>7. k \in T
  <2>1. \A i \in Nat : i \in T => i + 1 \in T
    BY <1>6
  <2> HIDE DEF T
  <2> QED
    BY <1>2, <1>5, <2>1, SetInduction
<1> QED
  BY <1>2, <1>3, <1>7

LEMMA Half ==
  ASSUME NEW x \in Nat
  PROVE  x \div 2 \in Nat /\ 2 * (x \div 2) <= x /\ x <= 2 * (x \div 2) + 1
OBVIOUS


-----------------------------------------------------------------------------
(* The reader.                                                             *)

Flags ==
  /\ connected \in BOOLEAN /\ eof \in BOOLEAN /\ registered \in BOOLEAN
  /\ failed \in BOOLEAN /\ isWriting \in BOOLEAN
  /\ reader \in {"handshake", "opened", "reading", "done"}
  /\ pinger \in {"none", "armed", "writing", "done"}

\* A frame that was read is parsed unless its end is missing, as long as the
\* reader goes on.
ReaderInv ==
  /\ Flags /\ sent \in Seq(PeerFrames) /\ handled \in Seq(Message)
  /\ got \in 0..(2 * MaxFrames) /\ Len(sent) = (got + 1) \div 2
  /\ ParserOK(parser, sent)
  /\ AreMessages(handled \o parser.complete, sent, parser.parsed)
  /\ reader # "done" /\ ~failed => parser.state = "more" /\ parser.parsed = got \div 2

LEMMA EnqueueFlags ==
  ASSUME Flags, NEW kind, Enqueue(kind)
  PROVE  connected' \in BOOLEAN /\ isWriting' \in BOOLEAN /\ pinger' \in {"none", "armed", "writing", "done"}
<1>1. CASE PingOver(kind, connected) /\ UNCHANGED <<connected, isWriting>>
  BY <1>1 DEF PingOver, PingAgain, Flags
<1>2. CASE UNCHANGED connected /\ isWriting' = TRUE /\ pinger' = IF kind = "ping" THEN "writing" ELSE pinger
  BY <1>2 DEF Flags
<1>3. CASE AfterWrite(kind, FALSE) /\ UNCHANGED isWriting
  BY <1>3 DEF AfterWrite, PingOver, PingAgain, Flags
<1> QED
  BY <1>1, <1>2, <1>3 DEF Enqueue

LEMMA FlagsStep == Flags /\ [Next]_vars => Flags'
<1> SUFFICES ASSUME Flags, [Next]_vars PROVE Flags'
  OBVIOUS
<1>1. CASE Open \/ OpenFails \/ BeginRead \/ ReadEnds \/ Send \/ Close \/ PeerCloses
  BY <1>1 DEF Open, OpenFails, BeginRead, ReadEnds, Send, Close, PeerCloses, Forget, Flags, outVars, parseVars
<1>2. ASSUME NEW k, Read(k) PROVE Flags'
  <2>1. /\ UNCHANGED <<eof, pinger, isWriting>> /\ failed' \in {failed, TRUE}
        /\ (registered' = FALSE /\ connected' = FALSE /\ reader' = "done") \/ UNCHANGED <<connected, registered, reader>>
    BY <1>2 DEF Read, Handle, End, ReadOn, OnError, Forget, outVars
  <2> QED
    BY <2>1 DEF Flags
<1>3. CASE RunSpawned
  <2>1. UNCHANGED <<eof, registered, reader, failed>>
    BY <1>3 DEF RunSpawned, parseVars
  <2>2. CASE pinger' = PingAgain(connected) /\ UNCHANGED <<connected, outVars>>
    BY <2>1, <2>2 DEF PingAgain, Flags, outVars
  <2>3. CASE Enqueue(Head(pending))
    BY <2>1, <2>3, EnqueueFlags DEF Flags
  <2> QED
    BY <1>3, <2>2, <2>3 DEF RunSpawned
<1>4. ASSUME NEW k, Write(k) PROVE Flags'
  <2>1. UNCHANGED <<eof, registered, reader, failed>>
    BY <1>4 DEF Write, parseVars
  <2>2. \/ UNCHANGED <<connected, pinger, isWriting>>
        \/ isWriting' = FALSE /\ AfterWrite(starter, TRUE)
    BY <1>4 DEF Write, NextBatch
  <2> QED
    BY <2>1, <2>2 DEF AfterWrite, PingOver, PingAgain, Flags
<1>5. CASE WriteFails
  BY <1>5 DEF WriteFails, OnError, Forget, PingOver, PingAgain, Flags, parseVars
<1>6. CASE PingTimer
  <2>1. UNCHANGED <<eof, registered, reader, failed>>
    BY <1>6 DEF PingTimer, parseVars
  <2> QED
    BY <1>6, <2>1, EnqueueFlags DEF PingTimer, Flags
<1>7. CASE UNCHANGED vars
  BY <1>7 DEF vars, Flags, parseVars, outVars
<1> QED
  BY <1>1, <1>2, <1>3, <1>4, <1>5, <1>6, <1>7 DEF Next, LoopStep

LEMMA ReaderInit == Init => ReaderInv
<1> SUFFICES ASSUME Init PROVE ReaderInv
  OBVIOUS
<1>1. /\ sent = <<>> /\ got = 0 /\ handled = <<>> /\ Flags
      /\ parser = [parsed |-> 0, frames |-> <<>>, complete |-> <<>>, state |-> "more"]
  BY DEF Init, Flags
<1>2. /\ <<>> \in Seq(PeerFrames) /\ <<>> \in Seq(Message) /\ <<>> \in Seq(Nat) /\ Len(<<>>) = 0
  OBVIOUS
<1>3. <<>> \o <<>> = <<>>
  BY <1>2, ConcatEmptySeq
<1>4. 0 \in 0..(2 * MaxFrames) /\ (0 + 1) \div 2 = 0 /\ 0 \div 2 = 0 /\ 1..0 = {} /\ 0 - 0 = 0
  BY FramesAssumption
<1>5. parser \in Parsers /\ parser.parsed = 0 /\ parser.frames = <<>> /\ parser.complete = <<>> /\ parser.state = "more"
  BY <1>1, <1>2 DEF Parsers
<1>6. ParserOK(parser, sent)
  BY <1>1, <1>2, <1>4, <1>5 DEF ParserOK
<1>7. AreMessages(<<>>, <<>>, 0)
  <2>1. Ends(<<>>, 0) = {}
    BY <1>4 DEF Ends
  <2> QED
    BY <1>2, <2>1, FS_EmptySet DEF AreMessages
<1> QED
  BY <1>1, <1>2, <1>3, <1>4, <1>5, <1>6, <1>7 DEF ReaderInv

\* A read that returned the next k units.
LEMMA ReaderRead ==
  ASSUME ReaderInv, NEW k \in 1..(2 * MaxFrames - got), Read(k), Flags'
  PROVE  ReaderInv'
<1>1. PICK new \in [1..((got + k + 1) \div 2 - Len(sent)) -> PeerFrames] :
        LET in == sent \o new
            p == Parse(in, got + k)
        IN /\ sent' = in
           /\ \/ /\ p.state = "assert"
                 /\ failed' = TRUE /\ parser' = p
                 /\ UNCHANGED <<connected, registered, reader, pending, handled>>
              \/ /\ p.state = "error"
                 /\ End /\ parser' = p
                 /\ UNCHANGED <<pending, handled, failed>>
              \/ /\ p.state = "more" /\ p.complete = <<>>
                 /\ ReadOn /\ parser' = p
                 /\ UNCHANGED <<pending, handled, failed>>
              \/ /\ p.state = "more" /\ p.complete # <<>>
                 /\ parser' = [p EXCEPT !.complete = Tail(@)]
                 /\ Handle(Head(p.complete))
                 /\ UNCHANGED failed
  BY DEF Read
<1> DEFINE in == sent \o new
           have == got + k
           p == Parse(in, have)
           more == (have + 1) \div 2 - Len(sent)
<1>2. /\ sent \in Seq(PeerFrames) /\ handled \in Seq(Message) /\ got \in Nat /\ Len(sent) \in Nat
      /\ Len(sent) = (got + 1) \div 2 /\ MaxFrames \in Nat /\ ParserOK(parser, sent)
      /\ AreMessages(handled \o parser.complete, sent, parser.parsed)
      /\ parser.state = "more" /\ parser.parsed = got \div 2 /\ k \in Nat /\ got + k <= 2 * MaxFrames
      /\ parser.parsed \in Nat /\ parser.parsed <= Len(sent)
  <2>1. reader # "done" /\ ~failed
    BY DEF Read
  <2>2. got \in Nat /\ MaxFrames \in Nat
    BY FramesAssumption DEF ReaderInv
  <2>3. k \in Nat /\ got + k <= 2 * MaxFrames
    BY <2>2
  <2> QED
    BY <2>1, <2>2, <2>3 DEF ReaderInv, ParserOK, Parsers
<1>3. have \in Nat /\ got' = have /\ have \in 0..(2 * MaxFrames)
  <2>1. have \in Nat /\ have \in 0..(2 * MaxFrames)
    BY <1>2
  <2>2. got' = got + k
    BY DEF Read
  <2> QED
    BY <2>1, <2>2
<1>4. more \in Nat /\ Len(sent) + more = (have + 1) \div 2 /\ (have + 1) \div 2 <= MaxFrames
  <2>1. (have + 1) \div 2 \in Nat /\ 2 * ((have + 1) \div 2) <= have + 1 /\ have + 1 <= 2 * ((have + 1) \div 2) + 1
    BY <1>3, Half
  <2>2. 2 * ((got + 1) \div 2) <= got + 1
    BY <1>2, Half
  <2>3. have \in Nat /\ have + 1 > got + 1 /\ have <= 2 * MaxFrames
    BY <1>2
  <2> HIDE DEF have
  <2> DEFINE h == (have + 1) \div 2
  <2>4. h \in Nat /\ 2 * h <= have + 1 /\ have + 1 <= 2 * h + 1
    BY <2>1
  <2> HIDE DEF h
  <2>5. h >= Len(sent) /\ h <= MaxFrames
    BY <1>2, <2>2, <2>3, <2>4
  <2> QED
    BY <1>2, <2>4, <2>5 DEF h
<1>5. /\ in \in Seq(PeerFrames) /\ Len(in) = (have + 1) \div 2
      /\ \A i \in 1..Len(sent) : in[i] = sent[i]
  <2>1. new \in [1..more -> PeerFrames]
    OBVIOUS
  <2> HIDE DEF more, have
  <2>2. new \in Seq(PeerFrames) /\ Len(new) = more
    BY <1>4, <2>1
  <2>3. /\ sent \o new \in Seq(PeerFrames) /\ Len(sent \o new) = Len(sent) + Len(new)
        /\ \A i \in 1..(Len(sent) + Len(new)) : i <= Len(sent) => (sent \o new)[i] = sent[i]
    BY <1>2, <2>2, ConcatProperties
  <2>4. \A i \in 1..Len(sent) : i \in 1..(Len(sent) + Len(new)) /\ i <= Len(sent)
    BY <1>2, <1>4, <2>2
  <2>5. Len(sent) + Len(new) = (have + 1) \div 2
    BY <1>4, <2>2
  <2> QED
    BY <2>3, <2>4, <2>5
<1>a. Len(in) \in Nat /\ Len(sent) <= Len(in)
  <2> DEFINE l == Len(in)
             h == (have + 1) \div 2
  <2>1. l = h /\ Len(sent) + more = h
    BY <1>4, <1>5
  <2> HIDE DEF l, h, more
  <2>2. Len(sent) <= h /\ h \in Nat
    BY <1>2, <1>4, <2>1
  <2> QED
    BY <2>1, <2>2 DEF l
<1>6. ParserOK(parser, in)
  <2>1. parser.parsed <= Len(in)
    <3> HIDE DEF in
    <3> QED
      BY <1>2, <1>a
  <2>2. \A i \in 1..parser.parsed : in[i] = sent[i]
    BY <1>2, <1>5
  <2>3. Len(parser.frames) \in Nat /\ Len(parser.frames) <= parser.parsed
    BY <1>2 DEF ParserOK, Parsers
  <2>4. parser.parsed > Len(parser.frames) => parser.parsed - Len(parser.frames) \in 1..parser.parsed
    <3>1. \A a, b \in Nat : a > b /\ b <= a => a - b \in 1..a
      OBVIOUS
    <3> DEFINE b == Len(parser.frames)
               a == parser.parsed
    <3>2. a \in Nat /\ b \in Nat /\ b <= a
      BY <1>2, <2>3
    <3> HIDE DEF a, b
    <3>3. a > b => a - b \in 1..a
      BY <3>1, <3>2
    <3> QED
      BY <3>3 DEF a, b
  <2> HIDE DEF in
  <2> QED
    BY <1>2, <2>1, <2>2, <2>4 DEF ParserOK
<1>7. AreMessages(handled \o parser.complete, in, parser.parsed)
  <2>1. \A i \in 1..parser.parsed : in[i] = sent[i]
    BY <1>2, <1>5
  <2> HIDE DEF in
  <2> QED
    BY <1>2, <2>1, MessagesStay
<1>8. LookedAt(parser, parser.parsed, have)
  <2>1. 2 * (got \div 2) <= got
    BY <1>2, Half
  <2> QED
    BY <1>2, <2>1 DEF LookedAt
<1>9. 2 * Len(in) <= have + 1 /\ Len(in) <= MaxFrames
  BY <1>3, <1>4, <1>5, Half
<1>10. ParsedSoFar(p, handled, in, Len(in), have)
  <2> HIDE DEF in, have
  <2> QED
    BY <1>2, <1>3, <1>5, <1>6, <1>7, <1>8, <1>9, ParseTakesAll DEF ParsedSoFar
<1>11. p.state = "more" => p.parsed = have \div 2
  <2>1. p.state = "more" => \/ p.parsed = Len(in) /\ 2 * Len(in) <= have
                            \/ p.parsed = Len(in) - 1 /\ have < 2 * Len(in)
    <3> HIDE DEF p, in, have
    <3> QED
      BY <1>10 DEF ParsedSoFar, LookedAt
  <2>2. 2 * (have \div 2) <= have /\ have <= 2 * (have \div 2) + 1 /\ have \div 2 \in Nat
    BY <1>3, Half
  <2>3. Len(in) \in Nat
    BY <1>5
  <2> HIDE DEF p, in, have
  <2> DEFINE h == have \div 2
             l == Len(in)
  <2>4. h \in Nat /\ l \in Nat /\ 2 * h <= have /\ have <= 2 * h + 1 /\ 2 * l <= have + 1
    BY <1>9, <2>2, <2>3
  <2> HIDE DEF h, l
  <2>5. have < 2 * l => l - 1 = h
    BY <1>3, <2>4
  <2>6. have <= 2 * l
    <3>1. have + 1 <= 2 * ((have + 1) \div 2) + 1
      BY <1>3, Half
    <3> QED
      BY <1>3, <1>5, <2>4, <3>1 DEF l
  <2>7. 2 * l <= have => l = h
    BY <1>3, <2>4, <2>6
  <2> QED
    BY <2>1, <2>5, <2>7 DEF h, l
<1>12. /\ ParserOK(p, in) /\ AreMessages(handled \o p.complete, in, p.parsed)
       /\ p \in Parsers /\ p.complete \in Seq(Message)
  BY <1>10 DEF ParsedSoFar, ParserOK, Parsers
<1>13. sent' = in /\ sent' \in Seq(PeerFrames) /\ Len(sent') = (got' + 1) \div 2 /\ got' \in 0..(2 * MaxFrames)
  BY <1>1, <1>3, <1>5
<1>14. CASE parser' = p /\ handled' = handled /\ (p.state = "more" \/ failed' \/ reader' = "done")
  <2> HIDE DEF p, in, have
  <2> QED
    BY <1>2, <1>3, <1>11, <1>12, <1>13, <1>14 DEF ReaderInv
<1>15. CASE p.state = "more" /\ p.complete # <<>> /\ parser' = [p EXCEPT !.complete = Tail(@)]
            /\ handled' = Append(handled, Head(p.complete))
  <2> HIDE DEF p, in, have
  <2> DEFINE c == p.complete
  <2>1. c \in Seq(Message) /\ c # <<>>
    BY <1>12, <1>15
  <2> HIDE DEF c
  <2>2. Head(c) \in Message /\ Tail(c) \in Seq(Message) /\ c = <<Head(c)>> \o Tail(c)
    BY <2>1, HeadTailProperties
  <2>3. handled' \in Seq(Message) /\ handled' = handled \o <<Head(c)>>
    BY <1>2, <1>15, <2>2, AppendProperties, AppendIsConcat DEF c
  <2>4. handled' \o Tail(c) = handled \o c
    <3>1. <<Head(c)>> \in Seq(Message)
      BY <2>2
    <3>2. (handled \o <<Head(c)>>) \o Tail(c) = handled \o (<<Head(c)>> \o Tail(c))
      BY <1>2, <2>2, <3>1, ConcatAssociative, SMTT(30)
    <3> QED
      BY <2>2, <2>3, <3>2
  <2>5. /\ parser' \in Parsers /\ parser'.parsed = p.parsed /\ parser'.frames = p.frames
        /\ parser'.complete = Tail(c) /\ parser'.state = p.state
    BY <1>12, <1>15, <2>2 DEF Parsers, c
  <2>6. ParserOK(parser', in)
    BY <1>12, <2>5 DEF ParserOK
  <2>7. AreMessages(handled' \o parser'.complete, in, parser'.parsed)
    BY <1>12, <2>4, <2>5 DEF c
  <2> QED
    BY <1>3, <1>11, <1>13, <1>15, <2>3, <2>5, <2>6, <2>7 DEF ReaderInv
<1>16. \/ parser' = p /\ handled' = handled /\ (p.state = "more" \/ failed' \/ reader' = "done")
       \/ p.state = "more" /\ p.complete # <<>> /\ parser' = [p EXCEPT !.complete = Tail(@)]
            /\ handled' = Append(handled, Head(p.complete))
  <2> HIDE DEF p, in, have
  <2> QED
    BY <1>1 DEF End, Handle, p, in, have
<1> QED
  BY <1>14, <1>15, <1>16

\* A step that reads nothing, and does not let the reader start again.
LEMMA ReaderElsewhere ==
  ASSUME ReaderInv, UNCHANGED parseVars, Flags', reader' # "done" => reader # "done"
  PROVE  ReaderInv'
BY DEF ReaderInv, parseVars

LEMMA ReaderStep == ReaderInv /\ [Next]_vars => ReaderInv'
<1> SUFFICES ASSUME ReaderInv, [Next]_vars PROVE ReaderInv'
  OBVIOUS
<1>1. Flags'
  BY FlagsStep DEF ReaderInv
<1>2. ASSUME NEW k \in 1..(2 * MaxFrames - got), Read(k) PROVE ReaderInv'
  BY <1>1, <1>2, ReaderRead
<1>3. CASE Open \/ OpenFails \/ BeginRead \/ ReadEnds \/ Send \/ Close \/ PeerCloses
  <2>1. UNCHANGED parseVars /\ (reader' # "done" => reader # "done")
    BY <1>3 DEF Open, OpenFails, BeginRead, ReadEnds, Send, Close, PeerCloses
  <2> QED
    BY <1>1, <2>1, ReaderElsewhere
<1>4. CASE RunSpawned \/ WriteFails \/ PingTimer \/ UNCHANGED vars
  <2>1. UNCHANGED parseVars /\ UNCHANGED reader
    BY <1>4 DEF RunSpawned, WriteFails, PingTimer, vars
  <2> QED
    BY <1>1, <2>1, ReaderElsewhere
<1>5. ASSUME NEW k, Write(k) PROVE ReaderInv'
  <2>1. UNCHANGED parseVars /\ UNCHANGED reader
    BY <1>5 DEF Write
  <2> QED
    BY <1>1, <2>1, ReaderElsewhere
<1> QED
  BY <1>2, <1>3, <1>4, <1>5 DEF Next, LoopStep

\* However the peer cuts its stream, whatever frames it holds and however many
\* they are, every frame whose end was read has been parsed while the reader goes
\* on, and the messages handled and waiting are exactly those the frames make.
THEOREM StreamReassembled == Spec => []MessagesReassembled
<1>1. ReaderInv /\ WriteInv => MessagesReassembled
  <2> SUFFICES ASSUME ReaderInv, WriteInv PROVE MessagesReassembled
    OBVIOUS
  <2>1. parser.parsed \in 0..MaxFrames /\ parser.complete \in Seq(Message)
    <3>1. parser.parsed \in Nat /\ parser.parsed <= Len(sent) /\ parser.complete \in Seq(Message)
      BY DEF ReaderInv, ParserOK, Parsers
    <3>2. got \in Nat /\ got <= 2 * MaxFrames /\ MaxFrames \in Nat /\ Len(sent) = (got + 1) \div 2
      BY FramesAssumption DEF ReaderInv
    <3>3. 2 * ((got + 1) \div 2) <= got + 1 /\ (got + 1) \div 2 \in Nat
      BY <3>2, Half
    <3> DEFINE h == (got + 1) \div 2
    <3>4. h \in Nat /\ 2 * h <= got + 1 /\ parser.parsed <= h
      BY <3>1, <3>2, <3>3
    <3> HIDE DEF h
    <3>5. h <= MaxFrames
      BY <3>2, <3>4
    <3> QED
      BY <3>1, <3>2, <3>4, <3>5
  <2>2. TypeOK
    BY <2>1 DEF ReaderInv, Flags, WriteInv, OutTypes, TypeOK
  <2> QED
    BY <2>2 DEF ReaderInv, MessagesReassembled
<1> QED
  BY <1>1, ReaderInit, ReaderStep, WriteInit, WriteStep, PTL DEF Spec

-----------------------------------------------------------------------------
(* The registry and the frames taken.                                      *)

\* A registered WebSocket has taken no close frame.
NoCloseTaken ==
  /\ reader = "handshake" => handled = <<>>
  /\ registered => \A i \in 1..Len(handled) : handled[i].op # "close"

LEMMA CloseTakenStep ==
  ReaderInv /\ RegistryInv /\ NoCloseTaken /\ [Next]_vars => NoCloseTaken'
<1> SUFFICES ASSUME ReaderInv, RegistryInv, NoCloseTaken, [Next]_vars PROVE NoCloseTaken'
  OBVIOUS
<1>1. CASE Open
  BY <1>1 DEF Open, parseVars, NoCloseTaken
<1>2. ASSUME NEW k, Read(k) PROVE NoCloseTaken'
  <2>1. /\ reader = "reading" /\ reader' \in {"reading", "done"}
        /\ registered' = FALSE \/ UNCHANGED registered
    BY <1>2 DEF Read, Handle, End, ReadOn, OnError, Forget
  <2>2. CASE UNCHANGED handled
    BY <2>1, <2>2 DEF NoCloseTaken
  <2>3. ASSUME NEW m, Handle(m) PROVE NoCloseTaken'
    <3>1. handled \in Seq(Message) /\ handled' = Append(handled, m)
      BY <2>3 DEF Handle, ReaderInv
    <3>2. m.op = "close" => ~registered'
      BY <2>3 DEF Handle, End, OnError, Forget
    <3>3. /\ Len(handled) \in Nat /\ Len(handled') = Len(handled) + 1
          /\ handled'[Len(handled) + 1] = m /\ \A i \in 1..Len(handled) : handled'[i] = handled[i]
      BY <3>1
    <3> QED
      BY <2>1, <3>2, <3>3 DEF NoCloseTaken
  <2> QED
    BY <1>2, <2>2, <2>3 DEF Read
<1>3. CASE OpenFails \/ BeginRead \/ ReadEnds \/ Send \/ Close \/ PeerCloses
  <2>1. /\ UNCHANGED handled /\ (reader' = "handshake" => reader = "handshake")
        /\ registered' = FALSE \/ UNCHANGED registered
    BY <1>3 DEF OpenFails, BeginRead, ReadEnds, Send, Close, PeerCloses, Forget, parseVars
  <2> QED
    BY <2>1 DEF NoCloseTaken
<1>4. CASE RunSpawned \/ WriteFails \/ PingTimer \/ UNCHANGED vars
  <2>1. UNCHANGED <<handled, reader>> /\ (registered' = FALSE \/ UNCHANGED registered)
    BY <1>4 DEF RunSpawned, WriteFails, PingTimer, OnError, Forget, parseVars, vars
  <2> QED
    BY <2>1 DEF NoCloseTaken
<1>5. ASSUME NEW k, Write(k) PROVE NoCloseTaken'
  BY <1>5 DEF Write, parseVars, NoCloseTaken
<1> QED
  BY <1>1, <1>2, <1>3, <1>4, <1>5 DEF Next, LoopStep

\* Every close frame received was taken or still waits in completeFrames_.
LEMMA CloseTakenOrLeft ==
  ASSUME ReaderInv, CloseReceived
  PROVE  CloseLeftBehind \/ \E i \in 1..Len(handled) : handled[i].op = "close"
<1> DEFINE all == handled \o parser.complete
           n == parser.parsed
<1>1. handled \in Seq(Message) /\ parser.complete \in Seq(Message) /\ n \in Nat /\ AreMessages(all, sent, n)
  BY DEF ReaderInv, ParserOK, Parsers
<1>2. PICK i \in Ends(sent, n) : MessageAt(sent, i).op = "close"
  BY DEF CloseReceived
<1> DEFINE c == Cardinality(Ends(sent, i))
<1>3. c \in 1..Len(all) /\ all[c].op = "close"
  <2>1. Len(all) = Cardinality(Ends(sent, n)) /\ all[c] = MessageAt(sent, i)
    <3> HIDE DEF all, n
    <3> QED
      BY <1>1, <1>2 DEF AreMessages
  <2>2. c \in 1..Cardinality(Ends(sent, n))
    <3> HIDE DEF n
    <3> QED
      BY <1>1, <1>2, EndsFinite
  <2> HIDE DEF all, c, n
  <2> QED
    BY <1>2, <2>1, <2>2
<1> HIDE DEF c
<1>4. CASE c <= Len(handled)
  <2>1. c \in 1..Len(handled) /\ all[c] = handled[c]
    BY <1>1, <1>3, <1>4
  <2> QED
    BY <1>3, <2>1
<1>5. CASE ~(c <= Len(handled))
  <2> DEFINE d == c - Len(handled)
  <2>1. d \in 1..Len(parser.complete) /\ all[c] = parser.complete[d]
    BY <1>1, <1>3, <1>5
  <2>2. d \in DOMAIN parser.complete
    BY <1>1, <2>1
  <2> HIDE DEF d, all
  <2> QED
    BY <1>3, <2>1, <2>2 DEF CloseLeftBehind, ToSet
<1> QED
  BY <1>4, <1>5

\* Whoever of the user, the writer, the pinger and the reader noticed the end
\* first, a WebSocket stays in webSockets_ after its reader ended only if a read
\* returned 0 and the peer's close frame, if it sent one, was left in
\* completeFrames_, behind a frame that came in the same read.
THEOREM RegistryForgets == Spec => []ForgottenUnlessDropped
<1>1. Init => NoCloseTaken
  <2>1. 1..Len(<<>>) = {}
    OBVIOUS
  <2> QED
    BY <2>1 DEF Init, NoCloseTaken
<1>2. ReaderInv /\ RegistryInv /\ NoCloseTaken => ForgottenUnlessDropped
  BY CloseTakenOrLeft DEF RegistryInv, KeptOnlyAtEof, NoCloseTaken, ForgottenUnlessDropped
<1> QED
  BY <1>1, <1>2, CloseTakenStep, ReaderInit, ReaderStep, RegistryInit, RegistryStep, PTL DEF Spec
=============================================================================
