-------------------------- MODULE RpcChannelProofs --------------------------
(***************************************************************************)
(* Proofs about RpcChannel, for every number of calls.                     *)
(*                                                                         *)
(* While nobody has given up on an answer, a call is in exactly one place:  *)
(* in a queue, in a write buffer, on the wire, with the service.  The       *)
(* invariant says which places there are and what holds in each.            *)
(***************************************************************************)
EXTENDS RpcChannel, SequenceTheorems, TLAPS

-----------------------------------------------------------------------------
(* Where a call is.                                                        *)

\* The first k units of message n are between side s and the reader of the other.
Stream(s, n, k) ==
  LET buf == readBuf[Other(s)] IN
    \/ k = 0 /\ buf = <<>> /\ wire[s] = <<>>
    \/ k = 1 /\ \/ buf = <<>> /\ wire[s] = <<<<n, 1>>>>
                \/ buf = <<<<n, 1>>>> /\ wire[s] = <<>>
    \/ k = 2 /\ \/ buf = <<>> /\ wire[s] = <<<<n, 1>>, <<n, 2>>>>
                \/ buf = <<<<n, 1>>>> /\ wire[s] = <<<<n, 2>>>>

\* What side s holds of message n: spawned coroutines, Sends, units sent.
Holds(s, n, queue, sending, k) ==
  spawned[s] = queue /\ sends[s] = sending /\ Stream(s, n, k)

Nothing(s, n) == Holds(s, n, <<>>, {}, 0)

Coroutine(what, n) == <<[what |-> what, id |-> n]>>
Sender(n, u, a) == [id |-> n, unit |-> u, awaited |-> a]

BothConnected == connected["client"] /\ connected["server"]

\* The request: spawned, half or not yet written, written.
RequestSpawned(n) ==
  /\ Holds("client", n, Coroutine("send", n), {}, 0) /\ Nothing("server", n)
  /\ working = {} /\ entries = {n}

RequestWriting(n) ==
  /\ \E u \in 1..2 : Holds("client", n, <<>>, {Sender(n, u, FALSE)}, u - 1)
  /\ Nothing("server", n) /\ writeBuf["client"] = n
  /\ working = {} /\ entries = {n}

RequestWritten(n) ==
  /\ Holds("client", n, <<>>, {}, 2) /\ Nothing("server", n)
  /\ working = {} /\ entries = {n}
  /\ connected["client"] \/ ~connected["server"]

\* The service has it, or the answer is spawned, half or not yet written.
Serving(n) ==
  /\ Nothing("client", n) /\ Nothing("server", n)
  /\ working = {n} /\ entries = {n}
  /\ BothConnected /\ reader["server"] = "reading"

AnswerSpawned(n) ==
  /\ Nothing("client", n) /\ Holds("server", n, Coroutine("send", n), {}, 0)
  /\ working = {} /\ entries = {n}
  /\ BothConnected /\ reader["server"] = "reading"

AnswerWriting(n) ==
  /\ Nothing("client", n) /\ working = {} /\ entries = {n}
  /\ BothConnected /\ writeBuf["server"] = n
  /\ \E u \in 1..2, a \in BOOLEAN :
       /\ Holds("server", n, <<>>, {Sender(n, u, a)}, u - 1)
       /\ reader["server"] = IF a THEN "sending" ELSE "reading"

\* The answer is written, or was taken and the caller is to be resumed.
AnswerWritten(n) ==
  /\ Nothing("client", n) /\ Holds("server", n, <<>>, {}, 2)
  /\ working = {} /\ entries = {n}

Resuming(n) ==
  /\ Holds("client", n, Coroutine("resume", n), {}, 0) /\ Nothing("server", n)
  /\ working = {} /\ entries = {}

\* A write failed, or the socket was closed before it: at most one unit is left.
Lost(n) ==
  /\ \E i, j \in 0..1 : Holds("client", n, <<>>, {}, i) /\ Holds("server", n, <<>>, {}, j)
  /\ working = {} /\ entries = {n}

Quiet(n) ==
  Nothing("client", n) /\ Nothing("server", n) /\ working = {} /\ entries = {}

Places(n) ==
  \/ RequestSpawned(n) \/ RequestWriting(n) \/ RequestWritten(n)
  \/ Serving(n) \/ AnswerSpawned(n) \/ AnswerWriting(n) \/ AnswerWritten(n)
  \/ Resuming(n) \/ Lost(n)

OnePlace ==
  /\ status = "waiting" => Places(call)
  /\ status # "waiting" => Quiet(call)

PatientInv ==
  /\ ~dangling
  /\ OnePlace
  /\ \A n \in Calls : answer[n] \in {0, n}

\* The write buffer is filled before anything is written.
BufferFilled ==
  /\ status \in {"spawned", "waiting"} => call \in Calls
  /\ \A s \in Sides : sends[s] # {} => writeBuf[s] \in Calls

RpcInv == TypeOK /\ BufferFilled /\ (~givenUp => PatientInv)

-----------------------------------------------------------------------------
(* Types, whatever anybody gave up on.                                     *)

Tasks == [what : {"send", "resume"}, id : Calls]
UnitSet == Calls \X (1..2)

LEMMA CallsFacts ==
  /\ MaxCalls \in Nat
  /\ \A n \in Calls : n \in 0..MaxCalls /\ n \in Nat
BY CallsAssumption DEF Calls

LEMMA ClientTypes ==
  ASSUME TypeOK, BufferFilled, ClientStep
  PROVE  TypeOK' /\ BufferFilled'
<1> USE DEF TypeOK, BufferFilled
<1>1. CASE Connect
  BY <1>1 DEF Connect
<1>2. CASE Call
  <2>1. call' \in 0..MaxCalls /\ call' \in Calls
    BY <1>2, CallsFacts DEF Call, Calls
  <2> QED
    BY <1>2, <2>1 DEF Call
<1>3. CASE Quit
  BY <1>3 DEF Quit
<1>4. CASE StubTimeout
  BY <1>4 DEF StubTimeout, CallFails
<1>5. CASE StartCall
  <2>1. call \in Calls
    BY <1>5 DEF StartCall
  <2>2. Append(spawned["client"], [what |-> "send", id |-> call]) \in Seq(Tasks)
    BY <2>1 DEF Sides, Tasks
  <2> QED
    BY <1>5, <2>1, <2>2 DEF StartCall, CallFails, CallMethod, Spawn, Tasks
<1>6. CASE ResumeCaller
  <2>1. Tail(spawned["client"]) \in Seq(Tasks)
    BY <1>6 DEF ResumeCaller, Sides, Tasks
  <2> QED
    BY <1>6, <2>1 DEF ResumeCaller, CallFails, Tasks
<1> QED
  BY <1>1, <1>2, <1>3, <1>4, <1>5, <1>6 DEF ClientStep

SendsTyped ==
  /\ writeBuf \in [Sides -> 0..MaxCalls]
  /\ sends \in [Sides -> SUBSET [id : Calls, unit : 1..2, awaited : BOOLEAN]]
  /\ \A r \in Sides : sends[r] # {} => writeBuf[r] \in Calls

LEMMA BeginSendTypes ==
  ASSUME TypeOK, BufferFilled, NEW s \in Sides, NEW id \in Calls, NEW awaited \in BOOLEAN,
         BeginSend(s, id, awaited)
  PROVE  SendsTyped'
<1> DEFINE w == Sender(id, 1, awaited)
           T == [id : Calls, unit : 1..2, awaited : BOOLEAN]
<1>1. writeBuf' = [writeBuf EXCEPT ![s] = id] /\ sends' = [sends EXCEPT ![s] = @ \cup {w}]
  BY DEF BeginSend, Sender
<1>2. w \in T /\ sends \in [Sides -> SUBSET T]
  BY DEF Sender, TypeOK
<1> HIDE DEF w, T
<1>3. sends' \in [Sides -> SUBSET T] /\ \A r \in Sides : sends'[r] # {} => r = s \/ sends[r] # {}
  BY <1>1, <1>2
<1>4. writeBuf' \in [Sides -> 0..MaxCalls] /\ \A r \in Sides : writeBuf'[r] = IF r = s THEN id ELSE writeBuf[r]
  BY <1>1, CallsFacts DEF TypeOK
<1> QED
  BY <1>3, <1>4 DEF T, SendsTyped, BufferFilled

LEMMA SendTypes ==
  ASSUME TypeOK, BufferFilled, NEW s \in Sides, StartSend(s) \/ \E w \in sends[s] : Write(s, w) \/ WriteFails(s, w)
  PROVE  TypeOK' /\ BufferFilled'
<1> USE DEF TypeOK, BufferFilled
<1>1. CASE StartSend(s)
  <2>1. spawned[s] \in Seq(Tasks) /\ spawned[s] # <<>>
    BY <1>1 DEF StartSend, Tasks
  <2>2. Tail(spawned[s]) \in Seq(Tasks) /\ Head(spawned[s]) \in Tasks
    BY <2>1
  <2>3. Head(spawned[s]).id \in Calls
    BY <2>2 DEF Tasks
  <2> DEFINE id == Head(spawned[s]).id
  <2> HIDE DEF id
  <2>4. spawned' \in [Sides -> Seq(Tasks)]
    BY <1>1, <2>2 DEF StartSend, Tasks
  <2>5. dangling' \in BOOLEAN
    BY <1>1 DEF StartSend, ChannelGone
  <2>6. BeginSend(s, id, FALSE) \/ UNCHANGED <<writeBuf, sends>>
    BY <1>1 DEF StartSend, id
  <2>7. id \in Calls /\ id \in 0..MaxCalls
    BY <2>3, CallsFacts DEF id
  <2>9. SendsTyped'
    BY <2>6, <2>7, BeginSendTypes DEF SendsTyped
  <2> QED
    BY <1>1, <2>4, <2>5, <2>9 DEF StartSend, clientVars, Tasks, SendsTyped
<1>2. ASSUME NEW w \in sends[s], Write(s, w) PROVE TypeOK' /\ BufferFilled'
  <2>1. w \in [id : Calls, unit : 1..2, awaited : BOOLEAN]
    OBVIOUS
  <2>2. Append(wire[s], Written(s, w)) \in Seq(UnitSet)
    BY <2>1 DEF Written, UnitSet
  <2>3. [w EXCEPT !.unit = 2] \in [id : Calls, unit : 1..2, awaited : BOOLEAN]
    <3>1. 2 \in 1..2
      OBVIOUS
    <3> HIDE DEF TypeOK, BufferFilled
    <3> DEFINE T == 1..2
    <3>2. w \in [id : Calls, unit : T, awaited : BOOLEAN] /\ 2 \in T
      BY <2>1, <3>1
    <3> HIDE DEF T
    <3>3. [w EXCEPT !.unit = 2] \in [id : Calls, unit : T, awaited : BOOLEAN]
      BY ONLY <3>2
    <3> QED
      BY <3>3 DEF T
  <2> QED
    BY <1>2, <2>1, <2>2, <2>3 DEF Write, clientVars, UnitSet
<1>3. ASSUME NEW w \in sends[s], WriteFails(s, w) PROVE TypeOK' /\ BufferFilled'
  BY <1>3 DEF WriteFails, clientVars
<1> QED
  BY <1>1, <1>2, <1>3

LEMMA ReadTypes ==
  ASSUME TypeOK, BufferFilled, NEW s \in Sides, NEW k, Read(s, k)
  PROVE  TypeOK' /\ BufferFilled'
<1> USE DEF TypeOK, BufferFilled
<1> DEFINE b == readBuf[s] \o SubSeq(wire[Other(s)], 1, k)
<1>1. Other(s) \in Sides
  BY DEF Other, Sides
<1>2. k \in 1..Len(wire[Other(s)]) /\ wire[Other(s)] \in Seq(UnitSet)
  BY <1>1 DEF Read, UnitSet
<1>3. b \in Seq(UnitSet) /\ SubSeq(wire[Other(s)], k + 1, Len(wire[Other(s)])) \in Seq(UnitSet)
  <2>1. PICK w \in Seq(UnitSet), r \in Seq(UnitSet) : w = wire[Other(s)] /\ r = readBuf[s]
    BY <1>2 DEF UnitSet
  <2>2. k \in 1..Len(w) /\ Len(w) \in Nat /\ \A i \in 1..Len(w) : w[i] \in UnitSet
    BY <1>2, <2>1, SMTT(30)
  <2>3. SubSeq(w, 1, k) \in Seq(UnitSet)
    <3>1. \A i \in 1..k : w[i] \in UnitSet
      BY ONLY <2>2
    <3> QED
      BY ONLY <2>1, <2>2, <3>1, SubSeqProperties
  <2>4. SubSeq(w, k + 1, Len(w)) \in Seq(UnitSet)
    <3>1. \A i \in (k + 1)..Len(w) : w[i] \in UnitSet
      BY ONLY <2>2
    <3> QED
      BY ONLY <2>1, <2>2, <3>1, SubSeqProperties
  <2>5. r \o SubSeq(w, 1, k) \in Seq(UnitSet)
    BY ONLY <2>1, <2>3, ConcatProperties
  <2> QED
    BY ONLY <2>1, <2>4, <2>5 DEF b
<1>4. HasMessage(b) => b[1][1] \in Calls /\ b[2][1] \in Calls /\ TakeMessage(b) \in Seq(UnitSet)
  <2> HIDE DEF b
  <2>1. SUFFICES ASSUME HasMessage(b) PROVE b[1] \in UnitSet /\ b[2] \in UnitSet /\ TakeMessage(b) \in Seq(UnitSet)
    BY DEF UnitSet
  <2>2. Len(b) \in Nat /\ Len(b) >= 2 /\ \A i \in 1..Len(b) : b[i] \in UnitSet
    BY <1>3, <2>1, ElementOfSeq, LenProperties DEF HasMessage
  <2>3. SubSeq(b, 3, Len(b)) \in Seq(UnitSet)
    BY <2>2, SubSeqProperties
  <2> QED
    BY <2>2, <2>3 DEF TakeMessage
<1> HIDE DEF b
<1>5. /\ wire' = [wire EXCEPT ![Other(s)] = SubSeq(@, k + 1, Len(@))]
      /\ UNCHANGED <<connected, givenUp>>
      /\ \/ /\ readBuf' = [readBuf EXCEPT ![s] = b]
            /\ UNCHANGED <<clientVars, writeBuf, spawned, sends, reader, working, dangling>>
         \/ /\ readBuf' = [readBuf EXCEPT ![s] = TakeMessage(b)]
            /\ HasMessage(b)
            /\ DoClientRpc(b[1][1], b[2][1]) \/ DoServerRpc(b[1][1])
  BY DEF Read, b
<1>6. wire' \in [Sides -> Seq(UnitSet)] /\ readBuf' \in [Sides -> Seq(UnitSet)]
  BY <1>1, <1>3, <1>4, <1>5 DEF UnitSet
<1>7. CASE UNCHANGED <<clientVars, writeBuf, spawned, sends, reader, working, dangling>>
  BY <1>5, <1>6, <1>7 DEF clientVars, UnitSet
<1>8. ASSUME NEW id \in Calls, NEW payload \in Calls, DoClientRpc(id, payload)
      PROVE  TypeOK' /\ BufferFilled'
  <2>1. Append(spawned["client"], [what |-> "resume", id |-> id]) \in Seq(Tasks)
    BY DEF Sides, Tasks
  <2>2. spawned' \in [Sides -> Seq(Tasks)]
    BY <1>8, <2>1 DEF DoClientRpc, Spawn, Tasks
  <2>3. answer' \in [Calls -> 0..MaxCalls] /\ entries' \subseteq Calls
    BY <1>8, CallsFacts, ZenonT(60) DEF DoClientRpc
  <2>4. dangling' \in BOOLEAN
    BY <1>8 DEF DoClientRpc
  <2>5. UNCHANGED <<call, status, writeBuf, sends, reader, working>>
    BY <1>8 DEF DoClientRpc
  <2> QED
    BY <1>5, <1>6, <2>2, <2>3, <2>4, <2>5 DEF Tasks, UnitSet
<1>9. ASSUME NEW id \in Calls, DoServerRpc(id)
      PROVE  TypeOK' /\ BufferFilled'
  <2>1. BeginSend("server", id, TRUE) \/ UNCHANGED <<writeBuf, sends>>
    BY <1>9 DEF DoServerRpc
  <2>2. SendsTyped'
    BY <2>1, BeginSendTypes DEF Sides, SendsTyped
  <2>3. /\ reader' \in [Sides -> {"none", "reading", "sending", "done"}]
        /\ working' \subseteq Calls
        /\ UNCHANGED <<call, status, entries, answer, spawned, dangling>>
    BY <1>9 DEF DoServerRpc, clientVars
  <2> QED
    BY <1>5, <1>6, <2>2, <2>3 DEF UnitSet, SendsTyped
<1> QED
  BY <1>4, <1>5, <1>7, <1>8, <1>9

LEMMA OtherTypes ==
  ASSUME TypeOK, BufferFilled,
         \/ \E s \in Sides, early \in BOOLEAN : ReadEnds(s, early)
         \/ \E id \in Calls : Done(id)
         \/ UNCHANGED vars
  PROVE  TypeOK' /\ BufferFilled'
<1> USE DEF TypeOK, BufferFilled
<1>1. ASSUME NEW s \in Sides, NEW early \in BOOLEAN, ReadEnds(s, early) PROVE TypeOK' /\ BufferFilled'
  <2>1. givenUp' \in BOOLEAN
    BY <1>1 DEF ReadEnds
  <2> QED
    BY <1>1, <2>1 DEF ReadEnds, clientVars
<1>2. ASSUME NEW id \in Calls, Done(id) PROVE TypeOK' /\ BufferFilled'
  <2>1. Append(spawned["server"], [what |-> "send", id |-> id]) \in Seq(Tasks)
    BY DEF Sides, Tasks
  <2>2. spawned' \in [Sides -> Seq(Tasks)]
    BY <1>2, <2>1 DEF Done, Spawn, Tasks
  <2>3. dangling' \in BOOLEAN /\ working' \subseteq Calls
    BY <1>2 DEF Done
  <2> QED
    BY <1>2, <2>2, <2>3 DEF Done, clientVars, Tasks
<1>3. CASE UNCHANGED vars
  BY <1>3 DEF vars, clientVars
<1> QED
  BY <1>1, <1>2, <1>3

LEMMA TypesPreserved ==
  ASSUME TypeOK, BufferFilled, [Next]_vars
  PROVE  TypeOK' /\ BufferFilled'
BY ClientTypes, SendTypes, ReadTypes, OtherTypes DEF Next, ChannelStep

-----------------------------------------------------------------------------
(* Streams of at most two units.                                           *)

LEMMA ShortSequences ==
  ASSUME NEW x, NEW y, NEW t \in Seq({x, y})
  PROVE  /\ <<>> \in Seq({x, y}) /\ <<x>> \in Seq({x, y}) /\ <<y>> \in Seq({x, y}) /\ <<x, y>> \in Seq({x, y})
         /\ Len(t) = 0 => t = <<>>
         /\ Len(t) = 1 /\ t[1] = x => t = <<x>>
         /\ Len(t) = 1 /\ t[1] = y => t = <<y>>
         /\ Len(t) = 2 /\ t[1] = x /\ t[2] = y => t = <<x, y>>
<1>1. /\ <<>> \in Seq({x, y}) /\ Len(<<>>) = 0
      /\ <<x>> \in Seq({x, y}) /\ Len(<<x>>) = 1 /\ <<x>>[1] = x
  OBVIOUS
<1>2. /\ <<y>> \in Seq({x, y}) /\ Len(<<y>>) = 1 /\ <<y>>[1] = y
  OBVIOUS
<1>3. /\ <<x, y>> \in Seq({x, y}) /\ Len(<<x, y>>) = 2 /\ <<x, y>>[1] = x /\ <<x, y>>[2] = y
  OBVIOUS
<1>4. Len(t) = 0 => t = <<>>
  BY <1>1, SeqEqual
<1>5. Len(t) = 1 /\ t[1] = x => t = <<x>>
  BY <1>1, SeqEqual
<1>6. Len(t) = 1 /\ t[1] = y => t = <<y>>
  BY <1>2, SeqEqual
<1>7. ASSUME Len(t) = 2, t[1] = x, t[2] = y PROVE t = <<x, y>>
  <2>1. \A i \in 1..Len(t) : t[i] = <<x, y>>[i]
    BY <1>3, <1>7
  <2> QED
    BY <1>3, <1>7, <2>1, SeqEqual
<1> QED
  BY <1>1, <1>2, <1>3, <1>4, <1>5, <1>6, <1>7

LEMMA ShortAppend ==
  ASSUME NEW x, NEW y
  PROVE  Append(<<>>, x) = <<x>> /\ Append(<<x>>, y) = <<x, y>>
<1>1. Append(<<>>, x) = <<x>>
  <2>1. Append(<<>>, x) \in Seq({x, y}) /\ Len(Append(<<>>, x)) = 1 /\ Append(<<>>, x)[1] = x
    BY AppendProperties, ShortSequences
  <2> QED
    BY <2>1, ShortSequences
<1>2. Append(<<x>>, y) = <<x, y>>
  <2>1. Append(<<x>>, y) \in Seq({x, y}) /\ Len(Append(<<x>>, y)) = 2
        /\ Append(<<x>>, y)[1] = x /\ Append(<<x>>, y)[2] = y
    BY AppendProperties, ShortSequences
  <2> QED
    BY <2>1, ShortSequences
<1> QED
  BY <1>1, <1>2

LEMMA ShortSubSeq ==
  ASSUME NEW x, NEW y
  PROVE  /\ SubSeq(<<x>>, 1, 1) = <<x>> /\ SubSeq(<<x>>, 2, 1) = <<>>
         /\ SubSeq(<<x, y>>, 1, 1) = <<x>> /\ SubSeq(<<x, y>>, 2, 2) = <<y>>
         /\ SubSeq(<<x, y>>, 1, 2) = <<x, y>> /\ SubSeq(<<x, y>>, 3, 2) = <<>>
<1>1. SubSeq(<<x>>, 2, 1) = <<>> /\ SubSeq(<<x, y>>, 3, 2) = <<>>
  BY SubSeqEmpty
<1>2. ASSUME NEW s, NEW m \in {1, 2}, NEW n \in {1, 2}, \A i \in m..n : s[i] \in {x, y}
      PROVE  /\ SubSeq(s, m, n) \in Seq({x, y})
             /\ Len(SubSeq(s, m, n)) = IF m <= n THEN n - m + 1 ELSE 0
             /\ \A i \in 1..(n - m + 1) : SubSeq(s, m, n)[i] = s[m + i - 1]
  BY <1>2, SubSeqProperties
<1>3. /\ SubSeq(<<x>>, 1, 1) \in Seq({x, y}) /\ Len(SubSeq(<<x>>, 1, 1)) = 1
      /\ SubSeq(<<x>>, 1, 1)[1] = x
  BY <1>2
<1>4. /\ SubSeq(<<x, y>>, 1, 1) \in Seq({x, y}) /\ Len(SubSeq(<<x, y>>, 1, 1)) = 1
      /\ SubSeq(<<x, y>>, 1, 1)[1] = x
  BY <1>2
<1>5. /\ SubSeq(<<x, y>>, 2, 2) \in Seq({x, y}) /\ Len(SubSeq(<<x, y>>, 2, 2)) = 1
      /\ SubSeq(<<x, y>>, 2, 2)[1] = y
  BY <1>2
<1>6. /\ SubSeq(<<x, y>>, 1, 2) \in Seq({x, y}) /\ Len(SubSeq(<<x, y>>, 1, 2)) = 2
      /\ SubSeq(<<x, y>>, 1, 2)[1] = x /\ SubSeq(<<x, y>>, 1, 2)[2] = y
  BY <1>2
<1>7. SubSeq(<<x>>, 1, 1) = <<x>>
  BY <1>3, ShortSequences
<1>8. SubSeq(<<x, y>>, 1, 1) = <<x>>
  BY <1>4, ShortSequences
<1>9. SubSeq(<<x, y>>, 2, 2) = <<y>>
  <2> DEFINE t == SubSeq(<<x, y>>, 2, 2)
  <2>1. t \in Seq({x, y}) /\ Len(t) = 1 /\ t[1] = y
    BY <1>5
  <2> HIDE DEF t
  <2>2. t = <<y>>
    BY <2>1, ShortSequences
  <2> QED
    BY <2>2 DEF t
<1>10. SubSeq(<<x, y>>, 1, 2) = <<x, y>>
  BY <1>6, ShortSequences
<1> QED
  BY <1>1, <1>7, <1>8, <1>9, <1>10

LEMMA ShortConcat ==
  ASSUME NEW x, NEW y
  PROVE  /\ <<>> \o <<x>> = <<x>> /\ <<>> \o <<x, y>> = <<x, y>>
         /\ <<x>> \o <<y>> = <<x, y>>
<1>1. <<>> \o <<x>> = <<x>> /\ <<>> \o <<x, y>> = <<x, y>>
  BY ShortSequences, ConcatEmptySeq
<1>2. /\ <<x>> \o <<y>> \in Seq({x, y}) /\ Len(<<x>> \o <<y>>) = 2
      /\ (<<x>> \o <<y>>)[1] = x /\ (<<x>> \o <<y>>)[2] = y
  BY ShortSequences, ConcatProperties
<1> QED
  BY <1>1, <1>2, ShortSequences

LEMMA OtherFacts ==
  /\ Other("client") = "server" /\ Other("server") = "client"
  /\ "client" \in Sides /\ "server" \in Sides /\ Sides = {"client", "server"}
BY DEF Other, Sides

\* A unit is written.
LEMMA WriteStream ==
  ASSUME TypeOK, NEW s \in Sides, NEW n, NEW u \in 1..2, Stream(s, n, u - 1),
         wire' = [wire EXCEPT ![s] = Append(@, <<n, u>>)], UNCHANGED readBuf
  PROVE  Stream(s, n, u)' /\ (Nothing(Other(s), n) /\ UNCHANGED <<spawned, sends>> => Stream(Other(s), n, 0)')
<1>1. wire'[s] = Append(wire[s], <<n, u>>) /\ wire'[Other(s)] = wire[Other(s)]
  BY OtherFacts DEF TypeOK
<1>2. /\ Append(<<>>, <<n, 1>>) = <<<<n, 1>>>>
      /\ Append(<<>>, <<n, 2>>) = <<<<n, 2>>>>
      /\ Append(<<<<n, 1>>>>, <<n, 2>>) = <<<<n, 1>>, <<n, 2>>>>
  BY ShortAppend
<1>3. readBuf'[Other(s)] = readBuf[Other(s)]
  OBVIOUS
<1>4. /\ u = 1 => readBuf'[Other(s)] = <<>> /\ wire'[s] = <<<<n, 1>>>>
      /\ u = 2 => \/ readBuf'[Other(s)] = <<>> /\ wire'[s] = <<<<n, 1>>, <<n, 2>>>>
                  \/ readBuf'[Other(s)] = <<<<n, 1>>>> /\ wire'[s] = <<<<n, 2>>>>
  <2> DEFINE x == <<n, 1>>
             y == <<n, 2>>
  <2>1. /\ u = 1 => readBuf[Other(s)] = <<>> /\ wire[s] = <<>>
        /\ u = 2 => \/ readBuf[Other(s)] = <<>> /\ wire[s] = <<x>>
                    \/ readBuf[Other(s)] = <<x>> /\ wire[s] = <<>>
    BY DEF Stream
  <2>2. (u = 1 => wire'[s] = Append(wire[s], x)) /\ (u = 2 => wire'[s] = Append(wire[s], y))
    BY <1>1
  <2>3. Append(<<>>, x) = <<x>> /\ Append(<<>>, y) = <<y>> /\ Append(<<x>>, y) = <<x, y>>
    BY <1>2
  <2> HIDE DEF x, y
  <2>4. /\ u = 1 => readBuf'[Other(s)] = <<>> /\ wire'[s] = <<x>>
        /\ u = 2 => \/ readBuf'[Other(s)] = <<>> /\ wire'[s] = <<x, y>>
                    \/ readBuf'[Other(s)] = <<x>> /\ wire'[s] = <<y>>
    BY <1>3, <2>1, <2>2, <2>3
  <2> QED
    BY <2>4 DEF x, y
<1>5. Stream(s, n, u)'
  BY <1>4 DEF Stream
<1>6. Stream(Other(s), n, 0) => Stream(Other(s), n, 0)'
  BY <1>1 DEF Stream
<1> QED
  BY <1>5, <1>6 DEF Nothing, Holds

\* What reading k units of b's stream does to a message of which j were sent.
StreamRead(s, o, n, j, b) ==
  /\ ~HasMessage(b) /\ readBuf' = [readBuf EXCEPT ![s] = b] => Stream(o, n, j)'
  /\ HasMessage(b) => j = 2 /\ b[1][1] = n /\ b[2][1] = n
  /\ HasMessage(b) /\ readBuf' = [readBuf EXCEPT ![s] = TakeMessage(b)] => Stream(o, n, 0)'

TakesUnits(o, k) ==
  k \in 1..Len(wire[o]) /\ wire' = [wire EXCEPT ![o] = SubSeq(@, k + 1, Len(@))]

\* Units are read by side s: the message is complete or it is not.
LEMMA ReadStream ==
  ASSUME TypeOK, NEW s \in Sides, NEW o, o = Other(s), NEW n, NEW j \in 0..2, Stream(o, n, j),
         NEW k, TakesUnits(o, k), NEW b, b = readBuf[s] \o SubSeq(wire[o], 1, k)
  PROVE  StreamRead(s, o, n, j, b)
<1> DEFINE x == <<n, 1>>
           y == <<n, 2>>
<1>1. o \in Sides /\ Other(o) = s /\ o # s
  BY OtherFacts
<1>2. wire'[o] = SubSeq(wire[o], k + 1, Len(wire[o]))
  BY <1>1 DEF TypeOK, TakesUnits
<1>3. /\ readBuf' = [readBuf EXCEPT ![s] = b] => readBuf'[s] = b
      /\ readBuf' = [readBuf EXCEPT ![s] = TakeMessage(b)] => readBuf'[s] = TakeMessage(b)
  BY DEF TypeOK
<1>4. x[1] = n /\ y[1] = n
  OBVIOUS
<1>5. /\ wire[o] # <<>>
      /\ \/ j = 1 /\ readBuf[s] = <<>> /\ wire[o] = <<x>>
         \/ j = 2 /\ readBuf[s] = <<>> /\ wire[o] = <<x, y>>
         \/ j = 2 /\ readBuf[s] = <<x>> /\ wire[o] = <<y>>
  BY <1>1 DEF Stream, TakesUnits
<1> HIDE DEF x, y
<1>6. ~HasMessage(<<x>>) /\ HasMessage(<<x, y>>) /\ TakeMessage(<<x, y>>) = <<>>
      /\ <<x, y>>[1] = x /\ <<x, y>>[2] = y
  BY ShortSubSeq DEF HasMessage, TakeMessage
<1>s. /\ SubSeq(<<x>>, 1, 1) = <<x>> /\ SubSeq(<<x>>, 2, 1) = <<>>
      /\ SubSeq(<<y>>, 1, 1) = <<y>> /\ SubSeq(<<y>>, 2, 1) = <<>>
      /\ SubSeq(<<x, y>>, 1, 1) = <<x>> /\ SubSeq(<<x, y>>, 2, 2) = <<y>>
      /\ SubSeq(<<x, y>>, 1, 2) = <<x, y>> /\ SubSeq(<<x, y>>, 3, 2) = <<>>
  BY ShortSubSeq
<1>c. <<>> \o <<x>> = <<x>> /\ <<>> \o <<x, y>> = <<x, y>> /\ <<x>> \o <<y>> = <<x, y>>
  BY ShortConcat
<1>7. \/ b = <<x>> /\ j = 1 /\ wire'[o] = <<>>
      \/ b = <<x>> /\ j = 2 /\ wire'[o] = <<y>>
      \/ b = <<x, y>> /\ j = 2 /\ wire'[o] = <<>>
  <2>1. CASE j = 1 /\ readBuf[s] = <<>> /\ wire[o] = <<x>>
    <3>1. k = 1 /\ Len(wire[o]) = 1
      BY <2>1 DEF TakesUnits
    <3>a. b = <<>> \o SubSeq(<<x>>, 1, 1) /\ wire'[o] = SubSeq(<<x>>, 2, 1)
      BY <1>2, <2>1, <3>1 DEF TakesUnits
    <3> QED
      BY <1>s, <1>c, <2>1, <3>a
  <2>2. CASE j = 2 /\ readBuf[s] = <<>> /\ wire[o] = <<x, y>>
    <3>1. k \in {1, 2} /\ Len(wire[o]) = 2
      BY <2>2 DEF TakesUnits
    <3>2. CASE k = 1
      <4>a. b = <<>> \o SubSeq(<<x, y>>, 1, 1) /\ wire'[o] = SubSeq(<<x, y>>, 2, 2)
        BY <1>2, <2>2, <3>1, <3>2 DEF TakesUnits
      <4> QED
        BY <1>s, <1>c, <2>2, <4>a
    <3>3. CASE k = 2
      <4>a. b = <<>> \o SubSeq(<<x, y>>, 1, 2) /\ wire'[o] = SubSeq(<<x, y>>, 3, 2)
        BY <1>2, <2>2, <3>1, <3>3 DEF TakesUnits
      <4> QED
        BY <1>s, <1>c, <2>2, <4>a
    <3> QED
      BY <3>1, <3>2, <3>3
  <2>3. CASE j = 2 /\ readBuf[s] = <<x>> /\ wire[o] = <<y>>
    <3>1. k = 1 /\ Len(wire[o]) = 1
      BY <2>3 DEF TakesUnits
    <3>a. b = <<x>> \o SubSeq(<<y>>, 1, 1) /\ wire'[o] = SubSeq(<<y>>, 2, 1)
      BY <1>2, <2>3, <3>1 DEF TakesUnits
    <3> QED
      BY <1>s, <1>c, <2>3, <3>a
  <2> QED
    BY <1>5, <2>1, <2>2, <2>3
<1>8. HasMessage(b) => j = 2 /\ b[1][1] = n /\ b[2][1] = n
  BY <1>4, <1>6, <1>7
<1>9. ~HasMessage(b) /\ readBuf' = [readBuf EXCEPT ![s] = b] => Stream(o, n, j)'
  BY <1>1, <1>3, <1>6, <1>7 DEF Stream, x, y
<1>10. HasMessage(b) /\ readBuf' = [readBuf EXCEPT ![s] = TakeMessage(b)] => Stream(o, n, 0)'
  BY <1>1, <1>3, <1>6, <1>7 DEF Stream
<1> QED
  BY <1>8, <1>9, <1>10 DEF StreamRead

-----------------------------------------------------------------------------
(* A call moves from place to place.                                       *)

LEMMA CoroutineFacts ==
  ASSUME NEW what, NEW n
  PROVE  /\ Coroutine(what, n) # <<>>
         /\ Head(Coroutine(what, n)).what = what /\ Head(Coroutine(what, n)).id = n
         /\ Tail(Coroutine(what, n)) = <<>>
         /\ Append(<<>>, [what |-> what, id |-> n]) = Coroutine(what, n)
<1>1. Append(<<>>, [what |-> what, id |-> n]) = Coroutine(what, n)
  BY ShortAppend DEF Coroutine
<1> QED
  BY <1>1 DEF Coroutine

\* What a side holds tells where the call is.
LEMMA PlaceOf ==
  ASSUME PatientInv
  PROVE  /\ spawned["client"] # <<>> => status = "waiting" /\ (RequestSpawned(call) \/ Resuming(call))
         /\ spawned["server"] # <<>> => status = "waiting" /\ AnswerSpawned(call)
         /\ sends["client"] # {} => status = "waiting" /\ RequestWriting(call)
         /\ sends["server"] # {} => status = "waiting" /\ AnswerWriting(call)
         /\ working # {} => status = "waiting" /\ Serving(call)
BY DEF PatientInv, OnePlace, Places, RequestSpawned, RequestWriting, RequestWritten, Serving,
       AnswerSpawned, AnswerWriting, AnswerWritten, Resuming, Lost, Quiet, Nothing, Holds

LEMMA QuietStays ==
  ASSUME Quiet(call), UNCHANGED <<spawned, sends, wire, readBuf, working, entries>>
  PROVE  Quiet(call)'
BY DEF Quiet, Nothing, Holds, Stream

LEMMA ClientPatient ==
  ASSUME RpcInv, ~givenUp, ~givenUp', ClientStep
  PROVE  PatientInv'
<1>0. PatientInv /\ TypeOK
  BY DEF RpcInv
<1>1. CASE Connect \/ Call \/ Quit
  <2>1. /\ status # "waiting" /\ status' # "waiting"
        /\ UNCHANGED <<spawned, sends, wire, readBuf, working, entries, answer, dangling>>
    BY <1>1 DEF Connect, Call, Quit
  <2> QED
    BY <1>0, <2>1, QuietStays DEF PatientInv, OnePlace
<1>2. CASE StubTimeout
  BY <1>2 DEF StubTimeout
<1>3. CASE StartCall
  <2>1. status # "waiting" /\ Quiet(call) /\ UNCHANGED <<call, sends, wire, readBuf, working, answer, dangling>>
    BY <1>0, <1>3 DEF StartCall, PatientInv, OnePlace
  <2>2. CASE CallFails /\ UNCHANGED <<spawned, entries>>
    BY <1>0, <2>1, <2>2, QuietStays DEF CallFails, PatientInv, OnePlace
  <2>3. CASE CallMethod /\ status' = "waiting"
    <3>1. spawned["client"] = <<>> /\ entries = {}
      BY <2>1 DEF Quiet, Nothing, Holds
    <3>2. spawned'["client"] = Coroutine("send", call) /\ spawned'["server"] = spawned["server"]
      BY <1>0, <2>3, <3>1, CoroutineFacts, OtherFacts DEF CallMethod, Spawn, TypeOK
    <3>3. RequestSpawned(call)'
      BY <2>1, <2>3, <3>1, <3>2 DEF CallMethod, RequestSpawned, Quiet, Nothing, Holds, Stream
    <3> QED
      BY <1>0, <2>1, <2>3, <3>3 DEF PatientInv, OnePlace, Places
  <2> QED
    BY <1>3, <2>2, <2>3 DEF StartCall
<1>4. CASE ResumeCaller
  <2>1. status = "waiting" /\ Resuming(call)
    BY <1>0, <1>4, PlaceOf, CoroutineFacts DEF ResumeCaller, RequestSpawned, Holds
  <2>2. spawned["client"] = Coroutine("resume", call)
    BY <2>1 DEF Resuming, Holds
  <2>3. Head(spawned["client"]).id = call /\ Tail(spawned["client"]) = <<>>
    BY <2>2, CoroutineFacts
  <2>4. spawned'["client"] = <<>> /\ spawned'["server"] = spawned["server"]
    BY <1>0, <1>4, <2>3, OtherFacts DEF ResumeCaller, TypeOK
  <2>5. status' # "waiting" /\ UNCHANGED <<dangling, call, entries, answer, sends, wire, readBuf, working>>
    BY <1>4, <2>1, <2>3 DEF ResumeCaller, CallFails
  <2>6. Quiet(call)'
    BY <2>1, <2>4, <2>5 DEF Quiet, Resuming, Nothing, Holds, Stream
  <2> QED
    BY <1>0, <2>5, <2>6 DEF PatientInv, OnePlace
<1> QED
  BY <1>1, <1>2, <1>3, <1>4 DEF ClientStep

LEMMA SendPatient ==
  ASSUME RpcInv, ~givenUp, NEW s \in Sides, StartSend(s)
  PROVE  PatientInv'
<1>0. PatientInv /\ TypeOK
  BY DEF RpcInv
<1>1. /\ UNCHANGED <<call, status, entries, answer, connected, reader, wire, readBuf, working>>
      /\ spawned[s] # <<>> /\ Head(spawned[s]).what = "send"
      /\ spawned' = [spawned EXCEPT ![s] = Tail(@)]
  BY DEF StartSend, clientVars
<1>2. CASE s = "client"
  <2>1. RequestSpawned(call) /\ status = "waiting"
    BY <1>0, <1>1, <1>2, PlaceOf, CoroutineFacts DEF Resuming, Holds
  <2>2. spawned["client"] = Coroutine("send", call) /\ sends["client"] = {} /\ spawned["server"] = <<>> /\ sends["server"] = {}
    BY <2>1 DEF RequestSpawned, Nothing, Holds
  <2>3. spawned'["client"] = <<>> /\ spawned'["server"] = <<>>
    BY <1>0, <1>1, <1>2, <2>2, CoroutineFacts, OtherFacts DEF TypeOK
  <2>4. ~ChannelGone(s) /\ ~dangling'
    BY <1>0, <1>2 DEF StartSend, ChannelGone, PatientInv
  <2>5. CASE BeginSend(s, Head(spawned[s]).id, FALSE)
    <3>1. sends'["client"] = {Sender(call, 1, FALSE)} /\ sends'["server"] = {} /\ writeBuf'["client"] = call
      BY <1>0, <1>2, <2>2, <2>5, CoroutineFacts, OtherFacts DEF BeginSend, Sender, TypeOK
    <3>2. RequestWriting(call)'
      <4>1. 1 \in 1..2 /\ 1 - 1 = 0
        OBVIOUS
      <4>2. Holds("client", call, <<>>, {Sender(call, 1, FALSE)}, 0)'
        BY <1>1, <2>1, <2>3, <3>1 DEF RequestSpawned, Holds, Stream, Sender
      <4>3. Nothing("server", call)'
        BY <1>1, <2>1, <2>3, <3>1 DEF RequestSpawned, Nothing, Holds, Stream
      <4>4. working' = {} /\ entries' = {call'}
        BY <1>1, <2>1 DEF RequestSpawned
      <4> QED
        BY <1>1, <3>1, <4>1, <4>2, <4>3, <4>4 DEF RequestWriting
    <3> QED
      BY <1>0, <1>1, <2>1, <2>4, <3>2 DEF PatientInv, OnePlace, Places
  <2>6. CASE UNCHANGED <<writeBuf, sends>>
    <3>1. Holds("client", call, <<>>, {}, 0)' /\ Holds("server", call, <<>>, {}, 0)'
      BY <1>1, <2>1, <2>2, <2>3, <2>6 DEF RequestSpawned, Nothing, Holds, Stream
    <3>2. 0 \in 0..1
      OBVIOUS
    <3>3. Lost(call)'
      BY <1>1, <2>1, <3>1, <3>2 DEF Lost, RequestSpawned
    <3> QED
      BY <1>0, <1>1, <2>1, <2>4, <3>3 DEF PatientInv, OnePlace, Places
  <2> QED
    BY <2>5, <2>6 DEF StartSend
<1>3. CASE s = "server"
  <2>1. AnswerSpawned(call) /\ status = "waiting"
    BY <1>0, <1>1, <1>3, PlaceOf
  <2>2. spawned["server"] = Coroutine("send", call) /\ sends["client"] = {} /\ spawned["client"] = <<>> /\ sends["server"] = {}
    BY <2>1 DEF AnswerSpawned, Nothing, Holds
  <2>3. spawned'["client"] = <<>> /\ spawned'["server"] = <<>>
    BY <1>0, <1>1, <1>3, <2>2, CoroutineFacts, OtherFacts DEF TypeOK
  <2>4. ~ChannelGone(s) /\ ~dangling' /\ connected[s]
    BY <1>0, <1>3, <2>1 DEF StartSend, ChannelGone, PatientInv, AnswerSpawned, BothConnected
  <2>5. BeginSend(s, Head(spawned[s]).id, FALSE)
    BY <2>4 DEF StartSend
  <2>6. sends'["server"] = {Sender(call, 1, FALSE)} /\ sends'["client"] = {} /\ writeBuf'["server"] = call
    BY <1>0, <1>3, <2>2, <2>5, CoroutineFacts, OtherFacts DEF BeginSend, Sender, TypeOK
  <2>7. AnswerWriting(call)'
    <3>1. 1 \in 1..2 /\ 1 - 1 = 0
      OBVIOUS
    <3>2. Holds("server", call, <<>>, {Sender(call, 1, FALSE)}, 0)'
      BY <1>1, <2>1, <2>3, <2>6 DEF AnswerSpawned, Holds, Stream, Sender
    <3>3. Nothing("client", call)'
      BY <1>1, <2>1, <2>3, <2>6 DEF AnswerSpawned, Nothing, Holds, Stream
    <3>4. working' = {} /\ entries' = {call'} /\ BothConnected' /\ reader'["server"] = "reading"
      BY <1>1, <2>1 DEF AnswerSpawned, BothConnected
    <3> QED
      BY <1>1, <2>6, <3>1, <3>2, <3>3, <3>4 DEF AnswerWriting
  <2> QED
    BY <1>0, <1>1, <2>1, <2>4, <2>7 DEF PatientInv, OnePlace, Places
<1> QED
  BY <1>2, <1>3, OtherFacts

LEMMA WritePatient ==
  ASSUME RpcInv, ~givenUp, NEW s \in Sides, NEW w \in sends[s], Write(s, w)
  PROVE  PatientInv'
<1>0. PatientInv /\ TypeOK
  BY DEF RpcInv
<1>1. /\ UNCHANGED <<call, status, entries, answer, connected, writeBuf, spawned, readBuf, working>>
      /\ wire' = [wire EXCEPT ![s] = Append(@, <<writeBuf[s], w.unit>>)]
      /\ sends' = [sends EXCEPT ![s] =
           (@ \ {w}) \cup (IF w.unit = 1 THEN {[w EXCEPT !.unit = 2]} ELSE {})]
      /\ reader' = [reader EXCEPT ![s] = IF w.awaited /\ w.unit = 2 THEN "reading" ELSE @]
      /\ connected[s] /\ dangling' = (dangling \/ ChannelGone(s))
  BY DEF Write, clientVars, Written
<1>2. \A n, u, a : /\ Sender(n, u, a).unit = u /\ Sender(n, u, a).awaited = a
                   /\ [Sender(n, u, a) EXCEPT !.unit = 2] = Sender(n, 2, a)
  BY DEF Sender
<1>3. CASE s = "client"
  <2>1. RequestWriting(call) /\ status = "waiting"
    BY <1>0, <1>3, PlaceOf
  <2>2. PICK u \in 1..2 : Holds("client", call, <<>>, {Sender(call, u, FALSE)}, u - 1)
    BY <2>1 DEF RequestWriting
  <2>a. sends[s] = {Sender(call, u, FALSE)}
    BY <1>3, <2>2 DEF Holds
  <2>b. w = Sender(call, u, FALSE)
    BY <2>a
  <2>c. writeBuf[s] = call
    BY <1>3, <2>1 DEF RequestWriting
  <2>3. w = Sender(call, u, FALSE) /\ w.unit = u /\ writeBuf[s] = call
    BY <1>2, <2>b, <2>c, ZenonT(60)
  <2>4. Stream("client", call, u)' /\ Stream("server", call, 0)'
    <3>1. Stream("client", call, u - 1) /\ Stream("server", call, 0)
      BY <2>1, <2>2 DEF RequestWriting, Holds, Nothing
    <3>2. wire' = [wire EXCEPT !["client"] = Append(@, <<call, u>>)]
      BY <1>1, <1>3, <2>3
    <3>n. PICK n : n = call
      OBVIOUS
    <3>a. Stream("client", n, u - 1) /\ wire' = [wire EXCEPT !["client"] = Append(@, <<n, u>>)]
      BY <3>1, <3>2, <3>n
    <3>b. Stream("client", n, u)'
      BY <1>0, <1>1, <3>a, WriteStream, OtherFacts
    <3>3. Stream("client", call, u)'
      BY <1>1, <3>n, <3>b DEF Stream
    <3>4. wire'["server"] = wire["server"]
      BY <1>0, <3>2, OtherFacts DEF TypeOK
    <3> QED
      BY <1>1, <3>1, <3>3, <3>4 DEF Stream
  <2>5. sends'["client"] = (IF u = 1 THEN {Sender(call, 2, FALSE)} ELSE {}) /\ sends'["server"] = {}
    <3>1. sends["server"] = {}
      BY <2>1 DEF RequestWriting, Nothing, Holds
    <3>2. sends'["server"] = sends["server"]
      BY <1>0, <1>1, <1>3, OtherFacts DEF TypeOK
    <3>3. sends'[s] = (sends[s] \ {w}) \cup (IF w.unit = 1 THEN {[w EXCEPT !.unit = 2]} ELSE {})
      BY <1>0, <1>1 DEF TypeOK
    <3>4. sends[s] \ {w} = {}
      BY <2>a, <2>b
    <3>5. [w EXCEPT !.unit = 2] = Sender(call, 2, FALSE)
      BY <1>2, <2>b
    <3>6. sends'[s] = IF u = 1 THEN {Sender(call, 2, FALSE)} ELSE {}
      BY <2>3, <3>3, <3>4, <3>5
    <3> QED
      BY <1>3, <3>1, <3>2, <3>6
  <2>6. spawned'["client"] = <<>> /\ spawned'["server"] = <<>> /\ working' = {} /\ entries' = {call'}
    BY <1>1, <2>1, <2>2 DEF Holds, RequestWriting, Nothing
  <2>7. ~dangling'
    BY <1>0, <1>1, <1>3 DEF ChannelGone, PatientInv
  <2>8. Nothing("server", call)'
    BY <2>4, <2>5, <2>6 DEF Nothing, Holds
  <2>9. CASE u = 1
    <3>1. 2 \in 1..2 /\ 2 - 1 = 1
      OBVIOUS
    <3>2. Holds("client", call, <<>>, {Sender(call, 2, FALSE)}, 1)'
      BY <1>1, <2>4, <2>5, <2>6, <2>9 DEF Holds, Sender
    <3>3. RequestWriting(call)'
      BY <1>1, <1>3, <2>3, <2>6, <2>8, <3>1, <3>2 DEF RequestWriting
    <3> QED
      BY <1>0, <1>1, <2>1, <2>7, <3>3 DEF PatientInv, OnePlace, Places
  <2>10. CASE u = 2
    <3>1. RequestWritten(call)'
      BY <1>1, <1>3, <2>4, <2>5, <2>6, <2>8, <2>10 DEF RequestWritten, Holds
    <3> QED
      BY <1>0, <1>1, <2>1, <2>7, <3>1 DEF PatientInv, OnePlace, Places
  <2> QED
    BY <2>9, <2>10
<1>4. CASE s = "server"
  <2>1. AnswerWriting(call) /\ status = "waiting"
    BY <1>0, <1>4, PlaceOf
  <2>2. PICK u \in 1..2, a \in BOOLEAN :
          /\ Holds("server", call, <<>>, {Sender(call, u, a)}, u - 1)
          /\ reader["server"] = IF a THEN "sending" ELSE "reading"
    BY <2>1 DEF AnswerWriting
  <2>a. sends[s] = {Sender(call, u, a)}
    BY <1>4, <2>2 DEF Holds
  <2>b. w = Sender(call, u, a)
    BY <2>a
  <2>c. writeBuf[s] = call
    BY <1>4, <2>1 DEF AnswerWriting
  <2>3. w = Sender(call, u, a) /\ w.unit = u /\ w.awaited = a /\ writeBuf[s] = call
    BY <1>2, <2>b, <2>c
  <2>4. Stream("server", call, u)' /\ Stream("client", call, 0)'
    <3>1. Stream("server", call, u - 1) /\ Stream("client", call, 0)
      BY <2>1, <2>2 DEF AnswerWriting, Holds, Nothing
    <3>2. wire' = [wire EXCEPT !["server"] = Append(@, <<call, u>>)]
      BY <1>1, <1>4, <2>3
    <3>n. PICK n : n = call
      OBVIOUS
    <3>a. Stream("server", n, u - 1) /\ wire' = [wire EXCEPT !["server"] = Append(@, <<n, u>>)]
      BY <3>1, <3>2, <3>n
    <3>b. Stream("server", n, u)'
      BY <1>0, <1>1, <3>a, WriteStream, OtherFacts
    <3>3. Stream("server", call, u)'
      BY <1>1, <3>n, <3>b DEF Stream
    <3>4. wire'["client"] = wire["client"]
      BY <1>0, <3>2, OtherFacts DEF TypeOK
    <3> QED
      BY <1>1, <3>1, <3>3, <3>4 DEF Stream
  <2>5. sends'["server"] = (IF u = 1 THEN {Sender(call, 2, a)} ELSE {}) /\ sends'["client"] = {}
    <3>1. sends["client"] = {}
      BY <2>1 DEF AnswerWriting, Nothing, Holds
    <3>2. sends'["client"] = sends["client"]
      BY <1>0, <1>1, <1>4, OtherFacts DEF TypeOK
    <3>3. sends'[s] = (sends[s] \ {w}) \cup (IF w.unit = 1 THEN {[w EXCEPT !.unit = 2]} ELSE {})
      BY <1>0, <1>1 DEF TypeOK
    <3>4. sends[s] \ {w} = {}
      BY <2>a, <2>b
    <3>5. [w EXCEPT !.unit = 2] = Sender(call, 2, a)
      BY <1>2, <2>b
    <3>6. sends'[s] = IF u = 1 THEN {Sender(call, 2, a)} ELSE {}
      BY <2>3, <3>3, <3>4, <3>5
    <3> QED
      BY <1>4, <3>1, <3>2, <3>6
  <2>6. /\ spawned'["client"] = <<>> /\ spawned'["server"] = <<>> /\ working' = {} /\ entries' = {call'}
        /\ BothConnected'
    BY <1>1, <2>1, <2>2 DEF Holds, AnswerWriting, Nothing, BothConnected
  <2>7. ~dangling'
    BY <1>0, <1>1, <2>2 DEF ChannelGone, PatientInv
  <2>8. Nothing("client", call)'
    BY <2>4, <2>5, <2>6 DEF Nothing, Holds
  <2>9. CASE u = 1
    <3>1. 2 \in 1..2 /\ 2 - 1 = 1
      OBVIOUS
    <3>2. Holds("server", call, <<>>, {Sender(call, 2, a)}, 1)'
      BY <1>1, <2>4, <2>5, <2>6, <2>9 DEF Holds, Sender
    <3>3. reader'["server"] = reader["server"]
      BY <1>0, <1>1, <1>4, <2>3, <2>9, OtherFacts DEF TypeOK
    <3>4. AnswerWriting(call)'
      BY <1>1, <1>4, <2>2, <2>3, <2>6, <2>8, <3>1, <3>2, <3>3 DEF AnswerWriting
    <3> QED
      BY <1>0, <1>1, <2>1, <2>7, <3>4 DEF PatientInv, OnePlace, Places
  <2>10. CASE u = 2
    <3>1. AnswerWritten(call)'
      BY <1>1, <2>4, <2>5, <2>6, <2>8, <2>10 DEF AnswerWritten, Holds
    <3> QED
      BY <1>0, <1>1, <2>1, <2>7, <3>1 DEF PatientInv, OnePlace, Places
  <2> QED
    BY <2>9, <2>10
<1> QED
  BY <1>3, <1>4, OtherFacts

LEMMA WriteFailsPatient ==
  ASSUME RpcInv, ~givenUp, NEW s \in Sides, NEW w \in sends[s], WriteFails(s, w)
  PROVE  PatientInv'
<1>0. PatientInv /\ TypeOK
  BY DEF RpcInv
<1>1. /\ UNCHANGED <<call, status, entries, answer, writeBuf, spawned, wire, readBuf, working>>
      /\ sends' = [sends EXCEPT ![s] = @ \ {w}]
      /\ dangling' = (dangling \/ ChannelGone(s))
  BY DEF WriteFails, clientVars
<1>2. \A u \in 1..2 : u - 1 \in 0..1
  OBVIOUS
<1>3. 0 \in 0..1
  OBVIOUS
<1>4. CASE s = "client"
  <2>1. RequestWriting(call) /\ status = "waiting"
    BY <1>0, <1>4, PlaceOf
  <2>2. PICK u \in 1..2 : Holds("client", call, <<>>, {Sender(call, u, FALSE)}, u - 1)
    BY <2>1 DEF RequestWriting
  <2>3. sends'["client"] = {} /\ sends'["server"] = {}
    BY <1>0, <1>1, <1>4, <2>1, <2>2, OtherFacts DEF TypeOK, Holds, RequestWriting, Nothing
  <2>4. Holds("client", call, <<>>, {}, u - 1)' /\ Holds("server", call, <<>>, {}, 0)'
    BY <1>1, <2>1, <2>2, <2>3 DEF RequestWriting, Nothing, Holds, Stream
  <2>5. Lost(call)'
    BY <1>1, <1>2, <1>3, <2>1, <2>4 DEF Lost, RequestWriting
  <2>6. ~dangling'
    BY <1>0, <1>1, <1>4 DEF ChannelGone, PatientInv
  <2> QED
    BY <1>0, <1>1, <2>1, <2>5, <2>6 DEF PatientInv, OnePlace, Places
<1>5. CASE s = "server"
  <2>1. AnswerWriting(call) /\ status = "waiting"
    BY <1>0, <1>5, PlaceOf
  <2>2. PICK u \in 1..2, a \in BOOLEAN :
          /\ Holds("server", call, <<>>, {Sender(call, u, a)}, u - 1)
          /\ reader["server"] = IF a THEN "sending" ELSE "reading"
    BY <2>1 DEF AnswerWriting
  <2>3. sends'["client"] = {} /\ sends'["server"] = {}
    BY <1>0, <1>1, <1>5, <2>1, <2>2, OtherFacts DEF TypeOK, Holds, AnswerWriting, Nothing
  <2>4. Holds("server", call, <<>>, {}, u - 1)' /\ Holds("client", call, <<>>, {}, 0)'
    BY <1>1, <2>1, <2>2, <2>3 DEF AnswerWriting, Nothing, Holds, Stream
  <2>5. Lost(call)'
    BY <1>1, <1>2, <1>3, <2>1, <2>4 DEF Lost, AnswerWriting
  <2>6. ~dangling'
    BY <1>0, <1>1, <2>2 DEF ChannelGone, PatientInv
  <2> QED
    BY <1>0, <1>1, <2>1, <2>5, <2>6 DEF PatientInv, OnePlace, Places
<1> QED
  BY <1>4, <1>5, OtherFacts

\* A place is kept when both streams are and nothing else changes.
LEMMA PlacesStay ==
  ASSUME NEW n, UNCHANGED <<spawned, sends, working, entries, connected, reader, writeBuf>>,
         \A r \in Sides, j \in 0..2 : Stream(r, n, j) => Stream(r, n, j)'
  PROVE  (Places(n) => Places(n)') /\ (Quiet(n) => Quiet(n)')
<1>1. \A r \in Sides, j \in 0..2 : \A q, m : Holds(r, n, q, m, j) => Holds(r, n, q, m, j)'
  BY DEF Holds
<1>2. \A r \in Sides : Nothing(r, n) => Nothing(r, n)'
  BY <1>1 DEF Nothing
<1>3. \A u \in 1..2 : u - 1 \in 0..2
  OBVIOUS
<1>4. 0 \in 0..2 /\ 2 \in 0..2 /\ \A i \in 0..1 : i \in 0..2
  OBVIOUS
<1>5. Quiet(n) => Quiet(n)'
  BY <1>2, OtherFacts DEF Quiet
<1>6. RequestSpawned(n) => RequestSpawned(n)'
  BY <1>1, <1>2, <1>4, OtherFacts DEF RequestSpawned
<1>7. RequestWriting(n) => RequestWriting(n)'
  <2> SUFFICES ASSUME RequestWriting(n) PROVE RequestWriting(n)'
    OBVIOUS
  <2>1. PICK u \in 1..2 : Holds("client", n, <<>>, {Sender(n, u, FALSE)}, u - 1)
    BY DEF RequestWriting
  <2>2. Holds("client", n, <<>>, {Sender(n, u, FALSE)}, u - 1)'
    BY <1>1, <1>3, <2>1, OtherFacts
  <2> QED
    BY <1>2, <2>2, OtherFacts DEF RequestWriting
<1>8. RequestWritten(n) => RequestWritten(n)'
  BY <1>1, <1>2, <1>4, OtherFacts DEF RequestWritten
<1>9. Serving(n) => Serving(n)'
  BY <1>2, OtherFacts DEF Serving, BothConnected
<1>10. AnswerSpawned(n) => AnswerSpawned(n)'
  BY <1>1, <1>2, <1>4, OtherFacts DEF AnswerSpawned, BothConnected
<1>11. AnswerWriting(n) => AnswerWriting(n)'
  <2> SUFFICES ASSUME AnswerWriting(n) PROVE AnswerWriting(n)'
    OBVIOUS
  <2>1. PICK u \in 1..2, a \in BOOLEAN :
          /\ Holds("server", n, <<>>, {Sender(n, u, a)}, u - 1)
          /\ reader["server"] = IF a THEN "sending" ELSE "reading"
    BY DEF AnswerWriting
  <2>2. Holds("server", n, <<>>, {Sender(n, u, a)}, u - 1)'
    BY <1>1, <1>3, <2>1, OtherFacts
  <2> QED
    BY <1>2, <2>1, <2>2, OtherFacts DEF AnswerWriting, BothConnected
<1>12. AnswerWritten(n) => AnswerWritten(n)'
  BY <1>1, <1>2, <1>4, OtherFacts DEF AnswerWritten
<1>13. Resuming(n) => Resuming(n)'
  BY <1>1, <1>2, <1>4, OtherFacts DEF Resuming
<1>14. Lost(n) => Lost(n)'
  BY <1>1, <1>4, OtherFacts DEF Lost
<1> QED
  BY <1>5, <1>6, <1>7, <1>8, <1>9, <1>10, <1>11, <1>12, <1>13, <1>14 DEF Places

\* A whole message is between the sides in two places only.
LEMMA MessagePlace ==
  ASSUME PatientInv, NEW n, n = call, NEW s \in Sides,
         \A j \in 0..2 : Stream(s, n, j) => j = 2
  PROVE  /\ status = "waiting"
         /\ s = "client" => RequestWritten(n)
         /\ s = "server" => AnswerWritten(n)
<1>1. \A j \in 0..1 : \A q, m : ~Holds(s, n, q, m, j)
  BY DEF Holds
<1>2. ~Nothing(s, n)
  BY <1>1 DEF Nothing
<1>3. \A u \in 1..2 : u - 1 \in 0..1
  OBVIOUS
<1>4. 0 \in 0..1
  OBVIOUS
<1>5. status = "waiting" /\ Places(n)
  BY <1>2, OtherFacts DEF PatientInv, OnePlace, Quiet
<1>6. ~Lost(n)
  BY <1>1, OtherFacts DEF Lost
<1>7. ~RequestSpawned(n) /\ ~Serving(n) /\ ~AnswerSpawned(n) /\ ~Resuming(n)
  BY <1>1, <1>2, <1>4, OtherFacts DEF RequestSpawned, Serving, AnswerSpawned, Resuming
<1>8. ~RequestWriting(n)
  BY <1>1, <1>2, <1>3, OtherFacts DEF RequestWriting
<1>9. ~AnswerWriting(n)
  <2> SUFFICES ASSUME AnswerWriting(n) PROVE FALSE
    OBVIOUS
  <2>1. s = "server"
    BY <1>2, OtherFacts DEF AnswerWriting
  <2>2. PICK u \in 1..2, a \in BOOLEAN : Holds("server", n, <<>>, {Sender(n, u, a)}, u - 1)
    BY DEF AnswerWriting
  <2> QED
    BY <1>1, <1>3, <2>1, <2>2
<1>10. (s = "client" => ~AnswerWritten(n)) /\ (s = "server" => ~RequestWritten(n))
  BY <1>2 DEF AnswerWritten, RequestWritten
<1> QED
  BY <1>5, <1>6, <1>7, <1>8, <1>9, <1>10, OtherFacts DEF Places

LEMMA ReadPatient ==
  ASSUME RpcInv, ~givenUp, NEW s \in Sides, NEW k, Read(s, k)
  PROVE  PatientInv'
<1>0. PatientInv /\ TypeOK
  BY DEF RpcInv
<1>n. PICK n : n = call
  OBVIOUS
<1> DEFINE o == Other(s)
           b == readBuf[s] \o SubSeq(wire[o], 1, k)
<1>o. o \in Sides /\ o # s /\ Other(o) = s
  BY OtherFacts
<1>1. /\ reader[s] = "reading" /\ connected[s] /\ k \in 1..Len(wire[o])
      /\ wire' = [wire EXCEPT ![o] = SubSeq(@, k + 1, Len(@))]
      /\ UNCHANGED <<connected, givenUp>>
      /\ \/ /\ ~HasMessage(b)
            /\ readBuf' = [readBuf EXCEPT ![s] = b]
            /\ UNCHANGED <<clientVars, writeBuf, spawned, sends, reader, working, dangling>>
         \/ /\ HasMessage(b)
            /\ readBuf' = [readBuf EXCEPT ![s] = TakeMessage(b)]
            /\ IF s = "client" THEN DoClientRpc(b[1][1], b[2][1]) ELSE DoServerRpc(b[1][1])
  BY DEF Read
<1>2. \A j \in 0..2 : Stream(o, n, j) => StreamRead(s, o, n, j, b)
  <2>1. TakesUnits(o, k)
    BY <1>1 DEF TakesUnits
  <2> QED
    BY <1>0, <2>1, ReadStream
<1> HIDE DEF o, b
<1>3. \A j \in 0..2 : Stream(s, n, j) => Stream(s, n, j)'
  <2>1. wire'[s] = wire[s] /\ readBuf'[o] = readBuf[o]
    BY <1>0, <1>1, <1>o DEF TypeOK
  <2>2. Other(s) = o
    BY DEF o
  <2> QED
    BY <2>1, <2>2 DEF Stream
<1>4. CASE ~HasMessage(b)
  <2>1. UNCHANGED <<call, status, entries, answer, writeBuf, spawned, sends, reader, working, dangling, connected>>
    BY <1>1, <1>4 DEF clientVars
  <2>2. \A r \in Sides, j \in 0..2 : Stream(r, n, j) => Stream(r, n, j)'
    <3>1. \A j \in 0..2 : Stream(o, n, j) => Stream(o, n, j)'
      BY <1>1, <1>2, <1>4 DEF StreamRead
    <3> QED
      BY <1>3, <1>o, <3>1, OtherFacts
  <2>3. (Places(n) => Places(n)') /\ (Quiet(n) => Quiet(n)')
    BY <2>1, <2>2, PlacesStay
  <2>4. (Places(call) => Places(call)') /\ (Quiet(call) => Quiet(call)')
    <3>1. call = n /\ call' = n
      BY <1>n, <2>1
    <3> QED
      BY <2>3, <3>1
  <2> QED
    BY <1>0, <2>1, <2>4 DEF PatientInv, OnePlace
<1>5. CASE HasMessage(b) /\ s = "server"
  <2>1. DoServerRpc(n) /\ RequestWritten(n) /\ status = "waiting" /\ Stream("client", n, 0)'
    <3>1. o = "client"
      BY <1>5, OtherFacts DEF o
    <3>2. \A j \in 0..2 : Stream("client", n, j) => j = 2
      BY <1>2, <1>5, <3>1 DEF StreamRead
    <3>3. status = "waiting" /\ RequestWritten(n)
      BY <1>0, <1>n, <3>2, MessagePlace, OtherFacts
    <3>4. Stream("client", n, 2) /\ 2 \in 0..2
      BY <3>3 DEF RequestWritten, Holds
    <3>5. Stream("client", n, 0)' /\ b[1][1] = n
      BY <1>1, <1>2, <1>5, <3>1, <3>4 DEF StreamRead
    <3>6. DoServerRpc(n)
      BY <1>1, <1>5, <3>5
    <3> QED
      BY <3>3, <3>5, <3>6
  <2>2. /\ UNCHANGED <<call, status, entries, answer, spawned, dangling>>
        /\ spawned["client"] = <<>> /\ spawned["server"] = <<>>
        /\ sends["client"] = {} /\ sends["server"] = {}
        /\ working = {} /\ entries = {n}
    BY <2>1 DEF DoServerRpc, clientVars, RequestWritten, Nothing, Holds
  <2>3. Stream("server", n, 0)'
    BY <1>3, <1>5, <2>1 DEF RequestWritten, Nothing, Holds
  <2>4. BothConnected'
    BY <1>1, <1>5, <2>1 DEF RequestWritten, BothConnected
  <2>5. CASE working' = working \cup {n} /\ UNCHANGED <<writeBuf, sends, reader>>
    <3>1. Nothing("client", n)' /\ Nothing("server", n)'
      BY <2>1, <2>2, <2>3, <2>5 DEF Nothing, Holds
    <3>2. working' = {n}
      BY <2>2, <2>5
    <3>3. Serving(n)'
      BY <1>1, <1>5, <2>2, <2>4, <2>5, <3>1, <3>2 DEF Serving
    <3> QED
      BY <1>0, <1>n, <2>1, <2>2, <3>3 DEF PatientInv, OnePlace, Places
  <2>6. CASE /\ BeginSend("server", n, TRUE)
             /\ reader' = [reader EXCEPT !["server"] = "sending"]
             /\ UNCHANGED working
    <3>1. sends'["server"] = {Sender(n, 1, TRUE)} /\ sends'["client"] = {} /\ writeBuf'["server"] = n
      BY <1>0, <2>2, <2>6, OtherFacts DEF BeginSend, Sender, TypeOK
    <3>2. reader'["server"] = "sending"
      BY <1>0, <2>6, OtherFacts DEF TypeOK
    <3>3. 1 \in 1..2 /\ 1 - 1 = 0
      OBVIOUS
    <3>4. Holds("server", n, <<>>, {Sender(n, 1, TRUE)}, 0)'
      BY <2>2, <2>3, <3>1 DEF Holds, Sender
    <3>5. Nothing("client", n)'
      BY <2>1, <2>2, <3>1 DEF Nothing, Holds
    <3>6. AnswerWriting(n)'
      BY <2>2, <2>4, <2>6, <3>1, <3>2, <3>3, <3>4, <3>5 DEF AnswerWriting
    <3> QED
      BY <1>0, <1>n, <2>1, <2>2, <3>6 DEF PatientInv, OnePlace, Places
  <2> QED
    BY <2>1, <2>5, <2>6 DEF DoServerRpc
<1>6. CASE HasMessage(b) /\ s = "client"
  <2>1. DoClientRpc(n, n) /\ AnswerWritten(n) /\ status = "waiting" /\ Stream("server", n, 0)'
    <3>1. o = "server"
      BY <1>6, OtherFacts DEF o
    <3>2. \A j \in 0..2 : Stream("server", n, j) => j = 2
      BY <1>2, <1>6, <3>1 DEF StreamRead
    <3>3. status = "waiting" /\ AnswerWritten(n)
      BY <1>0, <1>n, <3>2, MessagePlace, OtherFacts
    <3>4. Stream("server", n, 2) /\ 2 \in 0..2
      BY <3>3 DEF AnswerWritten, Holds
    <3>5. Stream("server", n, 0)' /\ b[1][1] = n /\ b[2][1] = n
      BY <1>1, <1>2, <1>6, <3>1, <3>4 DEF StreamRead
    <3>6. DoClientRpc(n, n)
      BY <1>1, <1>6, <3>5
    <3> QED
      BY <3>3, <3>5, <3>6
  <2>2. /\ spawned["client"] = <<>> /\ spawned["server"] = <<>>
        /\ sends["client"] = {} /\ sends["server"] = {}
        /\ working = {} /\ entries = {n}
    BY <2>1 DEF AnswerWritten, Nothing, Holds
  <2>3. /\ entries' = {} /\ UNCHANGED <<call, status, sends, working, dangling>>
        /\ answer' = [answer EXCEPT ![n] = n]
        /\ Spawn("client", "resume", n)
    BY <1>n, <2>1, <2>2 DEF DoClientRpc
  <2>4. Stream("client", n, 0)'
    BY <1>3, <1>6, <2>1 DEF AnswerWritten, Nothing, Holds
  <2>5. spawned'["client"] = Coroutine("resume", n) /\ spawned'["server"] = <<>>
    BY <1>0, <2>2, <2>3, CoroutineFacts, OtherFacts DEF Spawn, TypeOK
  <2>6. Holds("client", n, Coroutine("resume", n), {}, 0)' /\ Nothing("server", n)'
    BY <2>1, <2>2, <2>3, <2>4, <2>5 DEF Nothing, Holds, Coroutine
  <2>7. Resuming(n)'
    BY <2>2, <2>3, <2>6 DEF Resuming
  <2>8. \A m \in Calls : answer'[m] \in {0, m}
    BY <1>0, <2>3 DEF PatientInv, TypeOK
  <2> QED
    BY <1>0, <1>n, <2>1, <2>3, <2>7, <2>8 DEF PatientInv, OnePlace, Places
<1> QED
  BY <1>4, <1>5, <1>6, OtherFacts

LEMMA ReadEndsPatient ==
  ASSUME RpcInv, ~givenUp, ~givenUp', NEW s \in Sides, NEW early \in BOOLEAN, ReadEnds(s, early)
  PROVE  PatientInv'
<1>0. PatientInv /\ TypeOK
  BY DEF RpcInv
<1>n. PICK n : n = call
  OBVIOUS
<1>1. /\ UNCHANGED <<call, status, entries, answer, writeBuf, spawned, sends, wire, readBuf, working, dangling>>
      /\ connected' = [connected EXCEPT ![s] = FALSE]
      /\ reader' = [reader EXCEPT ![s] = "done"]
      /\ ~(early /\ Unanswered(s))
      /\ early \/ ~connected[s] \/ ~connected[Other(s)]
  BY DEF ReadEnds, clientVars
<1>2. CASE status # "waiting"
  <2>1. Quiet(call)'
    BY <1>0, <1>1, <1>2, QuietStays DEF PatientInv, OnePlace
  <2> QED
    BY <1>0, <1>1, <1>2, <2>1 DEF PatientInv, OnePlace
<1>3. CASE status = "waiting"
  <2>1. Places(n)
    BY <1>0, <1>n, <1>3 DEF PatientInv, OnePlace
  <2>2. ~early => ~BothConnected
    BY <1>1, OtherFacts DEF BothConnected
  <2>3. early => s = "server" /\ working = {} /\ spawned["server"] = <<>> /\ sends["server"] = {}
    BY <1>1, <1>3, OtherFacts DEF Unanswered
  <2>4. ~Serving(n) /\ ~AnswerSpawned(n) /\ ~AnswerWriting(n)
    <3>1. CASE ~early
      BY <2>2, <3>1 DEF Serving, AnswerSpawned, AnswerWriting
    <3>2. CASE early
      <4>1. Coroutine("send", n) # <<>>
        BY CoroutineFacts
      <4> QED
        BY <2>3, <3>2, <4>1 DEF Serving, AnswerSpawned, AnswerWriting, Holds
    <3> QED
      BY <3>1, <3>2
  <2>5. \A r, q, m, j : Holds(r, n, q, m, j) => Holds(r, n, q, m, j)'
    BY <1>1 DEF Holds, Stream
  <2>6. \A r : Nothing(r, n) => Nothing(r, n)'
    BY <2>5 DEF Nothing
  <2>7. RequestWritten(n) => connected'["client"] \/ ~connected'["server"]
    <3>1. CASE s = "server"
      BY <1>0, <1>1, <3>1, OtherFacts DEF TypeOK
    <3>2. CASE s = "client"
      <4>1. ~BothConnected
        BY <2>2, <2>3, <3>2
      <4>2. connected'["server"] = connected["server"]
        BY <1>0, <1>1, <3>2, OtherFacts DEF TypeOK
      <4> QED
        BY <4>1, <4>2 DEF BothConnected, RequestWritten
    <3> QED
      BY <3>1, <3>2, OtherFacts
  <2>8. RequestSpawned(n) => RequestSpawned(n)'
    BY <1>1, <2>5, <2>6 DEF RequestSpawned
  <2>9. RequestWriting(n) => RequestWriting(n)'
    BY <1>1, <2>5, <2>6 DEF RequestWriting
  <2>10. RequestWritten(n) => RequestWritten(n)'
    BY <1>1, <2>5, <2>6, <2>7 DEF RequestWritten
  <2>11. AnswerWritten(n) => AnswerWritten(n)'
    BY <1>1, <2>5, <2>6 DEF AnswerWritten
  <2>12. Resuming(n) => Resuming(n)'
    BY <1>1, <2>5, <2>6 DEF Resuming
  <2>13. Lost(n) => Lost(n)'
    BY <1>1, <2>5 DEF Lost
  <2>14. Places(n)'
    BY <2>1, <2>4, <2>8, <2>9, <2>10, <2>11, <2>12, <2>13 DEF Places
  <2> QED
    BY <1>0, <1>1, <1>n, <1>3, <2>14 DEF PatientInv, OnePlace
<1> QED
  BY <1>2, <1>3

LEMMA DonePatient ==
  ASSUME RpcInv, ~givenUp, NEW id \in Calls, Done(id)
  PROVE  PatientInv'
<1>0. PatientInv /\ TypeOK
  BY DEF RpcInv
<1>1. Serving(call) /\ status = "waiting"
  BY <1>0, PlaceOf DEF Done
<1>2. id = call /\ connected["server"] /\ ~ChannelGone("server")
  BY <1>1 DEF Done, Serving, BothConnected, ChannelGone
<1>3. /\ UNCHANGED <<call, status, entries, answer, connected, writeBuf, sends, reader, wire, readBuf>>
      /\ working' = {} /\ ~dangling' /\ Spawn("server", "send", call)
  BY <1>0, <1>1, <1>2 DEF Done, clientVars, Serving, PatientInv
<1>4. spawned["client"] = <<>> /\ spawned["server"] = <<>>
  BY <1>1 DEF Serving, Nothing, Holds
<1>5. spawned'["server"] = Coroutine("send", call) /\ spawned'["client"] = <<>>
  BY <1>0, <1>3, <1>4, CoroutineFacts, OtherFacts DEF Spawn, TypeOK
<1>6. AnswerSpawned(call)'
  BY <1>1, <1>3, <1>5 DEF AnswerSpawned, Serving, Nothing, Holds, Stream, BothConnected, Coroutine
<1> QED
  BY <1>0, <1>1, <1>3, <1>6 DEF PatientInv, OnePlace, Places

LEMMA PatiencePreserved ==
  ASSUME RpcInv, ~givenUp, ~givenUp', [Next]_vars
  PROVE  PatientInv'
<1>1. CASE UNCHANGED vars
  <2>1. PatientInv
    BY DEF RpcInv
  <2>2. UNCHANGED <<call, status, entries, answer, connected, writeBuf, spawned, sends, reader, wire,
                    readBuf, working, dangling>>
    BY <1>1 DEF vars, clientVars
  <2> QED
    BY <2>1, <2>2, ZenonT(60) DEF PatientInv, OnePlace, Places, RequestSpawned, RequestWriting, RequestWritten, Serving,
       AnswerSpawned, AnswerWriting, AnswerWritten, Resuming, Lost, Quiet, Nothing, Holds, Stream, BothConnected
<1>2. CASE ClientStep
  BY <1>2, ClientPatient
<1>3. ASSUME NEW s \in Sides, ChannelStep(s) PROVE PatientInv'
  BY <1>3, SendPatient, WritePatient, WriteFailsPatient, ReadPatient, ReadEndsPatient DEF ChannelStep
<1>4. ASSUME NEW id \in Calls, Done(id) PROVE PatientInv'
  BY <1>4, DonePatient
<1> QED
  BY <1>1, <1>2, <1>3, <1>4 DEF Next

-----------------------------------------------------------------------------
(* The theorems.                                                           *)

LEMMA GivenUpForGood ==
  ASSUME TypeOK, [Next]_vars, ~givenUp'
  PROVE  ~givenUp
BY ZenonT(60) DEF TypeOK, Next, vars, clientVars, ClientStep, ChannelStep, Connect, Call, Quit, StartCall, StubTimeout, ResumeCaller,
       StartSend, Write, WriteFails, Read, ReadEnds, Done

LEMMA RpcInvInit == Init => RpcInv
<1> SUFFICES ASSUME Init PROVE RpcInv
  OBVIOUS
<1>1. TypeOK
  <2>1. 0 \in 0..MaxCalls
    BY CallsFacts
  <2>2. /\ spawned \in [Sides -> Seq([what : {"send", "resume"}, id : Calls])]
        /\ wire \in [Sides -> Seq(Calls \X (1..2))] /\ readBuf \in [Sides -> Seq(Calls \X (1..2))]
    BY DEF Init
  <2>3. /\ sends \in [Sides -> SUBSET [id : Calls, unit : 1..2, awaited : BOOLEAN]]
        /\ connected \in [Sides -> BOOLEAN] /\ givenUp \in BOOLEAN /\ dangling \in BOOLEAN
    BY DEF Init
  <2> QED
    BY <2>1, <2>2, <2>3 DEF Init, TypeOK
<1>2. BufferFilled
  BY DEF Init, BufferFilled
<1>3. Quiet(call)
  BY OtherFacts DEF Init, Quiet, Nothing, Holds, Stream
<1>4. PatientInv
  BY <1>3 DEF Init, PatientInv, OnePlace
<1> QED
  BY <1>1, <1>2, <1>4 DEF RpcInv

LEMMA RpcInvStep == RpcInv /\ [Next]_vars => RpcInv'
<1> SUFFICES ASSUME RpcInv, [Next]_vars PROVE RpcInv'
  OBVIOUS
<1>1. TypeOK' /\ BufferFilled'
  BY TypesPreserved DEF RpcInv
<1>2. ~givenUp' => PatientInv'
  BY GivenUpForGood, PatiencePreserved DEF RpcInv
<1> QED
  BY <1>1, <1>2 DEF RpcInv

\* The streams between the sides hold the first units of the one call's message.
LEMMA StreamsOf ==
  ASSUME PatientInv, NEW s \in Sides
  PROVE  \E k \in 0..2 : Stream(s, call, k)
<1>1. \A u \in 1..2 : u - 1 \in 0..2
  OBVIOUS
<1>2. 0 \in 0..2 /\ 2 \in 0..2 /\ \A i \in 0..1 : i \in 0..2
  OBVIOUS
<1>3. Quiet(call) => Stream(s, call, 0)
  BY OtherFacts DEF Quiet, Nothing, Holds
<1>4. RequestSpawned(call) \/ Serving(call) \/ AnswerSpawned(call) \/ Resuming(call) => Stream(s, call, 0)
  BY OtherFacts DEF RequestSpawned, Serving, AnswerSpawned, Resuming, Nothing, Holds
<1>5. RequestWritten(call) \/ AnswerWritten(call) => Stream(s, call, 0) \/ Stream(s, call, 2)
  BY OtherFacts DEF RequestWritten, AnswerWritten, Nothing, Holds
<1>6. RequestWriting(call) => \E k \in 0..2 : Stream(s, call, k)
  BY <1>1, <1>2, OtherFacts DEF RequestWriting, Nothing, Holds
<1>7. AnswerWriting(call) => \E k \in 0..2 : Stream(s, call, k)
  <2> SUFFICES ASSUME AnswerWriting(call) PROVE \E k \in 0..2 : Stream(s, call, k)
    OBVIOUS
  <2>1. PICK u \in 1..2, a \in BOOLEAN : Holds("server", call, <<>>, {Sender(call, u, a)}, u - 1)
    BY DEF AnswerWriting
  <2>2. Stream("server", call, u - 1) /\ Stream("client", call, 0)
    BY <2>1 DEF AnswerWriting, Nothing, Holds
  <2> QED
    BY <1>1, <1>2, <2>2, OtherFacts
<1>8. Lost(call) => \E k \in 0..2 : Stream(s, call, k)
  BY <1>2, OtherFacts DEF Lost, Holds
<1> QED
  BY <1>2, <1>3, <1>4, <1>5, <1>6, <1>7, <1>8 DEF PatientInv, OnePlace, Places

LEMMA StreamsWhole ==
  ASSUME NEW s \in Sides, NEW n, NEW k \in 0..2, Stream(s, n, k)
  PROVE  Whole(readBuf[Other(s)] \o wire[s])
<1> DEFINE x == <<n, 1>>
           y == <<n, 2>>
           b == readBuf[Other(s)] \o wire[s]
<1>1. <<>> \o <<>> = <<>>
  BY ConcatEmptySeq, EmptySeq
<1>2. \/ readBuf[Other(s)] = <<>> /\ wire[s] \in {<<>>, <<x>>, <<x, y>>}
      \/ readBuf[Other(s)] = <<x>> /\ wire[s] \in {<<>>, <<y>>}
  BY DEF Stream
<1>3. x[1] = n /\ y = <<x[1], 2>> /\ x[2] = 1 /\ y[2] = 2
  OBVIOUS
<1> HIDE DEF x, y
<1>4. <<x>> \o <<>> = <<x>>
  BY ConcatEmptySeq, ShortSequences
<1>5. b \in {<<>>, <<x>>, <<x, y>>}
  BY <1>1, <1>2, <1>4, ShortConcat
<1> HIDE DEF b
<1>6. Whole(<<>>)
  BY DEF Whole
<1>7. Whole(<<x>>)
  BY DEF Whole
<1>8. Whole(<<x, y>>)
  BY <1>3 DEF Whole
<1> QED
  BY <1>5, <1>6, <1>7, <1>8 DEF b

\* However the two loops interleave and wherever a socket closes, something
\* destroyed (a response, a closure, a caller's coroutine, the server's channel)
\* is used only after a timeout or a broken connection gave up on an answer.
THEOREM PatienceIsSafeAlways == Spec => []PatienceIsSafe
<1>1. RpcInv => PatienceIsSafe
  BY DEF RpcInv, PatientInv, PatienceIsSafe
<1> QED
  BY <1>1, RpcInvInit, RpcInvStep, PTL DEF Spec

\* Until somebody gives up the shared write buffers never mix two messages, the
\* readers never cut one wrongly, and a response fills its own call's message.
THEOREM AnswersMatchAlways == Spec => []AnswersMatch
<1>1. RpcInv => AnswersMatch
  <2> SUFFICES ASSUME RpcInv PROVE AnswersMatch
    OBVIOUS
  <2>1. ASSUME ~givenUp, NEW s \in Sides PROVE Whole(readBuf[Other(s)] \o wire[s])
    <3>1. PICK k \in 0..2 : Stream(s, call, k)
      BY <2>1, StreamsOf DEF RpcInv
    <3> QED
      BY <3>1, StreamsWhole
  <2>2. ASSUME ~givenUp, NEW n \in Calls PROVE answer[n] \in {0, n}
    BY <2>2 DEF RpcInv, PatientInv
  <2> QED
    BY <2>1, <2>2 DEF RpcInv, AnswersMatch
<1> QED
  BY <1>1, RpcInvInit, RpcInvStep, PTL DEF Spec
=============================================================================
