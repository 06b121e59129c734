--------------------------- MODULE IoWatcherProofs ---------------------------
(***************************************************************************)
(* Proofs about IoWatcher, for sockets of every size, as long as not both   *)
(* coroutines wait on a descriptor that its constructor did not register.   *)
(***************************************************************************)
EXTENDS IoWatcher, SequenceTheorems, TLAPS

-----------------------------------------------------------------------------
(* The inductive invariant.                                                *)

Numbers == avail \in 0..MaxUnits /\ room \in 0..MaxUnits

Lists == {<<>>, <<Reader>>, <<Writer>>, <<Reader, Writer>>}

Shape ==
  /\ ev \in [known : BOOLEAN, events : Masks,
             readHandle : {Reader, Noop}, writeHandle : {Writer, Noop}]
  /\ ep \in [added : BOOLEAN, interest : Masks, queued : BOOLEAN]
  /\ kind \in {"none", "accepted", "opened", "udp", "file"}
  /\ link \in {"none", "fresh", "syn", "up", "down"}
  /\ connected \in BOOLEAN
  /\ co \in [Coros -> {"idle", "connect", "io", "received"}]
  /\ phase \in {"run", "io"}
  /\ active \in Lists
  /\ phase = "run" => active = <<>>

\* The two sides of every registration.
Agreement ==
  /\ failed = {}
  /\ ev.known = ep.added
  /\ ev.events = ep.interest
  /\ ~ev.known => ev = NoEvent /\ ~ep.queued

\* A coroutine that is suspended is in the entry or in the active list.
Listed ==
  /\ ev.readHandle = Reader <=> co[Reader] # "idle" /\ active \notin {<<Reader>>, <<Reader, Writer>>}
  /\ ev.writeHandle = Writer <=> co[Writer] # "idle" /\ active \notin {<<Writer>>, <<Reader, Writer>>}
  /\ active \in {<<Reader>>, <<Reader, Writer>>} => co[Reader] # "idle"
  /\ active \in {<<Writer>>, <<Reader, Writer>>} => co[Writer] # "idle"

\* The mask asks for what the coroutines in the entry wait for.
MaskFollows ==
  /\ ev.writeHandle = Writer <=> "out" \in ev.events
  /\ ev.readHandle = Reader => "in" \in ev.events
  /\ ev.known => ev.events # {}

\* What the origin of the socket says about it.
OriginFollows ==
  /\ kind = "none" <=> link = "none"
  /\ kind = "none" => ~connected /\ ~ev.known /\ co[Reader] = "idle" /\ co[Writer] = "idle"
  /\ kind \in {"accepted", "udp"} => "in" \in ev.events
  /\ kind \in {"opened", "file"} => co[Reader] = "idle" \/ co[Writer] = "idle"

EdgeKept ==
  /\ Waiting(Reader) /\ Readable => ep.queued \/ active \in {<<Reader>>, <<Reader, Writer>>}
  /\ Waiting(Writer) /\ Writable => ep.queued \/ active \in {<<Writer>>, <<Reader, Writer>>}

WatcherInv ==
  ~FullDuplex /\ Numbers /\ Shape /\ Agreement /\ Listed /\ MaskFollows /\ OriginFollows /\ EdgeKept

-----------------------------------------------------------------------------
(* Facts about the short lists and the masks.                              *)

LEMMA ListFacts ==
  /\ <<>> \notin {<<Reader>>, <<Writer>>, <<Reader, Writer>>}
  /\ <<Reader>> \notin {<<Writer>>, <<Reader, Writer>>}
  /\ <<Writer>> # <<Reader, Writer>>
BY WatcherAssumption

LEMMA ListTails ==
  /\ Tail(<<Reader>>) = <<>> /\ Tail(<<Writer>>) = <<>> /\ Tail(<<Reader, Writer>>) = <<Writer>>
  /\ Head(<<Reader>>) = Reader /\ Head(<<Writer>>) = Writer /\ Head(<<Reader, Writer>>) = Reader
OBVIOUS

LEMMA ListJoins ==
  /\ <<Reader>> \o <<Writer>> = <<Reader, Writer>>
  /\ <<Reader>> \o <<>> = <<Reader>>
  /\ <<>> \o <<Writer>> = <<Writer>>
  /\ <<>> \o <<>> = <<>>
<1>1. <<Reader>> \o <<Writer>> = <<Reader, Writer>>
  <2>1. <<Reader>> \in Seq(Coros) /\ <<Writer>> \in Seq(Coros) /\ <<Reader, Writer>> \in Seq(Coros)
    BY DEF Coros
  <2>2. /\ <<Reader>> \o <<Writer>> \in Seq(Coros)
        /\ Len(<<Reader>> \o <<Writer>>) = 2
        /\ (<<Reader>> \o <<Writer>>)[1] = Reader
        /\ (<<Reader>> \o <<Writer>>)[2] = Writer
    BY <2>1, ConcatProperties
  <2>3. \A i \in 1..Len(<<Reader>> \o <<Writer>>) : (<<Reader>> \o <<Writer>>)[i] = <<Reader, Writer>>[i]
    BY <2>2
  <2> QED
    BY <2>1, <2>2, <2>3, SeqEqual
<1>2. <<Reader>> \in Seq({Reader}) /\ <<Writer>> \in Seq({Writer}) /\ <<>> \in Seq({Reader})
  OBVIOUS
<1> QED
  BY <1>1, <1>2, ConcatEmptySeq

LEMMA ListSets ==
  /\ ToSet(<<>>) = {}
  /\ ToSet(<<Reader>>) = {Reader} /\ ToSet(<<Writer>>) = {Writer}
  /\ ToSet(<<Reader, Writer>>) = {Reader, Writer}
<1>1. ToSet(<<>>) = {}
  BY DEF ToSet
<1>2. ToSet(<<Reader>>) = {Reader}
  BY DEF ToSet
<1>3. ToSet(<<Writer>>) = {Writer}
  BY DEF ToSet
<1>4. ToSet(<<Reader, Writer>>) = {Reader, Writer}
  BY DEF ToSet
<1> QED
  BY <1>1, <1>2, <1>3, <1>4

-----------------------------------------------------------------------------

LEMMA NumbersStep ==
  ASSUME Numbers, Next
  PROVE  Numbers'
<1>0. MaxUnits \in Nat /\ MaxUnits # 0
  BY WatcherAssumption
<1> USE <1>0 DEF Numbers
<1>1. CASE DataArrives
  BY <1>1 DEF DataArrives
<1>2. CASE PeerDrains
  BY <1>2 DEF PeerDrains
<1>3. CASE Establish
  BY <1>3 DEF Establish
<1>4. CASE Reset
  BY <1>4 DEF Reset
<1>5. CASE RunReader
  BY <1>5 DEF RunReader, Amounts, CanRead
<1>6. CASE RunWriter
  BY <1>6 DEF RunWriter, Amounts, CanWrite
<1>7. CASE WatchIo \/ EndIo
  BY <1>7 DEF WatchIo, EndIo, socket, kernel
<1>8. CASE Accept \/ Open \/ OpenUdp \/ OpenFile \/ Connect
  <2>1. avail' = avail \/ avail' \in 0..MaxUnits
    BY <1>8 DEF Accept, Open, OpenUdp, OpenFile, Connect
  <2>2. room' = room \/ room' = MaxUnits
    BY <1>8 DEF Accept, Open, OpenUdp, OpenFile, Connect
  <2> QED
    BY <2>1, <2>2
<1>9. CASE Read \/ Write \/ SendTo \/ RecvFrom
  BY <1>9 DEF Read, Write, SendTo, RecvFrom
<1>10. CASE ReadBlocks \/ WriteBlocks \/ SendToBlocks \/ AsyncRead \/ AsyncWrite \/ TimeoutRead \/ TimeoutWrite
  BY <1>10 DEF ReadBlocks, WriteBlocks, SendToBlocks, AsyncRead, AsyncWrite, TimeoutRead,
               TimeoutWrite, Await, socket, kernel
<1>11. CASE Close \/ Destroy \/ CloseFile
  <2>1. avail' \in {avail, 0} /\ room' \in {room, 0}
    BY <1>11 DEF Close, Destroy, CloseFile, Released
  <2> QED
    BY <2>1
<1> QED
  BY <1>1, <1>2, <1>3, <1>4, <1>5, <1>6, <1>7, <1>8, <1>9, <1>10, <1>11
  DEF Next, Loop, Program

\* epoll knows of whoever waits.
LEMMA InterestFollows ==
  ASSUME WatcherInv
  PROVE  /\ Waiting(Reader) => active \in {<<Reader>>, <<Reader, Writer>>} \/ (ep.added /\ "in" \in ep.interest)
         /\ Waiting(Writer) => active \in {<<Writer>>, <<Reader, Writer>>} \/ (ep.added /\ "out" \in ep.interest)
<1>1. /\ Waiting(Reader) => co[Reader] # "idle"
      /\ Waiting(Writer) => co[Writer] # "idle"
  BY DEF Waiting
<1>2. ev.events # {} => ep.added
  BY DEF WatcherInv, Agreement, NoEvent
<1> QED
  BY <1>1, <1>2 DEF WatcherInv, Listed, MaskFollows, Agreement

LEMMA KernelStep ==
  ASSUME WatcherInv, DataArrives \/ PeerDrains \/ Establish \/ Reset
  PROVE  WatcherInv'
<1>0. Numbers'
  BY NumbersStep DEF WatcherInv, Next
<1>1. PICK what : Poke(what) \/ UNCHANGED ep
  BY DEF DataArrives, PeerDrains, Establish, Reset
<1>2. UNCHANGED program
  BY DEF DataArrives, PeerDrains, Establish, Reset
<1>3. /\ UNCHANGED ep.added /\ UNCHANGED ep.interest
      /\ ep.queued => ep'.queued
      /\ ep' \in [added : BOOLEAN, interest : Masks, queued : BOOLEAN]
      /\ ~ep.added => ep' = ep
  BY <1>1, <1>2 DEF Poke, WatcherInv, Shape
<1>4. Shape'
  BY <1>2, <1>3 DEF WatcherInv, Shape, DataArrives, PeerDrains, Establish, Reset, program
<1>5. Agreement'
  BY <1>2, <1>3 DEF WatcherInv, Agreement, program
<1>6. Listed' /\ MaskFollows'
  BY <1>2 DEF WatcherInv, Listed, MaskFollows, program
<1>7. OriginFollows'
  BY <1>2 DEF WatcherInv, OriginFollows, program, DataArrives, PeerDrains, Establish, Reset
<1>8. /\ Waiting(Reader) => active \in {<<Reader>>, <<Reader, Writer>>} \/ (ep.added /\ "in" \in ep.interest)
      /\ Waiting(Writer) => active \in {<<Writer>>, <<Reader, Writer>>} \/ (ep.added /\ "out" \in ep.interest)
  BY InterestFollows
<1>9. EdgeKept'
  <2> USE DEF WatcherInv, EdgeKept, program, Waiting, Readable, Writable
  <2>1. CASE DataArrives
    BY <1>2, <1>3, <1>8, <2>1 DEF DataArrives, Poke, Asked
  <2>2. CASE PeerDrains
    BY <1>2, <1>3, <1>8, <2>2 DEF PeerDrains, Poke, Asked, Numbers
  <2>3. CASE Establish
    BY <1>2, <1>3, <1>8, <2>3 DEF Establish, Poke, Asked
  <2>4. CASE Reset
    BY <1>2, <1>3, <1>8, <2>4 DEF Reset, Poke, Asked
  <2> QED
    BY <2>1, <2>2, <2>3, <2>4
<1> QED
  BY <1>0, <1>2, <1>4, <1>5, <1>6, <1>7, <1>9 DEF WatcherInv

-----------------------------------------------------------------------------
(* Starting to wait.                                                       *)

\* A coroutine may wait: the other one does not wait on a descriptor that the
\* constructor did not register.
LEMMA MayWaitFacts ==
  ASSUME WatcherInv, NEW c \in Coros, MayWait(c)
  PROVE  co[c] = "idle" /\ (kind \in {"accepted", "udp"} \/ \A d \in Coros : co[d] = "idle")
BY DEF WatcherInv, MayWait

ReadListened ==
  /\ ev' = [known |-> TRUE, events |-> ev.events \cup {"in"}, readHandle |-> Reader,
            writeHandle |-> ev.writeHandle]
  /\ ep' \in [added : {TRUE}, interest : {ev.events \cup {"in"}}, queued : BOOLEAN]
  /\ ep.queued => ep'.queued
  /\ failed' = {}

LEMMA ListenReadFacts ==
  ASSUME WatcherInv, MayWait(Reader), ListenReadEvent(Reader)
  PROVE  ReadListened
<1> USE DEF ReadListened
<1>1. ev.readHandle = Noop
  BY MayWaitFacts DEF WatcherInv, Listed, Shape, Coros
<1>2. CASE ev.known
  <2>1. "in" \in ev.events
    BY <1>2, MayWaitFacts, WatcherAssumption DEF WatcherInv, MaskFollows, OriginFollows, Listed, Shape, Coros, Masks
  <2>2. ev' = [ev EXCEPT !.readHandle = Reader, !.known = TRUE] /\ ep' = ep
    BY <1>2 DEF ListenReadEvent
  <2>3. failed' = {}
    BY <1>1, <1>2 DEF ListenReadEvent, Failing, WatcherInv, Agreement
  <2>4. ev.events \cup {"in"} = ev.events
    BY <2>1
  <2> QED
    BY <1>2, <2>2, <2>3, <2>4 DEF WatcherInv, Shape, Agreement
<1>3. CASE ~ev.known
  <2>1. ev = NoEvent /\ ~ep.added /\ ep \in [added : BOOLEAN, interest : Masks, queued : BOOLEAN]
    BY <1>3 DEF WatcherInv, Agreement, Shape
  <2>2. failed' = {}
    BY <1>3, <2>1 DEF ListenReadEvent, Failing, WatcherInv, Agreement
  <2>3. ev' = [ev EXCEPT !.readHandle = Reader, !.known = TRUE, !.events = {"in"}]
    BY <1>3 DEF ListenReadEvent
  <2>4. ep' = Added({"in"}, ep)
    BY <1>3 DEF ListenReadEvent
  <2> QED
    BY <2>1, <2>2, <2>3, <2>4 DEF NoEvent, NotAdded, Added
<1> QED
  BY <1>2, <1>3

WriteListened ==
  /\ ev' = [known |-> TRUE, events |-> ev.events \cup {"out"}, readHandle |-> ev.readHandle,
            writeHandle |-> Writer]
  /\ ep' \in [added : {TRUE}, interest : {ev.events \cup {"out"}}, queued : BOOLEAN]
  /\ ep.queued \/ Writable => ep'.queued
  /\ failed' = {}

LEMMA ListenWriteFacts ==
  ASSUME WatcherInv, MayWait(Writer), ListenWriteEvent(Writer)
  PROVE  WriteListened
<1> USE DEF WriteListened
<1>1. ev.writeHandle = Noop
  BY MayWaitFacts DEF WatcherInv, Listed, Shape, Coros
<1>2. failed' = {}
  BY <1>1 DEF ListenWriteEvent, Failing, WatcherInv, Agreement
<1>3. ev' = [ev EXCEPT !.writeHandle = Writer, !.known = TRUE, !.events = @ \cup {"out"}]
  BY DEF ListenWriteEvent, SetWriter, WatcherInv, Shape
<1>4. Writable => Ready \cap Asked(ev.events \cup {"out"}) # {}
  BY DEF Ready, Asked
<1>5. ep' = Added(ev.events \cup {"out"}, ep)
  BY DEF ListenWriteEvent
<1> QED
  BY <1>2, <1>3, <1>4, <1>5 DEF Added, WatcherInv, Shape

\* The reader suspends, and what it waits for is not there.
LEMMA ReaderWaits ==
  ASSUME WatcherInv, Numbers', MayWait(Reader), ListenReadEvent(Reader), kind # "none",
         NEW what \in {"io", "received"}, co' = [co EXCEPT ![Reader] = what],
         UNCHANGED <<kind, link, room, connected, phase, active>>,
         what = "io" => kind = "file" \/ ~Readable'
  PROVE  WatcherInv'
<1>0. ReadListened
  BY ListenReadFacts
<1>1. /\ co[Reader] = "idle" /\ active \in {<<>>, <<Writer>>}
      /\ kind \in {"accepted", "udp"} \/ co[Writer] = "idle"
  BY MayWaitFacts DEF WatcherInv, Shape, Lists, Listed, Coros
<1>2. Shape'
  BY <1>0 DEF ReadListened, WatcherInv, Shape, Masks, Coros
<1>3. Agreement'
  BY <1>0 DEF ReadListened, Agreement
<1>4. co'[Reader] # "idle" /\ co'[Writer] = co[Writer]
  BY WatcherAssumption DEF WatcherInv, Shape, Coros
<1>5. Listed'
  BY <1>1, <1>4, <1>0, ListFacts DEF ReadListened, WatcherInv, Listed
<1>6. MaskFollows'
  BY <1>0 DEF ReadListened, WatcherInv, MaskFollows
<1>7. OriginFollows'
  BY <1>1, <1>4, <1>0 DEF ReadListened, WatcherInv, OriginFollows
<1>8. EdgeKept'
  <2>1. Waiting(Reader)' => ~Readable'
    BY WatcherAssumption DEF Waiting, WatcherInv, Shape, Coros
  <2>2. Waiting(Writer)' = Waiting(Writer) /\ Writable' = Writable
    BY <1>4 DEF Waiting, Writable
  <2> QED
    BY <2>1, <2>2, <1>0 DEF ReadListened, WatcherInv, EdgeKept
<1> QED
  BY <1>2, <1>3, <1>5, <1>6, <1>7, <1>8 DEF WatcherInv

\* The writer suspends, and what it waits for is not there or is queued.
LEMMA WriterWaits ==
  ASSUME WatcherInv, Numbers', MayWait(Writer), ListenWriteEvent(Writer), kind # "none",
         NEW what \in {"io", "connect"}, co' = [co EXCEPT ![Writer] = what],
         UNCHANGED <<kind, avail, room, connected, phase, active>>,
         link' = link \/ (link = "fresh" /\ link' = "syn")
  PROVE  WatcherInv'
<1>0. WriteListened
  BY ListenWriteFacts
<1>1. /\ co[Writer] = "idle" /\ active \in {<<>>, <<Reader>>}
      /\ kind \in {"accepted", "udp"} \/ co[Reader] = "idle"
  BY MayWaitFacts DEF WatcherInv, Shape, Lists, Listed, Coros
<1>2. Shape'
  BY <1>0 DEF WriteListened, WatcherInv, Shape, Masks, Coros
<1>3. Agreement'
  BY <1>0 DEF WriteListened, Agreement
<1>4. co'[Writer] # "idle" /\ co'[Reader] = co[Reader]
  BY WatcherAssumption DEF WatcherInv, Shape, Coros
<1>5. Listed'
  BY <1>1, <1>4, <1>0, ListFacts DEF WriteListened, WatcherInv, Listed
<1>6. MaskFollows'
  BY <1>0 DEF WriteListened, WatcherInv, MaskFollows
<1>7. OriginFollows'
  BY <1>1, <1>4, <1>0 DEF WriteListened, WatcherInv, OriginFollows
<1>8. EdgeKept'
  <2>1. Writable' = Writable
    BY DEF Writable
  <2>2. Waiting(Reader)' = Waiting(Reader) /\ Readable' = Readable
    BY <1>4 DEF Waiting, Readable
  <2> QED
    BY <2>1, <2>2, <1>0 DEF WriteListened, WatcherInv, EdgeKept
<1> QED
  BY <1>2, <1>3, <1>5, <1>6, <1>7, <1>8 DEF WatcherInv

LEMMA WaitStep ==
  ASSUME WatcherInv, Numbers',
         Connect \/ ReadBlocks \/ WriteBlocks \/ SendToBlocks \/ RecvFrom \/ AsyncRead \/ AsyncWrite
  PROVE  WatcherInv'
<1>1. kind = "none" => ~connected /\ link = "none"
  BY DEF WatcherInv, OriginFollows
<1> USE DEF Await, socket, kernel
<1>2. CASE Connect
  BY <1>1, <1>2, WriterWaits DEF Connect
<1>3. CASE ReadBlocks
  BY <1>1, <1>3, ReaderWaits DEF ReadBlocks, WouldBlock, Readable
<1>4. CASE WriteBlocks \/ SendToBlocks \/ AsyncWrite
  BY <1>1, <1>4, WriterWaits DEF WriteBlocks, SendToBlocks, AsyncWrite
<1>5. CASE AsyncRead
  BY <1>5, ReaderWaits DEF AsyncRead
<1>6. CASE RecvFrom
  <2>1. ~Readable => ~Readable'
    BY <1>6 DEF RecvFrom, Readable, WatcherInv, Numbers
  <2>2. CASE Readable
    BY <1>6, <2>2, ReaderWaits DEF RecvFrom
  <2>3. CASE ~Readable
    BY <1>6, <2>1, <2>3, ReaderWaits DEF RecvFrom
  <2> QED
    BY <2>2, <2>3
<1> QED
  BY <1>2, <1>3, <1>4, <1>5, <1>6

-----------------------------------------------------------------------------
(* The end of a wait, and the loop.                                        *)

\* A socket comes into being: nothing is known of its number.
LEMMA OpenStep ==
  ASSUME WatcherInv, Numbers', Accept \/ Open \/ OpenUdp \/ OpenFile
  PROVE  WatcherInv'
<1>1. /\ kind = "none" /\ ev = NoEvent /\ ~ep.added /\ ep.interest = {} /\ failed = {}
      /\ ep \in [added : BOOLEAN, interest : Masks, queued : BOOLEAN]
      /\ co[Reader] = "idle" /\ co[Writer] = "idle" /\ connected = FALSE
      /\ active = <<>>
  <2>1. link = "none"
    BY DEF Accept, Open, OpenUdp, OpenFile
  <2> QED
    BY <2>1 DEF WatcherInv, OriginFollows, Agreement, Shape, Listed, Lists, NoEvent
<1>2. /\ ~ev.known /\ ev.events = {} /\ ev.readHandle = Noop /\ ev.writeHandle = Noop
      /\ ~ep.added /\ ep.interest = {}
  BY <1>1 DEF NoEvent
<1>3. UNCHANGED <<co, phase, active>>
  BY DEF Accept, Open, OpenUdp, OpenFile
<1>4. Listed' /\ MaskFollows' /\ Agreement' /\ Shape' /\ OriginFollows'
  <2>1. CASE Open \/ OpenFile
    <3>1. UNCHANGED <<ev, ep, failed, connected>> /\ kind' \in {"opened", "file"} /\ link' \in {"fresh", "up"}
      BY <2>1 DEF Open, OpenFile
    <3> QED
      BY <1>1, <1>2, <1>3, <3>1 DEF WatcherInv, Listed, MaskFollows, Agreement, Shape, OriginFollows
  <2>2. CASE Accept \/ OpenUdp
    <3>1. /\ kind' \in {"accepted", "udp"} /\ link' = "up"
          /\ connected' \in BOOLEAN
          /\ failed' = {}
      BY <1>1, <1>2, <2>2 DEF Accept, OpenUdp, ListenReadEvent, Failing, WatcherInv, Shape
    <3>2. ev' = [known |-> TRUE, events |-> {"in"}, readHandle |-> Noop, writeHandle |-> Noop]
      BY <1>1, <1>2, <2>2 DEF Accept, OpenUdp, ListenReadEvent, NoEvent
    <3>3. ep' \in [added : {TRUE}, interest : {{"in"}}, queued : BOOLEAN]
      <4>1. CASE Accept
        BY <1>1, <4>1 DEF Accept, NotAdded, Numbers
      <4>2. CASE OpenUdp
        BY <1>1, <1>2, <4>2 DEF OpenUdp, ListenReadEvent, Added, NotAdded
      <4> QED
        BY <2>2, <4>1, <4>2
    <3>4. Shape'
      BY <1>3, <3>1, <3>2, <3>3 DEF WatcherInv, Shape, Masks
    <3>5. Agreement'
      BY <3>1, <3>2, <3>3 DEF Agreement
    <3>6. Listed' /\ MaskFollows'
      BY <1>1, <1>3, <3>2, WatcherAssumption DEF Listed, MaskFollows, WatcherInv
    <3>7. OriginFollows'
      BY <3>1, <3>2 DEF OriginFollows
    <3> QED
      BY <3>4, <3>5, <3>6, <3>7
  <2> QED
    BY <2>1, <2>2
<1>5. EdgeKept'
  BY <1>1, <1>3 DEF EdgeKept, Waiting
<1> QED
  BY <1>4, <1>5 DEF WatcherInv

\* A system call that did not block: the caller was not waiting.
LEMMA CallStep ==
  ASSUME WatcherInv, Numbers', Read \/ Write \/ SendTo
  PROVE  WatcherInv'
<1>1. UNCHANGED <<ev, ep, kind, link, connected, co, phase, active, failed>>
  BY DEF Read, Write, SendTo
<1>2. Shape' /\ Agreement' /\ Listed' /\ MaskFollows' /\ OriginFollows'
  BY <1>1 DEF WatcherInv, Shape, Agreement, Listed, MaskFollows, OriginFollows
<1>3. (co[Reader] = "idle" /\ UNCHANGED room) \/ (co[Writer] = "idle" /\ UNCHANGED avail)
  BY DEF Read, Write, SendTo
<1>4. EdgeKept'
  BY <1>1, <1>3 DEF WatcherInv, EdgeKept, Waiting, Readable, Writable
<1> QED
  BY <1>2, <1>4 DEF WatcherInv

LEMMA CloseStep ==
  ASSUME WatcherInv, Numbers', Close
  PROVE  WatcherInv'
<1>1. UNCHANGED <<ev, kind, avail, room, co, phase, active, failed>> /\ connected' = FALSE /\ link' = "down"
  BY DEF Close, ShutDown
<1>2. /\ ep' \in [added : BOOLEAN, interest : Masks, queued : BOOLEAN]
      /\ UNCHANGED ep.added /\ UNCHANGED ep.interest
      /\ ~ep.added => ep' = ep
      /\ ep.added => ep'.queued
  BY DEF Close, ShutDown, Poke, Asked, WatcherInv, Shape
<1>3. kind # "none"
  BY DEF Close, WatcherInv, OriginFollows
<1>4. Shape' /\ Agreement' /\ Listed' /\ MaskFollows'
  BY <1>1, <1>2, ZenonT(60) DEF WatcherInv, Shape, Agreement, Listed, MaskFollows
<1>5. OriginFollows'
  BY <1>1, <1>3 DEF WatcherInv, OriginFollows
<1>6. EdgeKept'
  BY <1>1, <1>2, InterestFollows DEF EdgeKept, Waiting
<1> QED
  BY <1>4, <1>5, <1>6 DEF WatcherInv

LEMMA ReleaseStep ==
  ASSUME WatcherInv, Numbers', Destroy \/ CloseFile
  PROVE  WatcherInv'
<1>1. /\ co[Reader] = "idle" /\ co[Writer] = "idle"
      /\ ev' = NoEvent /\ ep' = NotAdded
      /\ link' = "none" /\ kind' = "none" /\ connected' = FALSE
      /\ UNCHANGED <<co, phase, active>>
  BY DEF Destroy, CloseFile, Released, Forgotten, Coros
<1>2. failed' = {}
  BY DEF Destroy, CloseFile, Released, Failing, WatcherInv, Agreement
<1>3. Shape' /\ Agreement' /\ MaskFollows' /\ OriginFollows'
  BY <1>1, <1>2, WatcherAssumption
  DEF WatcherInv, Shape, Agreement, MaskFollows, OriginFollows, NoEvent, NotAdded, Masks
<1>4. Listed'
  BY <1>1, WatcherAssumption DEF WatcherInv, Listed, NoEvent
<1>5. EdgeKept'
  BY <1>1 DEF EdgeKept, Waiting
<1> QED
  BY <1>3, <1>4, <1>5 DEF WatcherInv

LEMMA TimeoutReadStep ==
  ASSUME WatcherInv, Numbers', TimeoutRead
  PROVE  WatcherInv'
<1>1. /\ active = <<>> /\ co[Reader] # "idle"
      /\ co' = [co EXCEPT ![Reader] = "idle"]
      /\ UNCHANGED <<kind, link, avail, room, connected, phase, active, ep>>
      /\ ev' = [ev EXCEPT !.readHandle = Noop]
  BY DEF TimeoutRead, Await, StopListeningReadEvent, StoppedReading, socket, kernel, WatcherInv, Shape
<1>2. ev.readHandle = Reader
  BY <1>1, ListFacts DEF WatcherInv, Listed
<1>3. ev.known
  BY <1>2, WatcherAssumption DEF WatcherInv, Agreement, NoEvent
<1>4. failed' = {}
  BY <1>3 DEF TimeoutRead, StopListeningReadEvent, Failing, WatcherInv, Agreement
<1>5. co'[Reader] = "idle" /\ co'[Writer] = co[Writer]
  BY <1>1, WatcherAssumption DEF WatcherInv, Shape, Coros
<1>6. /\ ev'.known = ev.known /\ ev'.events = ev.events /\ ev'.readHandle = Noop
      /\ ev'.writeHandle = ev.writeHandle
  BY <1>1 DEF WatcherInv, Shape
<1>7. Shape'
  BY <1>1 DEF WatcherInv, Shape, Coros
<1>8. Agreement'
  BY <1>1, <1>3, <1>4, <1>6 DEF WatcherInv, Agreement
<1>9. Listed' /\ MaskFollows' /\ OriginFollows'
  BY <1>1, <1>5, <1>6, ListFacts, WatcherAssumption DEF WatcherInv, Listed, MaskFollows, OriginFollows
<1>10. EdgeKept'
  BY <1>1, <1>5 DEF WatcherInv, EdgeKept, Waiting, Readable, Writable
<1> QED
  BY <1>7, <1>8, <1>9, <1>10 DEF WatcherInv

\* Taking the write waiter off, whatever else of the entry stays.
WriteStopped(e, k) ==
  IF "in" \in e.events
    THEN /\ ev' = [known |-> TRUE, events |-> {"in"}, readHandle |-> e.readHandle, writeHandle |-> Noop]
         /\ ep' \in [added : {TRUE}, interest : {{"in"}}, queued : BOOLEAN]
         /\ k.queued => ep'.queued
    ELSE ev' = NoEvent /\ ep' = NotAdded

LEMMA StopWritingFacts ==
  ASSUME NEW e \in [known : {TRUE}, events : Masks, readHandle : {Reader, Noop}, writeHandle : {Writer, Noop}],
         NEW k \in [added : BOOLEAN, interest : Masks, queued : BOOLEAN],
         ev' = StoppedWriting(e), ep' = AfterStopWriting(e, k)
  PROVE  WriteStopped(e, k)
<1>1. CASE "in" \in e.events
  <2>1. LeftMask(e) = {"in"}
    <3>1. e.events \subseteq {"in", "out"}
      BY DEF Masks
    <3> QED
      BY <1>1, <3>1 DEF LeftMask
  <2>2. ep' = Added({"in"}, k)
    BY <1>1, <2>1 DEF AfterStopWriting
  <2>3. ev' = [e EXCEPT !.writeHandle = Noop, !.events = {"in"}]
    BY <1>1, <2>1 DEF StoppedWriting
  <2> QED
    <3>1. ev' = [known |-> TRUE, events |-> {"in"}, readHandle |-> e.readHandle, writeHandle |-> Noop]
      BY <2>3
    <3> DEFINE q == k.queued \/ Ready \cap Asked({"in"}) # {}
    <3>2. q \in BOOLEAN /\ (k.queued => q)
      BY Zenon
    <3>3. ep' = [added |-> TRUE, interest |-> {"in"}, queued |-> q]
      BY <2>2 DEF Added
    <3> HIDE DEF q
    <3>4. ep' \in [added : {TRUE}, interest : {{"in"}}, queued : BOOLEAN] /\ (k.queued => ep'.queued)
      BY <3>2, <3>3
    <3> QED
      BY <1>1, <3>1, <3>4 DEF WriteStopped
<1>2. CASE "in" \notin e.events
  BY <1>2 DEF StoppedWriting, AfterStopWriting, WriteStopped
<1> QED
  BY <1>1, <1>2

LEMMA TimeoutWriteStep ==
  ASSUME WatcherInv, Numbers', TimeoutWrite
  PROVE  WatcherInv'
<1>1. /\ active = <<>> /\ co[Writer] # "idle"
      /\ co' = [co EXCEPT ![Writer] = "idle"]
      /\ UNCHANGED <<kind, link, avail, room, connected, phase, active>>
  BY DEF TimeoutWrite, Await, socket, kernel, WatcherInv, Shape
<1>2. ev.writeHandle = Writer
  BY <1>1, ListFacts DEF WatcherInv, Listed
<1>3. ev.known /\ ep.added
  BY <1>2, WatcherAssumption DEF WatcherInv, Agreement, NoEvent
<1>4. failed' = {}
  BY <1>3 DEF TimeoutWrite, StopListeningWriteEvent, Failing, WatcherInv, Agreement
<1>5. co'[Writer] = "idle" /\ co'[Reader] = co[Reader]
  BY <1>1, WatcherAssumption DEF WatcherInv, Shape, Coros
<1>6. WriteStopped(ev, ep)
  BY <1>3, StopWritingFacts DEF TimeoutWrite, StopListeningWriteEvent, WatcherInv, Shape
<1>7. "in" \notin ev.events => co[Reader] = "idle"
  BY <1>1, ListFacts DEF WatcherInv, Listed, MaskFollows
<1>8. CASE "in" \in ev.events
  <2>1. /\ ev' = [known |-> TRUE, events |-> {"in"}, readHandle |-> ev.readHandle, writeHandle |-> Noop]
        /\ ep' \in [added : {TRUE}, interest : {{"in"}}, queued : BOOLEAN]
        /\ ep.queued => ep'.queued
    BY <1>6, <1>8 DEF WriteStopped
  <2>2. Shape'
    BY <1>1, <2>1 DEF WatcherInv, Shape, Coros, Masks
  <2>3. Agreement'
    BY <1>4, <2>1 DEF Agreement
  <2>4. Listed' /\ MaskFollows' /\ OriginFollows'
    BY <1>1, <1>5, <1>8, <2>1, ListFacts, WatcherAssumption DEF WatcherInv, Listed, MaskFollows, OriginFollows
  <2>5. EdgeKept'
    BY <1>1, <1>5, <2>1 DEF WatcherInv, EdgeKept, Waiting, Readable
  <2> QED
    BY <2>2, <2>3, <2>4, <2>5 DEF WatcherInv
<1>9. CASE "in" \notin ev.events
  <2>1. ev' = NoEvent /\ ep' = NotAdded /\ co'[Reader] = "idle"
    BY <1>5, <1>6, <1>7, <1>9 DEF WriteStopped
  <2>2. Shape'
    BY <1>1, <2>1 DEF WatcherInv, Shape, Coros, NoEvent, NotAdded, Masks
  <2>3. Agreement'
    BY <1>4, <2>1 DEF Agreement, NoEvent, NotAdded
  <2>4. Listed' /\ MaskFollows' /\ OriginFollows'
    BY <1>1, <1>5, <1>9, <2>1, ListFacts, WatcherAssumption
    DEF WatcherInv, Listed, MaskFollows, OriginFollows, NoEvent
  <2>5. EdgeKept'
    BY <1>5, <2>1 DEF EdgeKept, Waiting
  <2> QED
    BY <2>2, <2>3, <2>4, <2>5 DEF WatcherInv
<1> QED
  BY <1>8, <1>9

LEMMA RunReaderStep ==
  ASSUME WatcherInv, Numbers', RunReader
  PROVE  WatcherInv'
<1>1. /\ UNCHANGED <<ev, ep, kind, link, room, connected, phase, failed>>
      /\ co' = [co EXCEPT ![Reader] = "idle"]
  BY DEF RunReader
<1>2. \/ active = <<Reader>> /\ active' = <<>>
      \/ active = <<Reader, Writer>> /\ active' = <<Writer>>
  BY ListTails, WatcherAssumption DEF RunReader, WatcherInv, Shape, Lists
<1>3. co'[Reader] = "idle" /\ co'[Writer] = co[Writer]
  BY <1>1, WatcherAssumption DEF WatcherInv, Shape, Coros
<1>4. phase # "run"
  BY <1>2, ListFacts DEF WatcherInv, Shape
<1>5. Shape'
  BY <1>1, <1>2, <1>4 DEF WatcherInv, Shape, Coros, Lists
<1>6. Agreement' /\ MaskFollows' /\ OriginFollows'
  BY <1>1, <1>3 DEF WatcherInv, Agreement, MaskFollows, OriginFollows
<1>7. Listed'
  BY <1>1, <1>2, <1>3, ListFacts DEF WatcherInv, Listed
<1>8. EdgeKept'
  BY <1>1, <1>2, <1>3, ListFacts DEF WatcherInv, EdgeKept, Waiting, Writable
<1> QED
  BY <1>5, <1>6, <1>7, <1>8 DEF WatcherInv

LEMMA RunWriterStep ==
  ASSUME WatcherInv, Numbers', RunWriter
  PROVE  WatcherInv'
<1>1. /\ UNCHANGED <<ev, ep, kind, link, avail, phase, failed>>
      /\ co' = [co EXCEPT ![Writer] = "idle"]
      /\ connected' \in BOOLEAN
  BY DEF RunWriter, WatcherInv, Shape
<1>2. active = <<Writer>> /\ active' = <<>>
  BY ListTails, WatcherAssumption DEF RunWriter, WatcherInv, Shape, Lists
<1>3. co'[Writer] = "idle" /\ co'[Reader] = co[Reader]
  BY <1>1, WatcherAssumption DEF WatcherInv, Shape, Coros
<1>4. phase # "run" /\ kind # "none"
  BY <1>2, ListFacts DEF WatcherInv, Shape, Listed, OriginFollows
<1>5. Shape'
  BY <1>1, <1>2, <1>4 DEF WatcherInv, Shape, Coros, Lists
<1>6. Agreement' /\ MaskFollows' /\ OriginFollows'
  BY <1>1, <1>3, <1>4 DEF WatcherInv, Agreement, MaskFollows, OriginFollows
<1>7. Listed'
  BY <1>1, <1>2, <1>3, ListFacts DEF WatcherInv, Listed
<1>8. EdgeKept'
  BY <1>1, <1>2, <1>3, ListFacts DEF WatcherInv, EdgeKept, Waiting, Readable
<1> QED
  BY <1>5, <1>6, <1>7, <1>8 DEF WatcherInv

\* What epoll reports reaches whoever waits for it.
LEMMA ReportedFacts ==
  ASSUME WatcherInv
  PROVE  /\ WakesWriter => ev.writeHandle = Writer /\ ev.known /\ ep.added
         /\ ep.queued /\ Readable /\ "in" \in ep.interest => WakesReader
         /\ ep.queued /\ Writable /\ "out" \in ep.interest => WakesWriter
<1>1. WakesWriter => "out" \in ep.interest
  BY DEF WakesWriter, Reported, Asked
<1>2. "out" \in ep.interest => ev.writeHandle = Writer
  BY DEF WatcherInv, Agreement, MaskFollows
<1>3. ev.writeHandle = Writer => ev.known /\ ep.added
  BY WatcherAssumption DEF WatcherInv, Agreement, NoEvent
<1>4. ep.queued /\ Readable /\ "in" \in ep.interest => "in" \in Reported
  BY DEF Reported, Ready, Asked
<1>5. ep.queued /\ Writable /\ "out" \in ep.interest => "out" \in Reported
  BY DEF Reported, Ready, Asked
<1> QED
  BY <1>1, <1>2, <1>3, <1>4, <1>5 DEF WakesReader, WakesWriter

LEMMA WatchIoStep ==
  ASSUME WatcherInv, Numbers', WatchIo
  PROVE  WatcherInv'
<1> DEFINE read == WakesReader /\ ev.readHandle # Noop
           after == IF read THEN StoppedReading(ev) ELSE ev
           drained == [ep EXCEPT !.queued = FALSE]
<1>1. /\ active = <<>> /\ phase' = "io"
      /\ UNCHANGED <<kind, link, avail, room, connected, co>>
  BY DEF WatchIo, socket, kernel, WatcherInv, Shape
<1>2. /\ ev' = IF WakesWriter THEN StoppedWriting(after) ELSE after
      /\ ep' = IF WakesWriter THEN AfterStopWriting(after, drained) ELSE drained
      /\ active' = (IF read THEN <<ev.readHandle>> ELSE <<>>)
                   \o (IF WakesWriter /\ ev.writeHandle # Noop THEN <<ev.writeHandle>> ELSE <<>>)
  BY DEF WatchIo
<1>3. read => ev.readHandle = Reader
  BY DEF WatcherInv, Shape
<1>4. WakesWriter => ev.writeHandle = Writer /\ ev.writeHandle # Noop /\ ev.known /\ ep.added
  BY ReportedFacts, WatcherAssumption
<1>5. failed' = {}
  BY <1>4 DEF WatchIo, Failing, WatcherInv, Agreement
<1>6. active' = IF read THEN IF WakesWriter THEN <<Reader, Writer>> ELSE <<Reader>>
                        ELSE IF WakesWriter THEN <<Writer>> ELSE <<>>
  BY <1>2, <1>3, <1>4, ListJoins
<1>7. /\ ev.readHandle = Reader <=> co[Reader] # "idle"
      /\ ev.writeHandle = Writer <=> co[Writer] # "idle"
  BY <1>1, ListFacts DEF WatcherInv, Listed
<1>8. /\ after \in [known : BOOLEAN, events : Masks, readHandle : {Reader, Noop}, writeHandle : {Writer, Noop}]
      /\ after.known = ev.known /\ after.events = ev.events /\ after.writeHandle = ev.writeHandle
      /\ after.readHandle = IF read THEN Noop ELSE ev.readHandle
      /\ ~read => after = ev
  BY DEF StoppedReading, WatcherInv, Shape
<1>9. /\ drained \in [added : BOOLEAN, interest : Masks, queued : BOOLEAN]
      /\ drained.added = ep.added /\ drained.interest = ep.interest
      /\ drained.queued = FALSE
  BY DEF WatcherInv, Shape
<1> HIDE DEF read, after, drained
<1>10. EdgeKept'
  <2>1. Waiting(Reader) /\ Readable => read
    BY <1>1, <1>7, ReportedFacts, InterestFollows, ListFacts, WatcherAssumption
    DEF WatcherInv, EdgeKept, Waiting, read
  <2>2. Waiting(Writer) /\ Writable => WakesWriter
    BY <1>1, ReportedFacts, InterestFollows, ListFacts DEF WatcherInv, EdgeKept
  <2>3. /\ Waiting(Reader)' = Waiting(Reader) /\ Readable' = Readable
        /\ Waiting(Writer)' = Waiting(Writer) /\ Writable' = Writable
    BY <1>1 DEF Waiting, Readable, Writable
  <2> QED
    BY <1>6, <2>1, <2>2, <2>3 DEF EdgeKept
<1>11. active' \in Lists /\ phase' # "run"
  BY <1>1, <1>6 DEF Lists
<1>12. /\ active' \in {<<Reader>>, <<Reader, Writer>>} <=> read
       /\ active' \in {<<Writer>>, <<Reader, Writer>>} <=> WakesWriter
  BY <1>6, ListFacts
<1>13. /\ read => "in" \in ev.events
       /\ WakesWriter => co[Writer] # "idle"
       /\ read => co[Reader] # "idle"
  BY <1>3, <1>4, <1>7 DEF WatcherInv, MaskFollows
<1>14. CASE ~WakesWriter
  <2>1. ev' = after /\ ep' = drained
    BY <1>2, <1>14
  <2>2. ~ev.known => ~read /\ ev = NoEvent
    BY <1>3, WatcherAssumption DEF WatcherInv, Agreement, NoEvent
  <2>4. Shape'
    BY <1>1, <1>8, <1>9, <1>11, <2>1 DEF WatcherInv, Shape
  <2>5. Agreement'
    BY <1>5, <1>8, <1>9, <2>1, <2>2 DEF WatcherInv, Agreement
  <2>6. Listed' /\ MaskFollows'
    BY <1>1, <1>3, <1>7, <1>8, <1>12, <1>13, <1>14, <2>1, WatcherAssumption
    DEF WatcherInv, Listed, MaskFollows
  <2>7. OriginFollows'
    BY <1>1, <1>8, <2>1 DEF WatcherInv, OriginFollows
  <2> QED
    BY <1>10, <2>4, <2>5, <2>6, <2>7 DEF WatcherInv
<1>15. CASE WakesWriter
  <2>1. WriteStopped(after, drained)
    BY <1>2, <1>4, <1>8, <1>9, <1>15, StopWritingFacts
  <2>2. CASE "in" \in ev.events
    <3>1. /\ ev' = [known |-> TRUE, events |-> {"in"}, readHandle |-> after.readHandle, writeHandle |-> Noop]
          /\ ep' \in [added : {TRUE}, interest : {{"in"}}, queued : BOOLEAN]
      BY <1>8, <2>1, <2>2 DEF WriteStopped
    <3>2. Shape'
      BY <1>1, <1>8, <1>11, <3>1 DEF WatcherInv, Shape, Masks
    <3>3. Agreement'
      BY <1>5, <3>1 DEF Agreement
    <3>4. Listed' /\ MaskFollows'
      BY <1>1, <1>3, <1>7, <1>8, <1>12, <1>13, <1>15, <3>1, WatcherAssumption
      DEF WatcherInv, Listed, MaskFollows
    <3>5. OriginFollows'
      BY <1>1, <1>13, <1>15, <3>1 DEF WatcherInv, OriginFollows
    <3> QED
      BY <1>10, <3>2, <3>3, <3>4, <3>5 DEF WatcherInv
  <2>3. CASE "in" \notin ev.events
    <3>1. ev' = NoEvent /\ ep' = NotAdded /\ ~read /\ co[Reader] = "idle"
      BY <1>7, <1>8, <1>13, <2>1, <2>3 DEF WriteStopped, WatcherInv, MaskFollows
    <3>2. Shape'
      BY <1>1, <1>11, <3>1 DEF WatcherInv, Shape, NoEvent, NotAdded, Masks
    <3>3. Agreement'
      BY <1>5, <3>1 DEF Agreement, NoEvent, NotAdded
    <3>4. Listed' /\ MaskFollows'
      BY <1>1, <1>12, <1>13, <1>15, <3>1, WatcherAssumption
      DEF WatcherInv, Listed, MaskFollows, NoEvent
    <3>5. OriginFollows'
      BY <1>1, <1>13, <1>15, <2>3, <3>1 DEF WatcherInv, OriginFollows, NoEvent
    <3> QED
      BY <1>10, <3>2, <3>3, <3>4, <3>5 DEF WatcherInv
  <2> QED
    BY <2>2, <2>3
<1> QED
  BY <1>14, <1>15

LEMMA EndIoStep ==
  ASSUME WatcherInv, Numbers', EndIo
  PROVE  WatcherInv'
BY DEF EndIo, socket, kernel, WatcherInv, Shape, Agreement, Listed, MaskFollows, OriginFollows,
       EdgeKept, Waiting, Readable, Writable

-----------------------------------------------------------------------------
(* What is proved.                                                         *)

LEMMA WatcherInit == ~FullDuplex /\ Init => WatcherInv
<1> SUFFICES ASSUME ~FullDuplex, Init PROVE WatcherInv
  OBVIOUS
<1>1. Numbers
  BY WatcherAssumption DEF Init, Numbers
<1>2. Shape
  BY DEF Init, Shape, NoEvent, NotAdded, Masks, Lists, Coros
<1>3. Agreement /\ MaskFollows
  BY WatcherAssumption DEF Init, Agreement, MaskFollows, NoEvent, NotAdded
<1>4. Listed /\ OriginFollows
  BY ListFacts, WatcherAssumption DEF Init, Listed, OriginFollows, NoEvent, Coros
<1>5. EdgeKept
  BY DEF Init, EdgeKept, Waiting, Coros
<1> QED
  BY <1>1, <1>2, <1>3, <1>4, <1>5 DEF WatcherInv

LEMMA WatcherPreserved ==
  ASSUME WatcherInv, [Next]_vars
  PROVE  WatcherInv'
<1>1. CASE UNCHANGED vars
  BY <1>1 DEF vars, WatcherInv, Numbers, Shape, Agreement, Listed, MaskFollows, OriginFollows,
              EdgeKept, Waiting, Readable, Writable
<1>2. CASE Next
  <2>1. Numbers'
    BY <1>2, NumbersStep DEF WatcherInv
  <2> QED
    BY <1>2, <2>1, KernelStep, WaitStep, OpenStep, CallStep, CloseStep, ReleaseStep, TimeoutReadStep,
       TimeoutWriteStep, RunReaderStep, RunWriterStep, WatchIoStep, EndIoStep
    DEF Next, Loop, Program
<1> QED
  BY <1>1, <1>2

LEMMA WatcherImplies ==
  ASSUME WatcherInv
  PROVE  WatcherAgreesWithKernel /\ NoLostEdge
<1>1. active \in Seq(Coros) /\ Len(active) <= 2
  <2>1. \A l \in Lists : l \in Seq(Coros) /\ Len(l) <= 2
    <3>1. <<>> \in Seq(Coros) /\ Len(<<>>) = 0
      OBVIOUS
    <3>2. <<Reader>> \in Seq(Coros) /\ Len(<<Reader>>) = 1
      BY DEF Coros
    <3>3. <<Writer>> \in Seq(Coros) /\ Len(<<Writer>>) = 1
      BY DEF Coros
    <3>4. <<Reader, Writer>> \in Seq(Coros) /\ Len(<<Reader, Writer>>) = 2
      BY DEF Coros
    <3>5. \A l \in Lists : l \in {<<>>, <<Reader>>, <<Writer>>, <<Reader, Writer>>}
      BY DEF Lists
    <3>6. \A l \in Lists : l \in Seq(Coros)
      BY <3>1, <3>2, <3>3, <3>4, <3>5, Zenon
    <3>7. \A l \in Lists : Len(l) \in {0, 1, 2}
      BY <3>1, <3>2, <3>3, <3>4, <3>5, Zenon
    <3>8. \A n \in {0, 1, 2} : n <= 2
      OBVIOUS
    <3> QED
      BY <3>6, <3>7, <3>8, Zenon
  <2> QED
    BY <2>1 DEF WatcherInv, Shape
<1>2. TypeOK
  BY <1>1 DEF WatcherInv, Numbers, Shape, Agreement, TypeOK
<1>3. NoLostEdge
  BY ListSets DEF WatcherInv, EdgeKept, NoLostEdge, Shape, Lists
<1> QED
  BY <1>2, <1>3 DEF WatcherInv, Agreement, WatcherAgreesWithKernel

\* epoll and ioEvents_ agree on every registration, no epoll_ctl call fails and no
\* assertion of the watcher does, whatever the buffers hold and however often the
\* descriptor is opened again: as long as a descriptor that its constructor did not
\* register has one coroutine at a time waiting on it.
THEOREM WatcherAndKernelAgree == ~FullDuplex => (Spec => []WatcherAgreesWithKernel)
<1>1. WatcherInv /\ [Next]_vars => WatcherInv'
  BY WatcherPreserved
<1>2. WatcherInv => WatcherAgreesWithKernel
  BY WatcherImplies
<1> QED
  BY <1>1, <1>2, WatcherInit, PTL DEF Spec

\* Edge triggering loses no edge, under the same condition.
THEOREM EdgesNotLost == ~FullDuplex => (Spec => []NoLostEdge)
<1>1. WatcherInv /\ [Next]_vars => WatcherInv'
  BY WatcherPreserved
<1>2. WatcherInv => NoLostEdge
  BY WatcherImplies
<1> QED
  BY <1>1, <1>2, WatcherInit, PTL DEF Spec
=============================================================================
