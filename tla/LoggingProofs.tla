--------------------------- MODULE LoggingProofs ---------------------------
(***************************************************************************)
(* Proofs about Logging, for every set of threads, loggers and sinks, every *)
(* configuration and all levels.                                            *)
(***************************************************************************)
EXTENDS Logging, SequenceTheorems, TLAPS

-----------------------------------------------------------------------------
(* Types, and the shape of a thread's stack: all frames but the last report *)
(* a broken sink.                                                           *)

Pcs == {"off", "level", "compare", "sink", "nested", "flush"}
Frames ==
  [logger : Loggers, level : 0..FATAL, id : Nat, time : Nat, owned : BOOLEAN, since : Nat,
   pc : Pcs, at : Nat]
Lines == [thread : Threads, id : Nat, nested : BOOLEAN, time : Nat, shown : Nat]

Types ==
  /\ level \in [Loggers -> 0..OFF]
  /\ mainLogger \in Loggers /\ registered \subseteq Loggers /\ pointers \subseteq Loggers
  /\ replaced \in Nat
  /\ stack \in [Threads -> Seq(Frames)]
  /\ mutex \in [Sinks -> Threads \cup {None}]
  /\ content \in [Sinks -> Seq(Lines)]
  /\ flushed \in [Sinks -> Nat] /\ second \in [Sinks -> Nat] /\ lastFlush \in [Sinks -> Nat]
  /\ calls \in Nat /\ now \in Nat

SinkCount(f) == Len(SinksOf[f.logger])
AtSink(f) == SinksOf[f.logger][f.at]

InRange(f) ==
  /\ f.pc \in {"off", "level", "compare"} => f.at = 1
  /\ f.pc \in {"sink", "nested"} => f.at \in 1..SinkCount(f)
  /\ f.pc = "flush" => f.at \in 1..(SinkCount(f) + 1)

Shape ==
  \A t \in Threads : \A i \in 1..Len(stack[t]) :
    /\ InRange(stack[t][i])
    /\ i < Len(stack[t]) => stack[t][i].pc = "nested"
    /\ i > 1 => stack[t][i].level = ERROR

\* A held mutex is a broken sink's, and its holder is reporting that sink.
Holders ==
  \A s \in Sinks : mutex[s] # None =>
    /\ s \in Broken
    /\ \E i \in 1..Len(stack[mutex[s]]) :
         stack[mutex[s]][i].pc = "nested" /\ AtSink(stack[mutex[s]][i]) = s

Sound == Types /\ Shape /\ Holders

\* The loggers have each sink once.
DistinctSinks == \A l \in Loggers : IsInjective(SinksOf[l])

\* A call has written to the sinks it has passed and to no other; earlier calls of
\* its thread have smaller numbers.
Passed(f, s) ==
  \/ f.pc = "flush"
  \/ f.pc \in {"sink", "nested"} /\ \E k \in 1..(f.at - 1) : SinksOf[f.logger][k] = s
IsLineOf(line, t) == line.thread = t /\ ~line.nested

Ordered ==
  /\ LinesInOrder
  /\ \A s \in Sinks : \A i \in 1..Len(content[s]) : ~content[s][i].nested => content[s][i].id <= calls
  /\ \A t \in Threads : stack[t] # <<>> =>
       /\ stack[t][1].id <= calls
       /\ \A s \in Sinks : \A i \in 1..Len(content[s]) : IsLineOf(content[s][i], t) =>
            /\ content[s][i].id <= stack[t][1].id
            /\ content[s][i].id = stack[t][1].id => Passed(stack[t][1], s)

InStream(s, f) == \E i \in 1..Len(content[s]) : content[s][i].id = f.id /\ content[s][i].time = f.time

\* A call that passed the check of OFF is for a logger that is on, or was switched
\* off during the call.  A fatal line is in the streams of the sinks passed, then flushed.
Kept(f) ==
  /\ f.pc = "nested" => AtSink(f) \in Broken
  /\ f.pc \in {"level", "compare"} => level[f.logger] # OFF \/ SwitchedOff(f)
  /\ f.level = FATAL /\ ~SwitchedOff(f) =>
       /\ f.pc \in {"sink", "nested"} =>
            \A k \in 1..(f.at - 1) : SinksOf[f.logger][k] \notin Broken => InStream(SinksOf[f.logger][k], f)
       /\ f.pc = "flush" =>
            /\ \A k \in 1..SinkCount(f) : SinksOf[f.logger][k] \notin Broken => InStream(SinksOf[f.logger][k], f)
            /\ \A k \in 1..(f.at - 1) : SinksOf[f.logger][k] \notin Broken => OnDisk(SinksOf[f.logger][k], f)

Fatal ==
  /\ FatalLineKept
  /\ died = None => \A t \in Threads : \A i \in 1..Len(stack[t]) : Kept(stack[t][i])
  /\ \A s \in Sinks : flushed[s] <= Len(content[s])

-----------------------------------------------------------------------------
(* What a step does to the stack of its thread.                            *)

OthersKept(t) == stack' \in [Threads -> Seq(Frames)] /\ \A u \in Threads : u # t => stack'[u] = stack[u]

SameCall(g, f) ==
  /\ g.logger = f.logger /\ g.level = f.level /\ g.id = f.id /\ g.time = f.time
  /\ g.owned = f.owned /\ g.since = f.since

\* The innermost frame goes to label.
TopMoves(t, label, at) ==
  /\ OthersKept(t)
  /\ Len(stack'[t]) = Len(stack[t])
  /\ \A i \in 1..(Len(stack[t]) - 1) : stack'[t][i] = stack[t][i]
  /\ SameCall(stack'[t][Len(stack[t])], Top(t))
  /\ stack'[t][Len(stack[t])].pc = label /\ stack'[t][Len(stack[t])].at = at

\* The innermost frame is left.
Pops(t) ==
  /\ OthersKept(t)
  /\ Len(stack'[t]) = Len(stack[t]) - 1
  /\ \A i \in 1..(Len(stack[t]) - 1) : stack'[t][i] = stack[t][i]

\* A new frame of the main logger is entered from a sink.
Pushes(t) ==
  /\ OthersKept(t)
  /\ Len(stack'[t]) = Len(stack[t]) + 1
  /\ \A i \in 1..(Len(stack[t]) - 1) : stack'[t][i] = stack[t][i]
  /\ SameCall(stack'[t][Len(stack[t])], Top(t))
  /\ stack'[t][Len(stack[t])].pc = "nested" /\ stack'[t][Len(stack[t])].at = Top(t).at
  /\ stack'[t][Len(stack[t]) + 1] = Frame(mainLogger, ERROR, Top(t).id, now, FALSE)

\* Replacing an element of a sequence, and leaving out the last one.
LEMMA PutProperties ==
  ASSUME NEW S, NEW s \in Seq(S), NEW g \in S, NEW n \in 1..Len(s)
  PROVE  /\ [s EXCEPT ![n] = g] \in Seq(S) /\ Len([s EXCEPT ![n] = g]) = Len(s)
         /\ [s EXCEPT ![n] = g][n] = g
         /\ \A i \in 1..Len(s) : i # n => [s EXCEPT ![n] = g][i] = s[i]
OBVIOUS

LEMMA FrontFacts ==
  ASSUME NEW S, NEW s \in Seq(S), Len(s) > 0
  PROVE  /\ Front(s) \in Seq(S) /\ Len(Front(s)) = Len(s) - 1
         /\ \A i \in 1..(Len(s) - 1) : Front(s)[i] = s[i]
<1>1. Front(s) = SubSeq(s, 1, Len(s) - 1)
  BY DEF Front
<1>2. PICK n \in Nat : n = Len(s) - 1
  OBVIOUS
<1>3. \A i \in 1..n : s[i] \in S
  BY <1>2
<1>4. SubSeq(s, 1, n) \in Seq(S) /\ Len(SubSeq(s, 1, n)) = n
  BY <1>3, SubSeqProperties
<1>5. \A i \in 1..n : SubSeq(s, 1, n)[i] = s[i]
  BY <1>3, SubSeqProperties
<1> QED
  BY <1>1, <1>2, <1>4, <1>5

LEMMA TopFacts ==
  ASSUME Types, NEW t \in Threads, stack[t] # <<>>
  PROVE  /\ stack[t] \in Seq(Frames) /\ Len(stack[t]) \in Nat /\ Len(stack[t]) > 0
         /\ Top(t) = stack[t][Len(stack[t])] /\ Top(t) \in Frames
         /\ Len(stack[t]) \in 1..Len(stack[t])
<1>1. stack[t] \in Seq(Frames)
  BY DEF Types
<1>2. Len(stack[t]) \in Nat /\ Len(stack[t]) > 0
  BY <1>1
<1>3. Top(t) = stack[t][Len(stack[t])]
  BY DEF Top, Last
<1>4. stack[t][Len(stack[t])] \in Frames
  BY <1>1, <1>2
<1> QED
  BY <1>1, <1>2, <1>3, <1>4

LEMMA MoveTop ==
  ASSUME Types, NEW t \in Threads, stack[t] # <<>>, NEW g \in Frames, SameCall(g, Top(t)),
         stack' = [stack EXCEPT ![t] = [stack[t] EXCEPT ![Len(stack[t])] = g]]
  PROVE  TopMoves(t, g.pc, g.at)
<1> DEFINE n == Len(stack[t])
           s == [stack[t] EXCEPT ![n] = g]
<1>1. /\ stack \in [Threads -> Seq(Frames)] /\ stack[t] \in Seq(Frames) /\ n \in 1..n /\ n \in Nat
  BY TopFacts DEF Types
<1>2. s \in Seq(Frames) /\ Len(s) = n /\ s[n] = g /\ \A i \in 1..n : i # n => s[i] = stack[t][i]
  BY <1>1, PutProperties
<1>3. stack' = [stack EXCEPT ![t] = s]
  OBVIOUS
<1> HIDE DEF s
<1>4. stack'[t] = s /\ OthersKept(t)
  BY <1>1, <1>2, <1>3 DEF OthersKept
<1> HIDE DEF n
<1>5. \A i \in 1..(n - 1) : s[i] = stack[t][i]
  BY <1>1, <1>2
<1> QED
  BY <1>2, <1>4, <1>5 DEF TopMoves, n

LEMMA GotoMoves ==
  ASSUME Types, NEW t \in Threads, stack[t] # <<>>, NEW label \in Pcs, Goto(t, label)
  PROVE  TopMoves(t, label, 1)
<1>1. /\ stack \in [Threads -> Seq(Frames)] /\ stack[t] \in Seq(Frames) /\ Len(stack[t]) \in 1..Len(stack[t])
      /\ Top(t) = stack[t][Len(stack[t])] /\ Top(t) \in Frames
  BY TopFacts DEF Types
<1>2. PICK f \in Frames, at \in Nat : f = Top(t) /\ at = 1
  BY <1>1 DEF Frames
<1> DEFINE g == [[f EXCEPT !.pc = label] EXCEPT !.at = at]
<1>3. g \in Frames /\ SameCall(g, f) /\ g.pc = label /\ g.at = at
  BY DEF Frames, SameCall
<1>4. stack' = [stack EXCEPT ![t] = [stack[t] EXCEPT ![Len(stack[t])] = g]]
  BY <1>1, <1>2 DEF Goto
<1> HIDE DEF g
<1> QED
  BY <1>2, <1>3, <1>4, MoveTop

LEMMA StayMoves ==
  ASSUME Types, NEW t \in Threads, stack[t] # <<>>, NEW label \in Pcs, Stay(t, label)
  PROVE  TopMoves(t, label, Top(t).at + 1)
<1>1. /\ stack \in [Threads -> Seq(Frames)] /\ stack[t] \in Seq(Frames) /\ Len(stack[t]) \in 1..Len(stack[t])
      /\ Top(t) = stack[t][Len(stack[t])] /\ Top(t) \in Frames
  BY TopFacts DEF Types
<1>2. PICK f \in Frames, at \in Nat : f = Top(t) /\ at = Top(t).at + 1
  BY <1>1 DEF Frames
<1> DEFINE g == [[f EXCEPT !.pc = label] EXCEPT !.at = at]
<1>3. g \in Frames /\ SameCall(g, f) /\ g.pc = label /\ g.at = at
  BY DEF Frames, SameCall
<1>4. stack' = [stack EXCEPT ![t] = [stack[t] EXCEPT ![Len(stack[t])] = g]]
  BY <1>1, <1>2 DEF Stay, Frames
<1> HIDE DEF g
<1> QED
  BY <1>2, <1>3, <1>4, MoveTop

LEMMA ReturnPops ==
  ASSUME Types, NEW t \in Threads, stack[t] # <<>>, Return(t)
  PROVE  Pops(t)
<1>1. stack \in [Threads -> Seq(Frames)] /\ stack[t] \in Seq(Frames) /\ Len(stack[t]) \in Nat /\ Len(stack[t]) > 0
  BY TopFacts DEF Types
<1>2. /\ Front(stack[t]) \in Seq(Frames) /\ Len(Front(stack[t])) = Len(stack[t]) - 1
      /\ \A i \in 1..(Len(stack[t]) - 1) : Front(stack[t])[i] = stack[t][i]
  BY <1>1, FrontFacts
<1>3. stack'[t] = Front(stack[t]) /\ OthersKept(t)
  BY <1>1, <1>2 DEF Return, OthersKept
<1> QED
  BY <1>2, <1>3 DEF Pops

LEMMA SinkBrokenPushes ==
  ASSUME Types, NEW t \in Threads, SinkBroken(t)
  PROVE  Pushes(t)
<1>0. stack[t] # <<>>
  BY DEF SinkBroken, In
<1>1. /\ stack \in [Threads -> Seq(Frames)] /\ stack[t] \in Seq(Frames) /\ Len(stack[t]) \in Nat
      /\ Len(stack[t]) \in 1..Len(stack[t]) /\ Top(t) = stack[t][Len(stack[t])] /\ Top(t) \in Frames
  BY <1>0, TopFacts DEF Types
<1> DEFINE n == Len(stack[t])
           g == [Top(t) EXCEPT !.pc = "nested"]
           s == [stack[t] EXCEPT ![n] = g]
           f == Frame(mainLogger, ERROR, Top(t).id, now, FALSE)
<1>2. g \in Frames /\ SameCall(g, Top(t)) /\ g.pc = "nested" /\ g.at = Top(t).at
  BY <1>1 DEF Frames, SameCall, Pcs
<1>3. f \in Frames
  BY <1>1 DEF Frame, Frames, Types, Pcs, ERROR, FATAL
<1>4. stack' = [stack EXCEPT ![t] = Append(s, f)]
  BY <1>1 DEF SinkBroken
<1> HIDE DEF g, f
<1>5. s \in Seq(Frames) /\ Len(s) = n /\ s[n] = g /\ \A i \in 1..(n - 1) : s[i] = stack[t][i]
  BY <1>1, <1>2
<1> HIDE DEF s
<1>6. /\ Append(s, f) \in Seq(Frames) /\ Len(Append(s, f)) = n + 1 /\ Append(s, f)[n + 1] = f
      /\ \A i \in 1..n : Append(s, f)[i] = s[i]
  BY <1>3, <1>5, AppendProperties
<1>7. stack'[t] = Append(s, f) /\ OthersKept(t)
  BY <1>1, <1>4, <1>6 DEF OthersKept
<1>8. stack'[t][n] = g /\ \A i \in 1..(n - 1) : stack'[t][i] = stack[t][i]
  BY <1>1, <1>5, <1>6, <1>7
<1> QED
  BY <1>2, <1>6, <1>7, <1>8 DEF Pushes, f

\* After a sink comes the next one, or flushing.
AfterSink(label, at, f) ==
  IF f.at = SinkCount(f) THEN label = "flush" /\ at = 1 ELSE label = "sink" /\ at = f.at + 1

LEMMA NextSinkMoves ==
  ASSUME Types, NEW t \in Threads, stack[t] # <<>>, NextSink(t, "sink")
  PROVE  \E label, at : TopMoves(t, label, at) /\ AfterSink(label, at, Top(t))
<1>1. "flush" \in Pcs /\ "sink" \in Pcs
  BY DEF Pcs
<1>2. CASE Top(t).at = SinkCount(Top(t))
  <2>1. TopMoves(t, "flush", 1) /\ AfterSink("flush", 1, Top(t))
    BY <1>1, <1>2, GotoMoves DEF NextSink, SinkCount, AfterSink
  <2> QED
    BY <2>1
<1>3. CASE Top(t).at # SinkCount(Top(t))
  <2>1. TopMoves(t, "sink", Top(t).at + 1) /\ AfterSink("sink", Top(t).at + 1, Top(t))
    BY <1>1, <1>3, StayMoves DEF NextSink, SinkCount, AfterSink
  <2> QED
    BY <2>1
<1> QED
  BY <1>2, <1>3

-----------------------------------------------------------------------------
(* The shape of the stacks, and the holders of the mutexes.                *)

LEMMA ShapeMoves ==
  ASSUME Types, Shape, NEW t \in Threads, stack[t] # <<>>, NEW label, NEW at, TopMoves(t, label, at),
         label \in {"level", "compare"} => at = 1,
         label = "sink" => at \in 1..SinkCount(Top(t)),
         label = "flush" => at \in 1..(SinkCount(Top(t)) + 1),
         label \in {"level", "compare", "sink", "flush"}
  PROVE  Shape'
<1>1. SUFFICES ASSUME NEW u \in Threads, NEW i \in 1..Len(stack'[u])
               PROVE  /\ InRange(stack'[u][i])
                      /\ i < Len(stack'[u]) => stack'[u][i].pc = "nested"
                      /\ i > 1 => stack'[u][i].level = ERROR
  BY DEF Shape, InRange, SinkCount
<1>2. CASE u # t
  BY <1>1, <1>2 DEF TopMoves, OthersKept, Shape
<1>3. CASE u = t
  <2>1. PICK n \in Nat : n = Len(stack[t]) /\ n > 0 /\ Top(t) = stack[t][n]
    BY TopFacts
  <2>2. CASE i < n
    BY <1>1, <1>3, <2>1, <2>2 DEF TopMoves, Shape
  <2>3. CASE i = n
    <3>1. SameCall(stack'[t][n], Top(t)) /\ stack'[t][n].pc = label /\ stack'[t][n].at = at
      BY <2>1 DEF TopMoves
    <3>2. InRange(stack'[t][n])
      BY <3>1 DEF InRange, SameCall, SinkCount
    <3>3. n > 1 => stack[t][n].level = ERROR
      BY <2>1 DEF Shape
    <3> QED
      BY <1>3, <2>1, <2>3, <3>1, <3>2, <3>3 DEF TopMoves, SameCall
  <2> QED
    BY <1>1, <1>3, <2>1, <2>2, <2>3 DEF TopMoves
<1> QED
  BY <1>2, <1>3

LEMMA ShapePops ==
  ASSUME Types, Shape, NEW t \in Threads, stack[t] # <<>>, Pops(t)
  PROVE  Shape'
<1>1. SUFFICES ASSUME NEW u \in Threads, NEW i \in 1..Len(stack'[u])
               PROVE  /\ InRange(stack'[u][i])
                      /\ i < Len(stack'[u]) => stack'[u][i].pc = "nested"
                      /\ i > 1 => stack'[u][i].level = ERROR
  BY DEF Shape, InRange, SinkCount
<1>2. CASE u # t
  BY <1>1, <1>2 DEF Pops, OthersKept, Shape
<1>3. CASE u = t
  <2>1. PICK n \in Nat : n = Len(stack[t]) /\ n > 0
    BY TopFacts
  <2>2. i \in 1..(n - 1) /\ i \in 1..n /\ i < n /\ stack'[t][i] = stack[t][i]
    BY <1>1, <1>3, <2>1 DEF Pops
  <2> QED
    BY <1>3, <2>1, <2>2 DEF Shape
<1> QED
  BY <1>2, <1>3

LEMMA ShapePushes ==
  ASSUME Types, Shape, NEW t \in Threads, stack[t] # <<>>, Top(t).pc = "sink", Pushes(t)
  PROVE  Shape'
<1>1. SUFFICES ASSUME NEW u \in Threads, NEW i \in 1..Len(stack'[u])
               PROVE  /\ InRange(stack'[u][i])
                      /\ i < Len(stack'[u]) => stack'[u][i].pc = "nested"
                      /\ i > 1 => stack'[u][i].level = ERROR
  BY DEF Shape, InRange, SinkCount
<1>2. CASE u # t
  BY <1>1, <1>2 DEF Pushes, OthersKept, Shape
<1>3. CASE u = t
  <2>1. PICK n \in Nat : n = Len(stack[t]) /\ n > 0 /\ Top(t) = stack[t][n]
    BY TopFacts
  <2>2. CASE i < n
    BY <1>1, <1>3, <2>1, <2>2 DEF Pushes, Shape
  <2>3. CASE i = n
    <3>1. SameCall(stack'[t][n], Top(t)) /\ stack'[t][n].pc = "nested" /\ stack'[t][n].at = Top(t).at
      BY <2>1 DEF Pushes
    <3>2. InRange(Top(t)) /\ (n > 1 => stack[t][n].level = ERROR)
      BY <2>1 DEF Shape
    <3>3. InRange(stack'[t][n])
      BY <3>1, <3>2 DEF InRange, SameCall, SinkCount
    <3> QED
      BY <1>3, <2>1, <2>3, <3>1, <3>2, <3>3 DEF SameCall
  <2>4. CASE i = n + 1
    <3>1. stack'[t][n + 1] = Frame(mainLogger, ERROR, Top(t).id, now, FALSE) /\ Len(stack'[t]) = n + 1
      BY <2>1 DEF Pushes
    <3> QED
      BY <1>3, <2>1, <2>4, <3>1 DEF Frame, InRange, SinkCount
  <2> QED
    BY <1>1, <1>3, <2>1, <2>2, <2>3, <2>4 DEF Pushes
<1> QED
  BY <1>2, <1>3

\* A thread that is not at a report keeps its reports when its innermost frame
\* moves on or is left.
LEMMA HoldersKept ==
  ASSUME Types, Holders, NEW t \in Threads, stack[t] # <<>>, Top(t).pc # "nested", UNCHANGED mutex,
         OthersKept(t), Len(stack'[t]) >= Len(stack[t]) - 1,
         \A i \in 1..(Len(stack[t]) - 1) : stack'[t][i] = stack[t][i]
  PROVE  Holders'
<1>1. SUFFICES ASSUME NEW s \in Sinks, mutex[s] # None
               PROVE  /\ s \in Broken
                      /\ \E i \in 1..Len(stack'[mutex[s]]) :
                           stack'[mutex[s]][i].pc = "nested" /\ AtSink(stack'[mutex[s]][i]) = s
  BY DEF Holders, AtSink
<1>2. PICK u \in Threads : u = mutex[s]
  BY <1>1 DEF Types
<1>3. s \in Broken
  BY <1>1 DEF Holders
<1>4. PICK i \in 1..Len(stack[u]) : stack[u][i].pc = "nested" /\ AtSink(stack[u][i]) = s
  BY <1>1, <1>2 DEF Holders
<1>5. CASE u # t
  BY <1>2, <1>3, <1>4, <1>5 DEF OthersKept
<1>6. CASE u = t
  <2>1. PICK n \in Nat : n = Len(stack[t]) /\ n > 0 /\ Top(t) = stack[t][n]
    BY TopFacts
  <2>2. i # n
    BY <1>4, <1>6, <2>1
  <2>3. PICK m \in Nat : m = Len(stack'[t])
    BY SMTT(30) DEF OthersKept
  <2>4. i \in 1..m /\ stack'[t][i] = stack[t][i]
    BY <1>4, <1>6, <2>1, <2>2, <2>3
  <2> QED
    BY <1>2, <1>3, <1>4, <1>6, <2>3, <2>4
<1> QED
  BY <1>5, <1>6


LEMMA HoldersMoves ==
  ASSUME Types, Holders, NEW t \in Threads, stack[t] # <<>>, Top(t).pc # "nested", UNCHANGED mutex,
         NEW label, NEW at, TopMoves(t, label, at) \/ Pops(t)
  PROVE  Holders'
<1>1. Len(stack[t]) \in Nat
  BY TopFacts
<1>2. Len(stack'[t]) >= Len(stack[t]) - 1
  BY <1>1 DEF TopMoves, Pops
<1>3. OthersKept(t) /\ \A i \in 1..(Len(stack[t]) - 1) : stack'[t][i] = stack[t][i]
  BY DEF TopMoves, Pops
<1> QED
  BY <1>2, <1>3, HoldersKept

\* The innermost call of t adds its line to the stream of s.
Line(t) ==
  [thread |-> t, id |-> Top(t).id, nested |-> Len(stack[t]) > 1, time |-> Top(t).time, shown |-> Top(t).time]
Writes(t, s) ==
  /\ content' \in [Sinks -> Seq(Lines)]
  /\ \A r \in Sinks : r # s => content'[r] = content[r]
  /\ Len(content'[s]) = Len(content[s]) + 1
  /\ \A i \in 1..Len(content[s]) : content'[s][i] = content[s][i]
  /\ content'[s][Len(content[s]) + 1] = Line(t)

LEMMA AtSinks ==
  ASSUME Types, Shape, NEW t \in Threads, stack[t] # <<>>
  PROVE  /\ InRange(Top(t)) /\ SinkAt(t) = AtSink(Top(t)) /\ Top(t).logger \in Loggers
         /\ SinkCount(Top(t)) \in Nat /\ Top(t).at \in Nat
         /\ Top(t).at \in 1..SinkCount(Top(t)) => SinkAt(t) \in Sinks
<1>1. Top(t) \in Frames /\ Top(t) = stack[t][Len(stack[t])] /\ Len(stack[t]) \in 1..Len(stack[t])
  BY TopFacts
<1>2. InRange(Top(t))
  BY <1>1 DEF Shape
<1>3. Top(t).logger \in Loggers /\ Top(t).at \in Nat
  BY <1>1 DEF Frames
<1>4. SinksOf[Top(t).logger] \in Seq(Sinks)
  BY <1>3, LoggingAssumption
<1> QED
  BY <1>2, <1>3, <1>4 DEF SinkAt, AtSink, SinkCount

LEMMA SinkWrites ==
  ASSUME Types, Shape, NEW t \in Threads, Sink(t)
  PROVE  SinkAt(t) \in Sinks \ Broken /\ mutex[SinkAt(t)] = None /\ Writes(t, SinkAt(t))
<1>0. stack[t] # <<>> /\ Top(t).pc = "sink"
  BY DEF Sink, In
<1>1. PICK s : s = SinkAt(t)
  OBVIOUS
<1>2. s \in Sinks
  BY <1>0, <1>1, AtSinks DEF InRange
<1>3. Top(t) \in Frames /\ Len(stack[t]) \in Nat
  BY <1>0, TopFacts
<1>4. Line(t) \in Lines
  BY <1>3 DEF Line, Lines, Frames
<1>5. Format(s, Top(t).time) = Top(t).time
  BY <1>3 DEF Format
<1>6. s \notin Broken /\ mutex[s] = None /\ content' = [content EXCEPT ![s] = Append(content[s], Line(t))]
  BY <1>1, <1>5 DEF Sink, Line, Free
<1>7. content \in [Sinks -> Seq(Lines)] /\ content[s] \in Seq(Lines)
  BY <1>2 DEF Types
<1> DEFINE new == Append(content[s], Line(t))
<1>8. /\ new \in Seq(Lines) /\ Len(new) = Len(content[s]) + 1 /\ new[Len(content[s]) + 1] = Line(t)
      /\ \A i \in 1..Len(content[s]) : new[i] = content[s][i]
  BY <1>4, <1>7, AppendProperties
<1>9. content' = [content EXCEPT ![s] = new]
  BY <1>6
<1> HIDE DEF new
<1>10. content' \in [Sinks -> Seq(Lines)] /\ content'[s] = new /\ \A r \in Sinks : r # s => content'[r] = content[r]
  BY <1>2, <1>7, <1>8, <1>9
<1>11. Writes(t, s)
  BY <1>8, <1>10 DEF Writes
<1> QED
  BY <1>1, <1>2, <1>6, <1>11

\* The steps of a call of Log, other than its first and its last.
LEMMA SinkSound ==
  ASSUME Sound, NEW t \in Threads, Sink(t)
  PROVE  Sound'
<1>0. stack[t] # <<>> /\ Top(t).pc = "sink" /\ NextSink(t, "sink")
  BY DEF Sink, In
<1>1. PICK s : s = SinkAt(t)
  OBVIOUS
<1>2. s \in Sinks /\ Writes(t, s)
  BY <1>1, SinkWrites DEF Sound
<1>3. UNCHANGED <<level, mainLogger, registered, pointers, replaced, mutex, calls, now>>
  BY DEF Sink, Managed
<1>4. Top(t) \in Frames
  BY <1>0, TopFacts DEF Sound
<1>5. PICK time \in Nat : time = Top(t).time
  BY <1>4 DEF Frames
<1>6. Len(content'[s]) \in Nat
  BY <1>2 DEF Writes
<1>7. /\ second' \in [Sinks -> Nat] /\ flushed' \in [Sinks -> Nat] /\ lastFlush' \in [Sinks -> Nat]
  <2>1. Format(s, time) = time
    BY <1>5 DEF Format
  <2>2. /\ second' = [second EXCEPT ![s] = time]
        /\ flushed' = flushed \/ flushed' = [flushed EXCEPT ![s] = Len(content'[s])]
        /\ lastFlush' = lastFlush \/ lastFlush' = [lastFlush EXCEPT ![s] = time]
    BY <1>1, <1>5, <2>1 DEF Sink
  <2> QED
    BY <1>2, <1>5, <1>6, <2>2 DEF Sound, Types
<1>8. PICK label, at : TopMoves(t, label, at) /\ AfterSink(label, at, Top(t))
  BY <1>0, NextSinkMoves DEF Sound
<1>9. /\ label = "sink" => at \in 1..SinkCount(Top(t))
      /\ label = "flush" => at \in 1..(SinkCount(Top(t)) + 1)
      /\ label \in {"sink", "flush"}
  BY <1>0, <1>8, AtSinks DEF Sound, InRange, AfterSink
<1>10. Shape'
  BY <1>0, <1>8, <1>9, ShapeMoves DEF Sound
<1>11. Holders'
  BY <1>0, <1>3, <1>8, HoldersMoves DEF Sound
<1>12. Types'
  BY <1>2, <1>3, <1>7, <1>8 DEF Sound, Types, TopMoves, OthersKept, Writes
<1> QED
  BY <1>10, <1>11, <1>12 DEF Sound


\* A step of a call that holds no mutex and changes the sinks at most by flushing.
LEMMA MovesSound ==
  ASSUME Sound, NEW t \in Threads, stack[t] # <<>>, Top(t).pc # "nested",
         UNCHANGED <<level, mainLogger, registered, pointers, replaced, mutex, content, second, lastFlush, calls, now>>,
         flushed' \in [Sinks -> Nat],
         NEW label, NEW at,
         \/ Pops(t)
         \/ /\ TopMoves(t, label, at)
            /\ label \in {"level", "compare"} => at = 1
            /\ label = "sink" => at \in 1..SinkCount(Top(t))
            /\ label = "flush" => at \in 1..(SinkCount(Top(t)) + 1)
            /\ label \in {"level", "compare", "sink", "flush"}
  PROVE  Sound'
<1>1. Shape'
  BY ShapeMoves, ShapePops DEF Sound
<1>2. Holders'
  BY HoldersMoves DEF Sound
<1>3. Types'
  BY DEF Sound, Types, TopMoves, Pops, OthersKept
<1> QED
  BY <1>1, <1>2, <1>3 DEF Sound

LEMMA StaysSound ==
  ASSUME Sound,
         UNCHANGED <<level, mainLogger, registered, pointers, replaced, stack, mutex, content, flushed, second, lastFlush, calls, now>>
  PROVE  Sound'
BY ZenonT(60) DEF Sound, Types, Shape, InRange, SinkCount, Holders, AtSink

LEMMA CheckOffSound ==
  ASSUME Sound, NEW t \in Threads, CheckOff(t)
  PROVE  Sound'
<1>1. /\ stack[t] # <<>> /\ Top(t).pc # "nested"
      /\ UNCHANGED <<level, mainLogger, registered, pointers, replaced, mutex, content, flushed, second, lastFlush, calls, now>>
      /\ Return(t) \/ Goto(t, "level")
  BY DEF CheckOff, In, Managed
<1>2. Pops(t) \/ TopMoves(t, "level", 1)
  BY <1>1, ReturnPops, GotoMoves DEF Sound, Pcs
<1> QED
  BY <1>1, <1>2, MovesSound DEF Sound, Types

LEMMA AssertLevelSound ==
  ASSUME Sound, NEW t \in Threads, AssertLevel(t)
  PROVE  Sound'
<1>1. /\ stack[t] # <<>> /\ Top(t).pc # "nested"
      /\ UNCHANGED <<level, mainLogger, registered, pointers, replaced, mutex, content, flushed, second, lastFlush, calls, now>>
      /\ UNCHANGED stack \/ Goto(t, "compare")
  BY DEF AssertLevel, In, Managed
<1>2. UNCHANGED stack \/ TopMoves(t, "compare", 1)
  BY <1>1, GotoMoves DEF Sound, Pcs
<1> QED
  BY <1>1, <1>2, MovesSound, StaysSound DEF Sound, Types

LEMMA CompareLevelSound ==
  ASSUME Sound, NEW t \in Threads, CompareLevel(t)
  PROVE  Sound'
<1>1. /\ stack[t] # <<>> /\ Top(t).pc # "nested"
      /\ UNCHANGED <<level, mainLogger, registered, pointers, replaced, mutex, content, flushed, second, lastFlush, calls, now>>
      /\ (Goto(t, "sink") /\ SinksOf[Top(t).logger] # <<>>) \/ Goto(t, "flush")
  BY DEF CompareLevel, In, Managed
<1>2. (TopMoves(t, "sink", 1) /\ SinksOf[Top(t).logger] # <<>>) \/ TopMoves(t, "flush", 1)
  BY <1>1, GotoMoves DEF Sound, Pcs
<1>3. Top(t).logger \in Loggers /\ SinkCount(Top(t)) \in Nat
  BY <1>1, AtSinks DEF Sound
<1>4. SinksOf[Top(t).logger] # <<>> => SinkCount(Top(t)) > 0
  BY <1>3, LoggingAssumption DEF SinkCount
<1>5. flushed' \in [Sinks -> Nat]
  BY <1>1 DEF Sound, Types
<1>6. CASE TopMoves(t, "sink", 1) /\ SinksOf[Top(t).logger] # <<>>
  <2>1. 1 \in 1..SinkCount(Top(t))
    BY <1>3, <1>4, <1>6
  <2> QED
    BY <1>1, <1>5, <1>6, <2>1, MovesSound
<1>7. CASE TopMoves(t, "flush", 1)
  <2>1. 1 \in 1..(SinkCount(Top(t)) + 1)
    BY <1>3
  <2> QED
    BY <1>1, <1>5, <1>7, <2>1, MovesSound
<1> QED
  BY <1>2, <1>6, <1>7

LEMMA FlushSound ==
  ASSUME Sound, NEW t \in Threads, Flush(t)
  PROVE  Sound'
<1>1. /\ stack[t] # <<>> /\ Top(t).pc = "flush" /\ ~SinksDone(t) /\ Stay(t, "flush")
      /\ UNCHANGED <<level, mainLogger, registered, pointers, replaced, mutex, content, second, lastFlush, calls, now>>
  BY DEF Flush, In, Managed
<1>2. TopMoves(t, "flush", Top(t).at + 1)
  BY <1>1, StayMoves DEF Sound, Pcs
<1>3. Top(t).at + 1 \in 1..(SinkCount(Top(t)) + 1)
  BY <1>1, AtSinks DEF Sound, SinksDone, SinkCount
<1>4. \A s \in Sinks : Len(content[s]) \in Nat
  BY DEF Sound, Types
<1>5. flushed' \in [Sinks -> Nat]
  BY <1>4 DEF Flush, Sound, Types
<1> QED
  BY <1>1, <1>2, <1>3, <1>5, MovesSound

LEMMA FinishSound ==
  ASSUME Sound, NEW t \in Threads, Finish(t)
  PROVE  Sound'
<1>1. /\ stack[t] # <<>> /\ Top(t).pc # "nested"
      /\ UNCHANGED <<level, mainLogger, registered, pointers, replaced, mutex, content, flushed, second, lastFlush, calls, now>>
      /\ UNCHANGED stack \/ Return(t)
  BY DEF Finish, In, Managed
<1>2. UNCHANGED stack \/ Pops(t)
  BY <1>1, ReturnPops DEF Sound
<1> QED
  BY <1>1, <1>2, MovesSound, StaysSound DEF Sound, Types

\* A broken sink: its mutex is taken, and given back when the error was logged.
LEMMA SinkBrokenSound ==
  ASSUME Sound, NEW t \in Threads, SinkBroken(t)
  PROVE  Sound'
<1>1. PICK r : r = SinkAt(t)
  OBVIOUS
<1>2. /\ stack[t] # <<>> /\ Top(t).pc = "sink" /\ r \in Broken
      /\ UNCHANGED <<level, mainLogger, registered, pointers, replaced, content, flushed, second, lastFlush, calls, now>>
      /\ mutex[r] = None /\ mutex' = [mutex EXCEPT ![r] = t]
  BY <1>1 DEF SinkBroken, In, Managed, Lock, Free
<1>3. Pushes(t)
  BY SinkBrokenPushes DEF Sound
<1>4. r \in Sinks
  BY <1>2, LoggingAssumption
<1>5. Shape'
  BY <1>2, <1>3, ShapePushes DEF Sound
<1>6. Types'
  <2>1. mutex' \in [Sinks -> Threads \cup {None}]
    BY <1>2, <1>4 DEF Sound, Types
  <2> QED
    BY <1>2, <1>3, <2>1 DEF Sound, Types, Pushes, OthersKept
<1>8. Holders'
  <2>1. SUFFICES ASSUME NEW s \in Sinks, mutex'[s] # None
                 PROVE  /\ s \in Broken
                        /\ \E i \in 1..Len(stack'[mutex'[s]]) :
                             stack'[mutex'[s]][i].pc = "nested" /\ AtSink(stack'[mutex'[s]][i]) = s
    BY DEF Holders, AtSink
  <2>2. PICK n \in Nat : n = Len(stack[t]) /\ n > 0 /\ Top(t) = stack[t][n]
    BY <1>2, TopFacts DEF Sound
  <2>3. Len(stack'[t]) = n + 1 /\ \A i \in 1..(n - 1) : stack'[t][i] = stack[t][i]
    BY <2>2, <1>3 DEF Pushes
  <2>4. CASE s = r
    <3>1. mutex'[s] = t
      BY <1>2, <1>4, <2>4 DEF Sound, Types
    <3>2. stack'[t][n].pc = "nested" /\ AtSink(stack'[t][n]) = AtSink(Top(t))
      BY <2>2, <1>3 DEF Pushes, SameCall, AtSink
    <3>3. AtSink(Top(t)) = r
      BY <1>1, <1>2, AtSinks DEF Sound
    <3>4. n \in 1..(n + 1)
      BY <2>2
    <3> QED
      BY <1>2, <2>3, <2>4, <3>1, <3>2, <3>3, <3>4
  <2>5. CASE s # r
    <3>1. mutex'[s] = mutex[s]
      BY <1>2, <2>5 DEF Sound, Types
    <3>2. PICK u \in Threads : u = mutex[s]
      BY <2>1, <3>1 DEF Sound, Types
    <3>3. s \in Broken
      BY <2>1, <3>1 DEF Sound, Holders
    <3>4. PICK i \in 1..Len(stack[u]) : stack[u][i].pc = "nested" /\ AtSink(stack[u][i]) = s
      BY <2>1, <3>1, <3>2 DEF Sound, Holders
    <3>5. CASE u # t
      BY <1>3, <3>1, <3>2, <3>3, <3>4, <3>5 DEF Pushes, OthersKept
    <3>6. CASE u = t
      <4>1. i \in 1..(n - 1)
        BY <1>2, <2>2, <3>4, <3>6
      <4>2. i \in 1..(n + 1) /\ stack'[t][i] = stack[t][i]
        BY <2>3, <4>1
      <4> QED
        BY <2>3, <3>1, <3>2, <3>3, <3>4, <3>6, <4>2
    <3> QED
      BY <3>5, <3>6
  <2> QED
    BY <2>4, <2>5
<1> QED
  BY <1>5, <1>6, <1>8 DEF Sound


LEMMA ErrorReturnedSound ==
  ASSUME Sound, NEW t \in Threads, ErrorReturned(t)
  PROVE  Sound'
<1>1. PICK r : r = SinkAt(t)
  OBVIOUS
<1>2. /\ stack[t] # <<>> /\ Top(t).pc = "nested" /\ NextSink(t, "sink")
      /\ UNCHANGED <<level, mainLogger, registered, pointers, replaced, content, flushed, second, lastFlush, calls, now>>
      /\ mutex' = [mutex EXCEPT ![r] = None]
  BY <1>1 DEF ErrorReturned, In, Managed, Unlock
<1>3. PICK label, at : TopMoves(t, label, at) /\ AfterSink(label, at, Top(t))
  BY <1>2, NextSinkMoves DEF Sound
<1>4. /\ label = "sink" => at \in 1..SinkCount(Top(t))
      /\ label = "flush" => at \in 1..(SinkCount(Top(t)) + 1)
      /\ label \in {"sink", "flush"}
  BY <1>2, <1>3, AtSinks DEF Sound, InRange, AfterSink
<1>5. Shape'
  BY <1>2, <1>3, <1>4, ShapeMoves DEF Sound
<1>6. Types'
  <2>1. mutex' \in [Sinks -> Threads \cup {None}]
    BY <1>2 DEF Sound, Types
  <2> QED
    BY <1>2, <1>3, <2>1 DEF Sound, Types, TopMoves, OthersKept
<1>8. Holders'
  <2>1. SUFFICES ASSUME NEW s \in Sinks, mutex'[s] # None
                 PROVE  /\ s \in Broken
                        /\ \E i \in 1..Len(stack'[mutex'[s]]) :
                             stack'[mutex'[s]][i].pc = "nested" /\ AtSink(stack'[mutex'[s]][i]) = s
    BY DEF Holders, AtSink
  <2>2. s # r /\ mutex'[s] = mutex[s]
    BY <1>2, <2>1 DEF Sound, Types
  <2>3. PICK u \in Threads : u = mutex[s]
    BY <2>1, <2>2 DEF Sound, Types
  <2>4. s \in Broken
    BY <2>1, <2>2 DEF Sound, Holders
  <2>5. PICK i \in 1..Len(stack[u]) : stack[u][i].pc = "nested" /\ AtSink(stack[u][i]) = s
    BY <2>1, <2>2, <2>3 DEF Sound, Holders
  <2>6. CASE u # t
    BY <1>3, <2>2, <2>3, <2>4, <2>5, <2>6 DEF TopMoves, OthersKept
  <2>7. CASE u = t
    <3>1. PICK n \in Nat : n = Len(stack[t]) /\ n > 0 /\ Top(t) = stack[t][n]
      BY <1>2, TopFacts DEF Sound
    <3>2. AtSink(Top(t)) = r
      BY <1>1, <1>2, AtSinks DEF Sound
    <3>3. i \in 1..(n - 1)
      BY <2>2, <2>5, <2>7, <3>1, <3>2
    <3>4. i \in 1..Len(stack'[t]) /\ stack'[t][i] = stack[t][i]
      BY <1>3, <3>1, <3>3 DEF TopMoves
    <3> QED
      BY <2>2, <2>3, <2>4, <2>5, <2>7, <3>4
  <2> QED
    BY <2>6, <2>7
<1> QED
  BY <1>5, <1>6, <1>8 DEF Sound

\* A call begins on an empty stack.
Begins(t) ==
  /\ OthersKept(t) /\ stack[t] = <<>>
  /\ Len(stack'[t]) = 1
  /\ \E l \in Loggers, lv \in CallLevels, owned \in BOOLEAN :
       stack'[t][1] = Frame(l, lv, calls', now, owned) /\ (owned \/ l = mainLogger)

LEMMA LogBegins ==
  ASSUME Types, NEW t \in Threads, LogMain(t) \/ LogNamed(t)
  PROVE  Begins(t) /\ calls' = calls + 1 /\ calls' \in Nat
<1>1. PICK l \in Loggers, owned \in BOOLEAN : Log(t, l, owned) /\ (owned \/ l = mainLogger)
  BY DEF LogMain, LogNamed, Held, Types
<1>2. PICK lv \in CallLevels : stack' = [stack EXCEPT ![t] = <<Frame(l, lv, calls', now, owned)>>]
  BY <1>1 DEF Log
<1>3. stack[t] = <<>> /\ calls' = calls + 1 /\ calls' \in Nat
  BY <1>1 DEF Log, Types
<1>4. lv \in 0..FATAL
  BY LoggingAssumption
<1> DEFINE f == Frame(l, lv, calls', now, owned)
<1>5. f \in Frames
  BY <1>3, <1>4 DEF Frame, Frames, Types, Pcs
<1>6. stack' = [stack EXCEPT ![t] = <<f>>]
  BY <1>2
<1> HIDE DEF f
<1>7. stack'[t] = <<f>> /\ OthersKept(t)
  BY <1>5, <1>6 DEF Types, OthersKept
<1>8. Len(stack'[t]) = 1 /\ stack'[t][1] = f
  BY <1>7
<1> QED
  BY <1>1, <1>3, <1>7, <1>8 DEF Begins, f

LEMMA LogSound ==
  ASSUME Sound, NEW t \in Threads, LogMain(t) \/ LogNamed(t)
  PROVE  Sound'
<1>1. Begins(t) /\ calls' \in Nat
  BY LogBegins DEF Sound
<1>2. UNCHANGED <<level, mainLogger, registered, pointers, replaced, mutex, content, flushed, second, lastFlush, now>>
  BY DEF LogMain, LogNamed, Log, Managed
<1>3. Types'
  BY <1>1, <1>2 DEF Sound, Types, Begins, OthersKept
<1>5. Shape'
  <2>1. SUFFICES ASSUME NEW u \in Threads, NEW i \in 1..Len(stack'[u])
                 PROVE  /\ InRange(stack'[u][i])
                        /\ i < Len(stack'[u]) => stack'[u][i].pc = "nested"
                        /\ i > 1 => stack'[u][i].level = ERROR
    BY DEF Shape, InRange, SinkCount
  <2>2. CASE u # t
    BY <1>1, <2>1, <2>2 DEF Begins, OthersKept, Shape, Sound
  <2>3. CASE u = t
    <3>0. PICK l, lv, owned, id : stack'[t][1] = Frame(l, lv, id, now, owned)
      BY <1>1 DEF Begins
    <3>1. Len(stack'[t]) = 1
      BY <1>1 DEF Begins
    <3>2. i = 1
      BY <2>3, <3>1
    <3>3. stack'[t][1].pc = "off" /\ stack'[t][1].at = 1
      BY <3>0 DEF Frame
    <3> QED
      BY <2>3, <3>1, <3>2, <3>3 DEF InRange
  <2> QED
    BY <2>2, <2>3
<1>6. Holders'
  <2>1. SUFFICES ASSUME NEW s \in Sinks, mutex[s] # None
                 PROVE  /\ s \in Broken
                        /\ \E i \in 1..Len(stack'[mutex[s]]) :
                             stack'[mutex[s]][i].pc = "nested" /\ AtSink(stack'[mutex[s]][i]) = s
    BY <1>2 DEF Holders, AtSink
  <2>2. mutex[s] \in Threads /\ mutex[s] # t
    BY <1>1, <2>1 DEF Sound, Types, Holders, Begins
  <2> QED
    BY <1>1, <2>1, <2>2 DEF Sound, Holders, Begins, OthersKept
<1> QED
  BY <1>3, <1>5, <1>6 DEF Sound

\* Changes of the manager and of the sinks, and time, leave calls alone.
Undisturbed == UNCHANGED <<stack, mutex, content, flushed, lastFlush, calls>>

LEMMA OtherSound ==
  ASSUME Sound,
         \/ \E l \in Loggers : \/ GetLogger(l) \/ ResetPointer(l) \/ AddLogger(l) \/ RemoveLogger(l) \/ SetMainLogger(l)
                               \/ \E new \in NewLevels : SetLevel(l, new)
         \/ \E s \in Sinks : SetPattern(s)
         \/ Tick
  PROVE  Sound' /\ Undisturbed
<1>1. Undisturbed
  BY DEF Undisturbed, GetLogger, ResetPointer, AddLogger, RemoveLogger, SetMainLogger, SetLevel, SetPattern, Tick, Logs
<1>2. Shape' /\ Holders'
  BY <1>1 DEF Sound, Undisturbed, Shape, InRange, SinkCount, Holders, AtSink
<1>4. Types'
  <2>0. level' = level \/ \E l \in Loggers, new \in 0..OFF : level' = [level EXCEPT ![l] = new]
    BY LoggingAssumption DEF GetLogger, ResetPointer, AddLogger, RemoveLogger, SetMainLogger, SetLevel, SetPattern, Tick, Managed
  <2>1. /\ level' \in [Loggers -> 0..OFF] /\ mainLogger' \in Loggers /\ replaced' \in Nat
        /\ registered' \subseteq Loggers /\ pointers' \subseteq Loggers
    <3>1. level' \in [Loggers -> 0..OFF]
      BY <2>0 DEF Sound, Types
    <3>2. /\ mainLogger' = mainLogger \/ mainLogger' \in Loggers
          /\ replaced' = replaced \/ replaced' = replaced + 1
          /\ registered' = registered \/ registered' \subseteq registered \cup Loggers
          /\ pointers' = pointers \/ pointers' \subseteq pointers \cup Loggers
      BY DEF GetLogger, ResetPointer, AddLogger, RemoveLogger, SetMainLogger, SetLevel, SetPattern, Tick, Managed
    <3> QED
      BY <3>1, <3>2 DEF Sound, Types
  <2>2. second' \in [Sinks -> Nat] /\ now' \in Nat
    <3>1. second' = second \/ \E s \in Sinks : second' = [second EXCEPT ![s] = 0]
      BY DEF GetLogger, ResetPointer, AddLogger, RemoveLogger, SetMainLogger, SetLevel, SetPattern, Tick, Logs
    <3>2. now' = now \/ now' = now + 1
      BY DEF GetLogger, ResetPointer, AddLogger, RemoveLogger, SetMainLogger, SetLevel, SetPattern, Tick, Logs
    <3>3. second' \in [Sinks -> Nat]
      <4>1. second \in [Sinks -> Nat]
        BY DEF Sound, Types
      <4>2. ASSUME NEW s \in Sinks, second' = [second EXCEPT ![s] = 0] PROVE second' \in [Sinks -> Nat]
        BY <4>1, <4>2
      <4> QED
        BY <3>1, <4>1, <4>2
    <3>4. now' \in Nat
      BY <3>2 DEF Sound, Types
    <3> QED
      BY <3>3, <3>4
  <2> QED
    BY <1>1, <2>1, <2>2 DEF Sound, Types, Undisturbed
<1> QED
  BY <1>1, <1>2, <1>4 DEF Sound


LEMMA SoundInit ==
  ASSUME Init
  PROVE  Sound
<1>1. ConfiguredLevel \in 0..OFF
  BY LoggingAssumption DEF ConfiguredLevel, GetOrDefault, INFO, OFF
<1>2. level \in [Loggers -> 0..OFF]
  BY <1>1 DEF Init, INFO, OFF
<1>3. \A t \in Threads : stack[t] = <<>>
  BY DEF Init
<1>4. Types
  BY <1>2, LoggingAssumption, SetupsAssumption DEF Init, Types
<1>5. Shape
  BY <1>3 DEF Shape
<1>6. Holders
  BY DEF Init, Holders
<1> QED
  BY <1>4, <1>5, <1>6 DEF Sound

LEMMA SoundNext ==
  ASSUME Sound, [Next]_vars
  PROVE  Sound'
<1>1. CASE \E t \in Threads : LogMain(t) \/ LogNamed(t)
  BY <1>1, LogSound
<1>2. CASE \E t \in Threads : Step(t)
  BY <1>2, CheckOffSound, AssertLevelSound, CompareLevelSound, SinkSound, SinkBrokenSound,
     ErrorReturnedSound, FlushSound, FinishSound DEF Step
<1>3. CASE UNCHANGED vars
  BY <1>3, StaysSound DEF vars
<1> QED
  BY <1>1, <1>2, <1>3, OtherSound DEF Next, Rest

LEMMA SoundAlways == Spec => []Sound
BY SoundInit, SoundNext, PTL DEF Spec

-----------------------------------------------------------------------------
(* The loggers in use exist.                                               *)

\* A call with a raw pointer has the main logger, or the main logger was replaced
\* since the call began.
Current(f) == f.since <= replaced /\ (f.owned \/ f.since < replaced \/ f.logger = mainLogger)
CurrentMain == \A t \in Threads : \A i \in 1..Len(stack[t]) : Current(stack[t][i])

\* A step of t that leaves the manager alone.
LEMMA CurrentKept ==
  ASSUME CurrentMain, NEW t \in Threads, OthersKept(t), UNCHANGED <<mainLogger, replaced>>,
         \A i \in 1..Len(stack'[t]) : Current(stack'[t][i])
  PROVE  CurrentMain'
<1>1. SUFFICES ASSUME NEW u \in Threads, NEW i \in 1..Len(stack'[u])
               PROVE  Current(stack'[u][i])
  BY DEF CurrentMain, Current
<1>2. CASE u # t
  BY <1>1, <1>2 DEF CurrentMain, OthersKept
<1>3. CASE u = t
  BY <1>1, <1>3
<1> QED
  BY <1>2, <1>3

LEMMA CurrentMoves ==
  ASSUME Types, CurrentMain, NEW t \in Threads, stack[t] # <<>>, UNCHANGED <<mainLogger, replaced>>,
         NEW label, NEW at, TopMoves(t, label, at) \/ Pops(t)
  PROVE  CurrentMain'
<1>1. PICK n \in Nat : n = Len(stack[t]) /\ n > 0 /\ Top(t) = stack[t][n]
  BY TopFacts
<1>2. OthersKept(t)
  BY DEF TopMoves, Pops
<1>3. ASSUME NEW i \in 1..Len(stack'[t]) PROVE Current(stack'[t][i])
  <2>1. CASE i < n
    BY <1>1, <1>3, <2>1 DEF TopMoves, Pops, CurrentMain
  <2>2. CASE i >= n
    <3>1. i = n /\ SameCall(stack'[t][n], Top(t))
      BY <1>1, <1>3, <2>2 DEF TopMoves, Pops
    <3>2. Current(Top(t))
      BY <1>1 DEF CurrentMain
    <3> QED
      BY <3>1, <3>2 DEF SameCall, Current
  <2> QED
    BY <1>1, <1>3, <2>1, <2>2 DEF TopMoves, Pops
<1> QED
  BY <1>2, <1>3, CurrentKept

\* A new frame, of a call or of a report, is up to date.
LEMMA CurrentFrame ==
  ASSUME Types, NEW l, NEW lv, NEW id, NEW time, NEW owned, owned \/ l = mainLogger
  PROVE  Current(Frame(l, lv, id, time, owned))
BY DEF Current, Frame, Types

LEMMA CurrentPushes ==
  ASSUME Types, CurrentMain, NEW t \in Threads, stack[t] # <<>>, Pushes(t), UNCHANGED <<mainLogger, replaced>>
  PROVE  CurrentMain'
<1>1. PICK n \in Nat : n = Len(stack[t]) /\ n > 0 /\ Top(t) = stack[t][n]
  BY TopFacts
<1>2. OthersKept(t) /\ Len(stack'[t]) = n + 1
  BY <1>1 DEF Pushes
<1>3. ASSUME NEW i \in 1..(n + 1) PROVE Current(stack'[t][i])
  <2>1. CASE i < n
    BY <1>1, <2>1 DEF Pushes, CurrentMain
  <2>2. CASE i = n
    <3>1. SameCall(stack'[t][n], Top(t))
      BY <1>1 DEF Pushes
    <3>2. Current(Top(t))
      BY <1>1 DEF CurrentMain
    <3> QED
      BY <2>2, <3>1, <3>2 DEF SameCall, Current
  <2>3. CASE i = n + 1
    <3>1. stack'[t][n + 1] = Frame(mainLogger, ERROR, Top(t).id, now, FALSE)
      BY <1>1 DEF Pushes
    <3> QED
      BY <2>3, <3>1, CurrentFrame
  <2> QED
    BY <1>1, <1>3, <2>1, <2>2, <2>3
<1> QED
  BY <1>2, <1>3, CurrentKept

LEMMA CurrentBegins ==
  ASSUME Types, CurrentMain, NEW t \in Threads, LogMain(t) \/ LogNamed(t)
  PROVE  CurrentMain'
<1>1. UNCHANGED <<mainLogger, replaced>>
  BY DEF LogMain, LogNamed, Log, Managed
<1>2. OthersKept(t) /\ Len(stack'[t]) = 1
  BY LogBegins DEF Begins
<1>3. Current(stack'[t][1])
  <2>1. PICK l, lv, id, owned : stack'[t][1] = Frame(l, lv, id, now, owned) /\ (owned \/ l = mainLogger)
    BY LogBegins DEF Begins
  <2> QED
    BY <2>1, CurrentFrame
<1> QED
  BY <1>1, <1>2, <1>3, CurrentKept

\* The steps of a call.
LEMMA CurrentStep ==
  ASSUME Sound, CurrentMain, NEW t \in Threads, Step(t)
  PROVE  CurrentMain'
<1>1. stack[t] # <<>> /\ UNCHANGED <<mainLogger, replaced>> /\ Types
  BY DEF Step, CheckOff, AssertLevel, CompareLevel, Sink, SinkBroken, ErrorReturned, Flush, Finish,
         In, Managed, Sound
<1>2. CASE UNCHANGED stack
  BY <1>1, <1>2 DEF CurrentMain, Current
<1>3. CASE Return(t)
  BY <1>1, <1>3, ReturnPops, CurrentMoves
<1>4. ASSUME NEW label \in Pcs, Goto(t, label) PROVE CurrentMain'
  BY <1>1, <1>4, GotoMoves, CurrentMoves
<1>5. CASE NextSink(t, "sink")
  BY <1>1, <1>5, NextSinkMoves, CurrentMoves
<1>6. CASE Stay(t, "flush")
  <2>1. TopMoves(t, "flush", Top(t).at + 1)
    BY <1>1, <1>6, StayMoves DEF Pcs
  <2> QED
    BY <1>1, <2>1, CurrentMoves
<1>7. CASE SinkBroken(t)
  BY <1>1, <1>7, SinkBrokenPushes, CurrentPushes
<1>8. \/ UNCHANGED stack \/ Return(t) \/ NextSink(t, "sink") \/ Stay(t, "flush") \/ SinkBroken(t)
      \/ \E label \in Pcs : Goto(t, label)
  BY DEF Step, CheckOff, AssertLevel, CompareLevel, Sink, ErrorReturned, Flush, Finish, Pcs
<1> QED
  BY <1>2, <1>3, <1>4, <1>5, <1>6, <1>7, <1>8

\* A change of the manager is one of the main logger, which is counted, or leaves it.
LEMMA CurrentOther ==
  ASSUME Sound, CurrentMain,
         \/ \E l \in Loggers : \/ GetLogger(l) \/ ResetPointer(l) \/ AddLogger(l) \/ RemoveLogger(l) \/ SetMainLogger(l)
                               \/ \E new \in NewLevels : SetLevel(l, new)
         \/ \E s \in Sinks : SetPattern(s)
         \/ Tick
  PROVE  CurrentMain'
<1>1. UNCHANGED stack
  BY OtherSound DEF Undisturbed
<1>2. replaced' = replaced + 1 \/ UNCHANGED <<mainLogger, replaced>>
  BY DEF GetLogger, ResetPointer, AddLogger, RemoveLogger, SetMainLogger, SetLevel, SetPattern, Tick, Managed
<1>3. SUFFICES ASSUME NEW t \in Threads, NEW i \in 1..Len(stack[t])
               PROVE  Current(stack[t][i])'
  BY <1>1 DEF CurrentMain
<1>4. stack[t][i] \in Frames /\ Current(stack[t][i])
  BY <1>3 DEF Sound, Types, CurrentMain
<1>5. stack[t][i].since \in Nat /\ replaced \in Nat
  BY <1>4 DEF Frames, Sound, Types
<1> QED
  BY <1>1, <1>2, <1>4, <1>5 DEF Current

LEMMA CurrentNext ==
  ASSUME Sound, CurrentMain, [Next]_vars
  PROVE  CurrentMain'
<1>1. CASE \E t \in Threads : LogMain(t) \/ LogNamed(t)
  BY <1>1, CurrentBegins DEF Sound
<1>2. CASE \E t \in Threads : Step(t)
  BY <1>2, CurrentStep
<1>3. CASE UNCHANGED vars
  BY <1>3 DEF vars, CurrentMain, Current
<1> QED
  BY <1>1, <1>2, <1>3, CurrentOther DEF Next, Rest

\* A logger in use exists, unless the call reached it by the main logger's raw
\* pointer and SetMainLogger has replaced the main logger since the call began:
\* whatever is added to the map, overwritten in it, removed from it or let go by the
\* program meanwhile.
THEOREM UsedLoggerAliveAlways == Spec => []UsedLoggerAlive
<1>1. ASSUME Sound, CurrentMain PROVE UsedLoggerAlive
  <2>1. SUFFICES ASSUME NEW t \in Threads, NEW i \in DOMAIN stack[t]
                 PROVE  Exists(stack[t][i].logger) \/ stack[t][i].since < replaced
    BY DEF UsedLoggerAlive
  <2>2. stack[t] \in Seq(Frames) /\ i \in 1..Len(stack[t])
    BY <1>1 DEF Sound, Types
  <2>3. stack[t][i].owned \/ stack[t][i].since < replaced \/ stack[t][i].logger = mainLogger
    BY <1>1, <2>2 DEF CurrentMain, Current
  <2> QED
    BY <2>3 DEF Exists, Held
<1>2. Init => CurrentMain
  BY DEF Init, CurrentMain
<1> QED
  BY <1>1, <1>2, SoundAlways, CurrentNext, PTL DEF Spec

\* With one broken sink at most, a thread that waits for the mutex of a sink waits
\* for a thread that can go on, or some thread waits for itself.
THEOREM NobodyStuckAlways == Spec => []NobodyStuck
<1>1. ASSUME Sound PROVE NobodyStuck
  <2>1. SUFFICES ASSUME \A a, b \in Broken : a = b, NEW t \in Threads, Waiting(t)
                 PROVE  \/ \E u \in Threads : stack[u] # <<>> /\ ~Waiting(u)
                        \/ \E u \in Threads : WaitsForItself(u)
    BY DEF NobodyStuck
  <2>2. ASSUME NEW u \in Threads, Waiting(u)
        PROVE  SinkAt(u) \in Sinks /\ mutex[SinkAt(u)] \in Threads /\ SinkAt(u) \in Broken
    <3>1. stack[u] # <<>> /\ Top(u).pc \in {"sink", "flush"} /\ ~SinksDone(u) /\ mutex[SinkAt(u)] # None
      BY <2>2 DEF Waiting, Free
    <3>2. Top(u).at \in 1..SinkCount(Top(u))
      BY <1>1, <3>1, AtSinks DEF Sound, InRange, SinksDone, SinkCount
    <3>3. SinkAt(u) \in Sinks
      BY <1>1, <3>1, <3>2, AtSinks DEF Sound
    <3> QED
      BY <1>1, <3>1, <3>3 DEF Sound, Types, Holders
  <2>3. PICK u \in Threads : u = mutex[SinkAt(t)]
    BY <2>1, <2>2
  <2>4. stack[u] # <<>>
    BY <1>1, <2>1, <2>2, <2>3 DEF Sound, Holders, Waiting, Free
  <2>5. CASE Waiting(u)
    <3>1. SinkAt(u) = SinkAt(t)
      BY <2>1, <2>2, <2>5
    <3> QED
      BY <2>3, <2>5, <3>1 DEF WaitsForItself
  <2> QED
    BY <2>4, <2>5
<1> QED
  BY <1>1, SoundAlways, PTL


-----------------------------------------------------------------------------
(* The order of the lines.                                                 *)

\* What the outermost call of a thread has passed, it has still passed.
Advances ==
  \A u \in Threads : stack'[u] # <<>> =>
    /\ stack[u] # <<>> /\ stack'[u][1].id = stack[u][1].id
    /\ \A s \in Sinks : Passed(stack[u][1], s) => Passed(stack'[u][1], s)

LEMMA MovesAdvance ==
  ASSUME Types, NEW t \in Threads, stack[t] # <<>>, NEW label, NEW at \in Nat, TopMoves(t, label, at),
         \/ Top(t).pc \in {"off", "level", "compare"}
         \/ label = "flush"
         \/ Top(t).pc \in {"sink", "nested"} /\ label = "sink" /\ at >= Top(t).at
  PROVE  Advances
<1>1. SUFFICES ASSUME NEW u \in Threads, stack'[u] # <<>>
               PROVE  /\ stack[u] # <<>> /\ stack'[u][1].id = stack[u][1].id
                      /\ \A s \in Sinks : Passed(stack[u][1], s) => Passed(stack'[u][1], s)
  BY DEF Advances
<1>2. CASE u # t
  BY <1>1, <1>2 DEF TopMoves, OthersKept
<1>3. CASE u = t
  <2>1. PICK n \in Nat : n = Len(stack[t]) /\ n > 0 /\ Top(t) = stack[t][n] /\ Top(t) \in Frames
    BY TopFacts
  <2>2. CASE n > 1
    BY <1>3, <2>1, <2>2 DEF TopMoves
  <2>3. CASE n = 1
    <3>1. SameCall(stack'[t][1], stack[t][1]) /\ stack'[t][1].pc = label /\ stack'[t][1].at = at
      BY <2>1, <2>3 DEF TopMoves
    <3>2. stack[t][1].at \in Nat
      BY <2>1, <2>3 DEF Frames
    <3>3. ASSUME NEW s \in Sinks, Passed(stack[t][1], s) PROVE Passed(stack'[t][1], s)
      <4>1. CASE label = "flush"
        BY <3>1, <4>1 DEF Passed
      <4>2. CASE label # "flush"
        <5>1. label = "sink" /\ at >= stack[t][1].at
          BY <2>1, <2>3, <3>3, <4>2 DEF Passed
        <5>2. PICK k \in 1..(stack[t][1].at - 1) : SinksOf[stack[t][1].logger][k] = s
          BY <2>1, <2>3, <3>3, <4>2 DEF Passed
        <5>3. k \in 1..(at - 1)
          BY <3>2, <5>1, <5>2
        <5> QED
          BY <3>1, <5>1, <5>2, <5>3 DEF Passed, SameCall
      <4> QED
        BY <4>1, <4>2
    <3> QED
      BY <1>3, <3>1, <3>3 DEF SameCall
  <2>4. n > 1 \/ n = 1
    <3>1. n > 0
      BY <2>1
    <3> QED
      BY <3>1
  <2> QED
    BY <2>2, <2>3, <2>4
<1> QED
  BY <1>2, <1>3


LEMMA PopsAdvance ==
  ASSUME Types, NEW t \in Threads, stack[t] # <<>>, Pops(t)
  PROVE  Advances
<1>1. SUFFICES ASSUME NEW u \in Threads, stack'[u] # <<>>
               PROVE  /\ stack[u] # <<>> /\ stack'[u][1].id = stack[u][1].id
                      /\ \A s \in Sinks : Passed(stack[u][1], s) => Passed(stack'[u][1], s)
  BY DEF Advances
<1>2. CASE u # t
  BY <1>1, <1>2 DEF Pops, OthersKept
<1>3. CASE u = t
  <2>1. PICK n \in Nat : n = Len(stack[t]) /\ n > 0
    BY TopFacts
  <2>2. stack'[t] \in Seq(Frames) /\ Len(stack'[t]) = n - 1
    BY <2>1 DEF Pops, OthersKept
  <2>3. n > 1
    BY <1>1, <1>3, <2>1, <2>2
  <2>4. stack'[t][1] = stack[t][1]
    BY <2>1, <2>3 DEF Pops
  <2> QED
    BY <1>3, <2>4
<1> QED
  BY <1>2, <1>3

LEMMA PushesAdvance ==
  ASSUME Types, NEW t \in Threads, stack[t] # <<>>, Top(t).pc = "sink", Pushes(t)
  PROVE  Advances
<1>1. SUFFICES ASSUME NEW u \in Threads, stack'[u] # <<>>
               PROVE  /\ stack[u] # <<>> /\ stack'[u][1].id = stack[u][1].id
                      /\ \A s \in Sinks : Passed(stack[u][1], s) => Passed(stack'[u][1], s)
  BY DEF Advances
<1>2. CASE u # t
  BY <1>1, <1>2 DEF Pushes, OthersKept
<1>3. CASE u = t
  <2>1. PICK n \in Nat : n = Len(stack[t]) /\ n > 0 /\ Top(t) = stack[t][n]
    BY TopFacts
  <2>2. CASE n > 1
    BY <1>3, <2>1, <2>2 DEF Pushes
  <2>3. CASE n = 1
    <3>1. SameCall(stack'[t][1], stack[t][1]) /\ stack'[t][1].pc = "nested" /\ stack'[t][1].at = stack[t][1].at
      BY <2>1, <2>3 DEF Pushes
    <3> QED
      BY <1>3, <2>1, <2>3, <3>1 DEF SameCall, Passed
  <2>4. n > 1 \/ n = 1
    <3>1. n > 0
      BY <2>1
    <3> QED
      BY <3>1
  <2> QED
    BY <2>2, <2>3, <2>4
<1> QED
  BY <1>2, <1>3

LEMMA StepAdvances ==
  ASSUME Sound, NEW t \in Threads, Step(t)
  PROVE  Advances
<1>1. ASSUME CheckOff(t) PROVE Advances
  <2>1. stack[t] # <<>> /\ Top(t).pc = "off" /\ (Return(t) \/ Goto(t, "level"))
    BY <1>1 DEF CheckOff, In
  <2>2. Pops(t) \/ TopMoves(t, "level", 1)
    BY <2>1, ReturnPops, GotoMoves DEF Sound, Pcs
  <2> QED
    BY <2>1, <2>2, PopsAdvance, MovesAdvance DEF Sound
<1>2. ASSUME AssertLevel(t) PROVE Advances
  <2>1. stack[t] # <<>> /\ Top(t).pc = "level" /\ (UNCHANGED stack \/ Goto(t, "compare"))
    BY <1>2 DEF AssertLevel, In
  <2>2. UNCHANGED stack \/ TopMoves(t, "compare", 1)
    BY <2>1, GotoMoves DEF Sound, Pcs
  <2>3. UNCHANGED stack => Advances
    BY DEF Advances
  <2> QED
    BY <2>1, <2>2, <2>3, MovesAdvance DEF Sound
<1>3. ASSUME CompareLevel(t) PROVE Advances
  <2>1. stack[t] # <<>> /\ Top(t).pc = "compare" /\ (Goto(t, "sink") \/ Goto(t, "flush"))
    BY <1>3 DEF CompareLevel, In
  <2>2. TopMoves(t, "sink", 1) \/ TopMoves(t, "flush", 1)
    BY <2>1, GotoMoves DEF Sound, Pcs
  <2> QED
    BY <2>1, <2>2, MovesAdvance DEF Sound
<1>4. ASSUME Sink(t) \/ ErrorReturned(t) PROVE Advances
  <2>1. stack[t] # <<>> /\ Top(t).pc \in {"sink", "nested"} /\ NextSink(t, "sink")
    BY <1>4 DEF Sink, ErrorReturned, In
  <2>2. PICK label, at : TopMoves(t, label, at) /\ AfterSink(label, at, Top(t))
    BY <2>1, NextSinkMoves DEF Sound
  <2>3. Top(t).at \in Nat
    BY <2>1, AtSinks DEF Sound
  <2>4. at \in Nat /\ (label = "flush" \/ (label = "sink" /\ at >= Top(t).at))
    BY <2>2, <2>3 DEF AfterSink
  <2> QED
    BY <2>1, <2>2, <2>4, MovesAdvance DEF Sound
<1>5. ASSUME SinkBroken(t) PROVE Advances
  <2>1. stack[t] # <<>> /\ Top(t).pc = "sink"
    BY <1>5 DEF SinkBroken, In
  <2> QED
    BY <1>5, <2>1, SinkBrokenPushes, PushesAdvance DEF Sound
<1>6. ASSUME Flush(t) PROVE Advances
  <2>1. stack[t] # <<>> /\ Stay(t, "flush")
    BY <1>6 DEF Flush, In
  <2>2. PICK at \in Nat : TopMoves(t, "flush", at)
    <3>1. TopMoves(t, "flush", Top(t).at + 1)
      BY <2>1, StayMoves DEF Sound, Pcs
    <3>2. Top(t).at + 1 \in Nat
      BY <2>1, AtSinks DEF Sound
    <3> QED
      BY <3>1, <3>2
  <2> QED
    BY <2>1, <2>2, MovesAdvance DEF Sound
<1>7. ASSUME Finish(t) PROVE Advances
  <2>1. stack[t] # <<>> /\ (UNCHANGED stack \/ Return(t))
    BY <1>7 DEF Finish, In
  <2>2. UNCHANGED stack => Advances
    BY DEF Advances
  <2> QED
    BY <2>1, <2>2, ReturnPops, PopsAdvance DEF Sound
<1> QED
  BY <1>1, <1>2, <1>3, <1>4, <1>5, <1>6, <1>7 DEF Step

\* A step that writes no line keeps the order.
LEMMA AdvancesOrdered ==
  ASSUME Types, Ordered, Advances, UNCHANGED <<content, calls>>
  PROVE  Ordered'
<1>1. LinesInOrder'
  BY DEF Ordered, LinesInOrder
<1>2. (\A s \in Sinks : \A i \in 1..Len(content[s]) : ~content[s][i].nested => content[s][i].id <= calls)'
  BY DEF Ordered
<1>3. ASSUME NEW t \in Threads, stack'[t] # <<>>
      PROVE  /\ stack'[t][1].id <= calls
             /\ \A s \in Sinks : \A i \in 1..Len(content[s]) : IsLineOf(content[s][i], t) =>
                  /\ content[s][i].id <= stack'[t][1].id
                  /\ content[s][i].id = stack'[t][1].id => Passed(stack'[t][1], s)
  <2>1. /\ stack[t] # <<>> /\ stack'[t][1].id = stack[t][1].id
        /\ \A s \in Sinks : Passed(stack[t][1], s) => Passed(stack'[t][1], s)
    BY <1>3 DEF Advances
  <2>2. stack[t][1].id <= calls
    BY <2>1 DEF Ordered
  <2>3. ASSUME NEW s \in Sinks, NEW i \in 1..Len(content[s]), IsLineOf(content[s][i], t)
        PROVE  /\ content[s][i].id <= stack[t][1].id
               /\ content[s][i].id = stack[t][1].id => Passed(stack[t][1], s)
    BY <2>1, <2>3 DEF Ordered
  <2> QED
    BY <2>1, <2>2, <2>3
<1> QED
  BY <1>1, <1>2, <1>3 DEF Ordered, IsLineOf, Passed


\* A line of the call itself comes after the lines of earlier calls.
LEMMA SinkFollows ==
  ASSUME DistinctSinks, Sound, Ordered, NEW t \in Threads, Sink(t), Len(stack[t]) = 1,
         NEW i \in 1..Len(content[SinkAt(t)]), IsLineOf(content[SinkAt(t)][i], t)
  PROVE  content[SinkAt(t)][i].id < Top(t).id
<1>1. PICK s : s = SinkAt(t)
  OBVIOUS
<1>2. stack[t] # <<>> /\ Top(t).pc = "sink"
  BY DEF Sink, In
<1>3. Top(t) = stack[t][1] /\ Top(t) \in Frames
  BY <1>2, TopFacts DEF Sound
<1>4. s \in Sinks
  BY <1>1, SinkWrites DEF Sound
<1>5. PICK l \in Loggers, at \in Nat : l = Top(t).logger /\ at = Top(t).at
  BY <1>3 DEF Frames
<1>6. SinksOf[l] \in Seq(Sinks) /\ IsInjective(SinksOf[l]) /\ at \in 1..Len(SinksOf[l]) /\ SinksOf[l][at] = s
  <2>1. InRange(Top(t))
    BY <1>2, AtSinks DEF Sound
  <2> QED
    BY <1>1, <1>2, <1>5, <2>1, LoggingAssumption DEF InRange, SinkCount, SinkAt, DistinctSinks
<1>7. ~Passed(Top(t), s)
  <2>1. SUFFICES ASSUME NEW k \in 1..(at - 1), SinksOf[l][k] = s PROVE FALSE
    BY <1>2, <1>5 DEF Passed
  <2>2. k \in 1..Len(SinksOf[l]) /\ k # at
    BY <1>5, <1>6
  <2> QED
    BY <1>6, <2>1, <2>2 DEF IsInjective
<1>8. content[s][i].id <= Top(t).id /\ content[s][i].id # Top(t).id
  BY <1>1, <1>2, <1>3, <1>4, <1>7 DEF Ordered
<1>9. content[s][i].id \in Nat /\ Top(t).id \in Nat
  <2>1. content[s] \in Seq(Lines)
    BY <1>4 DEF Sound, Types
  <2>2. content[s][i] \in Lines
    BY <1>1, <2>1
  <2> QED
    BY <1>3, <2>2 DEF Lines, Frames
<1> QED
  BY <1>1, <1>8, <1>9

LEMMA SinkOrdered ==
  ASSUME DistinctSinks, Sound, Ordered, NEW t \in Threads, Sink(t)
  PROVE  Ordered'
<1>1. PICK s : s = SinkAt(t)
  OBVIOUS
<1>2. s \in Sinks /\ Writes(t, s)
  BY <1>1, SinkWrites DEF Sound
<1>3. calls' = calls /\ calls \in Nat
  BY DEF Sink, Sound, Types
<1>4. Advances
  BY StepAdvances DEF Step
<1>5. stack[t] # <<>> /\ Top(t).pc = "sink"
  BY DEF Sink, In
<1>6. PICK n \in Nat : n = Len(stack[t]) /\ n > 0 /\ Top(t) = stack[t][n] /\ Top(t) \in Frames
  BY <1>5, TopFacts DEF Sound
<1>7. PICK m \in Nat : m = Len(content[s])
  BY <1>2 DEF Sound, Types
<1>8. PICK line : /\ line = Line(t) /\ line.thread = t /\ line.id = Top(t).id
                  /\ line.time = Top(t).time /\ line.shown = Top(t).time
  <2>1. /\ Line(t).thread = t /\ Line(t).id = Top(t).id
        /\ Line(t).time = Top(t).time /\ Line(t).shown = Top(t).time
    BY DEF Line
  <2> QED
    BY <2>1
<1>9. /\ \A r \in Sinks : r # s => content'[r] = content[r]
      /\ Len(content'[s]) = m + 1 /\ content'[s] \in Seq(Lines) /\ content'[s][m + 1] = line
      /\ \A i \in 1..m : content'[s][i] = content[s][i]
  BY <1>2, <1>7, <1>8 DEF Writes
<1>10. ~line.nested => n = 1
  <2>1. line.nested = (Len(stack[t]) > 1)
    BY <1>8, Zenon DEF Line
  <2>2. Len(stack[t]) > 1 => line.nested
    BY <2>1, Zenon
  <2>3. n > 1 => line.nested
    BY <1>6, <2>2, Zenon
  <2>4. n > 0
    BY <1>6
  <2> QED
    BY <2>3, <2>4
<1>11. ASSUME ~line.nested, NEW i \in 1..m, IsLineOf(content[s][i], t)
       PROVE  content[s][i].id < line.id
  BY <1>1, <1>6, <1>7, <1>8, <1>10, <1>11, SinkFollows
<1>12. LinesInOrder'
  <2>1. SUFFICES ASSUME NEW r \in Sinks, NEW i \in DOMAIN content'[r], NEW j \in DOMAIN content'[r]
                 PROVE  /\ content'[r][i].shown = content'[r][i].time
                        /\ (/\ i < j /\ content'[r][i].thread = content'[r][j].thread
                            /\ ~content'[r][i].nested /\ ~content'[r][j].nested)
                             => content'[r][i].id < content'[r][j].id
    BY DEF LinesInOrder
  <2>2. CASE r # s
    BY <1>9, <2>1, <2>2 DEF Ordered, LinesInOrder
  <2>3. CASE r = s
    <3>1. i \in 1..(m + 1) /\ j \in 1..(m + 1) /\ DOMAIN content[s] = 1..m
      BY <1>2, <1>7, <1>9, <2>1, <2>3 DEF Sound, Types
    <3>2. CASE i = m + 1
      BY <1>8, <1>9, <2>3, <3>1, <3>2
    <3>3. CASE i # m + 1 /\ j # m + 1
      <4>1. i \in 1..m /\ j \in 1..m
        BY <3>1, <3>3
      <4> QED
        BY <1>2, <1>9, <2>3, <3>1, <4>1, SMTT(30) DEF Ordered, LinesInOrder
    <3>4. CASE i # m + 1 /\ j = m + 1
      <4>1. i \in 1..m
        BY <3>1, <3>4
      <4>2. content'[s][i] = content[s][i] /\ content[s][i].shown = content[s][i].time
        BY <1>2, <1>9, <3>1, <4>1 DEF Ordered, LinesInOrder
      <4> QED
        BY <1>8, <1>9, <1>11, <2>3, <3>4, <4>1, <4>2 DEF IsLineOf
    <3> QED
      BY <3>2, <3>3, <3>4
  <2> QED
    BY <2>2, <2>3
<1>13. ASSUME NEW r \in Sinks, NEW i \in 1..Len(content'[r])
       PROVE  \/ i \in 1..Len(content[r]) /\ content'[r][i] = content[r][i]
              \/ r = s /\ i = m + 1 /\ content'[r][i] = line
  <2>1. CASE r # s
    BY <1>9, <1>13, <2>1
  <2>2. CASE r = s
    BY <1>7, <1>9, <1>13, <2>2
  <2> QED
    BY <2>1, <2>2
<1>14. ASSUME NEW r \in Sinks, NEW i \in 1..Len(content'[r]), ~content'[r][i].nested
       PROVE  content'[r][i].id <= calls
  BY <1>5, <1>6, <1>8, <1>10, <1>13, <1>14 DEF Ordered
<1>15. ~line.nested => stack'[t] = <<>> \/ Passed(stack'[t][1], s)
  <2>1. SUFFICES ASSUME n = 1 PROVE Passed(stack'[t][1], s)
    BY <1>10
  <2>2. PICK label, at : TopMoves(t, label, at) /\ AfterSink(label, at, Top(t))
    <3>1. NextSink(t, "sink")
      BY DEF Sink
    <3> QED
      BY <1>5, <3>1, NextSinkMoves DEF Sound
  <2>3. SameCall(stack'[t][1], Top(t)) /\ stack'[t][1].pc = label /\ stack'[t][1].at = at
    BY <1>6, <2>1, <2>2 DEF TopMoves
  <2>4. PICK k \in Nat : k = Top(t).at /\ k > 0 /\ SinksOf[Top(t).logger][k] = s
    BY <1>1, <1>5, AtSinks DEF Sound, InRange, SinkAt
  <2>5. label = "flush" \/ (label = "sink" /\ at = k + 1)
    BY <2>2, <2>4 DEF AfterSink
  <2>6. k \in 1..((k + 1) - 1)
    BY <2>4
  <2> QED
    BY <2>3, <2>4, <2>5, <2>6 DEF Passed, SameCall
<1>16. ASSUME NEW u \in Threads, stack'[u] # <<>>
       PROVE  /\ stack'[u][1].id <= calls
              /\ \A r \in Sinks : \A i \in 1..Len(content'[r]) : IsLineOf(content'[r][i], u) =>
                   /\ content'[r][i].id <= stack'[u][1].id
                   /\ content'[r][i].id = stack'[u][1].id => Passed(stack'[u][1], r)
  <2>1. /\ stack[u] # <<>> /\ stack'[u][1].id = stack[u][1].id
        /\ \A r \in Sinks : Passed(stack[u][1], r) => Passed(stack'[u][1], r)
    BY <1>4, <1>16 DEF Advances
  <2>2. stack[u][1].id <= calls
    BY <2>1 DEF Ordered
  <2>3. ASSUME NEW r \in Sinks, NEW i \in 1..Len(content'[r]), IsLineOf(content'[r][i], u)
        PROVE  /\ content'[r][i].id <= stack[u][1].id
               /\ content'[r][i].id = stack[u][1].id => Passed(stack'[u][1], r)
    <3>1. CASE i \in 1..Len(content[r]) /\ content'[r][i] = content[r][i]
      BY <2>1, <2>3, <3>1 DEF Ordered
    <3>2. CASE r = s /\ content'[r][i] = line
      <4>1. u = t /\ ~line.nested
        BY <1>8, <2>3, <3>2 DEF IsLineOf
      <4>2. line.id = stack[t][1].id /\ line.id \in Nat
        BY <1>6, <1>8, <1>10, <4>1 DEF Frames
      <4>3. Passed(stack'[t][1], s)
        BY <1>15, <1>16, <4>1
      <4> QED
        BY <3>2, <4>1, <4>2, <4>3
    <3> QED
      BY <1>13, <2>3, <3>1, <3>2
  <2> QED
    BY <2>1, <2>2, <2>3
<1> QED
  BY <1>3, <1>12, <1>14, <1>16 DEF Ordered, IsLineOf, Passed


LEMMA LogOrdered ==
  ASSUME Sound, Ordered, NEW t \in Threads, LogMain(t) \/ LogNamed(t)
  PROVE  Ordered'
<1>1. Begins(t) /\ calls' = calls + 1 /\ calls \in Nat
  BY LogBegins DEF Sound, Types
<1>2. UNCHANGED content
  BY DEF LogMain, LogNamed, Log
<1>3. ASSUME NEW s \in Sinks, NEW i \in 1..Len(content[s])
      PROVE  content[s][i].id \in Nat
  <2>1. content[s] \in Seq(Lines)
    BY DEF Sound, Types
  <2>2. content[s][i] \in Lines
    BY <2>1
  <2> QED
    BY <2>2 DEF Lines
<1>4. LinesInOrder'
  BY <1>2 DEF Ordered, LinesInOrder
<1>5. ASSUME NEW s \in Sinks, NEW i \in 1..Len(content[s]), ~content[s][i].nested
      PROVE  content[s][i].id < calls'
  BY <1>1, <1>3, <1>5 DEF Ordered
<1>6. ASSUME NEW s \in Sinks, NEW i \in 1..Len(content[s]), ~content[s][i].nested
      PROVE  content[s][i].id <= calls' /\ content[s][i].id # calls'
  BY <1>1, <1>3, <1>5, <1>6
<1>7. ASSUME NEW u \in Threads, stack'[u] # <<>>
      PROVE  /\ stack'[u][1].id <= calls'
             /\ \A s \in Sinks : \A i \in 1..Len(content[s]) : IsLineOf(content[s][i], u) =>
                  /\ content[s][i].id <= stack'[u][1].id
                  /\ content[s][i].id = stack'[u][1].id => Passed(stack'[u][1], s)
  <2>1. CASE u = t
    <3>1. stack'[t][1].id = calls'
      BY <1>1 DEF Begins, Frame
    <3>2. calls' <= calls'
      BY <1>1
    <3> QED
      BY <1>6, <2>1, <3>1, <3>2 DEF IsLineOf
  <2>2. CASE u # t
    <3>1. stack'[u] = stack[u] /\ stack[u] # <<>>
      BY <1>1, <1>7, <2>2 DEF Begins, OthersKept
    <3>2. stack[u][1].id \in Nat
      <4>1. stack[u] \in Seq(Frames) /\ 1 \in 1..Len(stack[u])
        BY <3>1 DEF Sound, Types
      <4>2. stack[u][1] \in Frames
        BY <4>1
      <4> QED
        BY <4>2 DEF Frames
    <3>3. stack[u][1].id <= calls
      BY <3>1 DEF Ordered
    <3>4. stack[u][1].id <= calls'
      BY <1>1, <3>2, <3>3
    <3>5. ASSUME NEW s \in Sinks, NEW i \in 1..Len(content[s]), IsLineOf(content[s][i], u)
          PROVE  /\ content[s][i].id <= stack[u][1].id
                 /\ content[s][i].id = stack[u][1].id => Passed(stack[u][1], s)
      BY <3>1, <3>5 DEF Ordered
    <3> QED
      BY <3>1, <3>4, <3>5
  <2> QED
    BY <2>1, <2>2
<1> QED
  BY <1>2, <1>4, <1>6, <1>7 DEF Ordered, IsLineOf, Passed

LEMMA OrderedNext ==
  ASSUME DistinctSinks, Sound, Ordered, [Next]_vars
  PROVE  Ordered'
<1>1. Types
  BY DEF Sound
<1>2. CASE \E t \in Threads : LogMain(t) \/ LogNamed(t)
  BY <1>2, LogOrdered
<1>3. ASSUME NEW t \in Threads, Step(t) PROVE Ordered'
  <2>1. CASE Sink(t)
    BY <2>1, SinkOrdered
  <2>2. CASE ~Sink(t)
    <3>1. UNCHANGED <<content, calls>>
      BY <1>3, <2>2 DEF Step, CheckOff, AssertLevel, CompareLevel, SinkBroken, ErrorReturned, Flush, Finish
    <3> QED
      BY <1>1, <1>3, <3>1, StepAdvances, AdvancesOrdered
  <2> QED
    BY <2>1, <2>2
<1>4. ASSUME UNCHANGED <<stack, content, calls>> PROVE Ordered'
  BY <1>1, <1>4, AdvancesOrdered DEF Advances
<1>5. CASE UNCHANGED vars
  BY <1>4, <1>5 DEF vars
<1> QED
  BY <1>2, <1>3, <1>4, <1>5, OtherSound DEF Next, Rest, Undisturbed

\* When no logger has a sink twice, every sink shows the lines of a thread in the
\* order of its calls, each with the second it was logged in, however the threads
\* interleave and whatever second the formatter of the sink has cached.
THEOREM LinesInOrderAlways == DistinctSinks => (Spec => []LinesInOrder)
<1> DEFINE I == DistinctSinks => Ordered
<1>1. Init => I
  BY DEF Init, Ordered, LinesInOrder
<1>2. I /\ Sound /\ [Next]_vars => I'
  BY OrderedNext DEF DistinctSinks
<1>3. DistinctSinks => (I => LinesInOrder)
  BY DEF Ordered
<1> HIDE DEF I
<1>4. Spec => []I
  BY <1>1, <1>2, SoundAlways, PTL DEF Spec
<1> SUFFICES ASSUME DistinctSinks PROVE Spec => []LinesInOrder
  OBVIOUS
<1>5. I => LinesInOrder
  BY <1>3
<1> QED
  BY <1>4, <1>5, PTL


-----------------------------------------------------------------------------
(* Fatal messages.                                                         *)

\* Streams only grow, and what left the buffers stays out.
Grows ==
  \A s \in Sinks :
    /\ Len(content[s]) \in Nat /\ Len(content'[s]) \in Nat /\ flushed[s] \in Nat /\ flushed'[s] \in Nat
    /\ Len(content[s]) <= Len(content'[s])
    /\ \A i \in 1..Len(content[s]) : content'[s][i] = content[s][i]
    /\ flushed[s] <= flushed'[s] /\ flushed'[s] <= Len(content'[s])

\* A logger that is switched off is remembered with the calls it has then.
Recorded(f) == level'[f.logger] = OFF => level[f.logger] = OFF \/ <<f.id, f.logger>> \in silenced'
OffRecorded ==
  /\ silenced \subseteq silenced'
  /\ \A t \in Threads : \A i \in 1..Len(stack[t]) : Recorded(stack[t][i])

LEMMA StreamsKeep ==
  ASSUME Fatal, Grows, NEW s \in Sinks, NEW f
  PROVE  /\ InStream(s, f) => InStream(s, f)'
         /\ OnDisk(s, f) => OnDisk(s, f)'
<1>1. PICK m \in Nat, k \in Nat, d \in Nat, e \in Nat :
        m = Len(content[s]) /\ k = Len(content'[s]) /\ d = flushed[s] /\ e = flushed'[s]
  BY DEF Grows
<1>2. m <= k /\ d <= e /\ e <= k /\ d <= m /\ \A i \in 1..m : content'[s][i] = content[s][i]
  BY <1>1 DEF Grows, Fatal
<1>3. ASSUME NEW i \in 1..m, content[s][i].id = f.id, content[s][i].time = f.time
      PROVE  InStream(s, f)'
  <2>1. i \in 1..k
    BY <1>1, <1>2, <1>3
  <2> QED
    BY <1>1, <1>2, <1>3, <2>1 DEF InStream
<1>4. ASSUME NEW i \in 1..d, content[s][i].id = f.id, content[s][i].time = f.time
      PROVE  OnDisk(s, f)'
  <2>1. i \in 1..m /\ i \in 1..e
    BY <1>1, <1>2, <1>4
  <2> QED
    BY <1>1, <1>2, <1>4, <2>1 DEF OnDisk
<1> QED
  BY <1>1, <1>3, <1>4 DEF InStream, OnDisk

\* The sinks of the logger of a frame are sinks.
LEMMA SinksOfFrame ==
  ASSUME NEW f \in Frames
  PROVE  /\ SinkCount(f) \in Nat /\ f.at \in Nat
         /\ \A k \in 1..SinkCount(f) : SinksOf[f.logger][k] \in Sinks
<1>1. f.logger \in Loggers /\ f.at \in Nat
  BY DEF Frames
<1>2. SinksOf[f.logger] \in Seq(Sinks)
  BY <1>1, LoggingAssumption
<1> QED
  BY <1>1, <1>2 DEF SinkCount

LEMMA KeptStays ==
  ASSUME Fatal, Grows, silenced \subseteq silenced', NEW f \in Frames, Recorded(f), InRange(f), Kept(f)
  PROVE  Kept(f)'
<1>1. f.logger \in Loggers
  BY DEF Frames
<1>2. PICK c \in Nat, at \in Nat : c = SinkCount(f) /\ at = f.at
  BY SinksOfFrame
<1>3. \A k \in 1..c : SinksOf[f.logger][k] \in Sinks
  BY <1>2, SinksOfFrame
<1>4. f.pc \in {"sink", "nested", "flush"} => \A k \in 1..(at - 1) : k \in 1..c
  BY <1>2 DEF InRange
<1>5. (f.pc \in {"level", "compare"} => level[f.logger] # OFF \/ SwitchedOff(f))'
  BY <1>1 DEF Kept, SwitchedOff, Recorded
<1>6. ASSUME f.level = FATAL, ~SwitchedOff(f)'
      PROVE  /\ f.pc \in {"sink", "nested"} =>
                  \A k \in 1..(f.at - 1) : SinksOf[f.logger][k] \notin Broken => InStream(SinksOf[f.logger][k], f)'
             /\ f.pc = "flush" =>
                  /\ \A k \in 1..SinkCount(f) : SinksOf[f.logger][k] \notin Broken => InStream(SinksOf[f.logger][k], f)'
                  /\ \A k \in 1..(f.at - 1) : SinksOf[f.logger][k] \notin Broken => OnDisk(SinksOf[f.logger][k], f)'
  <2>1. ~SwitchedOff(f)
    BY <1>6 DEF SwitchedOff
  <2>2. ASSUME NEW k \in 1..c
        PROVE  /\ InStream(SinksOf[f.logger][k], f) => InStream(SinksOf[f.logger][k], f)'
               /\ OnDisk(SinksOf[f.logger][k], f) => OnDisk(SinksOf[f.logger][k], f)'
    BY <1>3, StreamsKeep
  <2> QED
    BY <1>2, <1>4, <1>6, <2>1, <2>2 DEF Kept, SwitchedOff
<1> QED
  BY <1>5, <1>6 DEF Kept, SwitchedOff, SinkCount, AtSink


\* The frames that did not move are still kept, so the others are left to look at.
LEMMA FatalFrames ==
  ASSUME Sound, Fatal, died = None, died' = None, Grows, OffRecorded,
         \A u \in Threads : \A i \in 1..Len(stack'[u]) :
           \/ i \in 1..Len(stack[u]) /\ stack'[u][i] = stack[u][i]
           \/ Kept(stack[u][i])'
  PROVE  Fatal'
<1>1. FatalLineKept'
  BY DEF FatalLineKept
<1>2. \A s \in Sinks : flushed'[s] <= Len(content'[s])
  BY DEF Grows
<1>3. ASSUME NEW u \in Threads, NEW i \in 1..Len(stack'[u])
      PROVE  Kept(stack[u][i])'
  <2>1. CASE i \in 1..Len(stack[u]) /\ stack'[u][i] = stack[u][i]
    <3>1. stack[u] \in Seq(Frames)
      BY DEF Sound, Types
    <3>2. PICK f \in Frames : f = stack[u][i]
      BY <2>1, <3>1
    <3>3. InRange(f) /\ Kept(f)
      BY <2>1, <3>2 DEF Sound, Shape, Fatal
    <3>4. silenced \subseteq silenced' /\ Recorded(f)
      BY <2>1, <3>2 DEF OffRecorded
    <3>6. Kept(f)'
      BY <3>3, <3>4, KeptStays
    <3>5. f = stack'[u][i]
      BY <2>1, <3>2
    <3> QED
      BY <3>5, <3>6 DEF Kept, SwitchedOff
  <2> QED
    BY <1>3, <2>1
<1> QED
  BY <1>1, <1>2, <1>3 DEF Fatal

LEMMA FatalMoves ==
  ASSUME Sound, Fatal, died = None, died' = None, Grows, OffRecorded,
         NEW t \in Threads, stack[t] # <<>>,
         NEW label, NEW at, TopMoves(t, label, at),
         NEW g, g = stack'[t][Len(stack[t])], Kept(g)'
  PROVE  Fatal'
<1>1. PICK n \in Nat : n = Len(stack[t]) /\ n > 0
  BY TopFacts DEF Sound
<1>2. Kept(stack[t][n])'
  BY <1>1 DEF Kept, SwitchedOff
<1>3. ASSUME NEW u \in Threads, NEW i \in 1..Len(stack'[u])
      PROVE  \/ i \in 1..Len(stack[u]) /\ stack'[u][i] = stack[u][i]
             \/ Kept(stack[u][i])'
  <2>1. CASE u # t
    BY <1>3, <2>1 DEF TopMoves, OthersKept
  <2>2. CASE u = t
    <3>1. i \in 1..n
      BY <1>1, <1>3, <2>2 DEF TopMoves
    <3>2. CASE i = n
      BY <1>2, <2>2, <3>2
    <3>3. CASE i # n
      <4>1. i \in 1..(n - 1)
        BY <3>1, <3>3
      <4> QED
        BY <1>1, <2>2, <3>1, <4>1 DEF TopMoves
    <3> QED
      BY <3>2, <3>3
  <2> QED
    BY <2>1, <2>2
<1> QED
  BY <1>3, FatalFrames

LEMMA FatalPops ==
  ASSUME Sound, Fatal, died = None, died' = None, Grows, OffRecorded,
         NEW t \in Threads, stack[t] # <<>>, Pops(t)
  PROVE  Fatal'
<1>1. PICK n \in Nat : n = Len(stack[t]) /\ n > 0
  BY TopFacts DEF Sound
<1>2. ASSUME NEW u \in Threads, NEW i \in 1..Len(stack'[u])
      PROVE  i \in 1..Len(stack[u]) /\ stack'[u][i] = stack[u][i]
  <2>1. CASE u # t
    BY <1>2, <2>1 DEF Pops, OthersKept
  <2>2. CASE u = t
    <3>1. i \in 1..(n - 1)
      BY <1>1, <1>2, <2>2 DEF Pops
    <3>2. i \in 1..n
      BY <3>1
    <3> QED
      BY <1>1, <2>2, <3>1, <3>2 DEF Pops
  <2> QED
    BY <2>1, <2>2
<1> QED
  BY <1>2, FatalFrames

LEMMA TopKept ==
  ASSUME Sound, Fatal, died = None, NEW t \in Threads, stack[t] # <<>>
  PROVE  Top(t) \in Frames /\ InRange(Top(t)) /\ Kept(Top(t))
<1>1. Top(t) \in Frames /\ Top(t) = stack[t][Len(stack[t])] /\ Len(stack[t]) \in 1..Len(stack[t])
  BY TopFacts DEF Sound
<1> QED
  BY <1>1 DEF Sound, Shape, Fatal

LEMMA StillGrows ==
  ASSUME Sound, Fatal, UNCHANGED <<content, flushed>>
  PROVE  Grows
<1>1. ASSUME NEW s \in Sinks
      PROVE  Len(content[s]) \in Nat /\ flushed[s] \in Nat /\ flushed[s] <= Len(content[s])
  BY DEF Sound, Types, Fatal
<1> QED
  BY <1>1 DEF Grows

LEMMA SameLine ==
  ASSUME NEW s, NEW f, NEW g, SameCall(g, f)
  PROVE  /\ InStream(s, f)' => InStream(s, g)'
         /\ OnDisk(s, f)' => OnDisk(s, g)'
BY DEF SameCall, InStream, OnDisk


LEMMA FatalRests ==
  ASSUME Sound, Fatal, died = None, Grows, OffRecorded, UNCHANGED stack, FatalLineKept'
  PROVE  Fatal'
<1>1. CASE died' = None
  BY <1>1, FatalFrames
<1>2. CASE died' # None
  BY <1>2 DEF Fatal, Grows
<1> QED
  BY <1>1, <1>2

LEMMA CheckOffFatal ==
  ASSUME Sound, Fatal, NEW t \in Threads, CheckOff(t)
  PROVE  Fatal'
<1>1. /\ died = None /\ died' = None /\ stack[t] # <<>>
      /\ UNCHANGED <<level, silenced, content, flushed>>
      /\ Return(t) \/ (level[Top(t).logger] # OFF /\ Goto(t, "level"))
  BY DEF CheckOff, In, Managed
<1>2. Grows /\ OffRecorded
  BY <1>1, StillGrows DEF OffRecorded, Recorded
<1>3. CASE Return(t)
  BY <1>1, <1>2, <1>3, ReturnPops, FatalPops DEF Sound
<1>4. CASE level[Top(t).logger] # OFF /\ Goto(t, "level")
  <2>1. TopMoves(t, "level", 1)
    BY <1>1, <1>4, GotoMoves DEF Sound, Pcs
  <2>2. PICK g : g = stack'[t][Len(stack[t])]
    OBVIOUS
  <2>3. g.pc = "level" /\ g.logger = Top(t).logger /\ g.id = Top(t).id
    BY <2>1, <2>2 DEF TopMoves, SameCall
  <2>4. Kept(g)'
    BY <1>1, <1>4, <2>3 DEF Kept, SwitchedOff
  <2> QED
    BY <1>1, <1>2, <2>1, <2>2, <2>4, FatalMoves
<1> QED
  BY <1>1, <1>3, <1>4

LEMMA AssertLevelFatal ==
  ASSUME Sound, Fatal, NEW t \in Threads, AssertLevel(t)
  PROVE  Fatal'
<1>1. /\ died = None /\ stack[t] # <<>> /\ Top(t).pc = "level"
      /\ UNCHANGED <<level, silenced, content, flushed>>
  BY DEF AssertLevel, In, Managed
<1>2. Grows /\ OffRecorded
  BY <1>1, StillGrows DEF OffRecorded, Recorded
<1>3. CASE level[Top(t).logger] = OFF
  <2>1. died' = [why |-> "assert", frame |-> Top(t)]
    BY <1>3 DEF AssertLevel
  <2>2. SwitchedOff(Top(t))
    BY <1>1, <1>3, TopKept DEF Kept, SwitchedOff
  <2>3. SwitchedOff(died.frame)'
    BY <1>1, <2>1, <2>2 DEF SwitchedOff
  <2>4. FatalLineKept'
    BY <2>3 DEF FatalLineKept
  <2>5. UNCHANGED stack
    BY <1>3 DEF AssertLevel
  <2> QED
    BY <1>1, <1>2, <2>4, <2>5, FatalRests
<1>4. CASE level[Top(t).logger] # OFF
  <2>1. Goto(t, "compare") /\ died' = None
    BY <1>1, <1>4 DEF AssertLevel
  <2>2. TopMoves(t, "compare", 1)
    BY <1>1, <2>1, GotoMoves DEF Sound, Pcs
  <2>3. PICK g : g = stack'[t][Len(stack[t])]
    OBVIOUS
  <2>4. g.pc = "compare" /\ g.logger = Top(t).logger /\ g.id = Top(t).id
    BY <2>2, <2>3 DEF TopMoves, SameCall
  <2>5. Kept(g)'
    BY <1>1, <1>4, <2>4 DEF Kept, SwitchedOff
  <2> QED
    BY <1>1, <1>2, <2>1, <2>2, <2>3, <2>5, FatalMoves
<1> QED
  BY <1>3, <1>4

LEMMA CompareLevelFatal ==
  ASSUME Sound, Fatal, NEW t \in Threads, CompareLevel(t)
  PROVE  Fatal'
<1>1. /\ died = None /\ died' = None /\ stack[t] # <<>> /\ Top(t).pc = "compare"
      /\ UNCHANGED <<level, silenced, content, flushed>>
  BY DEF CompareLevel, In, Managed
<1>2. Grows /\ OffRecorded
  BY <1>1, StillGrows DEF OffRecorded, Recorded
<1>3. PICK g : g = stack'[t][Len(stack[t])]
  OBVIOUS
<1>4. CASE Top(t).level >= level[Top(t).logger] /\ SinksOf[Top(t).logger] # <<>>
  <2>1. TopMoves(t, "sink", 1)
    BY <1>1, <1>4, GotoMoves DEF CompareLevel, Sound, Pcs
  <2>2. g.pc = "sink" /\ g.at = 1
    BY <1>3, <2>1 DEF TopMoves
  <2>3. Kept(g)'
    BY <2>2 DEF Kept, SwitchedOff
  <2> QED
    BY <1>1, <1>2, <1>3, <2>1, <2>3, FatalMoves
<1>5. CASE ~(Top(t).level >= level[Top(t).logger] /\ SinksOf[Top(t).logger] # <<>>)
  <2>1. TopMoves(t, "flush", 1)
    BY <1>1, <1>5, GotoMoves DEF CompareLevel, Sound, Pcs
  <2>2. g.pc = "flush" /\ g.at = 1 /\ g.logger = Top(t).logger /\ g.level = Top(t).level /\ g.id = Top(t).id
    BY <1>3, <2>1 DEF TopMoves, SameCall
  <2>3. Top(t).logger \in Loggers /\ Kept(Top(t))
    BY <1>1, TopKept DEF Frames
  <2>4. level[Top(t).logger] \in 0..OFF
    BY <2>3 DEF Sound, Types
  <2>5. ASSUME Top(t).level = FATAL, ~SwitchedOff(Top(t))
        PROVE  SinksOf[Top(t).logger] = <<>>
    <3>1. level[Top(t).logger] # OFF
      BY <1>1, <2>3, <2>5 DEF Kept, SwitchedOff
    <3>2. Top(t).level >= level[Top(t).logger]
      BY <2>4, <2>5, <3>1 DEF FATAL, OFF
    <3> QED
      BY <1>5, <3>2
  <2>6. Kept(g)'
    BY <1>1, <2>2, <2>5 DEF Kept, SwitchedOff, SinkCount
  <2> QED
    BY <1>1, <1>2, <1>3, <2>1, <2>6, FatalMoves
<1> QED
  BY <1>4, <1>5

LEMMA SinkGrows ==
  ASSUME Sound, Fatal, NEW t \in Threads, Sink(t)
  PROVE  Grows
<1>1. PICK s : s = SinkAt(t)
  OBVIOUS
<1>2. s \in Sinks /\ Writes(t, s)
  BY <1>1, SinkWrites DEF Sound
<1>3. flushed' = flushed \/ flushed' = [flushed EXCEPT ![s] = Len(content'[s])]
  BY <1>1 DEF Sink
<1>4. SUFFICES ASSUME NEW r \in Sinks
               PROVE  /\ Len(content[r]) \in Nat /\ Len(content'[r]) \in Nat
                      /\ flushed[r] \in Nat /\ flushed'[r] \in Nat
                      /\ Len(content[r]) <= Len(content'[r])
                      /\ \A i \in 1..Len(content[r]) : content'[r][i] = content[r][i]
                      /\ flushed[r] <= flushed'[r] /\ flushed'[r] <= Len(content'[r])
  BY DEF Grows
<1>5. PICK m \in Nat, d \in Nat : m = Len(content[r]) /\ d = flushed[r] /\ d <= m
  BY DEF Sound, Types, Fatal
<1>6. CASE r = s
  <2>1. Len(content'[r]) = m + 1 /\ \A i \in 1..m : content'[r][i] = content[r][i]
    BY <1>2, <1>5, <1>6 DEF Writes
  <2>2. flushed'[r] = d \/ flushed'[r] = m + 1
    BY <1>2, <1>3, <1>5, <1>6, <2>1 DEF Sound, Types
  <2> QED
    BY <1>5, <2>1, <2>2
<1>7. CASE r # s
  <2>1. content'[r] = content[r]
    BY <1>2, <1>7 DEF Writes
  <2>2. flushed'[r] = d
    BY <1>3, <1>5, <1>7 DEF Sound, Types
  <2> QED
    BY <1>5, <2>1, <2>2
<1> QED
  BY <1>6, <1>7

\* What a frame that leaves a sink behind must find in the streams.
LEMMA NextSinkFatal ==
  ASSUME Sound, Fatal, died = None, died' = None, Grows, UNCHANGED <<level, silenced>>,
         NEW t \in Threads, stack[t] # <<>>, Top(t).pc \in {"sink", "nested"}, NextSink(t, "sink"),
         NEW f \in Frames, f = Top(t),
         AtSink(f) \notin Broken => InStream(AtSink(f), f)'
  PROVE  Fatal'
<1>1. PICK label, at : TopMoves(t, label, at) /\ AfterSink(label, at, f)
  BY NextSinkMoves DEF Sound
<1>2. PICK g : g = stack'[t][Len(stack[t])]
  OBVIOUS
<1>3. SameCall(g, f) /\ g.pc = label /\ g.at = at
  BY <1>1, <1>2 DEF TopMoves
<1>4. InRange(f) /\ Kept(f)
  BY TopKept
<1>5. PICK c \in Nat, k \in Nat : c = SinkCount(f) /\ k = f.at /\ k >= 1 /\ k <= c
  BY <1>4, SinksOfFrame DEF InRange
<1>6. ASSUME f.level = FATAL, ~SwitchedOff(f), NEW j \in 1..k, SinksOf[f.logger][j] \notin Broken
      PROVE  InStream(SinksOf[f.logger][j], g)'
  <2>1. SinksOf[f.logger][j] \in Sinks
    BY <1>5, SinksOfFrame
  <2>2. CASE j = k
    BY <1>3, <1>5, <1>6, <2>2, SameLine DEF AtSink
  <2>3. CASE j # k
    <3>1. j \in 1..(f.at - 1)
      BY <1>5, <2>3
    <3>2. InStream(SinksOf[f.logger][j], f)
      BY <1>4, <1>6, <3>1 DEF Kept, SwitchedOff
    <3>3. InStream(SinksOf[f.logger][j], f)'
      BY <2>1, <3>2, StreamsKeep
    <3> QED
      BY <1>3, <3>3, SameLine
  <2> QED
    BY <2>2, <2>3
<1>7. Kept(g)'
  <2>1. CASE k = c
    <3>1. g.pc = "flush" /\ g.at = 1
      BY <1>1, <1>3, <1>5, <2>1 DEF AfterSink
    <3>2. SinkCount(g) = k /\ g.logger = f.logger /\ g.level = f.level /\ g.id = f.id
      BY <1>3, <1>5, <2>1 DEF SameCall, SinkCount
    <3> QED
      BY <1>6, <3>1, <3>2 DEF Kept, SwitchedOff, SinkCount
  <2>2. CASE k # c
    <3>1. g.pc = "sink" /\ g.at = k + 1
      BY <1>1, <1>3, <1>5, <2>2 DEF AfterSink
    <3>2. g.logger = f.logger /\ g.level = f.level /\ g.id = f.id /\ (k + 1) - 1 = k
      BY <1>3, <1>5 DEF SameCall
    <3> QED
      BY <1>6, <3>1, <3>2 DEF Kept, SwitchedOff
  <2> QED
    BY <2>1, <2>2
<1>8. OffRecorded
  BY DEF OffRecorded, Recorded
<1> QED
  BY <1>1, <1>2, <1>7, <1>8, FatalMoves


LEMMA SinkFatal ==
  ASSUME Sound, Fatal, NEW t \in Threads, Sink(t)
  PROVE  Fatal'
<1>1. /\ died = None /\ died' = None /\ stack[t] # <<>> /\ Top(t).pc = "sink" /\ NextSink(t, "sink")
      /\ UNCHANGED <<level, silenced>>
  BY DEF Sink, In, Managed
<1>2. Grows
  BY SinkGrows
<1>3. PICK f \in Frames : f = Top(t)
  BY <1>1, TopKept
<1>4. PICK s : s = SinkAt(t)
  OBVIOUS
<1>5. s = AtSink(f) /\ s \in Sinks /\ Writes(t, s)
  BY <1>1, <1>3, <1>4, AtSinks, SinkWrites DEF Sound
<1>6. InStream(s, f)'
  <2>1. PICK m \in Nat : m = Len(content[s])
    BY <1>5 DEF Sound, Types
  <2>2. Len(content'[s]) = m + 1 /\ content'[s][m + 1] = Line(t)
    BY <1>5, <2>1 DEF Writes
  <2>3. content'[s][m + 1].id = f.id /\ content'[s][m + 1].time = f.time
    BY <1>3, <2>2 DEF Line
  <2>4. m + 1 \in 1..(m + 1)
    BY <2>1
  <2> QED
    BY <2>2, <2>3, <2>4 DEF InStream
<1> QED
  BY <1>1, <1>2, <1>3, <1>5, <1>6, NextSinkFatal

LEMMA ErrorReturnedFatal ==
  ASSUME Sound, Fatal, NEW t \in Threads, ErrorReturned(t)
  PROVE  Fatal'
<1>1. /\ died = None /\ died' = None /\ stack[t] # <<>> /\ Top(t).pc = "nested" /\ NextSink(t, "sink")
      /\ UNCHANGED <<level, silenced, content, flushed>>
  BY DEF ErrorReturned, In, Managed
<1>2. Grows
  BY <1>1, StillGrows
<1>3. PICK f \in Frames : f = Top(t)
  BY <1>1, TopKept
<1>4. AtSink(f) \in Broken
  BY <1>1, <1>3, TopKept DEF Kept, SwitchedOff
<1> QED
  BY <1>1, <1>2, <1>3, <1>4, NextSinkFatal

LEMMA SinkBrokenFatal ==
  ASSUME Sound, Fatal, NEW t \in Threads, SinkBroken(t)
  PROVE  Fatal'
<1>1. /\ died = None /\ died' = None /\ stack[t] # <<>> /\ Top(t).pc = "sink"
      /\ UNCHANGED <<level, silenced, content, flushed>> /\ SinkAt(t) \in Broken
  BY DEF SinkBroken, In, Managed
<1>2. Grows /\ OffRecorded
  BY <1>1, StillGrows DEF OffRecorded, Recorded
<1>3. Pushes(t)
  BY SinkBrokenPushes DEF Sound
<1>4. PICK n \in Nat : n = Len(stack[t]) /\ n > 0
  BY <1>1, TopFacts DEF Sound
<1>5. PICK f \in Frames : f = Top(t) /\ InRange(f) /\ Kept(f) /\ AtSink(f) \in Broken
  BY <1>1, TopKept, AtSinks DEF Sound
<1>6. Kept(f)'
  BY <1>1, <1>2, <1>5, KeptStays DEF Recorded
<1>7. SameCall(stack'[t][n], f) /\ stack'[t][n].pc = "nested" /\ stack'[t][n].at = f.at
  BY <1>3, <1>4, <1>5 DEF Pushes
<1>8. PICK g : g = stack'[t][n]
  OBVIOUS
<1>9. Kept(g)'
  <2>1. AtSink(g) \in Broken
    BY <1>5, <1>7, <1>8 DEF AtSink, SameCall
  <2>2. ASSUME g.level = FATAL, ~SwitchedOff(g)', NEW k \in 1..(g.at - 1), SinksOf[g.logger][k] \notin Broken
        PROVE  InStream(SinksOf[g.logger][k], g)'
    <3>1. f.level = FATAL /\ f.logger = g.logger /\ f.id = g.id /\ f.at = g.at /\ f.pc = "sink"
      BY <1>1, <1>5, <1>7, <1>8, <2>2 DEF SameCall
    <3>2. InStream(SinksOf[g.logger][k], f)'
      BY <1>6, <2>2, <3>1 DEF Kept, SwitchedOff
    <3> QED
      BY <1>7, <1>8, <3>2, SameLine
  <2> QED
    BY <1>7, <1>8, <2>1, <2>2 DEF Kept, SwitchedOff, AtSink
<1>10. Kept(stack[t][n])'
  BY <1>8, <1>9 DEF Kept, SwitchedOff
<1>11. Kept(stack[t][n + 1])'
  <2>1. stack'[t][n + 1].pc = "off"
    BY <1>3, <1>4 DEF Pushes, Frame
  <2> QED
    BY <2>1 DEF Kept, SwitchedOff
<1>12. ASSUME NEW u \in Threads, NEW i \in 1..Len(stack'[u])
       PROVE  \/ i \in 1..Len(stack[u]) /\ stack'[u][i] = stack[u][i]
              \/ Kept(stack[u][i])'
  <2>1. CASE u # t
    BY <1>3, <1>12, <2>1 DEF Pushes, OthersKept
  <2>2. CASE u = t
    <3>1. i \in 1..(n + 1)
      BY <1>3, <1>4, <1>12, <2>2 DEF Pushes
    <3>2. CASE i = n \/ i = n + 1
      BY <1>10, <1>11, <2>2, <3>2
    <3>3. CASE ~(i = n \/ i = n + 1)
      <4>1. i \in 1..(n - 1) /\ i \in 1..n
        BY <3>1, <3>3
      <4> QED
        BY <1>3, <1>4, <2>2, <4>1 DEF Pushes
    <3> QED
      BY <3>2, <3>3
  <2> QED
    BY <2>1, <2>2
<1> QED
  BY <1>1, <1>2, <1>12, FatalFrames

LEMMA FlushFatal ==
  ASSUME Sound, Fatal, NEW t \in Threads, Flush(t)
  PROVE  Fatal'
<1>1. /\ died = None /\ died' = None /\ stack[t] # <<>> /\ Top(t).pc = "flush" /\ ~SinksDone(t)
      /\ UNCHANGED <<level, silenced, content>> /\ Stay(t, "flush")
  BY DEF Flush, In, Managed
<1>2. PICK f \in Frames : f = Top(t) /\ InRange(f) /\ Kept(f) /\ SinkAt(t) = AtSink(f)
  BY <1>1, TopKept, AtSinks DEF Sound
<1>3. PICK c \in Nat, k \in Nat : c = SinkCount(f) /\ k = f.at /\ k >= 1 /\ k <= c
  BY <1>1, <1>2, SinksOfFrame DEF InRange, SinksDone, SinkCount
<1>4. PICK s \in Sinks : s = AtSink(f) /\ s = SinksOf[f.logger][k]
  BY <1>2, <1>3, SinksOfFrame DEF AtSink
<1>5. /\ flushed'[s] = Len(content[s])
      /\ \A r \in Sinks : flushed'[r] = flushed[r] \/ flushed'[r] = Len(content[r])
  BY <1>2, <1>4 DEF Flush
<1>6. Grows
  <2>1. ASSUME NEW r \in Sinks
        PROVE  Len(content[r]) \in Nat /\ flushed[r] \in Nat /\ flushed[r] <= Len(content[r])
    BY DEF Sound, Types, Fatal
  <2> QED
    BY <1>1, <1>5, <2>1 DEF Grows
<1>7. OffRecorded
  BY <1>1 DEF OffRecorded, Recorded
<1>8. TopMoves(t, "flush", k + 1)
  BY <1>1, <1>2, <1>3, StayMoves DEF Sound, Pcs
<1>9. PICK g : g = stack'[t][Len(stack[t])]
  OBVIOUS
<1>10. SameCall(g, f) /\ g.pc = "flush" /\ g.at = k + 1
  BY <1>2, <1>8, <1>9 DEF TopMoves
<1>11. Kept(f)'
  BY <1>1, <1>2, <1>6, KeptStays DEF Recorded
<1>12. ASSUME f.level = FATAL, ~SwitchedOff(f)
       PROVE  /\ \A j \in 1..c : SinksOf[f.logger][j] \notin Broken => InStream(SinksOf[f.logger][j], f)'
              /\ \A j \in 1..(k - 1) : SinksOf[f.logger][j] \notin Broken => OnDisk(SinksOf[f.logger][j], f)'
  BY <1>1, <1>2, <1>3, <1>11, <1>12 DEF Kept, SwitchedOff, SinkCount
<1>13. InStream(s, f)' => OnDisk(s, f)'
  BY <1>1, <1>5 DEF InStream, OnDisk
<1>14. ASSUME f.level = FATAL, ~SwitchedOff(f), NEW j \in 1..k, SinksOf[f.logger][j] \notin Broken
       PROVE  OnDisk(SinksOf[f.logger][j], f)'
  <2>1. j \in 1..c
    BY <1>3
  <2>2. CASE j = k
    BY <1>4, <1>12, <1>13, <1>14, <2>1, <2>2
  <2>3. CASE j # k
    <3>1. j \in 1..(k - 1)
      BY <1>3, <2>3
    <3> QED
      BY <1>12, <1>14, <3>1
  <2> QED
    BY <2>2, <2>3
<1>15. Kept(g)'
  <2>1. g.logger = f.logger /\ g.level = f.level /\ g.id = f.id /\ SinkCount(g) = c /\ (k + 1) - 1 = k
    BY <1>3, <1>10 DEF SameCall, SinkCount
  <2>2. ASSUME f.level = FATAL, ~SwitchedOff(f)
        PROVE  /\ \A j \in 1..c : SinksOf[f.logger][j] \notin Broken => InStream(SinksOf[f.logger][j], g)'
               /\ \A j \in 1..k : SinksOf[f.logger][j] \notin Broken => OnDisk(SinksOf[f.logger][j], g)'
    BY <1>10, <1>12, <1>14, <2>2, SameLine
  <2> QED
    BY <1>1, <1>10, <2>1, <2>2 DEF Kept, SwitchedOff, SinkCount
<1> QED
  BY <1>1, <1>6, <1>7, <1>8, <1>9, <1>15, FatalMoves


LEMMA FinishFatal ==
  ASSUME Sound, Fatal, NEW t \in Threads, Finish(t)
  PROVE  Fatal'
<1>1. /\ died = None /\ stack[t] # <<>> /\ Top(t).pc = "flush" /\ (ShouldFlush(t) => SinksDone(t))
      /\ UNCHANGED <<level, silenced, content, flushed>>
  BY DEF Finish, In, Managed
<1>2. Grows /\ OffRecorded
  BY <1>1, StillGrows DEF OffRecorded, Recorded
<1>3. CASE Top(t).level # FATAL
  <2>1. Return(t) /\ died' = None
    BY <1>1, <1>3 DEF Finish
  <2> QED
    BY <1>1, <1>2, <2>1, ReturnPops, FatalPops DEF Sound
<1>4. CASE Top(t).level = FATAL
  <2>1. PICK f \in Frames : f = Top(t) /\ InRange(f) /\ Kept(f)
    BY <1>1, TopKept
  <2>2. died' = [why |-> "fatal", frame |-> [f EXCEPT !.at = 1]] /\ UNCHANGED stack
    BY <1>4, <2>1 DEF Finish
  <2>3. PICK d : d = [f EXCEPT !.at = 1]
    OBVIOUS
  <2>4. SameCall(d, f) /\ d.logger = f.logger /\ d.id = f.id
    BY <2>1, <2>3 DEF SameCall, Frames
  <2>5. died'.why = "fatal" /\ died'.frame = d
    BY <2>2, <2>3
  <2>6. f.logger \in Loggers /\ SinksOf[f.logger] \in Seq(Sinks)
    BY <2>1, LoggingAssumption DEF Frames
  <2>7. CASE ~ShouldFlush(t)
    <3>1. FlushLevelOf(f.logger) \in 0..OFF
      BY LoggingAssumption DEF FlushLevelOf, ConfiguredFlushLevel, FATAL, OFF
    <3>2. ~(FATAL >= FlushLevelOf(f.logger))
      BY <1>4, <2>1, <2>7 DEF ShouldFlush
    <3>3. FlushLevelOf(d.logger) > FATAL
      BY <2>4, <3>1, <3>2 DEF FATAL, OFF
    <3>4. FatalLineKept'
      BY <2>5, <3>3 DEF FatalLineKept, FlushLevelOf, ConfiguredFlushLevel, ConfiguredLevel, GetOrDefault
    <3> QED
      BY <1>1, <1>2, <2>2, <3>4, FatalRests
  <2>8. CASE SinksDone(t) /\ ~SwitchedOff(f)
    <3>1. PICK c \in Nat, k \in Nat : c = SinkCount(f) /\ k = f.at /\ k > c
      BY <2>1, <2>8, SinksOfFrame DEF SinksDone, SinkCount
    <3>2. ASSUME NEW j \in 1..c, SinksOf[f.logger][j] \notin Broken
          PROVE  OnDisk(SinksOf[f.logger][j], d)'
      <4>1. j \in 1..(f.at - 1)
        BY <3>1
      <4>2. OnDisk(SinksOf[f.logger][j], f)
        BY <1>1, <1>4, <2>1, <2>8, <3>2, <4>1 DEF Kept, SwitchedOff
      <4>3. OnDisk(SinksOf[f.logger][j], f)'
        BY <1>1, <4>2 DEF OnDisk
      <4> QED
        BY <2>4, <4>3, SameLine
    <3>3. ASSUME NEW s \in ToSet(SinksOf[d.logger]) \ Broken PROVE OnDisk(s, d)'
      <4>1. PICK j \in 1..c : s = SinksOf[f.logger][j]
        BY <2>4, <2>6, <3>1, <3>3 DEF ToSet, SinkCount
      <4> QED
        BY <3>2, <3>3, <4>1
    <3>4. FatalLineKept'
      BY <2>5, <3>3 DEF FatalLineKept, OnDisk
    <3> QED
      BY <1>1, <1>2, <2>2, <3>4, FatalRests
  <2>9. CASE SwitchedOff(f)
    <3>1. FatalLineKept'
      BY <1>1, <2>4, <2>5, <2>9 DEF FatalLineKept, SwitchedOff
    <3> QED
      BY <1>1, <1>2, <2>2, <3>1, FatalRests
  <2> QED
    BY <1>1, <2>7, <2>8, <2>9
<1> QED
  BY <1>3, <1>4

LEMMA LogFatal ==
  ASSUME Sound, Fatal, NEW t \in Threads, LogMain(t) \/ LogNamed(t)
  PROVE  Fatal'
<1>1. died = None /\ died' = None /\ UNCHANGED <<level, silenced, content, flushed>>
  BY DEF LogMain, LogNamed, Log, Managed
<1>2. Grows /\ OffRecorded
  BY <1>1, StillGrows DEF OffRecorded, Recorded
<1>3. Begins(t)
  BY LogBegins DEF Sound
<1>4. ASSUME NEW u \in Threads, NEW i \in 1..Len(stack'[u])
      PROVE  \/ i \in 1..Len(stack[u]) /\ stack'[u][i] = stack[u][i]
             \/ Kept(stack[u][i])'
  <2>1. CASE u # t
    BY <1>3, <1>4, <2>1 DEF Begins, OthersKept
  <2>2. CASE u = t
    <3>1. Len(stack'[t]) = 1 /\ stack'[t][1].pc = "off"
      BY <1>3 DEF Begins, Frame
    <3>2. i = 1
      BY <2>2, <3>1
    <3> QED
      BY <2>2, <3>1, <3>2 DEF Kept, SwitchedOff
  <2> QED
    BY <2>1, <2>2
<1> QED
  BY <1>1, <1>2, <1>4, FatalFrames

LEMMA SetLevelRecords ==
  ASSUME Sound, NEW l \in Loggers, NEW new \in NewLevels, SetLevel(l, new)
  PROVE  OffRecorded
<1>1. /\ level' = [level EXCEPT ![l] = new] /\ level \in [Loggers -> 0..OFF]
      /\ silenced' = IF new = OFF THEN silenced \cup CallsOf(l) ELSE silenced
  BY DEF SetLevel, Sound, Types
<1>2. ASSUME NEW t \in Threads, NEW i \in 1..Len(stack[t]) PROVE Recorded(stack[t][i])
  <2>1. PICK f : f = stack[t][i]
    OBVIOUS
  <2>2. CASE f.logger = l /\ new = OFF
    <3>1. f \in ToSet(stack[t])
      BY <1>2, <2>1 DEF ToSet, Sound, Types
    <3>2. f \in UNION {ToSet(stack[u]) : u \in Threads}
      BY <3>1
    <3>3. <<f.id, l>> \in CallsOf(l)
      BY <2>2, <3>2 DEF CallsOf
    <3> QED
      BY <1>1, <2>1, <2>2, <3>3 DEF Recorded
  <2>3. CASE f.logger # l
    BY <1>1, <2>1, <2>3 DEF Recorded
  <2>4. CASE f.logger = l /\ new # OFF
    BY <1>1, <2>1, <2>4 DEF Recorded
  <2> QED
    BY <2>2, <2>3, <2>4
<1>3. silenced \subseteq silenced'
  BY <1>1
<1> QED
  BY <1>2, <1>3 DEF OffRecorded

LEMMA OtherFatal ==
  ASSUME Sound, Fatal,
         \/ \E l \in Loggers : \/ GetLogger(l) \/ ResetPointer(l) \/ AddLogger(l) \/ RemoveLogger(l) \/ SetMainLogger(l)
                               \/ \E new \in NewLevels : SetLevel(l, new)
         \/ \E s \in Sinks : SetPattern(s)
         \/ Tick
  PROVE  Fatal'
<1>1. UNCHANGED <<stack, content, flushed>>
  BY OtherSound DEF Undisturbed
<1>2. died = None /\ died' = None
  BY DEF GetLogger, ResetPointer, AddLogger, RemoveLogger, SetMainLogger, SetLevel, SetPattern, Tick, Change
<1>3. OffRecorded
  <2>1. CASE UNCHANGED <<level, silenced>>
    BY <2>1 DEF OffRecorded, Recorded
  <2>2. ASSUME NEW l \in Loggers, NEW new \in NewLevels, SetLevel(l, new) PROVE OffRecorded
    BY <1>1, <2>2, SetLevelRecords
  <2> QED
    BY <2>1, <2>2 DEF GetLogger, ResetPointer, AddLogger, RemoveLogger, SetMainLogger, SetPattern, Tick, Managed
<1>4. Grows
  BY <1>1, StillGrows
<1>5. FatalLineKept'
  BY <1>2 DEF FatalLineKept
<1> QED
  BY <1>1, <1>2, <1>3, <1>4, <1>5, FatalRests

LEMMA FatalNext ==
  ASSUME Sound, Fatal, [Next]_vars
  PROVE  Fatal'
<1>1. CASE \E t \in Threads : LogMain(t) \/ LogNamed(t)
  BY <1>1, LogFatal
<1>2. CASE \E t \in Threads : Step(t)
  BY <1>2, CheckOffFatal, AssertLevelFatal, CompareLevelFatal, SinkFatal, SinkBrokenFatal,
     ErrorReturnedFatal, FlushFatal, FinishFatal DEF Step
<1>3. CASE UNCHANGED vars
  <2>1. UNCHANGED <<level, silenced, stack, content, flushed, died>>
    BY <1>3 DEF vars
  <2>2. Grows /\ OffRecorded
    BY <2>1, StillGrows DEF OffRecorded, Recorded
  <2>3. FatalLineKept'
    BY <2>1 DEF Fatal, FatalLineKept, SwitchedOff, OnDisk, FlushLevelOf, ConfiguredFlushLevel, ConfiguredLevel, GetOrDefault
  <2>4. CASE died = None
    BY <2>1, <2>2, <2>3, <2>4, FatalRests
  <2>5. CASE died # None
    BY <2>1, <2>2, <2>3, <2>5 DEF Fatal, Grows
  <2> QED
    BY <2>4, <2>5
<1> QED
  BY <1>1, <1>2, <1>3, OtherFatal DEF Next, Rest

\* Unless the logger was switched off while the call was under way, the process is
\* aborted only by a fatal message, which is then on disk in every working sink of its
\* logger if the logger flushes at that level.  A call whose logger was switched off
\* may lose its line: between the reads of the level in SinkIt, it skips the sinks and
\* aborts all the same, or fails the assertion at Logger.cpp:20.
THEOREM FatalLineKeptAlways == Spec => []FatalLineKept
<1>1. Init => Fatal
  <2>1. ASSUME Init PROVE Fatal
    <3>1. \A s \in Sinks : flushed[s] = 0 /\ Len(content[s]) = 0
      BY <2>1 DEF Init
    <3>2. \A t \in Threads : Len(stack[t]) = 0
      BY <2>1 DEF Init
    <3> QED
      BY <2>1, <3>1, <3>2 DEF Init, Fatal, FatalLineKept
  <2> QED
    BY <2>1
<1>2. Sound /\ Fatal /\ [Next]_vars => Fatal'
  BY FatalNext
<1>3. Fatal => FatalLineKept
  BY DEF Fatal
<1> QED
  BY <1>1, <1>2, <1>3, SoundAlways, PTL DEF Spec
=============================================================================
