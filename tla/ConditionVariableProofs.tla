---------------------- MODULE ConditionVariableProofs ----------------------
(***************************************************************************)
(* Proofs about ConditionVariable, for all finite sets of consumers and    *)
(* producers, any set of threads and any number of messages.               *)
(***************************************************************************)
EXTENDS ConditionVariable, SequenceTheorems, FiniteSetTheorems, TLAPS

-----------------------------------------------------------------------------
(* The inductive invariant.                                                *)

\* A coroutine that has the mutex, on its own behalf.
Notifying ==
  {"choose", "oneLoad", "oneRead", "oneCas", "allLoad", "allCas", "allResume", "allNext", "notified"}
CriticalAt(c, l) ==
  \/ c \in Consumers /\ l \in {"check", "load", "cas", "unlock"}
  \/ c \in Producers /\ (l \in {"produce", "unlock"} \/ (held /\ l \in Notifying))
Critical(c) == CriticalAt(c, pc[c])

\* The mutex has one owner: a coroutine inside it, or one that is suspended by now
\* and for which a thread has still to unlock.
Ownership ==
  /\ \A c \in Coros : Critical(c) => owner = c /\ unlocks = {}
  /\ unlocks # {} => owner # Null
  /\ \A t, u \in unlocks : t = u

Queued == IsInjective(queue) /\ \A c \in ToSet(queue) : pc[c] = "blocked"

\* Without the mutex only one producer notifies, by NotifyOne.
Mode ==
  ~held => \A p \in Producers :
    /\ pc[p] \notin {"allLoad", "allCas", "allResume", "allNext"}
    /\ p # Sole => pc[p] = "idle"

\* A producer that was started has room for its message.
Room == \A p \in Producers : pc[p] \in {"lock", "blocked", "produce"} => produced[p] < MaxItems

\* The awaiter a notifier is looking at is still listed, or was woken and cannot
\* have the mutex yet, so that its frame is there.
Cursor ==
  \A p \in Producers :
    /\ pc[p] \in {"oneRead", "oneCas"} => cur[p] \in Consumers /\ pc[cur[p]] = "listed"
    /\ pc[p] = "oneCas" => nxt[p] = next[cur[p]]
    /\ pc[p] \in {"allCas", "allResume"} => cur[p] \in Consumers
    /\ pc[p] = "allNext" => cur[p] \in Consumers /\ cur[p] \in waiting /\ pc[cur[p]] \in {"lock", "blocked"}

Waits == \A c \in Consumers : pc[c] \in {"load", "cas", "listed"} => c \in waiting

\* A consumer on its way to the list has seen no message, and holds the mutex.
SeenNone == \A c \in Consumers : pc[c] \in {"load", "cas"} => messages = 0

\* The one list, as in WaitersReachable.
Suspended == {c \in Consumers : pc[c] = "listed"}
OneList(s) ==
  /\ IsInjective(s) /\ ToSet(s) = Suspended
  /\ (\A p \in Producers : ~Takes(p)) => Follows(s, head)
  /\ \A p \in Producers : Takes(p) => head = Null /\ Follows(s, Rest(p))
Listing == \E s \in Seq(Consumers) : OneList(s)

\* TypeOK, but for the Boolean variables.
Typed ==
  /\ messages \in Nat /\ produced \in [Producers -> 0..MaxItems]
  /\ owner \in Coros \cup {Null} /\ queue \in Seq(Coros)
  /\ head \in Pointers /\ next \in [Consumers -> Pointers] /\ waiting \subseteq Consumers
  /\ cur \in [Producers -> Pointers] /\ nxt \in [Producers -> Pointers]
  /\ pc \in [Coros -> Pcs]
  /\ stack \in [Threads -> Seq(Coros)] /\ unlocks \subseteq Threads

Basic == Typed /\ Ownership /\ Queued /\ Mode /\ Room
Safe == Cursor /\ Waits /\ ~dangling


-----------------------------------------------------------------------------
(* Sequences.                                                              *)

LEMMA FrontTyped ==
  ASSUME NEW S, NEW s \in Seq(S), s # <<>>
  PROVE  Front(s) \in Seq(S)
<1>1. PICK n \in Nat : n = Len(s) - 1
  OBVIOUS
<1>2. Front(s) = SubSeq(s, 1, n) /\ \A i \in 1..n : s[i] \in S
  BY <1>1 DEF Front
<1> QED
  BY <1>2, SubSeqProperties

LEMMA AppendSet ==
  ASSUME NEW S, NEW s \in Seq(S), NEW e \in S
  PROVE  /\ Append(s, e) \in Seq(S) /\ ToSet(Append(s, e)) = ToSet(s) \cup {e}
         /\ IsInjective(s) /\ e \notin ToSet(s) => IsInjective(Append(s, e))
<1>1. /\ Append(s, e) \in Seq(S) /\ Len(Append(s, e)) = Len(s) + 1
      /\ \A i \in 1..Len(s) : Append(s, e)[i] = s[i]
      /\ Append(s, e)[Len(s) + 1] = e
      /\ DOMAIN s = 1..Len(s) /\ DOMAIN Append(s, e) = 1..(Len(s) + 1) /\ Len(s) \in Nat
  BY AppendProperties
<1> QED
  BY <1>1 DEF ToSet, IsInjective

LEMMA TailSet ==
  ASSUME NEW S, NEW s \in Seq(S), s # <<>>
  PROVE  /\ Tail(s) \in Seq(S) /\ Head(s) \in S /\ Head(s) = s[1]
         /\ ToSet(s) = ToSet(Tail(s)) \cup {Head(s)}
         /\ IsInjective(s) => IsInjective(Tail(s)) /\ Head(s) \notin ToSet(Tail(s))
<1>1. /\ Len(s) \in Nat \ {0} /\ DOMAIN s = 1..Len(s) /\ Head(s) = s[1] /\ Tail(s) \in Seq(S)
      /\ DOMAIN Tail(s) = 1..(Len(s) - 1) /\ Head(s) \in S
      /\ \A i \in 1..(Len(s) - 1) : Tail(s)[i] = s[i + 1]
  OBVIOUS
<1>2. ToSet(s) = ToSet(Tail(s)) \cup {s[1]}
  <2>1. ASSUME NEW i \in 1..Len(s) PROVE s[i] \in ToSet(Tail(s)) \cup {s[1]}
    <3>1. CASE i = 1
      BY <3>1
    <3>2. CASE i # 1
      <4>1. i - 1 \in 1..(Len(s) - 1) /\ Tail(s)[i - 1] = s[(i - 1) + 1] /\ (i - 1) + 1 = i
        BY <1>1, <3>2
      <4> QED
        BY <1>1, <4>1 DEF ToSet
    <3> QED
      BY <3>1, <3>2
  <2>2. ASSUME NEW i \in 1..(Len(s) - 1) PROVE Tail(s)[i] \in ToSet(s)
    <3>1. i + 1 \in 1..Len(s)
      BY <1>1
    <3> QED
      BY <1>1, <3>1 DEF ToSet
  <2>3. s[1] \in ToSet(s)
    BY <1>1 DEF ToSet
  <2> QED
    BY <1>1, <2>1, <2>2, <2>3 DEF ToSet
<1>3. ASSUME IsInjective(s) PROVE IsInjective(Tail(s)) /\ s[1] \notin ToSet(Tail(s))
  <2>1. \A i, j \in 1..Len(s) : s[i] = s[j] => i = j
    BY <1>1, <1>3 DEF IsInjective
  <2>2. ASSUME NEW i \in 1..(Len(s) - 1)
        PROVE  i + 1 \in 1..Len(s) /\ 1 \in 1..Len(s) /\ Tail(s)[i] # s[1]
    BY <1>1, <2>1
  <2>3. ASSUME NEW i \in 1..(Len(s) - 1), NEW j \in 1..(Len(s) - 1), Tail(s)[i] = Tail(s)[j]
        PROVE  i = j
    BY <1>1, <2>1, <2>2, <2>3
  <2> QED
    BY <1>1, <2>2, <2>3 DEF IsInjective, ToSet
<1> QED
  BY <1>1, <1>2, <1>3

-----------------------------------------------------------------------------
(* Threads, the mutex and the labels.                                      *)

LEMMA AtFacts ==
  ASSUME Typed, NEW t \in Threads, NEW c \in Coros, NEW l, At(t, c, l)
  PROVE  /\ pc[c] = l /\ t \notin unlocks /\ stack[t] \in Seq(Coros) /\ Front(stack[t]) \in Seq(Coros)
         /\ [stack EXCEPT ![t] = Front(stack[t])] \in [Threads -> Seq(Coros)]
<1>1. pc[c] = l /\ t \notin unlocks /\ stack[t] # <<>>
  BY DEF At
<1>2. stack[t] \in Seq(Coros)
  BY DEF Typed
<1>3. Front(stack[t]) \in Seq(Coros)
  BY <1>1, <1>2, FrontTyped
<1> QED
  BY <1>1, <1>2, <1>3 DEF Typed

\* A coroutine moves to another label.
Moves(c, m) == pc' \in [Coros -> Pcs] /\ pc'[c] = m /\ \A d \in Coros : d # c => pc'[d] = pc[d]

LEMMA GotoMoves ==
  ASSUME Typed, NEW c \in Coros, NEW m \in Pcs, Goto(c, m)
  PROVE  Moves(c, m)
BY DEF Goto, Typed, Moves

\* A step of c that leaves the mutex alone, and does not make c its owner.
LEMMA LocalBasic ==
  ASSUME Typed, Ownership, Queued, Mode, NEW c \in Coros, NEW m \in Pcs, Moves(c, m),
         UNCHANGED <<held, owner, queue, unlocks>>, pc[c] # "blocked",
         Critical(c)' => Critical(c),
         c \in Producers => /\ pc[c] # "idle" \/ c \in Active
                            /\ m \in {"allLoad", "allCas", "allResume", "allNext"} => held
  PROVE  Ownership' /\ Queued' /\ Mode'
<1>1. ASSUME NEW d \in Coros, Critical(d)' PROVE Critical(d)
  <2>1. CASE d = c
    BY <1>1, <2>1
  <2>2. CASE d # c
    BY <1>1, <2>2 DEF Critical, CriticalAt, Moves
  <2> QED
    BY <2>1, <2>2
<1>2. Ownership'
  BY <1>1 DEF Ownership
<1>3. Queued'
  <2>1. ToSet(queue) \subseteq Coros
    BY DEF Typed, ToSet
  <2> QED
    BY <2>1 DEF Queued, Moves
<1>4. Mode'
  BY DEF Mode, Moves, Coros, Active
<1> QED
  BY <1>2, <1>3, <1>4

\* Unlock(): the mutex is free, or the first coroutine in the queue has it.
LEMMA HandOverFacts ==
  ASSUME Typed, Queued, NEW t \in Threads, NEW s \in Seq(Coros), NEW q \in [Coros -> Pcs], HandOver(t, s, q)
  PROVE  /\ stack' \in [Threads -> Seq(Coros)] /\ queue' \in Seq(Coros) /\ pc' \in [Coros -> Pcs]
         /\ \/ owner' = Null /\ pc' = q /\ queue' = queue
            \/ /\ owner' \in Coros /\ pc[owner'] = "blocked" /\ pc'[owner'] = Owning(owner')
               /\ \A d \in Coros : d # owner' => pc'[d] = q[d]
               /\ owner' \notin ToSet(queue') /\ IsInjective(queue') /\ ToSet(queue') \subseteq ToSet(queue)
<1>1. CASE queue = <<>>
  BY <1>1 DEF HandOver, Typed
<1>2. CASE queue # <<>>
  <2>1. PICK h : h = Head(queue)
    OBVIOUS
  <2>2. /\ queue \in Seq(Coros) /\ IsInjective(queue) /\ stack \in [Threads -> Seq(Coros)]
    BY DEF Typed, Queued
  <2>3. /\ Tail(queue) \in Seq(Coros) /\ h \in Coros /\ ToSet(queue) = ToSet(Tail(queue)) \cup {h}
        /\ IsInjective(Tail(queue)) /\ h \notin ToSet(Tail(queue))
    BY <1>2, <2>1, <2>2, TailSet
  <2>4. /\ owner' = h /\ queue' = Tail(queue) /\ pc' = [q EXCEPT ![h] = Owning(h)]
        /\ stack' = [stack EXCEPT ![t] = Append(s, h)]
    BY <1>2, <2>1 DEF HandOver
  <2>5. pc[h] = "blocked"
    BY <2>3 DEF Queued
  <2>6. Owning(h) \in Pcs
    BY DEF Owning, Pcs
  <2>7. pc' \in [Coros -> Pcs] /\ pc'[h] = Owning(h) /\ \A d \in Coros : d # h => pc'[d] = q[d]
    BY <2>3, <2>4, <2>6
  <2>8. Append(s, h) \in Seq(Coros)
    BY <2>3, AppendProperties
  <2>9. stack' \in [Threads -> Seq(Coros)]
    BY <2>2, <2>4, <2>8
  <2> QED
    BY <2>3, <2>4, <2>5, <2>7, <2>9
<1> QED
  BY <1>1, <1>2


LEMMA HandOverBasic ==
  ASSUME Typed, Ownership, Queued, Mode, NEW t \in Threads, NEW s \in Seq(Coros), NEW q \in [Coros -> Pcs],
         HandOver(t, s, q), UNCHANGED held, unlocks' = {},
         \A d \in Coros : ~CriticalAt(d, q[d]) /\ (pc[d] = "blocked" => q[d] = "blocked"),
         ~held => \A p \in Producers : /\ q[p] \notin {"allLoad", "allCas", "allResume", "allNext"}
                                       /\ p # Sole => q[p] = "idle"
  PROVE  Ownership' /\ Queued' /\ Mode'
<1>1. CASE owner' = Null /\ pc' = q /\ queue' = queue
  <2>1. \A d \in Coros : ~Critical(d)'
    BY <1>1 DEF Critical, CriticalAt
  <2>2. Ownership'
    BY <2>1 DEF Ownership
  <2>3. Queued'
    <3>1. ToSet(queue) \subseteq Coros
      BY DEF Typed, ToSet
    <3> QED
      BY <1>1, <3>1 DEF Queued
  <2>4. Mode'
    BY <1>1 DEF Mode
  <2> QED
    BY <2>2, <2>3, <2>4
<1>2. CASE /\ owner' \in Coros /\ pc[owner'] = "blocked" /\ pc'[owner'] = Owning(owner')
           /\ \A d \in Coros : d # owner' => pc'[d] = q[d]
           /\ owner' \notin ToSet(queue') /\ IsInjective(queue') /\ ToSet(queue') \subseteq ToSet(queue)
  <2>1. ASSUME NEW d \in Coros, d # owner' PROVE ~Critical(d)'
    BY <1>2, <2>1 DEF Critical, CriticalAt
  <2>2. Ownership'
    BY <1>2, <2>1, CvAssumption DEF Ownership
  <2>3. Queued'
    <3>1. ToSet(queue) \subseteq Coros
      BY DEF Typed, ToSet
    <3> QED
      BY <1>2, <3>1 DEF Queued
  <2>4. Mode'
    <3>1. SUFFICES ASSUME ~held, NEW p \in Producers
                   PROVE  /\ pc'[p] \notin {"allLoad", "allCas", "allResume", "allNext"}
                          /\ p # Sole => pc'[p] = "idle"
      BY DEF Mode
    <3>2. CASE p = owner'
      BY <1>2, <3>1, <3>2 DEF Mode, Owning
    <3>3. CASE p # owner'
      BY <1>2, <3>1, <3>3 DEF Coros
    <3> QED
      BY <3>2, <3>3
  <2> QED
    BY <2>2, <2>3, <2>4
<1> QED
  BY <1>1, <1>2, HandOverFacts

LEMMA ResumeBasic ==
  ASSUME Basic, NEW t \in Threads, NEW c \in Coros, Resume(t, c)
  PROVE  Basic'
<1>1. /\ Typed /\ pc[c] = "idle" /\ stack' = [stack EXCEPT ![t] = <<c>>] /\ Goto(c, "lock")
      /\ c \in Producers => c \in Active /\ produced[c] < MaxItems
      /\ UNCHANGED <<held, messages, produced, owner, queue, head, next, waiting, cur, nxt, unlocks>>
  BY DEF Basic, Resume, data, mutex, list, locals
<1>2. Moves(c, "lock")
  BY <1>1, GotoMoves DEF Pcs
<1>3. Typed'
  BY <1>1, <1>2 DEF Typed, Moves
<1>4. Room'
  BY <1>1, <1>2 DEF Basic, Room, Moves, Coros
<1>5. ~Critical(c)'
  BY <1>2 DEF Critical, CriticalAt, Moves, Notifying
<1>6. Ownership' /\ Queued' /\ Mode'
  BY <1>1, <1>2, <1>5, LocalBasic DEF Basic, Pcs
<1> QED
  BY <1>3, <1>4, <1>6 DEF Basic

LEMMA LockBasic ==
  ASSUME Basic, NEW t \in Threads, NEW c \in Coros, Lock(t, c)
  PROVE  Basic'
<1>1. /\ Typed /\ pc[c] = "lock" /\ At(t, c, "lock")
      /\ UNCHANGED <<held, messages, produced, head, next, waiting, cur, nxt, unlocks>>
  BY DEF Basic, Lock, At, data, list, locals
<1>2. CASE owner = Null
  <2>1. owner' = c /\ Goto(c, Owning(c)) /\ UNCHANGED <<queue, stack>>
    BY <1>2 DEF Lock
  <2>2. Moves(c, Owning(c))
    BY <1>1, <2>1, GotoMoves DEF Pcs, Owning
  <2>3. Typed'
    BY <1>1, <2>1, <2>2 DEF Typed, Moves
  <2>4. Room'
    BY <1>1, <2>2, CvAssumption DEF Basic, Room, Moves, Coros, Owning
  <2>5. \A d \in Coros : ~Critical(d)
    BY <1>2, CvAssumption DEF Basic, Ownership, Coros
  <2>6. \A d \in Coros : d # c => ~Critical(d)'
    BY <1>1, <2>2, <2>5 DEF Critical, CriticalAt, Moves
  <2>7. unlocks = {}
    BY <1>2 DEF Basic, Ownership
  <2>8. Ownership'
    BY <1>1, <2>1, <2>6, <2>7 DEF Ownership
  <2>9. Queued'
    <3>1. ToSet(queue) \subseteq Coros
      BY <1>1 DEF Typed, ToSet
    <3> QED
      BY <1>1, <2>1, <2>2, <3>1 DEF Basic, Queued, Moves
  <2>10. Mode'
    BY <1>1, <2>2 DEF Basic, Mode, Moves, Coros, Owning
  <2> QED
    BY <2>3, <2>4, <2>8, <2>9, <2>10 DEF Basic
<1>3. CASE owner # Null
  <2>1. queue' = Append(queue, c) /\ Goto(c, "blocked") /\ Return(t) /\ UNCHANGED owner
    BY <1>3 DEF Lock
  <2>2. Moves(c, "blocked")
    BY <1>1, <2>1, GotoMoves DEF Pcs
  <2>3. queue \in Seq(Coros) /\ c \notin ToSet(queue) /\ IsInjective(queue)
    BY <1>1 DEF Basic, Queued, Typed
  <2>4. queue' \in Seq(Coros) /\ ToSet(queue') = ToSet(queue) \cup {c} /\ IsInjective(queue')
    BY <2>1, <2>3, AppendSet
  <2>5. stack' \in [Threads -> Seq(Coros)]
    BY <1>1, <2>1, AtFacts DEF Return
  <2>6. Typed'
    BY <1>1, <2>1, <2>2, <2>4, <2>5 DEF Typed, Moves
  <2>7. Room'
    BY <1>1, <2>2 DEF Basic, Room, Moves, Coros
  <2>8. \A d \in Coros : Critical(d)' => Critical(d)
    BY <1>1, <2>2 DEF Critical, CriticalAt, Moves, Notifying
  <2>9. Ownership'
    BY <1>1, <2>1, <2>8 DEF Basic, Ownership
  <2>10. Queued'
    <3>1. ToSet(queue) \subseteq Coros
      BY <1>1 DEF Typed, ToSet
    <3> QED
      BY <2>2, <2>4, <3>1 DEF Basic, Queued, Moves
  <2>11. Mode'
    BY <1>1, <2>2 DEF Basic, Mode, Moves, Coros
  <2> QED
    BY <2>6, <2>7, <2>9, <2>10, <2>11 DEF Basic
<1> QED
  BY <1>2, <1>3


LEMMA UnlockBasic ==
  ASSUME Basic, NEW t \in Threads, NEW c \in Coros, Unlock(t, c)
  PROVE  Basic'
<1>1. /\ Typed /\ Queued /\ pc[c] = "unlock" /\ At(t, c, "unlock")
      /\ UNCHANGED <<held, messages, produced, head, next, waiting, cur, nxt, unlocks>>
  BY DEF Basic, Unlock, At, data, list, locals
<1>2. PICK s \in Seq(Coros), l \in {"choose", "idle"} :
        HandOver(t, s, [pc EXCEPT ![c] = l]) /\ (l = "choose" => c \in Producers /\ ~held)
  BY <1>1, AtFacts DEF Unlock
<1>3. PICK q \in [Coros -> Pcs] : q = [pc EXCEPT ![c] = l]
  BY <1>1 DEF Typed, Pcs
<1>4. HandOver(t, s, q) /\ q[c] = l /\ \A d \in Coros : d # c => q[d] = pc[d]
  BY <1>1, <1>2, <1>3 DEF Typed
<1>5. Critical(c) /\ owner = c /\ unlocks = {}
  BY <1>1 DEF Basic, Ownership, Critical, CriticalAt, Coros
<1>6. ASSUME NEW d \in Coros PROVE ~CriticalAt(d, q[d])
  <2>1. CASE d = c
    BY <1>2, <1>4, <2>1, CvAssumption DEF CriticalAt, Notifying
  <2>2. CASE d # c
    BY <1>4, <1>5, <2>2 DEF Basic, Ownership, Critical
  <2> QED
    BY <2>1, <2>2
<1>7. Ownership' /\ Queued' /\ Mode'
  <2>1. \A d \in Coros : pc[d] = "blocked" => q[d] = "blocked"
    BY <1>1, <1>4
  <2>2. ~held => \A p \in Producers : /\ q[p] \notin {"allLoad", "allCas", "allResume", "allNext"}
                                      /\ p # Sole => q[p] = "idle"
    BY <1>1, <1>4 DEF Basic, Mode, Coros
  <2> QED
    BY <1>1, <1>4, <1>5, <1>6, <2>1, <2>2, HandOverBasic DEF Basic
<1>8. Typed'
  BY <1>1, <1>4, HandOverFacts DEF Typed
<1>9. Room'
  <2>1. ASSUME NEW p \in Producers, pc'[p] \in {"lock", "blocked", "produce"}
        PROVE  pc[p] \in {"lock", "blocked", "produce"}
    BY <1>1, <1>2, <1>4, <2>1, HandOverFacts, ZenonT(60) DEF Coros
  <2> QED
    BY <1>1, <2>1 DEF Basic, Room
<1> QED
  BY <1>7, <1>8, <1>9 DEF Basic

LEMMA AwaitUnlockBasic ==
  ASSUME Basic, NEW t \in Threads, AwaitUnlock(t)
  PROVE  Basic'
<1>1. /\ Typed /\ Queued /\ t \in unlocks /\ HandOver(t, stack[t], pc) /\ unlocks' = unlocks \ {t}
      /\ UNCHANGED <<held, messages, produced, head, next, waiting, cur, nxt>>
  BY DEF Basic, AwaitUnlock, data, list, locals
<1>2. stack[t] \in Seq(Coros) /\ pc \in [Coros -> Pcs]
  BY <1>1 DEF Typed
<1>3. unlocks' = {} /\ \A d \in Coros : ~CriticalAt(d, pc[d])
  BY <1>1 DEF Basic, Ownership, Critical
<1>4. Ownership' /\ Queued' /\ Mode'
  <2>1. ~held => \A p \in Producers : /\ pc[p] \notin {"allLoad", "allCas", "allResume", "allNext"}
                                      /\ p # Sole => pc[p] = "idle"
    BY DEF Basic, Mode
  <2> QED
    BY <1>1, <1>2, <1>3, <2>1, HandOverBasic DEF Basic
<1>5. Typed'
  BY <1>1, <1>2, HandOverFacts DEF Typed
<1>6. Room'
  <2>1. ASSUME NEW p \in Producers, pc'[p] \in {"lock", "blocked", "produce"}
        PROVE  pc[p] \in {"lock", "blocked", "produce"}
    BY <1>1, <1>2, <2>1, HandOverFacts DEF Coros
  <2> QED
    BY <1>1, <2>1 DEF Basic, Room
<1> QED
  BY <1>4, <1>5, <1>6 DEF Basic

LEMMA CheckBasic ==
  ASSUME Basic, NEW t \in Threads, NEW c \in Consumers, Check(t, c)
  PROVE  Basic'
<1>1. /\ Typed /\ pc[c] = "check" /\ c \in Coros
      /\ UNCHANGED <<held, produced, owner, queue, head, next, cur, nxt, stack, unlocks>>
  BY DEF Basic, Check, At, mutex, locals, Coros
<1>2. PICK m \in {"unlock", "load"} : Goto(c, m)
  BY DEF Check
<1>3. m \in Pcs /\ Moves(c, m)
  BY <1>1, <1>2, GotoMoves DEF Pcs
<1>4. messages' \in Nat /\ waiting' \subseteq Consumers
  BY <1>1 DEF Check, Cond, Typed
<1>5. Typed'
  BY <1>1, <1>3, <1>4 DEF Typed, Moves
<1>6. Room'
  BY <1>1, <1>3, CvAssumption DEF Basic, Room, Moves, Coros
<1>7. Critical(c)
  BY <1>1 DEF Critical, CriticalAt
<1>8. Ownership' /\ Queued' /\ Mode'
  BY <1>1, <1>3, <1>7, CvAssumption, LocalBasic DEF Basic
<1> QED
  BY <1>5, <1>6, <1>8 DEF Basic

LEMMA AwaitLoadBasic ==
  ASSUME Basic, NEW t \in Threads, NEW c \in Consumers, AwaitLoad(t, c)
  PROVE  Basic'
<1>1. /\ Typed /\ pc[c] = "load" /\ c \in Coros /\ Goto(c, "cas") /\ next' = [next EXCEPT ![c] = head]
      /\ UNCHANGED <<held, messages, produced, owner, queue, head, waiting, cur, nxt, stack, unlocks>>
  BY DEF Basic, AwaitLoad, At, data, mutex, locals, Coros
<1>2. "cas" \in Pcs /\ Moves(c, "cas")
  BY <1>1, GotoMoves DEF Pcs
<1>3. Typed'
  BY <1>1, <1>2 DEF Typed, Moves
<1>4. Room'
  BY <1>1, <1>2, CvAssumption DEF Basic, Room, Moves, Coros
<1>5. Critical(c)
  BY <1>1 DEF Critical, CriticalAt
<1>6. Ownership' /\ Queued' /\ Mode'
  BY <1>1, <1>2, <1>5, CvAssumption, LocalBasic DEF Basic
<1> QED
  BY <1>3, <1>4, <1>6 DEF Basic

LEMMA AwaitRetryBasic ==
  ASSUME Basic, NEW t \in Threads, NEW c \in Consumers, AwaitRetry(t, c)
  PROVE  Basic'
<1>1. /\ next' = [next EXCEPT ![c] = head]
      /\ UNCHANGED <<held, messages, produced, owner, queue, head, waiting, cur, nxt, pc, stack, unlocks>>
  BY DEF AwaitRetry, data, mutex, locals
<1>2. Typed'
  BY <1>1 DEF Basic, Typed
<1> QED
  BY <1>1, <1>2 DEF Basic, Ownership, Critical, CriticalAt, Queued, Mode, Room

LEMMA AwaitCasBasic ==
  ASSUME Basic, NEW t \in Threads, NEW c \in Consumers, AwaitCas(t, c)
  PROVE  Basic'
<1>1. /\ Typed /\ pc[c] = "cas" /\ c \in Coros /\ Goto(c, "listed") /\ At(t, c, "cas") /\ Return(t)
      /\ head' = c /\ unlocks' = unlocks \cup {t}
      /\ UNCHANGED <<held, messages, produced, owner, queue, next, waiting, cur, nxt>>
  BY DEF Basic, AwaitCas, At, data, mutex, locals, Coros
<1>2. Moves(c, "listed")
  BY <1>1, GotoMoves DEF Pcs
<1>3. stack' \in [Threads -> Seq(Coros)]
  BY <1>1, AtFacts DEF Return
<1>4. Typed'
  BY <1>1, <1>2, <1>3 DEF Typed, Moves, Pointers
<1>5. Room'
  BY <1>1, <1>2, CvAssumption DEF Basic, Room, Moves, Coros
<1>6. owner = c /\ unlocks = {}
  BY <1>1 DEF Basic, Ownership, Critical, CriticalAt
<1>7. \A d \in Coros : ~Critical(d)'
  <2>1. ASSUME NEW d \in Coros, d # c PROVE ~Critical(d)'
    BY <1>1, <1>2, <1>6, <2>1 DEF Basic, Ownership, Critical, CriticalAt, Moves
  <2>2. ~Critical(c)'
    BY <1>2, CvAssumption DEF Critical, CriticalAt, Moves
  <2> QED
    BY <2>1, <2>2
<1>8. Ownership'
  BY <1>1, <1>6, <1>7, CvAssumption DEF Ownership, Coros
<1>9. Queued'
  <2>1. ToSet(queue) \subseteq Coros
    BY <1>1 DEF Typed, ToSet
  <2> QED
    BY <1>1, <1>2, <2>1 DEF Basic, Queued, Moves
<1>10. Mode'
  BY <1>1, <1>2, CvAssumption DEF Basic, Mode, Moves, Coros
<1> QED
  BY <1>4, <1>5, <1>8, <1>9, <1>10 DEF Basic


LEMMA ProduceBasic ==
  ASSUME Basic, NEW t \in Threads, NEW p \in Producers, Produce(t, p)
  PROVE  Basic'
<1>1. /\ Typed /\ pc[p] = "produce" /\ p \in Coros
      /\ messages' = messages + 1 /\ produced' = [produced EXCEPT ![p] = @ + 1]
      /\ UNCHANGED <<held, owner, queue, head, next, waiting, cur, nxt, stack, unlocks>>
  BY DEF Basic, Produce, At, mutex, list, locals, Coros
<1>2. PICK m \in {"choose", "unlock"} : Goto(p, m)
  BY DEF Produce
<1>3. m \in Pcs /\ Moves(p, m)
  BY <1>1, <1>2, GotoMoves DEF Pcs
<1>4. produced[p] \in 0..MaxItems /\ produced[p] < MaxItems /\ produced \in [Producers -> 0..MaxItems]
  BY <1>1 DEF Basic, Room, Typed
<1>5. produced[p] + 1 \in 0..MaxItems
  BY <1>4, CvAssumption
<1>6. produced' \in [Producers -> 0..MaxItems] /\ messages' \in Nat
  BY <1>1, <1>4, <1>5 DEF Typed
<1>7. Typed'
  BY <1>1, <1>3, <1>6 DEF Typed, Moves
<1>8. Room'
  BY <1>1, <1>3, <1>4 DEF Basic, Room, Moves, Coros
<1>9. Critical(p)
  BY <1>1 DEF Critical, CriticalAt
<1>10. Ownership' /\ Queued' /\ Mode'
  BY <1>1, <1>3, <1>9, LocalBasic DEF Basic
<1> QED
  BY <1>7, <1>8, <1>10 DEF Basic

\* A step of a notifier, and one that wakes up a consumer.
LEMMA NotifierBasic ==
  ASSUME Basic, NEW p \in Producers, pc[p] \in Notifying, NEW m \in Notifying, Moves(p, m), Typed',
         m \in {"allLoad", "allCas", "allResume", "allNext"} => held,
         UNCHANGED <<held, produced, owner, queue, unlocks>>
  PROVE  Basic'
<1>1. p \in Coros /\ m \in Pcs
  BY DEF Coros, Pcs, Notifying
<1>2. Room'
  BY DEF Basic, Room, Moves, Coros, Notifying
<1>3. Critical(p)' => Critical(p)
  BY CvAssumption DEF Critical, CriticalAt, Moves, Notifying
<1>4. Ownership' /\ Queued' /\ Mode'
  BY <1>1, <1>3, LocalBasic DEF Basic, Notifying
<1> QED
  BY <1>2, <1>4 DEF Basic

\* p goes on to m, and c, which was suspended, runs again.
Wakes(p, m, c) ==
  /\ pc' \in [Coros -> Pcs] /\ pc'[p] = m /\ pc'[c] = "lock"
  /\ \A d \in Coros : d \notin {p, c} => pc'[d] = pc[d]

LEMMA WakenFacts ==
  ASSUME Typed, NEW t \in Threads, NEW p \in Producers, NEW c \in Consumers, NEW m \in Pcs, Waken(t, p, c, m)
  PROVE  Wakes(p, m, c) /\ stack' \in [Threads -> Seq(Coros)]
<1>1. p \in Coros /\ c \in Coros /\ p # c /\ "lock" \in Pcs
  BY CvAssumption DEF Coros, Pcs
<1>2. Wakes(p, m, c)
  BY <1>1 DEF Typed, Waken, Relock, Wakes
<1>3. stack[t] \in Seq(Coros) /\ stack \in [Threads -> Seq(Coros)] /\ stack' = [stack EXCEPT ![t] = Append(stack[t], c)]
  BY DEF Typed, Waken
<1>4. Append(stack[t], c) \in Seq(Coros)
  BY <1>1, <1>3, AppendProperties
<1> QED
  BY <1>2, <1>3, <1>4

LEMMA WakesBasic ==
  ASSUME Basic, NEW p \in Producers, pc[p] \in Notifying, NEW m \in Notifying, NEW c \in Consumers, Wakes(p, m, c),
         Typed', pc[c] = "listed",
         m \in {"allLoad", "allCas", "allResume", "allNext"} => held,
         UNCHANGED <<held, produced, owner, queue, unlocks>>
  PROVE  Basic'
<1>1. p \in Coros /\ c \in Coros /\ p # c /\ c \notin Producers /\ p \notin Consumers /\ pc[p] # "blocked"
  BY CvAssumption DEF Coros, Notifying
<1>2. Room'
  BY <1>1 DEF Basic, Room, Wakes, Coros, Notifying
<1>3. ASSUME NEW d \in Coros, Critical(d)' PROVE Critical(d)
  <2>1. CASE d = p
    BY <1>1, <1>3, <2>1 DEF Critical, CriticalAt, Wakes, Notifying
  <2>2. CASE d = c
    BY <1>1, <1>3, <2>2 DEF Critical, CriticalAt, Wakes, Notifying
  <2>3. CASE d \notin {p, c}
    BY <1>3, <2>3 DEF Critical, CriticalAt, Wakes
  <2> QED
    BY <2>1, <2>2, <2>3
<1>4. Ownership'
  BY <1>3 DEF Basic, Ownership
<1>5. Queued'
  <2>1. ToSet(queue) \subseteq Coros
    BY DEF Basic, Typed, ToSet
  <2> QED
    BY <1>1, <2>1 DEF Basic, Queued, Wakes
<1>6. Mode'
  BY <1>1 DEF Basic, Mode, Wakes, Coros, Notifying
<1> QED
  BY <1>2, <1>4, <1>5, <1>6 DEF Basic


-----------------------------------------------------------------------------
(* The list.                                                               *)

\* Follows, for next_ given by f.
Links(f, s, first) ==
  /\ s = <<>> <=> first = Null
  /\ s # <<>> => s[1] = first /\ f[s[Len(s)]] = Null
  /\ \A i \in 1..(Len(s) - 1) : f[s[i]] = s[i + 1]

LEMMA FollowsLinks ==
  ASSUME NEW s, NEW x
  PROVE  Follows(s, x) <=> Links(next, s, x)
BY DEF Follows, Links

\* Only the next_ of the awaiters on the list matters.
LEMMA LinksSame ==
  ASSUME NEW f, NEW g, NEW s \in Seq(Consumers), NEW x, Links(f, s, x), \A c \in ToSet(s) : g[c] = f[c]
  PROVE  Links(g, s, x)
<1>1. Len(s) \in Nat /\ DOMAIN s = 1..Len(s) /\ (s # <<>> => Len(s) > 0)
  OBVIOUS
<1>2. \A i \in 1..Len(s) : g[s[i]] = f[s[i]]
  BY <1>1 DEF ToSet
<1>3. s # <<>> => s[1] = x /\ g[s[Len(s)]] = Null
  <2>1. s # <<>> => Len(s) \in 1..Len(s)
    BY <1>1
  <2> QED
    BY <1>2, <2>1 DEF Links
<1>4. ASSUME NEW i \in 1..(Len(s) - 1) PROVE g[s[i]] = s[i + 1]
  <2>1. i \in 1..Len(s)
    BY <1>1
  <2> QED
    BY <1>2, <2>1 DEF Links
<1> QED
  BY <1>3, <1>4 DEF Links

\* The first awaiter, and the list without it.
LEMMA LinksTail ==
  ASSUME NEW f, NEW s \in Seq(Consumers), NEW x, Links(f, s, x), x # Null, IsInjective(s)
  PROVE  /\ x \in ToSet(s) /\ Tail(s) \in Seq(Consumers) /\ IsInjective(Tail(s))
         /\ ToSet(Tail(s)) = ToSet(s) \ {x} /\ Links(f, Tail(s), f[x])
<1>1. s # <<>> /\ s[1] = x
  BY DEF Links
<1>2. /\ Tail(s) \in Seq(Consumers) /\ IsInjective(Tail(s)) /\ x \notin ToSet(Tail(s))
      /\ ToSet(s) = ToSet(Tail(s)) \cup {x}
  BY <1>1, TailSet
<1>3. PICK n \in Nat : n = Len(s) - 1 /\ Len(s) = n + 1
  BY <1>1
<1>4. PICK r \in Seq(Consumers) : r = Tail(s)
  BY <1>2
<1>5. Len(r) = n /\ (\A i \in 1..n : r[i] = s[i + 1]) /\ \A i \in 1..n : s[i + 1] \in Consumers
  <2>1. /\ Len(Tail(s)) = Len(s) - 1 /\ \A i \in 1..(Len(s) - 1) : Tail(s)[i] = s[i + 1]
        /\ \A i \in 1..Len(s) : s[i] \in Consumers
    BY <1>1, HeadTailProperties
  <2>2. \A i \in 1..n : i + 1 \in 1..Len(s)
    BY <1>3
  <2> QED
    BY <1>3, <1>4, <2>1, <2>2
<1>6. r = <<>> <=> n = 0
  BY <1>5, EmptySeq
<1>7. (\A i \in 1..n : f[s[i]] = s[i + 1]) /\ f[s[n + 1]] = Null
  BY <1>1, <1>3 DEF Links
<1>8. CASE n = 0
  <2>1. f[x] = Null /\ r = <<>> /\ 1..(Len(r) - 1) = {}
    BY <1>1, <1>5, <1>6, <1>7, <1>8
  <2> QED
    BY <1>2, <1>4, <2>1 DEF Links
<1>9. CASE n # 0
  <2>1. 1 \in 1..n /\ n \in 1..n
    BY <1>9
  <2>2. f[x] = s[2] /\ r[1] = s[2] /\ s[2] \in Consumers
    BY <1>1, <1>5, <1>7, <2>1
  <2>3. f[x] # Null /\ r # <<>> /\ r[1] = f[x]
    BY <1>6, <1>9, <2>2, CvAssumption
  <2>4. f[r[n]] = Null
    BY <1>5, <1>7, <2>1
  <2>5. ASSUME NEW i \in 1..(n - 1) PROVE f[r[i]] = r[i + 1]
    <3>1. i \in 1..n /\ i + 1 \in 1..n
      BY <1>3
    <3> QED
      BY <1>5, <1>7, <3>1
  <2>6. Links(f, r, f[x])
    BY <1>5, <2>3, <2>4, <2>5 DEF Links
  <2> QED
    BY <1>2, <1>4, <2>6
<1> QED
  BY <1>1, <1>2, <1>8, <1>9

\* A new first awaiter.
LEMMA LinksPush ==
  ASSUME NEW f, NEW s \in Seq(Consumers), NEW x, Links(f, s, x), IsInjective(s),
         NEW c \in Consumers, c \notin ToSet(s), f[c] = x
  PROVE  \E r \in Seq(Consumers) : IsInjective(r) /\ ToSet(r) = ToSet(s) \cup {c} /\ Links(f, r, c)
<1>1. PICK n \in Nat : n = Len(s)
  OBVIOUS
<1>2. DOMAIN s = 1..n /\ (\A i \in 1..n : s[i] \in Consumers) /\ (s = <<>> <=> n = 0)
  BY <1>1
<1> DEFINE r == [i \in 1..(n + 1) |-> IF i = 1 THEN c ELSE s[i - 1]]
<1>3. \A i \in 1..(n + 1) : i # 1 => i - 1 \in 1..n
  OBVIOUS
<1>4. r \in Seq(Consumers) /\ Len(r) = n + 1 /\ DOMAIN r = 1..(n + 1)
  <2>1. n + 1 \in Nat /\ \A i \in 1..(n + 1) : (IF i = 1 THEN c ELSE s[i - 1]) \in Consumers
    BY <1>2, <1>3
  <2> QED
    BY <2>1, IsASeq
<1>5. r[1] = c /\ \A i \in 1..n : i + 1 \in 1..(n + 1) /\ r[i + 1] = s[i]
  OBVIOUS
<1> HIDE DEF r
<1>6. \A i \in 1..(n + 1) : i = 1 \/ (i - 1 \in 1..n /\ r[i] = s[i - 1])
  <2>1. ASSUME NEW i \in 1..(n + 1), i # 1 PROVE i - 1 \in 1..n /\ r[i] = s[i - 1]
    <3>1. i - 1 \in 1..n /\ (i - 1) + 1 = i
      BY <2>1
    <3> QED
      BY <1>5, <3>1
  <2> QED
    BY <2>1
<1>7. ToSet(r) = ToSet(s) \cup {c}
  <2>1. ASSUME NEW i \in 1..(n + 1) PROVE r[i] \in ToSet(s) \cup {c}
    BY <1>2, <1>5, <1>6 DEF ToSet
  <2>2. ASSUME NEW i \in 1..n PROVE s[i] \in ToSet(r)
    BY <1>4, <1>5 DEF ToSet
  <2>3. c \in ToSet(r)
    BY <1>4, <1>5 DEF ToSet
  <2> QED
    BY <1>2, <1>4, <2>1, <2>2, <2>3 DEF ToSet
<1>8. IsInjective(r)
  <2>1. \A i \in 1..n : s[i] # c
    BY <1>2 DEF ToSet
  <2>2. \A i, j \in 1..n : s[i] = s[j] => i = j
    BY <1>2 DEF IsInjective
  <2>3. ASSUME NEW i \in 1..(n + 1), NEW j \in 1..(n + 1), r[i] = r[j] PROVE i = j
    <3>1. CASE i = 1 \/ j = 1
      BY <1>5, <1>6, <2>1, <2>3, <3>1
    <3>2. CASE i # 1 /\ j # 1
      <4>1. i - 1 \in 1..n /\ j - 1 \in 1..n /\ s[i - 1] = s[j - 1]
        BY <1>6, <2>3, <3>2
      <4>2. i - 1 = j - 1
        BY <2>2, <4>1
      <4> QED
        BY <4>2
    <3> QED
      BY <3>1, <3>2
  <2> QED
    BY <1>4, <2>3 DEF IsInjective
<1>9. Links(f, r, c)
  <2>1. r # <<>> /\ c # Null
    BY <1>4, CvAssumption
  <2>2. f[r[n + 1]] = Null
    <3>1. CASE n = 0
      BY <1>2, <1>5, <3>1 DEF Links
    <3>2. CASE n # 0
      <4>1. n \in 1..n /\ r[n + 1] = s[n]
        BY <1>5, <3>2
      <4> QED
        BY <1>1, <1>2, <3>2, <4>1 DEF Links
    <3> QED
      BY <3>1, <3>2
  <2>3. ASSUME NEW i \in 1..n PROVE f[r[i]] = r[i + 1]
    <3>1. CASE i = 1
      <4>1. s # <<>> /\ s[1] = x
        BY <1>2, <3>1 DEF Links
      <4> QED
        BY <1>5, <3>1, <4>1
    <3>2. CASE i # 1
      <4>1. i - 1 \in 1..(n - 1) /\ (i - 1) + 1 = i /\ i \in 1..(n + 1)
        BY <3>2
      <4>2. f[s[i - 1]] = s[i]
        BY <1>1, <4>1 DEF Links
      <4> QED
        BY <1>5, <1>6, <3>2, <4>1, <4>2
    <3> QED
      BY <3>1, <3>2
  <2>4. (n + 1) - 1 = n
    OBVIOUS
  <2> QED
    BY <1>4, <1>5, <2>1, <2>2, <2>3, <2>4 DEF Links
<1> QED
  BY <1>4, <1>7, <1>8, <1>9

\* One coroutine notifies at a time; if it does so inside the mutex, nobody else is
\* inside.
LEMMA NotifierAlone ==
  ASSUME Basic, NEW p \in Producers, pc[p] \in Notifying
  PROVE  /\ \A q \in Producers : pc[q] \in Notifying => q = p
         /\ held => owner = p /\ unlocks = {} /\ \A d \in Coros : Critical(d) => d = p
         /\ pc[p] \in {"allLoad", "allCas", "allResume", "allNext"} => held
<1>1. CASE held
  BY <1>1 DEF Basic, Ownership, Critical, CriticalAt, Coros
<1>2. CASE ~held
  BY <1>2 DEF Basic, Mode, Notifying
<1> QED
  BY <1>1, <1>2


-----------------------------------------------------------------------------
(* Steps that leave the list and the notifiers alone.                      *)

Reading == {"oneRead", "oneCas", "allCas", "allResume", "allNext"}

Quiet ==
  /\ UNCHANGED <<head, cur, nxt, dangling>>
  /\ \A c \in Consumers : pc'[c] = "listed" <=> pc[c] = "listed"
  /\ \A c \in Consumers : pc[c] \notin {"load", "cas"} => next'[c] = next[c]
  /\ \A c \in Consumers : pc'[c] \in {"load", "cas", "listed"} => c \in waiting'
  /\ \A p \in Producers : pc'[p] = pc[p] \/ (pc[p] \notin Reading /\ pc'[p] \notin Reading)
  /\ \A p \in Producers : pc[p] = "allNext" => cur[p] \in waiting' /\ pc'[cur[p]] \in {"lock", "blocked"}

LEMMA QuietSafe ==
  ASSUME Typed, Safe, Listing, Quiet
  PROVE  Safe' /\ Listing'
<1>1. Waits' /\ ~dangling'
  BY DEF Safe, Waits, Quiet
<1>2. Cursor'
  <2>1. SUFFICES ASSUME NEW p \in Producers
                 PROVE  /\ pc'[p] \in {"oneRead", "oneCas"} => cur[p] \in Consumers /\ pc'[cur[p]] = "listed"
                        /\ pc'[p] = "oneCas" => nxt[p] = next'[cur[p]]
                        /\ pc'[p] \in {"allCas", "allResume"} => cur[p] \in Consumers
                        /\ pc'[p] = "allNext" =>
                             cur[p] \in Consumers /\ cur[p] \in waiting' /\ pc'[cur[p]] \in {"lock", "blocked"}
    BY DEF Cursor, Quiet
  <2>2. CASE pc'[p] \notin Reading
    BY <2>2 DEF Reading
  <2>3. CASE pc'[p] \in Reading
    BY <2>3 DEF Quiet, Safe, Cursor
  <2> QED
    BY <2>2, <2>3
<1>3. Listing'
  <2>1. PICK s \in Seq(Consumers) : OneList(s)
    BY DEF Listing
  <2>2. Suspended' = Suspended
    BY DEF Suspended, Quiet
  <2>3. \A c \in ToSet(s) : next'[c] = next[c]
    BY <2>1 DEF OneList, Suspended, Quiet
  <2>4. ASSUME NEW x, Follows(s, x) PROVE Links(next', s, x)
    BY <2>3, <2>4, LinksSame, FollowsLinks
  <2>5. \A p \in Producers : Takes(p)' <=> Takes(p)
    BY DEF Takes, Quiet, Reading
  <2>6. ASSUME NEW p \in Producers, Takes(p) PROVE Rest(p)' = Rest(p)
    BY <2>6 DEF Takes, Rest, Quiet, Reading, Safe, Cursor
  <2>7. head' = head
    BY DEF Quiet
  <2>8. (\A p \in Producers : ~Takes(p)') => Follows(s, head)'
    BY <2>1, <2>4, <2>5, <2>7 DEF OneList, Follows, Links
  <2>9. ASSUME NEW p \in Producers, Takes(p)' PROVE head' = Null /\ Follows(s, Rest(p))'
    <3>1. Takes(p) /\ head = Null /\ Links(next', s, Rest(p))
      BY <2>1, <2>4, <2>5, <2>9 DEF OneList
    <3>2. Links(next', s, Rest(p)')
      BY <2>6, <3>1
    <3> QED
      BY <2>7, <3>1, <3>2 DEF Follows, Links
  <2>10. OneList(s)'
    BY <2>1, <2>2, <2>8, <2>9 DEF OneList
  <2> QED
    BY <2>10 DEF Listing
<1> QED
  BY <1>1, <1>2, <1>3 DEF Safe

\* c moves between labels off the list and outside of a notification's reads.
LEMMA MovesQuiet ==
  ASSUME Typed, Safe, NEW c \in Coros, NEW m \in Pcs, Moves(c, m), UNCHANGED <<head, next, cur, nxt, dangling, waiting>>,
         pc[c] \notin {"load", "cas", "listed"}, m \notin {"load", "cas", "listed"},
         pc[c] \notin Reading, m \notin Reading,
         pc[c] \in {"lock", "blocked"} => m \in {"lock", "blocked"} \/ \A p \in Producers : pc[p] # "allNext"
  PROVE  Quiet
<1>1. \A d \in Consumers : d \in Coros
  BY DEF Coros
<1>2. \A d \in Producers : d \in Coros
  BY DEF Coros
<1>3. \A d \in Consumers : pc'[d] = "listed" <=> pc[d] = "listed"
  BY <1>1 DEF Moves
<1>4. \A d \in Consumers : pc'[d] \in {"load", "cas", "listed"} => d \in waiting'
  BY <1>1 DEF Moves, Safe, Waits
<1>5. \A p \in Producers : pc'[p] = pc[p] \/ (pc[p] \notin Reading /\ pc'[p] \notin Reading)
  BY <1>2 DEF Moves
<1>6. ASSUME NEW p \in Producers, pc[p] = "allNext" PROVE cur[p] \in waiting' /\ pc'[cur[p]] \in {"lock", "blocked"}
  BY <1>1, <1>6 DEF Moves, Safe, Cursor
<1> QED
  BY <1>3, <1>4, <1>5, <1>6 DEF Quiet

LEMMA ResumeQuiet ==
  ASSUME Basic, Safe, NEW t \in Threads, NEW c \in Coros, Resume(t, c)
  PROVE  Quiet
<1>1. /\ Typed /\ pc[c] = "idle" /\ Goto(c, "lock") /\ UNCHANGED <<head, next, cur, nxt, dangling, waiting>>
  BY DEF Basic, Resume, list, locals
<1>2. "lock" \in Pcs /\ Moves(c, "lock")
  BY <1>1, GotoMoves DEF Pcs
<1> QED
  BY <1>1, <1>2, MovesQuiet DEF Reading

LEMMA LockQuiet ==
  ASSUME Basic, Safe, NEW t \in Threads, NEW c \in Coros, Lock(t, c)
  PROVE  Quiet
<1>1. /\ Typed /\ pc[c] = "lock" /\ UNCHANGED <<head, next, cur, nxt, dangling, waiting>>
  BY DEF Basic, Lock, At, list, locals
<1>2. CASE owner = Null
  <2>1. Goto(c, Owning(c)) /\ Owning(c) \in {"check", "produce"}
    BY <1>2 DEF Lock, Owning
  <2>2. Owning(c) \in Pcs /\ Moves(c, Owning(c))
    BY <1>1, <2>1, GotoMoves DEF Pcs
  <2>3. ASSUME NEW p \in Producers, pc[p] = "allNext" PROVE FALSE
    BY <1>2, <2>3, NotifierAlone, CvAssumption DEF Notifying
  <2> QED
    BY <1>1, <2>1, <2>2, <2>3, MovesQuiet DEF Reading
<1>3. CASE owner # Null
  <2>1. Goto(c, "blocked")
    BY <1>3 DEF Lock
  <2>2. "blocked" \in Pcs /\ Moves(c, "blocked")
    BY <1>1, <2>1, GotoMoves DEF Pcs
  <2> QED
    BY <1>1, <2>2, MovesQuiet DEF Reading
<1> QED
  BY <1>2, <1>3

\* Whoever unlocks, no NotifyAll is in progress.
LEMMA HandOverQuiet ==
  ASSUME Typed, Queued, Safe, NEW t \in Threads, NEW s \in Seq(Coros), NEW q \in [Coros -> Pcs], HandOver(t, s, q),
         NEW c, \A d \in Coros : q[d] = pc[d] \/ (d = c /\ pc[d] = "unlock" /\ q[d] \in {"choose", "idle"}),
         \A p \in Producers : pc[p] # "allNext",
         UNCHANGED <<head, next, cur, nxt, dangling, waiting>>
  PROVE  Quiet
<1>1. ASSUME NEW d \in Coros
      PROVE  \/ pc'[d] = pc[d]
             \/ pc[d] \in {"unlock", "blocked"} /\ pc'[d] \in {"choose", "idle", "check", "produce"}
  <2>1. CASE pc' = q
    BY <2>1
  <2>2. CASE /\ owner' \in Coros /\ pc[owner'] = "blocked" /\ pc'[owner'] = Owning(owner')
             /\ \A e \in Coros : e # owner' => pc'[e] = q[e]
    BY <2>2 DEF Owning
  <2> QED
    BY <2>1, <2>2, HandOverFacts
<1>2. \A d \in Consumers : pc'[d] = "listed" <=> pc[d] = "listed"
  BY <1>1 DEF Coros
<1>3. \A d \in Consumers : pc'[d] \in {"load", "cas", "listed"} => d \in waiting'
  BY <1>1 DEF Coros, Safe, Waits
<1>4. \A p \in Producers : pc'[p] = pc[p] \/ (pc[p] \notin Reading /\ pc'[p] \notin Reading)
  BY <1>1 DEF Coros, Reading
<1> QED
  BY <1>2, <1>3, <1>4 DEF Quiet

LEMMA UnlockQuiet ==
  ASSUME Basic, Safe, NEW t \in Threads, NEW c \in Coros, Unlock(t, c)
  PROVE  Quiet
<1>1. /\ Typed /\ Queued /\ pc[c] = "unlock" /\ At(t, c, "unlock")
      /\ UNCHANGED <<head, next, cur, nxt, dangling, waiting>>
  BY DEF Basic, Unlock, At, list, locals
<1>2. PICK s \in Seq(Coros), l \in {"choose", "idle"} : HandOver(t, s, [pc EXCEPT ![c] = l])
  BY <1>1, AtFacts DEF Unlock
<1>3. PICK q \in [Coros -> Pcs] : q = [pc EXCEPT ![c] = l]
  BY <1>1 DEF Typed, Pcs
<1>4. HandOver(t, s, q) /\ q[c] = l /\ \A d \in Coros : d # c => q[d] = pc[d]
  BY <1>1, <1>2, <1>3 DEF Typed
<1>5. Critical(c)
  BY <1>1 DEF Critical, CriticalAt, Coros
<1>6. ASSUME NEW p \in Producers, pc[p] = "allNext" PROVE FALSE
  BY <1>1, <1>5, <1>6, NotifierAlone DEF Notifying
<1> QED
  BY <1>1, <1>4, <1>6, HandOverQuiet

LEMMA AwaitUnlockQuiet ==
  ASSUME Basic, Safe, NEW t \in Threads, AwaitUnlock(t)
  PROVE  Quiet
<1>1. /\ Typed /\ Queued /\ t \in unlocks /\ HandOver(t, stack[t], pc)
      /\ UNCHANGED <<head, next, cur, nxt, dangling, waiting>>
  BY DEF Basic, AwaitUnlock, list, locals
<1>2. stack[t] \in Seq(Coros) /\ pc \in [Coros -> Pcs]
  BY <1>1 DEF Typed
<1>3. ASSUME NEW p \in Producers, pc[p] = "allNext" PROVE FALSE
  BY <1>1, <1>3, NotifierAlone DEF Notifying
<1> QED
  BY <1>1, <1>2, <1>3, HandOverQuiet

LEMMA WaitQuiet ==
  ASSUME Basic, Safe, NEW t \in Threads, NEW c \in Consumers, Check(t, c) \/ AwaitLoad(t, c) \/ AwaitRetry(t, c)
  PROVE  Quiet
<1>1. /\ Typed /\ c \in Coros /\ c \notin Producers /\ pc[c] \in {"check", "load", "cas"}
      /\ UNCHANGED <<head, cur, nxt, dangling>>
  BY CvAssumption DEF Basic, Check, AwaitLoad, AwaitRetry, At, locals, Coros
<1>2. /\ \A d \in Coros : d # c => pc'[d] = pc[d]
      /\ pc'[c] \in {"unlock", "load", "cas"}
  <2>1. CASE AwaitRetry(t, c)
    BY <2>1 DEF AwaitRetry, At
  <2>2. CASE Check(t, c) \/ AwaitLoad(t, c)
    <3>1. PICK m \in {"unlock", "load", "cas"} : Goto(c, m)
      BY <2>2 DEF Check, AwaitLoad
    <3>2. Moves(c, m)
      BY <1>1, <3>1, GotoMoves DEF Pcs
    <3> QED
      BY <3>2 DEF Moves
  <2> QED
    BY <2>1, <2>2
<1>3. \A d \in Consumers : (d # c => next'[d] = next[d]) /\ (pc[c] = "check" => next'[d] = next[d])
  BY <1>1 DEF Check, AwaitLoad, AwaitRetry, At, Typed
<1>4. /\ \A d \in Consumers : d # c => (d \in waiting' <=> d \in waiting)
      /\ pc'[c] \in {"load", "cas"} => c \in waiting'
  <2>1. CASE Check(t, c)
    <3>1. Goto(c, "unlock") => pc'[c] = "unlock"
      BY <1>1 DEF Goto, Typed
    <3> QED
      BY <2>1, <3>1 DEF Check
  <2>2. CASE AwaitLoad(t, c) \/ AwaitRetry(t, c)
    BY <1>1, <2>2 DEF AwaitLoad, AwaitRetry, At, Safe, Waits
  <2> QED
    BY <2>1, <2>2
<1>5. \A d \in Consumers : pc'[d] = "listed" <=> pc[d] = "listed"
  BY <1>1, <1>2 DEF Coros
<1>6. \A d \in Consumers : pc[d] \notin {"load", "cas"} => next'[d] = next[d]
  BY <1>1, <1>3
<1>7. \A d \in Consumers : pc'[d] \in {"load", "cas", "listed"} => d \in waiting'
  BY <1>2, <1>4 DEF Safe, Waits, Coros
<1>8. \A p \in Producers : pc'[p] = pc[p]
  BY <1>1, <1>2 DEF Coros
<1>9. ASSUME NEW p \in Producers, pc[p] = "allNext" PROVE cur[p] \in waiting' /\ pc'[cur[p]] \in {"lock", "blocked"}
  <2>1. cur[p] \in Consumers /\ cur[p] \in waiting /\ pc[cur[p]] \in {"lock", "blocked"}
    BY <1>9 DEF Safe, Cursor
  <2> QED
    BY <1>1, <1>2, <1>4, <2>1 DEF Coros
<1> QED
  BY <1>1, <1>5, <1>6, <1>7, <1>8, <1>9 DEF Quiet

LEMMA ProducerQuiet ==
  ASSUME Basic, Safe, NEW t \in Threads, NEW p \in Producers, Produce(t, p) \/ Choose(t, p) \/ Notified(t, p)
  PROVE  Quiet
<1>1. /\ Typed /\ p \in Coros /\ pc[p] \in {"produce", "choose", "notified"}
      /\ UNCHANGED <<head, next, cur, nxt, dangling, waiting>>
  BY DEF Basic, Produce, Choose, Notified, At, list, locals, Coros
<1>2. PICK m \in {"choose", "unlock", "oneLoad", "allLoad", "idle"} : Goto(p, m)
  BY DEF Produce, Choose, Notified
<1>3. m \in Pcs /\ Moves(p, m)
  BY <1>1, <1>2, GotoMoves DEF Pcs
<1> QED
  BY <1>1, <1>3, MovesQuiet DEF Reading


-----------------------------------------------------------------------------
(* Steps on the list.                                                      *)

\* While no NotifyAll is in progress, the list starts at head_.
LEMMA ListFromHead ==
  ASSUME Typed, Listing, \A p \in Producers : ~Takes(p)
  PROVE  \E s \in Seq(Consumers) : IsInjective(s) /\ ToSet(s) = Suspended /\ Links(next, s, head)
BY FollowsLinks DEF Listing, OneList

LEMMA ListFromRest ==
  ASSUME Typed, Listing, NEW p \in Producers, Takes(p)
  PROVE  /\ head = Null
         /\ \E s \in Seq(Consumers) : IsInjective(s) /\ ToSet(s) = Suspended /\ Links(next, s, Rest(p))
BY FollowsLinks DEF Listing, OneList

\* The list a step leaves behind.
LEMMA NewHead ==
  ASSUME NEW s \in Seq(Consumers), IsInjective(s), ToSet(s) = Suspended', Links(next', s, head'),
         \A p \in Producers : ~Takes(p)'
  PROVE  Listing'
<1>1. Follows(s, head)'
  BY DEF Follows, Links
<1>2. OneList(s)'
  BY <1>1 DEF OneList
<1> QED
  BY <1>2 DEF Listing

LEMMA NewRest ==
  ASSUME NEW s \in Seq(Consumers), IsInjective(s), ToSet(s) = Suspended', NEW p \in Producers, Links(next', s, Rest(p)'),
         head' = Null, Takes(p)', \A q \in Producers : q # p => ~Takes(q)'
  PROVE  Listing'
<1>1. Follows(s, Rest(p))'
  BY DEF Follows, Links
<1>2. OneList(s)'
  BY <1>1 DEF OneList
<1> QED
  BY <1>2 DEF Listing

LEMMA AwaitCasSafe ==
  ASSUME Basic, Safe, Listing, NEW t \in Threads, NEW c \in Consumers, AwaitCas(t, c)
  PROVE  Safe' /\ Listing'
<1>1. /\ Typed /\ pc[c] = "cas" /\ c \in Coros /\ c \notin Producers /\ Goto(c, "listed") /\ next[c] = head /\ head' = c
      /\ UNCHANGED <<next, waiting, cur, nxt, dangling>>
  BY CvAssumption DEF Basic, AwaitCas, At, locals, Coros
<1>2. Moves(c, "listed")
  BY <1>1, GotoMoves DEF Pcs
<1>3. \A p \in Producers : pc'[p] = pc[p]
  BY <1>1, <1>2 DEF Moves, Coros
<1>4. ASSUME NEW p \in Producers, pc[p] \in {"allLoad", "allCas", "allResume", "allNext"} PROVE FALSE
  <2>1. Critical(c) /\ c # p
    BY <1>1 DEF Critical, CriticalAt
  <2> QED
    BY <1>1, <1>4, <2>1, NotifierAlone DEF Notifying
<1>5. Waits' /\ ~dangling'
  BY <1>1, <1>2 DEF Safe, Waits, Moves, Coros
<1>6. Cursor'
  <2>1. SUFFICES ASSUME NEW p \in Producers
                 PROVE  /\ pc[p] \in {"oneRead", "oneCas"} => cur[p] \in Consumers /\ pc'[cur[p]] = "listed"
                        /\ pc[p] = "oneCas" => nxt[p] = next[cur[p]]
    BY <1>1, <1>3, <1>4 DEF Cursor
  <2> QED
    BY <1>2 DEF Safe, Cursor, Moves, Coros
<1>7. Listing'
  <2>1. \A p \in Producers : ~Takes(p) /\ ~Takes(p)'
    BY <1>3, <1>4 DEF Takes
  <2>2. PICK s \in Seq(Consumers) : IsInjective(s) /\ ToSet(s) = Suspended /\ Links(next, s, head)
    BY <1>1, <2>1, ListFromHead
  <2>3. c \notin ToSet(s)
    BY <1>1, <2>2 DEF Suspended
  <2>4. PICK r \in Seq(Consumers) : IsInjective(r) /\ ToSet(r) = ToSet(s) \cup {c} /\ Links(next, r, c)
    BY <1>1, <2>2, <2>3, LinksPush
  <2>5. Suspended' = Suspended \cup {c}
    BY <1>2 DEF Suspended, Moves, Coros
  <2> QED
    BY <1>1, <2>1, <2>2, <2>4, <2>5, NewHead
<1> QED
  BY <1>5, <1>6, <1>7 DEF Safe

\* A step of p when no other notification is in progress: only what p looks at
\* matters.
LEMMA OnlyCursor ==
  ASSUME NEW p \in Producers,
         \A q \in Producers : q # p => pc'[q] \notin Notifying,
         pc'[p] \in {"oneRead", "oneCas"} => cur'[p] \in Consumers /\ pc'[cur'[p]] = "listed",
         pc'[p] = "oneCas" => nxt'[p] = next'[cur'[p]],
         pc'[p] \in {"allCas", "allResume"} => cur'[p] \in Consumers,
         pc'[p] = "allNext" => cur'[p] \in Consumers /\ cur'[p] \in waiting' /\ pc'[cur'[p]] \in {"lock", "blocked"}
  PROVE  Cursor'
<1>1. ASSUME NEW q \in Producers, q # p
      PROVE  pc'[q] \notin {"oneRead", "oneCas", "allCas", "allResume", "allNext"}
  BY <1>1 DEF Notifying
<1> QED
  BY <1>1 DEF Cursor

\* What holds when p takes a step in a notification, from label l to label m.
LEMMA NotifierStep ==
  ASSUME Basic, Safe, NEW t \in Threads, NEW p \in Producers, NEW l \in Notifying, At(t, p, l), NEW m \in Notifying,
         Goto(p, m)
  PROVE  /\ pc[p] = l /\ Moves(p, m)
         /\ \A q \in Producers : q # p => pc'[q] = pc[q] /\ pc'[q] \notin Notifying /\ ~Takes(q) /\ ~Takes(q)'
         /\ \A c \in Consumers : pc'[c] = pc[c]
         /\ Suspended' = Suspended
         /\ l \in {"allLoad", "allCas", "allResume", "allNext"} => held
<1>1. pc[p] = l /\ p \in Coros /\ m \in Pcs /\ p \notin Consumers
  BY CvAssumption DEF At, Coros, Pcs, Notifying
<1>2. Moves(p, m)
  BY <1>1, GotoMoves DEF Basic
<1>3. ASSUME NEW q \in Producers, q # p
      PROVE  pc'[q] = pc[q] /\ pc'[q] \notin Notifying /\ ~Takes(q) /\ ~Takes(q)'
  <2>1. pc[q] \notin Notifying /\ pc'[q] = pc[q]
    BY <1>1, <1>2, <1>3, NotifierAlone DEF Moves, Coros
  <2> QED
    BY <2>1 DEF Takes, Notifying
<1>4. \A c \in Consumers : pc'[c] = pc[c]
  BY <1>1, <1>2 DEF Moves, Coros
<1>5. Suspended' = Suspended
  BY <1>4 DEF Suspended
<1> QED
  BY <1>1, <1>2, <1>3, <1>4, <1>5, NotifierAlone

LEMMA NotifyLoadSafe ==
  ASSUME Basic, Safe, Listing, NEW t \in Threads, NEW p \in Producers, NEW l, NEW then,
         <<l, then>> \in {<<"oneLoad", "oneRead">>, <<"allLoad", "allCas">>}, NotifyLoad(t, p, l, then)
  PROVE  Basic' /\ Safe' /\ Listing' /\ (pc'[p] = "notified" => Suspended' = {})
<1>1. /\ Typed /\ At(t, p, l) /\ cur' = [cur EXCEPT ![p] = head] /\ Goto(p, IF head = Null THEN "notified" ELSE then)
      /\ UNCHANGED <<held, messages, produced, owner, queue, head, next, waiting, nxt, dangling, stack, unlocks>>
  BY DEF Basic, NotifyLoad, data, mutex, list
<1>2. l \in Notifying /\ then \in Notifying \ {"notified"} /\ l \in {"oneLoad", "allLoad"}
      /\ then \in {"oneRead", "allCas"} /\ (then = "allCas" => l = "allLoad")
  BY DEF Notifying
<1>3. PICK m \in Notifying : m = IF head = Null THEN "notified" ELSE then
  BY <1>2 DEF Notifying
<1>4. /\ pc[p] = l /\ Moves(p, m)
      /\ \A q \in Producers : q # p => pc'[q] = pc[q] /\ pc'[q] \notin Notifying /\ ~Takes(q) /\ ~Takes(q)'
      /\ \A c \in Consumers : pc'[c] = pc[c]
      /\ Suspended' = Suspended
      /\ l \in {"allLoad", "allCas", "allResume", "allNext"} => held
  BY <1>1, <1>2, <1>3, NotifierStep
<1>5. pc'[p] = m /\ pc' \in [Coros -> Pcs] /\ m \in {"notified", "oneRead", "allCas"} /\ (m = "allCas" => l = "allLoad")
  BY <1>2, <1>3, <1>4 DEF Moves
<1>6. cur' \in [Producers -> Pointers] /\ cur'[p] = head
  BY <1>1 DEF Typed
<1>7. Typed'
  BY <1>1, <1>5, <1>6 DEF Typed
<1>8. Basic'
  BY <1>1, <1>2, <1>4, <1>5, <1>7, NotifierBasic
<1>9. \A q \in Producers : ~Takes(q) /\ ~Takes(q)'
  BY <1>2, <1>4, <1>5 DEF Takes
<1>10. PICK s \in Seq(Consumers) : IsInjective(s) /\ ToSet(s) = Suspended /\ Links(next, s, head)
  BY <1>1, <1>9, ListFromHead
<1>11. Listing'
  BY <1>1, <1>4, <1>9, <1>10, NewHead
<1>12. head # Null => head \in Suspended
  BY <1>10, LinksTail
<1>13. head = Null => Suspended = {}
  BY <1>10 DEF Links, ToSet
<1>14. Cursor'
  <2>1. m # "notified" => head # Null
    BY <1>3
  <2>2. m \in {"oneRead", "allCas"} => head \in Consumers /\ pc'[head] = "listed"
    BY <1>4, <1>12, <2>1 DEF Suspended
  <2> QED
    BY <1>4, <1>5, <1>6, <2>2, OnlyCursor
<1>15. Waits' /\ ~dangling'
  BY <1>1, <1>4 DEF Safe, Waits
<1>16. pc'[p] = "notified" => Suspended' = {}
  BY <1>2, <1>3, <1>4, <1>5, <1>13
<1> QED
  BY <1>8, <1>11, <1>14, <1>15, <1>16 DEF Safe

LEMMA NotifyOneReadSafe ==
  ASSUME Basic, Safe, Listing, NEW t \in Threads, NEW p \in Producers, NotifyOneRead(t, p)
  PROVE  Basic' /\ Safe' /\ Listing'
<1>1. /\ Typed /\ At(t, p, "oneRead") /\ nxt' = [nxt EXCEPT ![p] = next[cur[p]]] /\ Goto(p, "oneCas")
      /\ dangling' = (dangling \/ cur[p] \notin waiting)
      /\ UNCHANGED <<held, messages, produced, owner, queue, head, next, waiting, cur, stack, unlocks>>
  BY DEF Basic, NotifyOneRead, ReadNext, data, mutex, list
<1>2. "oneRead" \in Notifying /\ "oneCas" \in Notifying
  BY DEF Notifying
<1>3. /\ pc[p] = "oneRead" /\ Moves(p, "oneCas")
      /\ \A q \in Producers : q # p => pc'[q] = pc[q] /\ pc'[q] \notin Notifying /\ ~Takes(q) /\ ~Takes(q)'
      /\ \A c \in Consumers : pc'[c] = pc[c]
      /\ Suspended' = Suspended
  BY <1>1, <1>2, NotifierStep
<1>4. pc'[p] = "oneCas" /\ pc' \in [Coros -> Pcs]
  BY <1>3 DEF Moves
<1>5. cur[p] \in Consumers /\ pc[cur[p]] = "listed" /\ cur[p] \in waiting
  BY <1>3 DEF Safe, Cursor, Waits
<1>6. nxt' \in [Producers -> Pointers] /\ nxt'[p] = next[cur[p]]
  BY <1>1, <1>5 DEF Typed
<1>7. Typed'
  BY <1>1, <1>4, <1>6 DEF Typed
<1>8. Basic'
  BY <1>1, <1>2, <1>3, <1>7, NotifierBasic
<1>9. \A q \in Producers : ~Takes(q) /\ ~Takes(q)'
  BY <1>3, <1>4 DEF Takes
<1>10. PICK s \in Seq(Consumers) : IsInjective(s) /\ ToSet(s) = Suspended /\ Links(next, s, head)
  BY <1>1, <1>9, ListFromHead
<1>11. Listing'
  BY <1>1, <1>3, <1>9, <1>10, NewHead
<1>12. Cursor'
  BY <1>1, <1>3, <1>4, <1>5, <1>6, OnlyCursor
<1>13. ~dangling'
  BY <1>1, <1>5 DEF Safe
<1>14. Waits'
  BY <1>1, <1>3 DEF Safe, Waits
<1> QED
  BY <1>8, <1>11, <1>12, <1>13, <1>14 DEF Safe


LEMMA WakerStep ==
  ASSUME Basic, Safe, NEW t \in Threads, NEW p \in Producers, NEW l \in Notifying, At(t, p, l), NEW m \in Notifying,
         NEW c \in Consumers, Waken(t, p, c, m)
  PROVE  /\ pc[p] = l /\ Wakes(p, m, c) /\ stack' \in [Threads -> Seq(Coros)]
         /\ pc'[p] = m /\ pc'[c] = "lock" /\ pc' \in [Coros -> Pcs]
         /\ \A q \in Producers : q # p => pc'[q] = pc[q] /\ pc'[q] \notin Notifying /\ ~Takes(q) /\ ~Takes(q)'
         /\ \A d \in Consumers : d # c => pc'[d] = pc[d]
         /\ Suspended' = Suspended \ {c}
         /\ l \in {"allLoad", "allCas", "allResume", "allNext"} => held
<1>1. pc[p] = l /\ p \in Coros /\ m \in Pcs /\ p \notin Consumers /\ c \notin Producers
  BY CvAssumption DEF At, Coros, Pcs, Notifying
<1>2. Wakes(p, m, c) /\ stack' \in [Threads -> Seq(Coros)]
  BY <1>1, WakenFacts DEF Basic
<1>3. ASSUME NEW q \in Producers, q # p
      PROVE  pc'[q] = pc[q] /\ pc'[q] \notin Notifying /\ ~Takes(q) /\ ~Takes(q)'
  <2>1. pc[q] \notin Notifying /\ pc'[q] = pc[q]
    BY <1>1, <1>2, <1>3, NotifierAlone DEF Wakes, Coros
  <2> QED
    BY <2>1 DEF Takes, Notifying
<1>4. \A d \in Consumers : d # c => pc'[d] = pc[d]
  BY <1>1, <1>2 DEF Wakes, Coros
<1>5. Suspended' = Suspended \ {c}
  BY <1>2, <1>4 DEF Suspended, Wakes
<1>6. pc'[p] = m /\ pc'[c] = "lock" /\ pc' \in [Coros -> Pcs]
  BY <1>2 DEF Wakes
<1> QED
  BY <1>1, <1>2, <1>3, <1>4, <1>5, <1>6, NotifierAlone

LEMMA NotifyOneCasSafe ==
  ASSUME Basic, Safe, Listing, NEW t \in Threads, NEW p \in Producers, NotifyOneCas(t, p)
  PROVE  Basic' /\ Safe' /\ Listing'
<1>1. /\ Typed /\ At(t, p, "oneCas")
      /\ UNCHANGED <<held, messages, produced, owner, queue, next, waiting, cur, nxt, dangling, unlocks>>
  BY DEF Basic, NotifyOneCas, data, mutex, locals
<1>2. "oneCas" \in Notifying /\ "oneLoad" \in Notifying /\ "notified" \in Notifying /\ pc[p] = "oneCas"
  BY <1>1 DEF Notifying, At
<1>3. cur[p] \in Consumers /\ pc[cur[p]] = "listed" /\ nxt[p] = next[cur[p]]
  BY <1>2 DEF Safe, Cursor
<1>4. CASE head = cur[p]
  <2>1. PICK c \in Consumers : c = cur[p]
    BY <1>3
  <2>2. Waken(t, p, c, "notified") /\ head' = next[c] /\ pc[c] = "listed" /\ head = c
    BY <1>3, <1>4, <2>1 DEF NotifyOneCas, Pop
  <2>3. /\ Wakes(p, "notified", c) /\ stack' \in [Threads -> Seq(Coros)]
        /\ pc'[p] = "notified" /\ pc'[c] = "lock" /\ pc' \in [Coros -> Pcs]
        /\ \A q \in Producers : q # p => pc'[q] = pc[q] /\ pc'[q] \notin Notifying /\ ~Takes(q) /\ ~Takes(q)'
        /\ \A d \in Consumers : d # c => pc'[d] = pc[d]
        /\ Suspended' = Suspended \ {c}
    BY <1>1, <1>2, <2>2, WakerStep
  <2>4. head' \in Pointers
    BY <1>1, <2>2 DEF Typed
  <2>5. Typed'
    BY <1>1, <2>3, <2>4 DEF Typed
  <2>6. Basic'
    BY <1>1, <1>2, <2>2, <2>3, <2>5, WakesBasic
  <2>7. \A q \in Producers : ~Takes(q) /\ ~Takes(q)'
    BY <1>2, <2>3 DEF Takes
  <2>8. PICK s \in Seq(Consumers) : IsInjective(s) /\ ToSet(s) = Suspended /\ Links(next, s, c)
    BY <1>1, <2>2, <2>7, ListFromHead
  <2>9. /\ Tail(s) \in Seq(Consumers) /\ IsInjective(Tail(s)) /\ ToSet(Tail(s)) = ToSet(s) \ {c}
        /\ Links(next, Tail(s), next[c])
    BY <2>8, LinksTail, CvAssumption
  <2>10. Listing'
    BY <1>1, <2>2, <2>3, <2>7, <2>8, <2>9, NewHead
  <2>11. Cursor'
    BY <2>3, OnlyCursor
  <2>12. Waits' /\ ~dangling'
    BY <1>1, <2>3 DEF Safe, Waits
  <2> QED
    BY <2>6, <2>10, <2>11, <2>12 DEF Safe
<1>5. CASE head # cur[p]
  <2>1. Goto(p, "oneLoad") /\ UNCHANGED <<head, stack>>
    BY <1>5 DEF NotifyOneCas
  <2>2. /\ Moves(p, "oneLoad")
        /\ \A q \in Producers : q # p => pc'[q] = pc[q] /\ pc'[q] \notin Notifying /\ ~Takes(q) /\ ~Takes(q)'
        /\ \A c \in Consumers : pc'[c] = pc[c]
        /\ Suspended' = Suspended
    BY <1>1, <1>2, <2>1, NotifierStep
  <2>3. pc'[p] = "oneLoad" /\ pc' \in [Coros -> Pcs]
    BY <2>2 DEF Moves
  <2>4. Typed'
    BY <1>1, <2>1, <2>3 DEF Typed
  <2>5. Basic'
    BY <1>1, <1>2, <2>2, <2>4, NotifierBasic
  <2>6. \A q \in Producers : ~Takes(q) /\ ~Takes(q)'
    BY <1>2, <2>2, <2>3 DEF Takes
  <2>7. PICK s \in Seq(Consumers) : IsInjective(s) /\ ToSet(s) = Suspended /\ Links(next, s, head)
    BY <1>1, <2>6, ListFromHead
  <2>8. Listing'
    BY <1>1, <2>1, <2>2, <2>6, <2>7, NewHead
  <2>9. Cursor'
    BY <2>2, <2>3, OnlyCursor
  <2>10. Waits' /\ ~dangling'
    BY <1>1, <2>2 DEF Safe, Waits
  <2> QED
    BY <2>5, <2>8, <2>9, <2>10 DEF Safe
<1> QED
  BY <1>4, <1>5

LEMMA NotifyAllCasSafe ==
  ASSUME Basic, Safe, Listing, NEW t \in Threads, NEW p \in Producers, NotifyAllCas(t, p)
  PROVE  Basic' /\ Safe' /\ Listing'
<1>1. /\ Typed /\ At(t, p, "allCas")
      /\ UNCHANGED <<held, messages, produced, owner, queue, next, waiting, cur, nxt, dangling, stack, unlocks>>
  BY DEF Basic, NotifyAllCas, data, mutex, locals
<1>2. "allCas" \in Notifying /\ "allLoad" \in Notifying /\ "allResume" \in Notifying
  BY DEF Notifying
<1>3. PICK m \in {"allLoad", "allResume"} :
        Goto(p, m) /\ (m = "allLoad" => head' = head) /\ (m = "allResume" => head' = Null /\ head = cur[p])
  BY DEF NotifyAllCas
<1>4. /\ pc[p] = "allCas" /\ Moves(p, m) /\ held
      /\ \A q \in Producers : q # p => pc'[q] = pc[q] /\ pc'[q] \notin Notifying /\ ~Takes(q) /\ ~Takes(q)'
      /\ \A c \in Consumers : pc'[c] = pc[c]
      /\ Suspended' = Suspended
  BY <1>1, <1>2, <1>3, NotifierStep
<1>5. pc'[p] = m /\ pc' \in [Coros -> Pcs]
  BY <1>4 DEF Moves
<1>6. head' \in Pointers
  BY <1>1, <1>3 DEF Typed, Pointers
<1>7. Typed'
  BY <1>1, <1>5, <1>6 DEF Typed
<1>8. Basic'
  BY <1>1, <1>2, <1>4, <1>7, NotifierBasic
<1>9. \A q \in Producers : ~Takes(q)
  BY <1>4 DEF Takes
<1>10. PICK s \in Seq(Consumers) : IsInjective(s) /\ ToSet(s) = Suspended /\ Links(next, s, head)
  BY <1>1, <1>9, ListFromHead
<1>11. Listing'
  <2>1. CASE m = "allLoad"
    <3>1. \A q \in Producers : ~Takes(q)'
      BY <1>4, <1>5, <2>1 DEF Takes
    <3> QED
      BY <1>1, <1>3, <1>4, <1>10, <2>1, <3>1, NewHead
  <2>2. CASE m = "allResume"
    <3>1. Takes(p)' /\ Rest(p)' = head
      BY <1>1, <1>3, <1>5, <2>2 DEF Takes, Rest
    <3> QED
      BY <1>1, <1>3, <1>4, <1>10, <2>2, <3>1, NewRest
  <2> QED
    BY <2>1, <2>2
<1>12. Cursor'
  <2>1. cur[p] \in Consumers
    BY <1>4 DEF Safe, Cursor
  <2> QED
    BY <1>1, <1>4, <1>5, <2>1, OnlyCursor
<1>13. Waits' /\ ~dangling'
  BY <1>1, <1>4 DEF Safe, Waits
<1> QED
  BY <1>8, <1>11, <1>12, <1>13 DEF Safe

LEMMA NotifyAllResumeSafe ==
  ASSUME Basic, Safe, Listing, NEW t \in Threads, NEW p \in Producers, NotifyAllResume(t, p)
  PROVE  Basic' /\ Safe' /\ Listing' /\ pc[cur[p]] = "listed" /\ cur[p] \in Consumers
<1>1. /\ Typed /\ At(t, p, "allResume") /\ Waken(t, p, cur[p], "allNext")
      /\ UNCHANGED <<held, messages, produced, owner, queue, head, next, waiting, cur, nxt, dangling, unlocks>>
  BY DEF Basic, NotifyAllResume, data, mutex, list, locals
<1>2. "allResume" \in Notifying /\ "allNext" \in Notifying /\ pc[p] = "allResume" /\ Takes(p)
  BY <1>1 DEF Notifying, At, Takes
<1>3. PICK c \in Consumers : c = cur[p]
  BY <1>2 DEF Safe, Cursor
<1>4. Rest(p) = c
  BY <1>2, <1>3 DEF Rest
<1>5. head = Null /\ \E s \in Seq(Consumers) : IsInjective(s) /\ ToSet(s) = Suspended /\ Links(next, s, c)
  BY <1>1, <1>2, <1>4, ListFromRest
<1>6. PICK s \in Seq(Consumers) : IsInjective(s) /\ ToSet(s) = Suspended /\ Links(next, s, c)
  BY <1>5
<1>7. /\ c \in ToSet(s) /\ Tail(s) \in Seq(Consumers) /\ IsInjective(Tail(s)) /\ ToSet(Tail(s)) = ToSet(s) \ {c}
      /\ Links(next, Tail(s), next[c])
  BY <1>6, LinksTail, CvAssumption
<1>8. pc[c] = "listed"
  BY <1>6, <1>7 DEF Suspended
<1>9. /\ Wakes(p, "allNext", c) /\ stack' \in [Threads -> Seq(Coros)] /\ held
      /\ pc'[p] = "allNext" /\ pc'[c] = "lock" /\ pc' \in [Coros -> Pcs]
      /\ \A q \in Producers : q # p => pc'[q] = pc[q] /\ pc'[q] \notin Notifying /\ ~Takes(q) /\ ~Takes(q)'
      /\ \A d \in Consumers : d # c => pc'[d] = pc[d]
      /\ Suspended' = Suspended \ {c}
  BY <1>1, <1>2, <1>3, WakerStep
<1>10. Typed'
  BY <1>1, <1>9 DEF Typed
<1>11. Basic'
  BY <1>1, <1>2, <1>8, <1>9, <1>10, WakesBasic
<1>12. Takes(p)' /\ Rest(p)' = next[c]
  BY <1>1, <1>3, <1>9 DEF Takes, Rest
<1>13. Listing'
  BY <1>1, <1>5, <1>6, <1>7, <1>9, <1>12, NewRest
<1>14. c \in waiting
  BY <1>8 DEF Safe, Waits
<1>15. Cursor'
  BY <1>1, <1>3, <1>9, <1>14, OnlyCursor
<1>16. Waits' /\ ~dangling'
  BY <1>1, <1>9 DEF Safe, Waits
<1> QED
  BY <1>3, <1>8, <1>11, <1>13, <1>15, <1>16 DEF Safe

LEMMA NotifyAllNextSafe ==
  ASSUME Basic, Safe, Listing, NEW t \in Threads, NEW p \in Producers, NotifyAllNext(t, p)
  PROVE  Basic' /\ Safe' /\ Listing' /\ (pc'[p] = "notified" => Suspended' = {})
<1>1. /\ Typed /\ At(t, p, "allNext") /\ cur' = [cur EXCEPT ![p] = next[cur[p]]]
      /\ dangling' = (dangling \/ cur[p] \notin waiting)
      /\ Goto(p, IF next[cur[p]] = Null THEN "notified" ELSE "allResume")
      /\ UNCHANGED <<held, messages, produced, owner, queue, head, next, waiting, nxt, stack, unlocks>>
  BY DEF Basic, NotifyAllNext, ReadNext, StepOn, data, mutex, list
<1>2. "allNext" \in Notifying /\ pc[p] = "allNext" /\ Takes(p)
  BY <1>1 DEF Notifying, At, Takes
<1>3. cur[p] \in Consumers /\ cur[p] \in waiting
  BY <1>2 DEF Safe, Cursor
<1>4. PICK x \in Pointers : x = next[cur[p]]
  BY <1>1, <1>3 DEF Typed
<1>5. PICK m \in {"notified", "allResume"} : m = IF x = Null THEN "notified" ELSE "allResume"
  OBVIOUS
<1>6. m \in Notifying /\ Goto(p, m) /\ (m = "notified" <=> x = Null)
  BY <1>1, <1>4, <1>5 DEF Notifying
<1>7. /\ Moves(p, m) /\ held
      /\ \A q \in Producers : q # p => pc'[q] = pc[q] /\ pc'[q] \notin Notifying /\ ~Takes(q) /\ ~Takes(q)'
      /\ \A c \in Consumers : pc'[c] = pc[c]
      /\ Suspended' = Suspended
  BY <1>1, <1>2, <1>6, NotifierStep
<1>8. pc'[p] = m /\ pc' \in [Coros -> Pcs] /\ cur' \in [Producers -> Pointers] /\ cur'[p] = x
  BY <1>1, <1>4, <1>7 DEF Moves, Typed
<1>9. Typed'
  BY <1>1, <1>8 DEF Typed
<1>10. Basic'
  BY <1>1, <1>2, <1>6, <1>7, <1>9, NotifierBasic
<1>11. Rest(p) = x
  BY <1>2, <1>4 DEF Rest
<1>12. head = Null /\ \E s \in Seq(Consumers) : IsInjective(s) /\ ToSet(s) = Suspended /\ Links(next, s, x)
  BY <1>1, <1>2, <1>11, ListFromRest
<1>13. PICK s \in Seq(Consumers) : IsInjective(s) /\ ToSet(s) = Suspended /\ Links(next, s, x)
  BY <1>12
<1>14. Listing'
  <2>1. CASE m = "notified"
    <3>1. (\A q \in Producers : ~Takes(q)') /\ head' = x
      BY <1>1, <1>6, <1>7, <1>8, <1>12, <2>1 DEF Takes
    <3> QED
      BY <1>1, <1>7, <1>13, <3>1, NewHead
  <2>2. CASE m = "allResume"
    <3>1. Takes(p)' /\ Rest(p)' = x
      BY <1>8, <2>2 DEF Takes, Rest
    <3> QED
      BY <1>1, <1>7, <1>12, <1>13, <3>1, NewRest
  <2> QED
    BY <2>1, <2>2
<1>15. m = "notified" => Suspended = {}
  BY <1>6, <1>13 DEF Links, ToSet
<1>16. Cursor'
  BY <1>6, <1>7, <1>8, OnlyCursor DEF Pointers
<1>17. ~dangling'
  BY <1>1, <1>3 DEF Safe
<1>18. Waits'
  BY <1>1, <1>7 DEF Safe, Waits
<1> QED
  BY <1>7, <1>8, <1>10, <1>14, <1>15, <1>16, <1>17, <1>18 DEF Safe


LEMMA ChooseBasic ==
  ASSUME Basic, NEW t \in Threads, NEW p \in Producers, Choose(t, p)
  PROVE  Basic'
<1>1. /\ Typed /\ pc[p] = "choose" /\ p \in Coros
      /\ UNCHANGED <<held, messages, produced, owner, queue, head, next, waiting, cur, nxt, stack, unlocks>>
  BY DEF Basic, Choose, At, data, mutex, list, locals, Coros
<1>2. PICK m \in {"oneLoad", "allLoad"} : Goto(p, m) /\ (m = "allLoad" => held)
  BY DEF Choose, Modes
<1>3. m \in Notifying /\ pc[p] \in Notifying /\ Moves(p, m)
  BY <1>1, <1>2, GotoMoves DEF Pcs, Notifying
<1>4. Typed'
  BY <1>1, <1>3 DEF Typed, Moves
<1> QED
  BY <1>1, <1>2, <1>3, <1>4, NotifierBasic

LEMMA NotifiedBasic ==
  ASSUME Basic, NEW t \in Threads, NEW p \in Producers, Notified(t, p)
  PROVE  Basic'
<1>1. /\ Typed /\ pc[p] = "notified" /\ p \in Coros /\ At(t, p, "notified")
      /\ UNCHANGED <<held, messages, produced, owner, queue, head, next, waiting, cur, nxt, unlocks>>
  BY DEF Basic, Notified, At, data, mutex, list, locals, Coros
<1>2. PICK m \in {"unlock", "idle"} : Goto(p, m) /\ (m = "unlock" => held)
  BY DEF Notified
<1>3. m \in Pcs /\ Moves(p, m)
  BY <1>1, <1>2, GotoMoves DEF Pcs
<1>4. stack' \in [Threads -> Seq(Coros)]
  BY <1>1, AtFacts DEF Notified, Return, Typed
<1>5. Typed'
  BY <1>1, <1>3, <1>4 DEF Typed, Moves
<1>6. Room'
  BY <1>1, <1>3 DEF Basic, Room, Moves, Coros
<1>7. Critical(p)' => Critical(p)
  BY <1>1, <1>2, <1>3, CvAssumption DEF Critical, CriticalAt, Moves, Notifying
<1>8. Ownership' /\ Queued' /\ Mode'
  BY <1>1, <1>3, <1>7, LocalBasic DEF Basic
<1> QED
  BY <1>5, <1>6, <1>8 DEF Basic

-----------------------------------------------------------------------------
(* The invariant.                                                          *)

Inv == Basic /\ Safe /\ Listing

LEMMA InitInv == Init => Inv
<1> SUFFICES ASSUME Init PROVE Inv
  OBVIOUS
<1>1. Typed
  BY CvAssumption DEF Init, Typed, Pointers, Pcs
<1>2. Ownership
  BY DEF Init, Ownership, Critical, CriticalAt, Coros, Notifying
<1>3. Queued
  BY DEF Init, Queued, ToSet, IsInjective
<1>4. Mode /\ Room
  BY DEF Init, Mode, Room, Coros
<1>5. Safe
  BY DEF Init, Safe, Cursor, Waits, Coros
<1>6. Listing
  <2>1. <<>> \in Seq(Consumers) /\ IsInjective(<<>>) /\ ToSet(<<>>) = {}
    BY DEF IsInjective, ToSet
  <2>2. Suspended = {} /\ \A p \in Producers : ~Takes(p)
    BY DEF Init, Suspended, Takes, Coros
  <2>3. Follows(<<>>, head)
    BY DEF Init, Follows
  <2>4. OneList(<<>>)
    BY <2>1, <2>2, <2>3 DEF OneList
  <2> QED
    BY <2>1, <2>4 DEF Listing
<1> QED
  BY <1>1, <1>2, <1>3, <1>4, <1>5, <1>6 DEF Inv, Basic

LEMMA StutterInv == Inv /\ UNCHANGED vars => Inv'
<1> SUFFICES ASSUME Inv, UNCHANGED vars PROVE Inv'
  OBVIOUS
<1>1. UNCHANGED <<held, messages, produced, owner, queue, head, next, waiting, cur, nxt, pc, stack, unlocks, dangling>>
  BY DEF vars
<1>2. Basic'
  BY <1>1 DEF Inv, Basic, Typed, Ownership, Critical, CriticalAt, Queued, Mode, Room
<1>3. Quiet
  BY <1>1 DEF Quiet, Inv, Safe, Waits, Cursor
<1> QED
  BY <1>2, <1>3, QuietSafe DEF Inv, Basic

\* The steps of a thread.
Step(t) ==
  \/ \E c \in Coros : Resume(t, c) \/ Lock(t, c) \/ Unlock(t, c)
  \/ \E c \in Consumers : Check(t, c) \/ AwaitLoad(t, c) \/ AwaitRetry(t, c)
  \/ \E c \in Consumers : AwaitCas(t, c)
  \/ AwaitUnlock(t)
  \/ \E p \in Producers : Produce(t, p) \/ Choose(t, p) \/ Notified(t, p)
  \/ \E p \in Producers : NotifyLoad(t, p, "oneLoad", "oneRead") \/ NotifyLoad(t, p, "allLoad", "allCas")
  \/ \E p \in Producers : NotifyOneRead(t, p) \/ NotifyOneCas(t, p) \/ NotifyAllCas(t, p)
  \/ \E p \in Producers : NotifyAllResume(t, p) \/ NotifyAllNext(t, p)

LEMMA NextSteps ==
  ASSUME Next
  PROVE  (\E t \in Threads : Step(t)) \/ UNCHANGED vars
<1>1. ASSUME NEW t \in Threads, Run(t) \/ \E c \in Coros : Resume(t, c) PROVE Step(t)
  BY <1>1 DEF Run, Wait, NotifyOne, NotifyAll, Step
<1> QED
  BY <1>1 DEF Next, Exhausted

LEMMA StepInv ==
  ASSUME Inv, NEW t \in Threads, Step(t)
  PROVE  Inv'
<1>1. Basic /\ Safe /\ Listing /\ Typed
  BY DEF Inv, Basic
<1>2. ASSUME Basic', Quiet PROVE Inv'
  BY <1>1, <1>2, QuietSafe DEF Inv
<1>3. ASSUME NEW c \in Coros, Resume(t, c) \/ Lock(t, c) \/ Unlock(t, c) PROVE Inv'
  BY <1>1, <1>2, <1>3, ResumeBasic, ResumeQuiet, LockBasic, LockQuiet, UnlockBasic, UnlockQuiet
<1>4. ASSUME NEW c \in Consumers, Check(t, c) \/ AwaitLoad(t, c) \/ AwaitRetry(t, c) PROVE Inv'
  BY <1>1, <1>2, <1>4, CheckBasic, AwaitLoadBasic, AwaitRetryBasic, WaitQuiet
<1>5. ASSUME NEW c \in Consumers, AwaitCas(t, c) PROVE Inv'
  BY <1>1, <1>5, AwaitCasBasic, AwaitCasSafe DEF Inv
<1>6. ASSUME AwaitUnlock(t) PROVE Inv'
  BY <1>1, <1>2, <1>6, AwaitUnlockBasic, AwaitUnlockQuiet
<1>7. ASSUME NEW p \in Producers, Produce(t, p) \/ Choose(t, p) \/ Notified(t, p) PROVE Inv'
  BY <1>1, <1>2, <1>7, ProduceBasic, ChooseBasic, NotifiedBasic, ProducerQuiet
<1>8. ASSUME NEW p \in Producers, NotifyLoad(t, p, "oneLoad", "oneRead") \/ NotifyLoad(t, p, "allLoad", "allCas")
      PROVE  Inv'
  BY <1>1, <1>8, NotifyLoadSafe DEF Inv
<1>9. ASSUME NEW p \in Producers, NotifyOneRead(t, p) \/ NotifyOneCas(t, p) \/ NotifyAllCas(t, p) PROVE Inv'
  BY <1>1, <1>9, NotifyOneReadSafe, NotifyOneCasSafe, NotifyAllCasSafe DEF Inv
<1>10. ASSUME NEW p \in Producers, NotifyAllResume(t, p) \/ NotifyAllNext(t, p) PROVE Inv'
  BY <1>1, <1>10, NotifyAllResumeSafe, NotifyAllNextSafe DEF Inv
<1> QED
  BY <1>3, <1>4, <1>5, <1>6, <1>7, <1>8, <1>9, <1>10 DEF Step

LEMMA NextInv == Inv /\ [Next]_vars => Inv'
BY StepInv, StutterInv, NextSteps

LEMMA AlwaysInv == Spec => []Inv
BY InitInv, NextInv, PTL DEF Spec

\* No notifier ever reads next_ of an awaiter that is gone with its coroutine's
\* frame (NotifyOne's exchange and the loop of NotifyAll), whatever the threads do:
\* an awaiter on the list is in Wait(), and a woken one stays in it until it has
\* the mutex, which the notifier holds.
THEOREM AwaitersOutliveReads == Spec => []NoDanglingRead
<1>1. Inv => NoDanglingRead
  BY DEF Inv, Safe, NoDanglingRead
<1> QED
  BY <1>1, AlwaysInv, PTL


LEMMA ChainBound ==
  ASSUME NEW s \in Seq(Consumers), IsInjective(s)
  PROVE  s \in Chains
<1>1. PICK n \in Nat : n = Len(s) /\ s \in [1..n -> Consumers]
  OBVIOUS
<1>2. s \in Injection(1..n, Consumers)
  BY <1>1 DEF Injection
<1>3. Cardinality(1..n) <= Cardinality(Consumers) /\ Cardinality(Consumers) \in Nat
  BY <1>2, FS_Injection, FS_CardinalityType, CvAssumption
<1>4. Cardinality(1..n) = IF 1 > n THEN 0 ELSE n - 1 + 1
  BY FS_Interval
<1>5. n <= Cardinality(Consumers)
  BY <1>3, <1>4
<1>6. n \in 0..Cardinality(Consumers)
  BY <1>3, <1>5
<1> QED
  BY <1>1, <1>6 DEF Chains

Bools == held \in BOOLEAN /\ dangling \in BOOLEAN

LEMMA NextBools == Bools /\ [Next]_vars => Bools'
<1> SUFFICES ASSUME Bools, [Next]_vars PROVE Bools'
  OBVIOUS
<1>1. CASE UNCHANGED vars
  BY <1>1 DEF vars, Bools
<1>2. CASE \E t \in Threads : Step(t)
  <2>1. PICK t \in Threads : Step(t)
    BY <1>2
  <2>2. held' = held
    BY <2>1 DEF Step, Resume, Lock, Unlock, Check, AwaitLoad, AwaitRetry, AwaitCas, AwaitUnlock, Produce, Choose,
                Notified, NotifyLoad, NotifyOneRead, NotifyOneCas, NotifyAllCas, NotifyAllResume, NotifyAllNext, data
  <2>3. dangling' = dangling \/ \E p \in Producers : ReadNext(p)
    BY <2>1 DEF Step, Resume, Lock, Unlock, Check, AwaitLoad, AwaitRetry, AwaitCas, AwaitUnlock, Produce, Choose,
                Notified, NotifyLoad, NotifyOneRead, NotifyOneCas, NotifyAllCas, NotifyAllResume, NotifyAllNext, locals
  <2>4. dangling' \in BOOLEAN
    BY <2>3, Zenon DEF ReadNext, Bools
  <2> QED
    BY <2>2, <2>4 DEF Bools
<1> QED
  BY <1>1, <1>2, NextSteps

\* The lock-free list loses no waiter and lists none twice: at every moment the
\* suspended consumers are exactly the awaiters on one chain of next_, which starts
\* at head_, or at what a NotifyAll that took the list has still to resume.
THEOREM WaitersAlwaysReachable == Spec => []WaitersReachable
<1>1. Init => Bools
  BY DEF Init, Bools
<1>2. Inv /\ Bools => WaitersReachable
  <2> SUFFICES ASSUME Inv, Bools PROVE WaitersReachable
    OBVIOUS
  <2>1. TypeOK
    BY DEF Inv, Basic, Typed, Bools, TypeOK
  <2>2. PICK s \in Seq(Consumers) : OneList(s)
    BY DEF Inv, Listing
  <2>3. s \in Chains
    BY <2>2, ChainBound DEF OneList
  <2> QED
    BY <2>1, <2>2, <2>3 DEF WaitersReachable, OneList, Suspended
<1> QED
  BY <1>1, <1>2, AlwaysInv, NextBools, PTL DEF Spec

-----------------------------------------------------------------------------
(* No notification is lost.                                                *)

\* A consumer that is awake and will look at the messages, or a producer that has
\* still to notify.
Eager(c) ==
  \/ c \in Consumers /\ pc[c] \in {"lock", "blocked", "check"}
  \/ c \in Producers /\ (pc[c] \in Notifying \ {"notified"} \/ (pc[c] = "unlock" /\ ~held))
Eagers == {c \in Coros : Eager(c)}
Counted == Suspended # {} => messages <= Cardinality(Eagers)

LEMMA EagersFinite ==
  ASSUME NEW S \in SUBSET Coros
  PROVE  IsFiniteSet(S) /\ Cardinality(S) \in Nat
<1>1. IsFiniteSet(Coros)
  BY CvAssumption, FS_Union DEF Coros
<1> QED
  BY <1>1, FS_Subset, FS_CardinalityType

LEMMA CountKept ==
  ASSUME Typed, Counted, messages' = messages, \A c \in Coros : Eager(c) => Eager(c)',
         Suspended' # {} => Suspended # {}
  PROVE  Counted'
<1>1. Eagers \subseteq Eagers' /\ Eagers' \subseteq Coros
  BY DEF Eagers
<1>2. Cardinality(Eagers) <= Cardinality(Eagers') /\ Cardinality(Eagers) \in Nat /\ Cardinality(Eagers') \in Nat
  BY <1>1, EagersFinite, FS_Subset
<1>3. SUFFICES ASSUME Suspended' # {} PROVE messages' <= Cardinality(Eagers')
  BY DEF Counted
<1>4. messages <= Cardinality(Eagers) /\ messages \in Nat
  BY <1>3 DEF Counted, Typed
<1> QED
  BY <1>2, <1>4

\* One coroutine moves.
LEMMA CountMoves ==
  ASSUME Typed, Counted, NEW c \in Coros, NEW m, Moves(c, m), UNCHANGED <<held, messages>>,
         Eager(c) => Eager(c)', m # "listed" \/ Suspended' = {}
  PROVE  Counted'
<1>1. ASSUME NEW d \in Coros, Eager(d) PROVE Eager(d)'
  <2>1. CASE d = c
    BY <1>1, <2>1
  <2>2. CASE d # c
    BY <1>1, <2>2 DEF Moves, Eager
  <2> QED
    BY <2>1, <2>2
<1>2. Suspended' # {} => Suspended # {}
  BY DEF Suspended, Moves, Coros
<1> QED
  BY <1>1, <1>2, CountKept


LEMMA SeenKept ==
  ASSUME SeenNone, messages' = messages,
         \A c \in Consumers : pc'[c] \in {"load", "cas"} => pc[c] \in {"load", "cas"}
  PROVE  SeenNone'
BY DEF SeenNone

LEMMA MovesCount ==
  ASSUME Typed, Counted, SeenNone, NEW c \in Coros, NEW m, Moves(c, m), UNCHANGED <<held, messages>>,
         Eager(c) => Eager(c)', m # "listed" \/ Suspended' = {}, m \in {"load", "cas"} => pc[c] \in {"load", "cas"}
  PROVE  SeenNone' /\ Counted'
<1>1. Counted'
  BY CountMoves
<1>2. \A d \in Consumers : pc'[d] \in {"load", "cas"} => pc[d] \in {"load", "cas"}
  BY DEF Moves, Coros
<1> QED
  BY <1>1, <1>2, SeenKept

LEMMA ResumeCount ==
  ASSUME Inv, SeenNone, Counted, NEW t \in Threads, NEW c \in Coros, Resume(t, c)
  PROVE  SeenNone' /\ Counted'
<1>1. Typed /\ pc[c] = "idle" /\ Goto(c, "lock") /\ UNCHANGED <<held, messages>>
  BY DEF Inv, Basic, Resume, data
<1>2. Moves(c, "lock")
  BY <1>1, GotoMoves DEF Pcs
<1>3. ~Eager(c)
  BY <1>1 DEF Eager, Notifying
<1> QED
  BY <1>1, <1>2, <1>3, MovesCount

LEMMA LockCount ==
  ASSUME Inv, SeenNone, Counted, NEW t \in Threads, NEW c \in Coros, Lock(t, c)
  PROVE  SeenNone' /\ Counted'
<1>1. Typed /\ pc[c] = "lock" /\ UNCHANGED <<held, messages>>
  BY DEF Inv, Basic, Lock, At, data
<1>2. PICK m \in {"check", "produce", "blocked"} : Goto(c, m) /\ (c \in Consumers => m # "produce")
  BY DEF Lock, Owning
<1>3. Moves(c, m)
  BY <1>1, <1>2, GotoMoves DEF Pcs
<1>4. Eager(c) => Eager(c)'
  BY <1>1, <1>2, <1>3 DEF Eager, Moves, Notifying
<1> QED
  BY <1>1, <1>3, <1>4, MovesCount

LEMMA HandOverCount ==
  ASSUME Typed, Queued, SeenNone, Counted, UNCHANGED <<held, messages>>,
         NEW t \in Threads, NEW s \in Seq(Coros), NEW q \in [Coros -> Pcs], HandOver(t, s, q),
         \A d \in Coros : \/ q[d] = pc[d]
                          \/ pc[d] = "unlock" /\ q[d] = "choose" /\ d \in Producers
                          \/ pc[d] = "unlock" /\ q[d] = "idle" /\ (d \in Producers => held)
  PROVE  SeenNone' /\ Counted'
<1>1. ASSUME NEW d \in Coros
      PROVE  \/ pc'[d] = q[d]
             \/ pc[d] = "blocked" /\ pc'[d] = Owning(d)
  BY HandOverFacts
<1>2. \A d \in Consumers : pc'[d] \in {"load", "cas"} => pc[d] \in {"load", "cas"}
  BY <1>1 DEF Coros, Owning
<1>3. Suspended' # {} => Suspended # {}
  <2>1. \A d \in Consumers : pc'[d] = "listed" => pc[d] = "listed"
    BY <1>1 DEF Coros, Owning
  <2> QED
    BY <2>1 DEF Suspended
<1>4. ASSUME NEW d \in Coros, Eager(d) PROVE Eager(d)'
  <2>1. CASE d \in Consumers
    BY <1>1, <1>4, <2>1, CvAssumption DEF Eager, Owning
  <2>2. CASE d \in Producers
    BY <1>1, <1>4, <2>2, CvAssumption DEF Eager, Notifying
  <2> QED
    BY <2>1, <2>2 DEF Coros
<1> QED
  BY <1>2, <1>3, <1>4, SeenKept, CountKept

LEMMA UnlockCount ==
  ASSUME Inv, SeenNone, Counted, NEW t \in Threads, NEW c \in Coros, Unlock(t, c)
  PROVE  SeenNone' /\ Counted'
<1>1. /\ Typed /\ Queued /\ pc[c] = "unlock" /\ At(t, c, "unlock") /\ UNCHANGED <<held, messages>>
  BY DEF Inv, Basic, Unlock, At, data
<1>2. PICK s \in Seq(Coros), l \in {"choose", "idle"} :
        HandOver(t, s, [pc EXCEPT ![c] = l]) /\ (l = "choose" <=> c \in Producers /\ ~held)
  BY <1>1, AtFacts DEF Unlock
<1>3. PICK q \in [Coros -> Pcs] : q = [pc EXCEPT ![c] = l]
  BY <1>1 DEF Typed, Pcs
<1>4. HandOver(t, s, q) /\ q[c] = l /\ \A d \in Coros : d # c => q[d] = pc[d]
  BY <1>1, <1>2, <1>3 DEF Typed
<1>5. \A d \in Coros : \/ q[d] = pc[d]
                       \/ pc[d] = "unlock" /\ q[d] = "choose" /\ d \in Producers
                       \/ pc[d] = "unlock" /\ q[d] = "idle" /\ (d \in Producers => held)
  BY <1>1, <1>2, <1>4
<1> QED
  BY <1>1, <1>4, <1>5, HandOverCount

LEMMA AwaitUnlockCount ==
  ASSUME Inv, SeenNone, Counted, NEW t \in Threads, AwaitUnlock(t)
  PROVE  SeenNone' /\ Counted'
<1>1. /\ Typed /\ Queued /\ HandOver(t, stack[t], pc) /\ UNCHANGED <<held, messages>>
  BY DEF Inv, Basic, AwaitUnlock, data
<1>2. stack[t] \in Seq(Coros) /\ pc \in [Coros -> Pcs]
  BY <1>1 DEF Typed
<1> QED
  BY <1>1, <1>2, HandOverCount

\* The consumer that takes a message is one less to look for one.
LEMMA CheckCount ==
  ASSUME Inv, SeenNone, Counted, NEW t \in Threads, NEW c \in Consumers, Check(t, c)
  PROVE  SeenNone' /\ Counted'
<1>1. Typed /\ Basic /\ pc[c] = "check" /\ c \in Coros /\ held' = held /\ messages \in Nat
  BY DEF Inv, Basic, Typed, Check, At, Coros
<1>2. CASE messages = 0
  <2>1. messages' = 0
    BY <1>2 DEF Check, Cond
  <2>2. Cardinality(Eagers') \in Nat
    BY EagersFinite DEF Eagers
  <2> QED
    BY <2>1, <2>2 DEF SeenNone, Counted
<1>3. CASE messages # 0
  <2>1. messages > 0
    BY <1>1, <1>3
  <2>2. messages' = messages - 1 /\ Goto(c, "unlock")
    BY <2>1 DEF Check, Cond
  <2>3. Moves(c, "unlock")
    BY <1>1, <2>2, GotoMoves DEF Pcs
  <2>4. SeenNone'
    <3>1. ASSUME NEW d \in Consumers, pc'[d] \in {"load", "cas"} PROVE FALSE
      <4>1. d # c /\ d \in Coros /\ pc[d] \in {"load", "cas"}
        BY <2>3, <3>1 DEF Moves, Coros
      <4>2. Critical(c) /\ Critical(d)
        BY <1>1, <4>1 DEF Critical, CriticalAt
      <4> QED
        BY <1>1, <4>1, <4>2 DEF Basic, Ownership
    <3> QED
      BY <3>1 DEF SeenNone
  <2>5. Eager(c) /\ ~Eager(c)'
    BY <1>1, <2>3, CvAssumption DEF Eager, Moves
  <2>6. \A d \in Coros : d # c => (Eager(d)' <=> Eager(d))
    BY <1>1, <2>3 DEF Eager, Moves
  <2>7. Eagers' = Eagers \ {c} /\ c \in Eagers
    BY <1>1, <2>5, <2>6 DEF Eagers
  <2>8. Cardinality(Eagers') = Cardinality(Eagers) - 1 /\ Cardinality(Eagers) \in Nat
    <3>1. IsFiniteSet(Eagers) /\ Cardinality(Eagers) \in Nat
      BY EagersFinite DEF Eagers
    <3>2. Cardinality(Eagers \ {c}) = Cardinality(Eagers) - 1
      BY <2>7, <3>1, FS_RemoveElement
    <3> QED
      BY <2>7, <3>1, <3>2
  <2>9. Suspended' = Suspended
    BY <1>1, <2>3 DEF Suspended, Moves, Coros
  <2>10. Suspended # {} => messages <= Cardinality(Eagers)
    BY DEF Counted
  <2>11. Suspended' # {} => messages' <= Cardinality(Eagers')
    BY <1>1, <2>2, <2>8, <2>9, <2>10
  <2> QED
    BY <2>4, <2>11 DEF Counted
<1> QED
  BY <1>2, <1>3

\* A consumer goes to sleep only when there is no message.
LEMMA AwaitCount ==
  ASSUME Inv, SeenNone, Counted, NEW t \in Threads, NEW c \in Consumers,
         AwaitLoad(t, c) \/ AwaitRetry(t, c) \/ AwaitCas(t, c)
  PROVE  SeenNone' /\ Counted'
<1>1. Typed /\ c \in Coros /\ pc[c] \in {"load", "cas"} /\ messages' = messages
  BY DEF Inv, Basic, AwaitLoad, AwaitRetry, AwaitCas, At, data, Coros
<1>2. messages = 0
  BY <1>1 DEF SeenNone
<1>3. Cardinality(Eagers') \in Nat
  BY EagersFinite DEF Eagers
<1> QED
  BY <1>1, <1>2, <1>3 DEF SeenNone, Counted


\* The producer of a message has still to notify.
LEMMA ProduceCount ==
  ASSUME Inv, SeenNone, Counted, NEW t \in Threads, NEW p \in Producers, Produce(t, p)
  PROVE  SeenNone' /\ Counted'
<1>1. Typed /\ Basic /\ pc[p] = "produce" /\ p \in Coros /\ held' = held /\ messages \in Nat /\ messages' = messages + 1
  BY DEF Inv, Basic, Typed, Produce, At, Coros
<1>2. PICK m \in {"choose", "unlock"} : Goto(p, m) /\ (m = "unlock" => ~held)
  BY DEF Produce
<1>3. Moves(p, m)
  BY <1>1, <1>2, GotoMoves DEF Pcs
<1>4. SeenNone'
  <2>1. ASSUME NEW d \in Consumers, pc'[d] \in {"load", "cas"} PROVE FALSE
    <3>1. d # p /\ d \in Coros
      BY CvAssumption DEF Coros
    <3>2. pc[d] \in {"load", "cas"}
      BY <1>3, <2>1, <3>1 DEF Moves
    <3>3. Critical(p) /\ Critical(d)
      BY <1>1, <3>2 DEF Critical, CriticalAt
    <3> QED
      BY <1>1, <3>1, <3>3 DEF Basic, Ownership
  <2> QED
    BY <2>1 DEF SeenNone
<1>5. Eager(p)' /\ ~Eager(p)
  BY <1>1, <1>2, <1>3, CvAssumption DEF Eager, Moves, Notifying
<1>6. \A d \in Coros : d # p => (Eager(d)' <=> Eager(d))
  BY <1>1, <1>3 DEF Eager, Moves
<1>7. Eagers' = Eagers \cup {p} /\ p \notin Eagers
  BY <1>1, <1>5, <1>6 DEF Eagers
<1>8. Cardinality(Eagers') = Cardinality(Eagers) + 1 /\ Cardinality(Eagers) \in Nat
  BY <1>7, EagersFinite, FS_AddElement DEF Eagers
<1>9. Suspended' = Suspended
  BY <1>1, <1>3, CvAssumption DEF Suspended, Moves, Coros
<1>10. Suspended # {} => messages <= Cardinality(Eagers)
  BY DEF Counted
<1>11. Suspended' # {} => messages' <= Cardinality(Eagers')
  BY <1>1, <1>8, <1>9, <1>10
<1> QED
  BY <1>4, <1>11 DEF Counted

LEMMA ChooseNotifiedCount ==
  ASSUME Inv, SeenNone, Counted, NEW t \in Threads, NEW p \in Producers, Choose(t, p) \/ Notified(t, p)
  PROVE  SeenNone' /\ Counted'
<1>1. Typed /\ p \in Coros /\ p \notin Consumers /\ pc[p] \in {"choose", "notified"} /\ UNCHANGED <<held, messages>>
  BY CvAssumption DEF Inv, Basic, Choose, Notified, At, data, Coros
<1>2. PICK m \in {"oneLoad", "allLoad", "unlock", "idle"} :
        Goto(p, m) /\ (m \in {"unlock", "idle"} => pc[p] = "notified")
  BY DEF Choose, Notified, At
<1>3. Moves(p, m)
  BY <1>1, <1>2, GotoMoves DEF Pcs
<1>4. Eager(p) => Eager(p)'
  BY <1>1, <1>2, <1>3 DEF Eager, Moves, Notifying
<1> QED
  BY <1>1, <1>3, <1>4, MovesCount

\* A notifier takes a step: it has still to notify, or nobody is suspended.
LEMMA NotifierCount ==
  ASSUME Inv, SeenNone, Counted, NEW p \in Producers, NEW m \in Notifying, Goto(p, m), UNCHANGED <<held, messages>>,
         m = "notified" => Suspended' = {}
  PROVE  SeenNone' /\ Counted'
<1>1. Typed /\ p \in Coros /\ m \in Pcs
  BY DEF Inv, Basic, Coros, Pcs, Notifying
<1>2. Moves(p, m)
  BY <1>1, GotoMoves
<1>3. m # "listed" /\ m \notin {"load", "cas"}
  BY DEF Notifying
<1>4. CASE m = "notified"
  <2>1. Counted'
    BY <1>4 DEF Counted
  <2>2. \A d \in Consumers : pc'[d] \in {"load", "cas"} => pc[d] \in {"load", "cas"}
    BY <1>2, <1>3 DEF Moves, Coros
  <2> QED
    BY <2>1, <2>2, SeenKept
<1>5. CASE m # "notified"
  <2>1. Eager(p)'
    BY <1>2, <1>5 DEF Eager, Moves
  <2> QED
    BY <1>1, <1>2, <1>3, <2>1, MovesCount
<1> QED
  BY <1>4, <1>5

LEMMA NotifyLoadCount ==
  ASSUME Inv, SeenNone, Counted, NEW t \in Threads, NEW p \in Producers,
         NotifyLoad(t, p, "oneLoad", "oneRead") \/ NotifyLoad(t, p, "allLoad", "allCas")
  PROVE  SeenNone' /\ Counted'
<1>1. Typed /\ p \in Coros /\ UNCHANGED <<held, messages>> /\ (pc'[p] = "notified" => Suspended' = {})
  BY NotifyLoadSafe DEF Inv, Basic, NotifyLoad, data, Coros
<1>2. PICK m \in {"notified", "oneRead", "allCas"} : Goto(p, m)
  BY DEF NotifyLoad
<1>3. pc'[p] = m /\ m \in Notifying
  BY <1>1, <1>2 DEF Goto, Typed, Notifying
<1> QED
  BY <1>1, <1>2, <1>3, NotifierCount

\* The awaiter that was woken stands in for the notifier.
LEMMA NotifyOneCasCount ==
  ASSUME Inv, SeenNone, Counted, NEW t \in Threads, NEW p \in Producers, NotifyOneCas(t, p)
  PROVE  SeenNone' /\ Counted'
<1>1. /\ Typed /\ Basic /\ Safe /\ At(t, p, "oneCas") /\ pc[p] = "oneCas" /\ UNCHANGED <<held, messages>>
      /\ p \in Coros /\ p \notin Consumers
  BY CvAssumption DEF Inv, Basic, NotifyOneCas, At, data, Coros
<1>2. CASE head # cur[p]
  <2>1. Goto(p, "oneLoad") /\ "oneLoad" \in Notifying
    BY <1>2 DEF NotifyOneCas, Notifying
  <2> QED
    BY <1>1, <2>1, NotifierCount
<1>3. CASE head = cur[p]
  <2>1. PICK c \in Consumers : c = cur[p] /\ pc[c] = "listed"
    BY <1>1 DEF Safe, Cursor
  <2>2. Waken(t, p, c, "notified") /\ "notified" \in Notifying /\ "oneCas" \in Notifying /\ c \in Coros /\ c \notin Producers
    BY <1>3, <2>1, CvAssumption DEF NotifyOneCas, Notifying, Coros
  <2>3. /\ pc'[p] = "notified" /\ pc'[c] = "lock" /\ Wakes(p, "notified", c) /\ Suspended' = Suspended \ {c}
    BY <1>1, <2>2, WakerStep
  <2>4. Eager(p) /\ ~Eager(p)' /\ Eager(c)' /\ ~Eager(c)
    BY <1>1, <2>1, <2>2, <2>3 DEF Eager, Notifying
  <2>5. \A d \in Coros : d \notin {p, c} => (Eager(d)' <=> Eager(d))
    BY <1>1, <2>3 DEF Eager, Wakes
  <2>6. PICK E \in SUBSET Coros : E = Eagers \ {p}
    BY DEF Eagers
  <2>7. Eagers' = E \cup {c} /\ c \notin E /\ p \in Eagers
    BY <1>1, <2>2, <2>4, <2>5, <2>6 DEF Eagers
  <2>8. Cardinality(E) = Cardinality(Eagers) - 1 /\ Cardinality(Eagers) \in Nat
    <3>1. IsFiniteSet(Eagers) /\ Cardinality(Eagers) \in Nat
      BY EagersFinite DEF Eagers
    <3>2. Cardinality(Eagers \ {p}) = Cardinality(Eagers) - 1
      BY <2>7, <3>1, FS_RemoveElement
    <3> QED
      BY <2>6, <3>1, <3>2
  <2>9. Cardinality(Eagers') = Cardinality(E) + 1
    BY <2>7, EagersFinite, FS_AddElement
  <2>10. Cardinality(Eagers') = Cardinality(Eagers)
    BY <2>8, <2>9
  <2>11. Counted'
    BY <1>1, <2>3, <2>10 DEF Counted
  <2>12. \A d \in Consumers : pc'[d] \in {"load", "cas"} => pc[d] \in {"load", "cas"}
    BY <1>1, <2>3 DEF Wakes, Coros
  <2> QED
    BY <1>1, <2>11, <2>12, SeenKept
<1> QED
  BY <1>2, <1>3

LEMMA NotifyAllResumeCount ==
  ASSUME Inv, SeenNone, Counted, NEW t \in Threads, NEW p \in Producers, NotifyAllResume(t, p)
  PROVE  SeenNone' /\ Counted'
<1>1. /\ Typed /\ Basic /\ Safe /\ At(t, p, "allResume") /\ UNCHANGED <<held, messages>> /\ Waken(t, p, cur[p], "allNext")
      /\ p \in Coros /\ p \notin Consumers
  BY CvAssumption DEF Inv, Basic, NotifyAllResume, data, Coros
<1>2. PICK c \in Consumers : c = cur[p] /\ pc[c] = "listed"
  BY NotifyAllResumeSafe DEF Inv
<1>3. "allResume" \in Notifying /\ "allNext" \in Notifying
  BY DEF Notifying
<1>4. /\ pc'[p] = "allNext" /\ pc'[c] = "lock" /\ Wakes(p, "allNext", c) /\ Suspended' = Suspended \ {c}
  BY <1>1, <1>2, <1>3, WakerStep
<1>5. ASSUME NEW d \in Coros, Eager(d) PROVE Eager(d)'
  <2>1. CASE d = p
    BY <1>4, <2>1 DEF Eager, Notifying
  <2>2. CASE d = c
    BY <1>4, <2>2 DEF Eager
  <2>3. CASE d \notin {p, c}
    BY <1>1, <1>4, <1>5, <2>3 DEF Eager, Wakes
  <2> QED
    BY <2>1, <2>2, <2>3
<1>6. \A d \in Consumers : pc'[d] \in {"load", "cas"} => pc[d] \in {"load", "cas"}
  BY <1>1, <1>4 DEF Wakes, Coros
<1> QED
  BY <1>1, <1>4, <1>5, <1>6, SeenKept, CountKept

LEMMA NotifyStepCount ==
  ASSUME Inv, SeenNone, Counted, NEW t \in Threads, NEW p \in Producers,
         NotifyOneRead(t, p) \/ NotifyAllCas(t, p) \/ NotifyAllNext(t, p)
  PROVE  SeenNone' /\ Counted'
<1>1. UNCHANGED <<held, messages>> /\ Typed /\ p \in Coros
  BY DEF Inv, Basic, NotifyOneRead, NotifyAllCas, NotifyAllNext, data, Coros
<1>2. PICK m \in {"oneCas", "allLoad", "allResume", "notified"} : Goto(p, m) /\ (m = "notified" => NotifyAllNext(t, p))
  BY DEF NotifyOneRead, NotifyAllCas, NotifyAllNext
<1>3. pc'[p] = m /\ m \in Notifying
  BY <1>1, <1>2 DEF Goto, Typed, Notifying
<1>4. m = "notified" => Suspended' = {}
  BY <1>2, <1>3, NotifyAllNextSafe DEF Inv
<1> QED
  BY <1>1, <1>2, <1>3, <1>4, NotifierCount

CountInv == Inv /\ SeenNone /\ Counted

LEMMA NextCount == CountInv /\ [Next]_vars => CountInv'
<1> SUFFICES ASSUME CountInv, [Next]_vars PROVE CountInv'
  OBVIOUS
<1>1. Inv /\ SeenNone /\ Counted /\ Inv'
  BY NextInv DEF CountInv
<1>2. CASE UNCHANGED vars
  <2>1. SeenNone' /\ Counted'
    BY <1>1, <1>2 DEF vars, SeenNone, Counted, Suspended, Eagers, Eager
  <2> QED
    BY <1>1, <2>1 DEF CountInv
<1>3. CASE \E t \in Threads : Step(t)
  <2>1. PICK t \in Threads : Step(t)
    BY <1>3
  <2>2. SeenNone' /\ Counted'
    <3>1. ASSUME NEW c \in Coros, Resume(t, c) \/ Lock(t, c) \/ Unlock(t, c) PROVE SeenNone' /\ Counted'
      BY <1>1, <3>1, ResumeCount, LockCount, UnlockCount
    <3>2. ASSUME NEW c \in Consumers, Check(t, c) \/ AwaitLoad(t, c) \/ AwaitRetry(t, c) \/ AwaitCas(t, c)
          PROVE  SeenNone' /\ Counted'
      BY <1>1, <3>2, CheckCount, AwaitCount
    <3>3. ASSUME AwaitUnlock(t) PROVE SeenNone' /\ Counted'
      BY <1>1, <3>3, AwaitUnlockCount
    <3>4. ASSUME NEW p \in Producers, Produce(t, p) \/ Choose(t, p) \/ Notified(t, p) PROVE SeenNone' /\ Counted'
      BY <1>1, <3>4, ProduceCount, ChooseNotifiedCount
    <3>5. ASSUME NEW p \in Producers, NotifyLoad(t, p, "oneLoad", "oneRead") \/ NotifyLoad(t, p, "allLoad", "allCas")
          PROVE  SeenNone' /\ Counted'
      BY <1>1, <3>5, NotifyLoadCount
    <3>6. ASSUME NEW p \in Producers, \/ NotifyOneRead(t, p) \/ NotifyOneCas(t, p) \/ NotifyAllCas(t, p)
                                      \/ NotifyAllResume(t, p) \/ NotifyAllNext(t, p)
          PROVE  SeenNone' /\ Counted'
      BY <1>1, <3>6, NotifyStepCount, NotifyOneCasCount, NotifyAllResumeCount
    <3> QED
      BY <2>1, <3>1, <3>2, <3>3, <3>4, <3>5, <3>6 DEF Step
  <2> QED
    BY <1>1, <2>2 DEF CountInv
<1> QED
  BY <1>2, <1>3, NextSteps

\* No notification is lost: while consumers are suspended, there are at most as many
\* messages as consumers that are awake and producers about to notify.  A producer
\* counts from the moment it adds its message (under the mutex, or between the
\* mutex and NotifyOne) until it has woken somebody, who counts in its place, or
\* has found nobody suspended; a consumer suspends itself only after it saw no
\* message, under the mutex.
THEOREM NotificationsNotLost == Spec => []NoLostNotification
<1>1. Init => CountInv
  <2> SUFFICES ASSUME Init PROVE CountInv
    OBVIOUS
  <2>1. Suspended = {} /\ SeenNone
    BY DEF Init, Suspended, SeenNone, Coros
  <2> QED
    BY <2>1, InitInv DEF CountInv, Counted
<1>2. CountInv => NoLostNotification
  <2> SUFFICES ASSUME CountInv, \E c \in Consumers : pc[c] = "listed" PROVE NoLostNotification
    BY DEF NoLostNotification
  <2> DEFINE A == {c \in Consumers : pc[c] \in {"lock", "blocked", "check"}}
  <2> DEFINE B == {p \in Producers : pc[p] \in
                     {"choose", "oneLoad", "oneRead", "oneCas", "allLoad", "allCas", "allResume", "allNext"}
                     \/ (pc[p] = "unlock" /\ ~held)}
  <2>1. Suspended # {}
    BY DEF Suspended
  <2>2. messages <= Cardinality(Eagers)
    BY <2>1 DEF CountInv, Counted
  <2>3. Eagers = A \cup B
    BY DEF Eagers, Eager, Coros, Notifying
  <2>4. A \cap B = {} /\ A \subseteq Coros /\ B \subseteq Coros
    BY CvAssumption DEF Coros
  <2>5. IsFiniteSet(A) /\ IsFiniteSet(B) /\ Cardinality(A) \in Nat /\ Cardinality(B) \in Nat
    BY <2>4, EagersFinite
  <2>6. messages <= Cardinality(A) + Cardinality(B)
    <3> HIDE DEF A, B
    <3>1. Cardinality(A \cup B) = Cardinality(A) + Cardinality(B) - Cardinality({})
      BY <2>4, <2>5, FS_Union
    <3>2. Cardinality({}) = 0
      BY FS_EmptySet
    <3> QED
      BY <2>2, <2>3, <2>5, <3>1, <3>2
  <2> QED
    BY <2>6 DEF NoLostNotification
<1> QED
  BY <1>1, <1>2, NextCount, PTL DEF Spec
=============================================================================
