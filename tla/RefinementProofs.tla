-------------------------- MODULE RefinementProofs --------------------------
(***************************************************************************)
(* Two data structures implement what they promise: AsyncMutex is a fair   *)
(* queue (FifoMutex), for every set of coroutines and of threads, and the  *)
(* heap of TimerQueue is the set of timers TimerSet, for every number of   *)
(* timers, every range of instants and every tick.                         *)
(***************************************************************************)
EXTENDS AsyncMutex, Timer, SequenceTheorems, WellFoundedInduction, TLAPS

-----------------------------------------------------------------------------
(* Facts about stacks and about the word.                                  *)

LEMMA FrontLast ==
  ASSUME NEW S, NEW s \in Seq(S), s # <<>>
  PROVE  Front(s) \in Seq(S) /\ Last(s) \in S
BY DEF Front, Last

LEMMA ReverseType ==
  ASSUME NEW S, NEW s \in Seq(S)
  PROVE  /\ Reverse(s) \in Seq(S)
         /\ Len(Reverse(s)) = Len(s)
         /\ s # <<>> => Reverse(s) # <<>>
BY DEF Reverse

\* What a thread learns from the word: the three kinds of value are apart.
LEMMA WordMeaning ==
  ASSUME TypeOK
  PROVE  /\ StateWord \in Words
         /\ StateWord = kNotLocked <=> ~locked
         /\ StateWord = kLockedNoWaiters <=> locked /\ lifo = <<>>
<1>1. lifo # <<>> => Head(lifo) \in Coros
  BY DEF TypeOK
<1> QED
  BY <1>1, WordAssumption DEF StateWord, Words, TypeOK

-----------------------------------------------------------------------------
(* Mutual exclusion.                                                       *)

LEMMA LockInit == Init => LockInv
<1> SUFFICES ASSUME Init PROVE LockInv
  OBVIOUS
<1>1. stack \in [Threads -> Seq(Coros)]
  <2>1. <<>> \in Seq(Coros)
    OBVIOUS
  <2> QED
    BY <2>1 DEF Init
<1>2. pc \in [Coros -> {"idle", "start", "try", "waiting"} \cup OwnerPcs]
  BY DEF Init
<1>3. seen \in [Coros -> Words]
  BY DEF Init, Words
<1>4. lifo \in Seq(Coros) /\ fifo \in Seq(Coros)
  BY DEF Init
<1>4a. locked \in BOOLEAN
  BY DEF Init
<1>5. TypeOK
  BY <1>1, <1>2, <1>3, <1>4, <1>4a DEF TypeOK
<1>6. Owners = {}
  BY DEF Init, Owners, OwnerPcs
<1>7. MutualExclusion /\ UnlockAsserts
  BY <1>6 DEF MutualExclusion, UnlockAsserts, Init, OwnerPcs
<1>8. ~locked /\ lifo = <<>> /\ fifo = <<>>
  BY DEF Init
<1>9. \A c \in Coros : pc[c] \notin {"release", "exchange"}
  BY DEF Init
<1> QED
  BY <1>5, <1>6, <1>7, <1>8, <1>9 DEF LockInv

\* The types, action by action.
LEMMA TypeStep ==
  ASSUME TypeOK, UnlockAsserts, NEW t \in Threads, NEW c \in Coros, Step(t, c)
  PROVE  TypeOK'
<1> USE DEF TypeOK, Goto
<1>1. \A l : Runs(t, c, l) => Front(stack[t]) \in Seq(Coros)
  BY FrontLast DEF Runs
<1>2. CASE Resume(t, c)
  <2>1. <<c>> \in Seq(Coros)
    OBVIOUS
  <2> QED
    BY <1>2, <2>1 DEF Resume, OwnerPcs
<1>3. CASE Suspend(t, c)
  BY <1>1, <1>3 DEF Suspend, Return, OwnerPcs
<1>4. CASE LockLoad(t, c)
  BY <1>4, WordMeaning DEF LockLoad
<1>5. CASE LockAcquire(t, c)
  BY <1>5 DEF LockAcquire, OwnerPcs
<1>6. CASE LockEnqueue(t, c)
  BY <1>1, <1>6 DEF LockEnqueue, PushHead, Return
<1>7. CASE LockRetry(t, c)
  BY <1>7, WordMeaning DEF LockRetry
<1>8. CASE TryLock(t, c)
  BY <1>8 DEF TryLock, OwnerPcs
<1>9. CASE UnlockLoad(t, c)
  BY <1>9 DEF UnlockLoad, OwnerPcs
<1>10. CASE UnlockRelease(t, c)
  BY <1>10 DEF UnlockRelease, OwnerPcs
<1>11. CASE UnlockExchange(t, c)
  BY <1>11, ReverseType DEF UnlockExchange, TakeReversed, OwnerPcs
<1>12. CASE UnlockResume(t, c)
  <2>1. Head(fifo) \in Coros /\ Tail(fifo) \in Seq(Coros)
    BY <1>12 DEF UnlockResume, Runs, UnlockAsserts
  <2>2. Append(stack[t], Head(fifo)) \in Seq(Coros)
    BY <2>1
  <2> QED
    BY <1>12, <2>1, <2>2 DEF UnlockResume, PopHead, OwnerPcs
<1> QED
  BY <1>2, <1>3, <1>4, <1>5, <1>6, <1>7, <1>8, <1>9, <1>10, <1>11, <1>12
  DEF Step, Lock, Unlock

\* Who owns the mutex after a step, whether it is free and what the lists are.
LEMMA LockStep ==
  ASSUME LockInv, NEW t \in Threads, NEW c \in Coros, Step(t, c)
  PROVE  LockInv'
<1>1. TypeOK'
  BY TypeStep DEF LockInv
<1> SUFFICES /\ \A d, e \in Coros : pc'[d] \in OwnerPcs /\ pc'[e] \in OwnerPcs => d = e
             /\ locked' <=> \E d \in Coros : pc'[d] \in OwnerPcs
             /\ ~locked' => lifo' = <<>> /\ fifo' = <<>>
             /\ \A d \in Coros :
                  /\ pc'[d] \in {"release", "exchange"} => fifo' = <<>>
                  /\ pc'[d] = "exchange" => lifo' # <<>>
                  /\ pc'[d] = "pop" => fifo' # <<>>
  BY <1>1 DEF LockInv, MutualExclusion, UnlockAsserts, Owners
<1>2. /\ TypeOK
      /\ \A d, e \in Coros : pc[d] \in OwnerPcs /\ pc[e] \in OwnerPcs => d = e
      /\ locked <=> \E d \in Coros : pc[d] \in OwnerPcs
      /\ ~locked => lifo = <<>> /\ fifo = <<>>
      /\ \A d \in Coros :
           /\ pc[d] \in {"release", "exchange"} => fifo = <<>>
           /\ pc[d] = "exchange" => lifo # <<>>
           /\ pc[d] = "pop" => fifo # <<>>
  BY DEF LockInv, MutualExclusion, UnlockAsserts, Owners
<1>3. pc \in [Coros -> {"idle", "start", "try", "waiting"} \cup OwnerPcs]
  BY <1>2 DEF TypeOK
<1> USE DEF Goto, Runs
<1>4. CASE Resume(t, c)
  BY <1>2, <1>3, <1>4 DEF Resume, OwnerPcs
<1>5. CASE Suspend(t, c)
  BY <1>2, <1>3, <1>5 DEF Suspend, OwnerPcs
<1>6. CASE LockLoad(t, c)
  BY <1>2, <1>3, <1>6 DEF LockLoad, OwnerPcs
<1>7. CASE LockAcquire(t, c)
  <2>1. ~locked
    BY <1>2, <1>7, WordMeaning DEF LockAcquire
  <2> QED
    BY <1>2, <1>3, <1>7, <2>1 DEF LockAcquire, OwnerPcs
<1>8. CASE LockEnqueue(t, c)
  <2>1. locked
    BY <1>2, <1>8, WordMeaning DEF LockEnqueue, MayEnqueue
  <2>2. lifo' # <<>>
    BY <1>2, <1>8 DEF LockEnqueue, PushHead, TypeOK
  <2> QED
    BY <1>2, <1>3, <1>8, <2>1, <2>2 DEF LockEnqueue, OwnerPcs
<1>9. CASE LockRetry(t, c)
  BY <1>2, <1>3, <1>9 DEF LockRetry
<1>10. CASE TryLock(t, c)
  BY <1>2, <1>3, <1>10 DEF TryLock, OwnerPcs
<1>11. CASE UnlockLoad(t, c)
  <2>1. locked
    BY <1>2, <1>11 DEF UnlockLoad, OwnerPcs
  <2>2. StateWord # kLockedNoWaiters => lifo # <<>>
    BY <1>2, <2>1, WordMeaning
  <2> QED
    BY <1>2, <1>3, <1>11, <2>2 DEF UnlockLoad, OwnerPcs
<1>12. CASE UnlockRelease(t, c)
  <2>1. locked
    BY <1>2, <1>12 DEF UnlockRelease, OwnerPcs
  <2>2. StateWord = kLockedNoWaiters <=> lifo = <<>>
    BY <1>2, <2>1, WordMeaning
  <2> QED
    BY <1>2, <1>3, <1>12, <2>2 DEF UnlockRelease, OwnerPcs
<1>13. CASE UnlockExchange(t, c)
  <2>1. fifo' # <<>>
    BY <1>2, <1>13, ReverseType DEF UnlockExchange, TakeReversed, TypeOK
  <2> QED
    BY <1>2, <1>3, <1>13, <2>1 DEF UnlockExchange, OwnerPcs
<1>14. CASE UnlockResume(t, c)
  <2>1. Head(fifo) \in Coros
    BY <1>2, <1>14 DEF UnlockResume, TypeOK
  <2> QED
    BY <1>2, <1>3, <1>14, <2>1 DEF UnlockResume, OwnerPcs
<1> QED
  BY <1>4, <1>5, <1>6, <1>7, <1>8, <1>9, <1>10, <1>11, <1>12, <1>13, <1>14
  DEF Step, Lock, Unlock

LEMMA LockNext == LockInv /\ [Next]_vars => LockInv'
<1> SUFFICES ASSUME LockInv, [Next]_vars PROVE LockInv'
  OBVIOUS
<1>1. CASE Next
  BY <1>1, LockStep DEF Next
<1>2. CASE UNCHANGED vars
  BY <1>2 DEF vars, LockInv, TypeOK, MutualExclusion, UnlockAsserts, Owners
<1> QED
  BY <1>1, <1>2

\* The invariant behind the assertions of Unlock() and the exclusion is inductive:
\* state_ says locked exactly when somebody owns the mutex.
THEOREM LockInvariant == Spec => []LockInv
BY LockInit, LockNext, PTL DEF Spec

\* At most one coroutine is between lock and unlock.
THEOREM MutuallyExclusive == Spec => []MutualExclusion
<1>1. LockInv => MutualExclusion
  BY DEF LockInv
<1> QED
  BY <1>1, LockInvariant, PTL

\* No assertion of Unlock() fails.
THEOREM UnlockNeverAborts == Spec => []UnlockAsserts
<1>1. LockInv => UnlockAsserts
  BY DEF LockInv
<1> QED
  BY <1>1, LockInvariant, PTL

-----------------------------------------------------------------------------
(* No waiter is lost: the two lists hold exactly the suspended operations. *)

\* Putting an operation in front of a list.
LEMMA PushFacts ==
  ASSUME NEW S, NEW s \in Seq(S), NEW e \in S
  PROVE  /\ ToSet(<<e>> \o s) = {e} \cup ToSet(s)
         /\ IsInjective(s) /\ e \notin ToSet(s) => IsInjective(<<e>> \o s)
<1> DEFINE u == <<e>> \o s
<1>1. u \in Seq(S) /\ Len(u) = Len(s) + 1 /\ u[1] = e
  OBVIOUS
<1>2. \A i \in 1..Len(s) : u[i + 1] = s[i]
  OBVIOUS
<1>3. \A i \in 2..Len(u) : u[i] = s[i - 1] /\ i - 1 \in 1..Len(s)
  BY <1>1, <1>2
<1>4. ToSet(u) \subseteq {e} \cup ToSet(s)
  BY <1>1, <1>3 DEF ToSet
<1>5. {e} \cup ToSet(s) \subseteq ToSet(u)
  <2>1. e \in ToSet(u)
    BY <1>1 DEF ToSet
  <2>2. ASSUME NEW i \in 1..Len(s) PROVE s[i] \in ToSet(u)
    <3>1. i + 1 \in DOMAIN u
      BY <1>1
    <3> QED
      BY <1>2, <3>1 DEF ToSet
  <2> QED
    BY <2>1, <2>2 DEF ToSet
<1>6. ASSUME IsInjective(s), e \notin ToSet(s) PROVE IsInjective(u)
  <2> SUFFICES ASSUME NEW i \in 1..Len(u), NEW j \in 1..Len(u), u[i] = u[j]
               PROVE  i = j
    BY <1>1 DEF IsInjective
  <2>1. CASE i = 1 /\ j = 1
    BY <2>1
  <2>2. CASE i = 1 /\ j # 1
    BY <1>1, <1>3, <1>6, <2>2 DEF ToSet
  <2>3. CASE i # 1 /\ j = 1
    BY <1>1, <1>3, <1>6, <2>3 DEF ToSet
  <2>4. CASE i # 1 /\ j # 1
    <3>1. s[i - 1] = s[j - 1] /\ i - 1 \in DOMAIN s /\ j - 1 \in DOMAIN s
      BY <1>1, <1>3, <2>4
    <3> QED
      BY <1>6, <3>1 DEF IsInjective
  <2> QED
    BY <2>1, <2>2, <2>3, <2>4
<1> QED
  BY <1>4, <1>5, <1>6

\* Reversing a list.
LEMMA ReverseFacts ==
  ASSUME NEW S, NEW s \in Seq(S)
  PROVE  /\ ToSet(Reverse(s)) = ToSet(s)
         /\ IsInjective(s) => IsInjective(Reverse(s))
<1> DEFINE r == Reverse(s)
<1>1. DOMAIN r = 1..Len(s) /\ \A i \in 1..Len(s) : r[i] = s[(Len(s) - i) + 1]
  BY DEF Reverse
<1>2. \A i \in 1..Len(s) : (Len(s) - i) + 1 \in 1..Len(s) /\ r[(Len(s) - i) + 1] = s[i]
  BY <1>1
<1>3. ToSet(r) \subseteq ToSet(s)
  BY <1>1, <1>2 DEF ToSet
<1>4. ToSet(s) \subseteq ToSet(r)
  <2>1. ASSUME NEW i \in 1..Len(s) PROVE s[i] \in ToSet(r)
    <3>1. (Len(s) - i) + 1 \in DOMAIN r /\ r[(Len(s) - i) + 1] = s[i]
      BY <1>1, <1>2
    <3> QED
      BY <3>1 DEF ToSet
  <2> QED
    BY <2>1 DEF ToSet
<1>5. ASSUME IsInjective(s) PROVE IsInjective(r)
  BY <1>1, <1>2, <1>5 DEF IsInjective
<1> QED
  BY <1>3, <1>4, <1>5

\* Taking the oldest operation off a list.
LEMMA TailFacts ==
  ASSUME NEW S, NEW s \in Seq(S), s # <<>>, IsInjective(s)
  PROVE  /\ ToSet(Tail(s)) = ToSet(s) \ {Head(s)}
         /\ IsInjective(Tail(s))
         /\ Head(s) \in ToSet(s)
<1> DEFINE u == Tail(s)
<1>1. u \in Seq(S) /\ Len(u) = Len(s) - 1 /\ Len(s) \in Nat /\ Len(s) >= 1
  OBVIOUS
<1>2. \A i \in 1..Len(u) : u[i] = s[i + 1] /\ i + 1 \in DOMAIN s /\ i + 1 # 1
  BY <1>1
<1>3. Head(s) = s[1] /\ 1 \in DOMAIN s
  BY <1>1
<1>4. ToSet(u) \subseteq ToSet(s) \ {Head(s)}
  BY <1>1, <1>2, <1>3 DEF ToSet, IsInjective
<1>5. ASSUME NEW i \in DOMAIN s, s[i] # Head(s) PROVE s[i] \in ToSet(u)
  <2>1. i \in 2..Len(s)
    BY <1>1, <1>3, <1>5
  <2>2. i - 1 \in DOMAIN u /\ u[i - 1] = s[i]
    BY <1>1, <1>2, <2>1
  <2> QED
    BY <2>2 DEF ToSet
<1>6. ToSet(s) \ {Head(s)} \subseteq ToSet(u)
  BY <1>5 DEF ToSet
<1>7. IsInjective(u)
  BY <1>1, <1>2 DEF IsInjective
<1> QED
  BY <1>3, <1>4, <1>6, <1>7 DEF ToSet

\* A step keeps the suspended operations and the nodes of the lists the same.
LEMMA ListStep ==
  ASSUME LockInv, WaitersListed, NEW t \in Threads, NEW c \in Coros, Step(t, c)
  PROVE  WaitersListed'
<1>1. /\ lifo \in Seq(Coros) /\ fifo \in Seq(Coros)
      /\ pc \in [Coros -> {"idle", "start", "try", "waiting"} \cup OwnerPcs]
  BY DEF LockInv, TypeOK
<1>2. /\ \A d \in Coros : pc[d] = "waiting" <=> d \in ToSet(lifo) \cup ToSet(fifo)
      /\ IsInjective(lifo) /\ IsInjective(fifo)
      /\ ToSet(lifo) \cap ToSet(fifo) = {}
  BY DEF WaitersListed
<1> USE DEF Goto, Runs
<1>3. CASE LockEnqueue(t, c)
  <2>1. c \notin ToSet(lifo) \cup ToSet(fifo)
    BY <1>2, <1>3 DEF LockEnqueue
  <2>2. /\ ToSet(lifo') = {c} \cup ToSet(lifo)
        /\ IsInjective(lifo')
        /\ fifo' = fifo
    BY <1>1, <1>2, <1>3, <2>1, PushFacts DEF LockEnqueue, PushHead
  <2>3. \A d \in Coros : pc'[d] = "waiting" <=> pc[d] = "waiting" \/ d = c
    BY <1>1, <1>3 DEF LockEnqueue
  <2> QED
    BY <1>2, <2>1, <2>2, <2>3 DEF WaitersListed
<1>4. CASE UnlockExchange(t, c)
  <2>1. fifo = <<>>
    BY <1>4 DEF UnlockExchange, LockInv
  <2>2. ToSet(fifo) = {}
    BY <2>1 DEF ToSet
  <2>3. ToSet(fifo') = ToSet(lifo) /\ IsInjective(fifo')
    BY <1>1, <1>2, <1>4, ReverseFacts DEF UnlockExchange, TakeReversed
  <2>4. ToSet(lifo') = {} /\ IsInjective(lifo')
    BY <1>4 DEF UnlockExchange, ToSet, IsInjective
  <2>5. \A d \in Coros : pc'[d] = "waiting" <=> pc[d] = "waiting"
    BY <1>1, <1>4 DEF UnlockExchange
  <2> QED
    BY <1>2, <2>2, <2>3, <2>4, <2>5 DEF WaitersListed
<1>5. CASE UnlockResume(t, c)
  <2>1. fifo # <<>>
    BY <1>5 DEF UnlockResume, LockInv, UnlockAsserts
  <2> DEFINE h == Head(fifo)
  <2>2. /\ ToSet(fifo') = ToSet(fifo) \ {h}
        /\ IsInjective(fifo')
        /\ h \in ToSet(fifo)
    BY <1>1, <1>2, <1>5, <2>1, TailFacts DEF UnlockResume, PopHead
  <2>3. h \in Coros /\ lifo' = lifo
    BY <1>1, <1>5, <2>1 DEF UnlockResume
  <2>4. \A d \in Coros : pc'[d] = "waiting" <=> pc[d] = "waiting" /\ d # h
    BY <1>1, <1>5, <2>3 DEF UnlockResume
  <2> QED
    BY <1>2, <2>2, <2>3, <2>4 DEF WaitersListed
<1>6. ASSUME lifo' = lifo, fifo' = fifo,
             \A d \in Coros : pc'[d] = "waiting" <=> pc[d] = "waiting"
      PROVE  WaitersListed'
  BY <1>2, <1>6 DEF WaitersListed
<1>7. CASE Resume(t, c)
  BY <1>1, <1>6, <1>7 DEF Resume
<1>8. CASE Suspend(t, c)
  BY <1>1, <1>6, <1>8 DEF Suspend
<1>9. CASE LockLoad(t, c)
  BY <1>1, <1>6, <1>9 DEF LockLoad
<1>10. CASE LockAcquire(t, c)
  BY <1>1, <1>6, <1>10 DEF LockAcquire
<1>11. CASE LockRetry(t, c)
  BY <1>1, <1>6, <1>11 DEF LockRetry
<1>12. CASE TryLock(t, c)
  BY <1>1, <1>6, <1>12 DEF TryLock
<1>13. CASE UnlockLoad(t, c)
  BY <1>1, <1>6, <1>13 DEF UnlockLoad
<1>14. CASE UnlockRelease(t, c)
  BY <1>1, <1>6, <1>14 DEF UnlockRelease
<1> QED
  BY <1>3, <1>4, <1>5, <1>7, <1>8, <1>9, <1>10, <1>11, <1>12, <1>13, <1>14
  DEF Step, Lock, Unlock

\* No lock operation is lost from the lists or resumed twice: the suspended
\* coroutines are the nodes of state_'s list and of waitersHead_'s list.
THEOREM WaitersAreListed == Spec => []WaitersListed
<1>1. Init => WaitersListed
  BY DEF Init, WaitersListed, ToSet, IsInjective
<1>2. LockInv /\ WaitersListed /\ [Next]_vars => WaitersListed'
  <2> SUFFICES ASSUME LockInv, WaitersListed, [Next]_vars PROVE WaitersListed'
    OBVIOUS
  <2>1. CASE Next
    BY <2>1, ListStep DEF Next
  <2>2. CASE UNCHANGED vars
    BY <2>2 DEF vars, WaitersListed
  <2> QED
    BY <2>1, <2>2
<1> QED
  BY <1>1, <1>2, LockInvariant, PTL DEF Spec

\* A free mutex has no waiters, and whoever waits has an owner to wait for.
THEOREM NobodyWaitsForNobody == Spec => []FreeHasNoWaiters
<1>1. LockInv /\ WaitersListed => FreeHasNoWaiters
  <2> SUFFICES ASSUME LockInv, WaitersListed PROVE FreeHasNoWaiters
    OBVIOUS
  <2>1. (locked <=> Owners # {}) /\ (~locked => lifo = <<>> /\ fifo = <<>>)
    BY DEF LockInv
  <2>2. ASSUME NEW c \in Coros, pc[c] = "waiting", ~locked PROVE FALSE
    BY <2>1, <2>2 DEF WaitersListed, ToSet
  <2> QED
    BY <2>1, <2>2 DEF FreeHasNoWaiters
<1> QED
  BY <1>1, LockInvariant, WaitersAreListed, PTL

-----------------------------------------------------------------------------
(* The two lists, end to end, are the queue of the abstract mutex.         *)

\* Putting an operation in front of the newest-first list appends it to the
\* queue.
LEMMA PushIsAppend ==
  ASSUME NEW S, NEW f \in Seq(S), NEW s \in Seq(S), NEW e \in S
  PROVE  f \o Reverse(<<e>> \o s) = Append(f \o Reverse(s), e)
<1> DEFINE u == <<e>> \o s
           r == Reverse(s)
           v == Reverse(u)
<1>1. u \in Seq(S) /\ Len(u) = Len(s) + 1 /\ u[1] = e
  OBVIOUS
<1>2. \A i \in 1..Len(s) : u[i + 1] = s[i]
  OBVIOUS
<1>3. r \in Seq(S) /\ Len(r) = Len(s) /\ \A i \in 1..Len(s) : r[i] = s[(Len(s) - i) + 1]
  BY ReverseType DEF Reverse
<1>4. v \in Seq(S) /\ Len(v) = Len(u) /\ \A i \in 1..Len(u) : v[i] = u[(Len(u) - i) + 1]
  BY <1>1, ReverseType DEF Reverse
<1>5. v[Len(s) + 1] = e
  BY <1>1, <1>4
<1>6. ASSUME NEW i \in 1..Len(s) PROVE v[i] = r[i]
  <2>1. (Len(s) - i) + 1 \in 1..Len(s)
    OBVIOUS
  <2>2. v[i] = u[((Len(s) - i) + 1) + 1]
    BY <1>1, <1>4
  <2> QED
    BY <1>2, <1>3, <2>1, <2>2
<1> HIDE DEF u, r, v
<1>7. v = Append(r, e)
  <2> DEFINE w == Append(r, e)
  <2>1. w \in Seq(S) /\ Len(w) = Len(s) + 1 /\ w[Len(s) + 1] = e
    BY <1>3
  <2>2. \A i \in 1..Len(s) : w[i] = r[i]
    BY <1>3
  <2>3. v \in Seq(S) /\ Len(v) = Len(s) + 1
    BY <1>1, <1>4
  <2>4. \A i \in 1..Len(v) : v[i] = w[i]
    BY <1>5, <1>6, <2>1, <2>2, <2>3
  <2> HIDE DEF w
  <2>5. v = w
    BY <2>1, <2>3, <2>4, SeqEqual
  <2> QED
    BY <2>5 DEF w
<1>8. f \o Append(r, e) = Append(f \o r, e)
  BY <1>3
<1> QED
  BY <1>7, <1>8 DEF u, r, v

\* The head of the queue is the head of the oldest-first list.
LEMMA PopIsTail ==
  ASSUME NEW S, NEW f \in Seq(S), NEW r \in Seq(S), f # <<>>
  PROVE  /\ f \o r # <<>>
         /\ Head(f \o r) = Head(f)
         /\ Tail(f \o r) = Tail(f) \o r
OBVIOUS

\* The queue of the abstract mutex.
Queue == fifo \o Reverse(lifo)

\* The members of the queue are the members of the two lists.
LEMMA QueueMembers ==
  ASSUME LockInv
  PROVE  /\ Queue \in Seq(Coros)
         /\ \A i \in 1..Len(Queue) : Queue[i] \in ToSet(lifo) \cup ToSet(fifo)
<1>1. fifo \in Seq(Coros) /\ lifo \in Seq(Coros)
  BY DEF LockInv, TypeOK
<1> DEFINE r == Reverse(lifo)
<1>2. r \in Seq(Coros) /\ ToSet(r) = ToSet(lifo)
  BY <1>1, ReverseType, ReverseFacts
<1> HIDE DEF r
<1>3. fifo \o r \in Seq(Coros) /\ Len(fifo \o r) = Len(fifo) + Len(r)
  BY <1>1, <1>2
<1>4. ASSUME NEW i \in 1..Len(fifo \o r) PROVE (fifo \o r)[i] \in ToSet(r) \cup ToSet(fifo)
  <2>1. CASE i <= Len(fifo)
    <3>1. i \in DOMAIN fifo /\ (fifo \o r)[i] = fifo[i]
      BY <1>1, <1>2, <1>3, <2>1
    <3> QED
      BY <3>1 DEF ToSet
  <2>2. CASE i > Len(fifo)
    <3>1. i - Len(fifo) \in DOMAIN r /\ (fifo \o r)[i] = r[i - Len(fifo)]
      BY <1>1, <1>2, <1>3, <2>2
    <3> QED
      BY <3>1 DEF ToSet
  <2> QED
    BY <1>1, <1>3, <2>1, <2>2
<1> QED
  BY <1>2, <1>3, <1>4 DEF Queue, r

\* Every step of a thread is a step of the abstract mutex, or none.
LEMMA FifoStep ==
  ASSUME LockInv, WaitersListed, NEW t \in Threads, NEW c \in Coros, Step(t, c)
  PROVE  \/ Owners' = Owners /\ Queue' = Queue
         \/ Owners = {} /\ Queue = <<>> /\ Owners' = {c} /\ Queue' = Queue
         \/ /\ Owners # {} /\ c \notin Owners
            /\ \A i \in 1..Len(Queue) : Queue[i] # c
            /\ Queue' = Append(Queue, c) /\ Owners' = Owners
         \/ Owners = {c} /\ Queue = <<>> /\ Owners' = {} /\ Queue' = Queue
         \/ /\ Owners = {c} /\ Queue # <<>>
            /\ Owners' = {Head(Queue)} /\ Queue' = Tail(Queue)
<1>1. /\ lifo \in Seq(Coros) /\ fifo \in Seq(Coros)
      /\ pc \in [Coros -> {"idle", "start", "try", "waiting"} \cup OwnerPcs]
  BY DEF LockInv, TypeOK
<1>2. locked <=> Owners # {}
  BY DEF LockInv
<1>3. pc[c] \in OwnerPcs => Owners = {c}
  BY DEF LockInv, MutualExclusion, Owners
<1>4. lifo = <<>> /\ fifo = <<>> => Queue = <<>>
  BY DEF Queue, Reverse
<1>5. lifo' = lifo /\ fifo' = fifo => Queue' = Queue
  BY DEF Queue
<1> USE DEF Goto, Runs
<1>6. ASSUME \A d \in Coros : pc'[d] \in OwnerPcs <=> pc[d] \in OwnerPcs
      PROVE  Owners' = Owners
  BY <1>6 DEF Owners
<1>7. CASE Resume(t, c)
  BY <1>1, <1>5, <1>6, <1>7 DEF Resume, OwnerPcs
<1>8. CASE Suspend(t, c)
  BY <1>1, <1>5, <1>6, <1>8 DEF Suspend, OwnerPcs
<1>9. CASE LockLoad(t, c)
  BY <1>1, <1>5, <1>6, <1>9 DEF LockLoad, OwnerPcs
<1>10. CASE LockRetry(t, c)
  BY <1>1, <1>5, <1>6, <1>10 DEF LockRetry
<1>11. CASE UnlockLoad(t, c)
  BY <1>1, <1>5, <1>6, <1>11 DEF UnlockLoad, OwnerPcs
<1>12. CASE LockAcquire(t, c) \/ TryLock(t, c)
  <2>1. ~locked
    BY <1>12, WordMeaning DEF LockAcquire, TryLock, LockInv
  <2>2. Owners = {} /\ Queue = <<>> /\ Queue' = Queue
    BY <1>2, <1>4, <1>5, <1>12, <2>1 DEF LockAcquire, TryLock, LockInv
  <2>3. Owners' = {c}
    BY <1>1, <1>12, <2>2 DEF LockAcquire, TryLock, Owners, OwnerPcs
  <2> QED
    BY <2>2, <2>3
<1>13. CASE LockEnqueue(t, c)
  <2>1. locked
    BY <1>13, WordMeaning DEF LockEnqueue, MayEnqueue, LockInv
  <2>2. c \notin Owners /\ c \notin ToSet(lifo) \cup ToSet(fifo)
    BY <1>13 DEF LockEnqueue, Owners, OwnerPcs, WaitersListed
  <2>3. \A i \in 1..Len(Queue) : Queue[i] # c
    BY <2>2, QueueMembers
  <2>4. Queue' = Append(Queue, c)
    <3>1. lifo' = <<c>> \o lifo /\ fifo' = fifo
      BY <1>13 DEF LockEnqueue, PushHead
    <3>2. fifo \o Reverse(<<c>> \o lifo) = Append(fifo \o Reverse(lifo), c)
      BY <1>1, PushIsAppend
    <3>3. Queue' = fifo \o Reverse(<<c>> \o lifo)
      BY <3>1 DEF Queue
    <3> QED
      BY <3>2, <3>3 DEF Queue
  <2>5. Owners' = Owners
    BY <1>1, <1>6, <1>13 DEF LockEnqueue, OwnerPcs
  <2> QED
    BY <1>2, <2>1, <2>2, <2>3, <2>4, <2>5
<1>14. CASE UnlockRelease(t, c)
  <2>1. fifo = <<>> /\ Owners = {c} /\ Queue' = Queue
    BY <1>3, <1>5, <1>14 DEF UnlockRelease, LockInv, OwnerPcs
  <2>2. CASE StateWord = kLockedNoWaiters
    <3>1. Queue = <<>>
      BY <1>4, <2>1, <2>2, WordMeaning DEF LockInv
    <3>2. Owners' = {}
      BY <1>1, <1>14, <2>1, <2>2 DEF UnlockRelease, Owners, OwnerPcs
    <3> QED
      BY <2>1, <3>1, <3>2
  <2>3. CASE StateWord # kLockedNoWaiters
    BY <1>1, <1>6, <1>14, <2>1, <2>3 DEF UnlockRelease, OwnerPcs
  <2> QED
    BY <2>2, <2>3
<1>15. CASE UnlockExchange(t, c)
  <2>1. fifo = <<>> /\ fifo' = Reverse(lifo) /\ lifo' = <<>>
    BY <1>15 DEF UnlockExchange, TakeReversed, LockInv
  <2>2. Reverse(lifo) \in Seq(Coros) /\ Reverse(<<>>) = <<>>
    BY <1>1, ReverseType DEF Reverse
  <2>3. Queue' = Queue
    BY <2>1, <2>2 DEF Queue
  <2> QED
    BY <1>1, <1>6, <1>15, <2>3 DEF UnlockExchange, OwnerPcs
<1>16. CASE UnlockResume(t, c)
  <2>1. fifo # <<>> /\ Owners = {c}
    BY <1>3, <1>16 DEF UnlockResume, LockInv, UnlockAsserts, OwnerPcs
  <2>2. Reverse(lifo) \in Seq(Coros)
    BY <1>1, ReverseType
  <2>3. Queue # <<>> /\ Head(Queue) = Head(fifo) /\ Queue' = Tail(Queue)
    BY <1>1, <1>16, <2>1, <2>2, PopIsTail DEF UnlockResume, PopHead, Queue
  <2>4. Owners' = {Head(fifo)}
    <3>1. Head(fifo) \in Coros
      BY <1>1, <2>1
    <3>2. \A d \in Coros : pc[d] \in OwnerPcs => d = c
      BY <2>1 DEF Owners
    <3> QED
      BY <1>1, <1>16, <3>1, <3>2 DEF UnlockResume, Owners, OwnerPcs
  <2> QED
    BY <2>1, <2>3, <2>4
<1> QED
  BY <1>7, <1>8, <1>9, <1>10, <1>11, <1>12, <1>13, <1>14, <1>15, <1>16
  DEF Step, Lock, Unlock

\* The lock-free mutex implements the abstract FIFO mutex: one owner, handed
\* over to the coroutine that has waited longest, with nobody overtaking.
THEOREM MutexImplementsFifo == Spec => ImplementsFifo
<1>1. Init => Fifo!Init
  BY DEF Init, Fifo!Init, Owners, OwnerPcs, Reverse
<1>2. LockInv /\ WaitersListed /\ [Next]_vars => [Fifo!Next]_(Fifo!vars)
  <2> SUFFICES ASSUME LockInv, WaitersListed, [Next]_vars
               PROVE  [Fifo!Next]_(Fifo!vars)
    OBVIOUS
  <2>1. CASE Next
    <3>1. PICK t \in Threads, c \in Coros : Step(t, c)
      BY <2>1 DEF Next
    <3>2. \/ Owners' = Owners /\ Queue' = Queue
          \/ Fifo!Acquire(c) \/ Fifo!Enqueue(c) \/ Fifo!Release(c) \/ Fifo!HandOver(c)
      BY <3>1, FifoStep
      DEF Queue, Fifo!Acquire, Fifo!Enqueue, Fifo!Release, Fifo!HandOver
    <3> QED
      BY <3>2 DEF Fifo!Next, Fifo!vars, Queue
  <2>2. CASE UNCHANGED vars
    BY <2>2 DEF vars, Fifo!vars, Owners
  <2> QED
    BY <2>1, <2>2
<1> QED
  BY <1>1, <1>2, LockInvariant, WaitersAreListed, PTL DEF Spec, ImplementsFifo, Fifo!Spec

-----------------------------------------------------------------------------
(* The timer queue.  Induction on the rounds of a loop.                    *)

LEMMA SetInduction ==
  ASSUME NEW T, 0 \in T, \A n \in Nat : n \in T => n + 1 \in T
  PROVE  \A n \in Nat : n \in T
<1> DEFINE Out == {n \in Nat : n \notin T}
           Less == OpToRel(<, Nat)
<1>1. SUFFICES ASSUME Out # {} PROVE FALSE
  OBVIOUS
<1>2. PICK x \in Out : \A y \in Out : ~(<<y, x>> \in Less)
  <2>1. IsWellFoundedOn(Less, Nat)
    BY NatLessThanWellFounded
  <2>2. Out \subseteq Nat
    OBVIOUS
  <2> HIDE DEF Out, Less
  <2> QED
    BY <1>1, <2>1, <2>2, WFMin
<1>3. x # 0 /\ x \in Nat
  OBVIOUS
<1>4. x - 1 \in Nat /\ x - 1 < x /\ (x - 1) + 1 = x
  BY <1>3
<1>5. x - 1 \notin T
  BY <1>4
<1>6. x - 1 \in Out
  BY <1>4, <1>5
<1>7. <<x - 1, x>> \in Less
  BY <1>3, <1>4 DEF OpToRel
<1> QED
  BY <1>2, <1>6, <1>7

-----------------------------------------------------------------------------
(* The loops of the queue.                                                 *)

\* A round of one of the three loops.
Round(loop, s) ==
  IF loop = "Fixup" THEN Rise(s) ELSE IF loop = "FixDown" THEN Sink(s) ELSE TakeDue(s)

LEMMA RoundIs ==
  \A s : /\ Round("Fixup", s) = Rise(s)
         /\ Round("FixDown", s) = Sink(s)
         /\ Round("HandleTimeout", s) = TakeDue(s)
BY DEF Round

\* g lists the states a loop goes through.
Rounds(g, loop, start, k) ==
  g = [n \in 0..k |-> IF n = 0 THEN start ELSE Round(loop, g[n - 1])]

LEMMA RoundsExist ==
  ASSUME NEW loop, NEW start, NEW k \in Nat
  PROVE  \E g : Rounds(g, loop, start, k)
<1> DEFINE D(s) == Round(loop, s)
           R(g, n) == g = [i \in 0..n |-> IF i = 0 THEN start ELSE D(g[i - 1])]
           T == {n \in Nat : \E g : R(g, n)}
<1> HIDE DEF D
<1>1. 0 \in T
  <2> DEFINE g == [i \in 0..0 |-> start]
  <2>1. g = [i \in 0..0 |-> IF i = 0 THEN start ELSE D(g[i - 1])]
    OBVIOUS
  <2> QED
    BY <2>1
<1>2. ASSUME NEW n \in Nat, n \in T PROVE n + 1 \in T
  <2>1. PICK g : R(g, n)
    BY <1>2
  <2> DEFINE h == [i \in 0..(n + 1) |-> IF i = n + 1 THEN D(g[n]) ELSE g[i]]
  <2>2. ASSUME NEW i \in 0..(n + 1) PROVE h[i] = IF i = 0 THEN start ELSE D(h[i - 1])
    <3>1. CASE i = 0
      BY <2>1, <3>1
    <3>2. CASE i = n + 1
      <4>1. n \in 0..(n + 1) /\ n # n + 1 /\ i - 1 = n /\ i # 0
        BY <3>2
      <4>2. h[n] = g[n] /\ h[i] = D(g[n])
        BY <3>2, <4>1
      <4> HIDE DEF h
      <4> QED
        BY <3>2, <4>1, <4>2
    <3>3. CASE i # 0 /\ i # n + 1
      <4>1. i - 1 \in 0..(n + 1) /\ i - 1 # n + 1 /\ i \in 0..n /\ i - 1 \in 0..n
        BY <3>3
      <4>2. h[i] = g[i] /\ h[i - 1] = g[i - 1]
        BY <3>3, <4>1
      <4>3. g[i] = D(g[i - 1])
        BY <2>1, <3>3, <4>1
      <4> HIDE DEF h
      <4> QED
        BY <3>3, <4>2, <4>3
    <3> QED
      BY <3>1, <3>2, <3>3
  <2>3. h = [i \in 0..(n + 1) |-> h[i]]
    OBVIOUS
  <2>4. R(h, n + 1)
    <3> HIDE DEF h
    <3> QED
      BY <2>2, <2>3
  <2>5. n + 1 \in Nat
    OBVIOUS
  <2> HIDE DEF h, R
  <2> QED
    BY <2>4, <2>5
<1>3. \A n \in Nat : n \in T
  <2>1. \A n \in Nat : n \in T => n + 1 \in T
    BY <1>2
  <2> HIDE DEF T
  <2> QED
    BY <1>1, <2>1, SetInduction
<1>4. PICK g : R(g, k)
  BY <1>3
<1> QED
  BY <1>4 DEF Rounds, D

LEMMA FixupRounds ==
  ASSUME NEW p, NEW son \in Nat
  PROVE  \E g : /\ Rounds(g, "Fixup", [q |-> p, at |-> son], son)
                /\ Fixup(p, son) = g[son].q
<1> DEFINE Chosen(x) == CHOOSE s \in {Rise(r) : r \in {x}} : TRUE
           R(g) == g = [n \in 0..son |-> IF n = 0 THEN [q |-> p, at |-> son] ELSE Chosen(g[n - 1])]
           f == CHOOSE g : R(g)
<1>1. \A x : Chosen(x) = Round("Fixup", x)
  <2> TAKE x
  <2>1. {Rise(r) : r \in {x}} = {Rise(x)}
    OBVIOUS
  <2> QED
    BY <2>1, RoundIs
<1>2. Fixup(p, son) = f[son].q
  BY DEF Fixup, Loop
<1> HIDE DEF Chosen
<1>3. PICK g : Rounds(g, "Fixup", [q |-> p, at |-> son], son)
  BY RoundsExist
<1>4. R(g)
  BY <1>1, <1>3 DEF Rounds
<1>5. R(f)
  BY <1>4
<1> HIDE DEF f
<1>6. Rounds(f, "Fixup", [q |-> p, at |-> son], son)
  BY <1>1, <1>5 DEF Rounds
<1> QED
  BY <1>2, <1>6

LEMMA FixDownRounds ==
  ASSUME NEW p, NEW parent, NEW k \in Nat, k = Len(p.heap)
  PROVE  \E g : /\ Rounds(g, "FixDown", [q |-> p, at |-> parent], k)
                /\ FixDown(p, parent) = g[k].q
<1> DEFINE Chosen(x) == CHOOSE s \in {Sink(r) : r \in {x}} : TRUE
           R(g) == g = [n \in 0..k |-> IF n = 0 THEN [q |-> p, at |-> parent] ELSE Chosen(g[n - 1])]
           f == CHOOSE g : R(g)
<1>1. \A x : Chosen(x) = Round("FixDown", x)
  <2> TAKE x
  <2>1. {Sink(r) : r \in {x}} = {Sink(x)}
    OBVIOUS
  <2> QED
    BY <2>1, RoundIs
<1>2. FixDown(p, parent) = f[k].q
  BY DEF FixDown, Loop
<1> HIDE DEF Chosen
<1>3. PICK g : Rounds(g, "FixDown", [q |-> p, at |-> parent], k)
  BY RoundsExist
<1>4. R(g)
  BY <1>1, <1>3 DEF Rounds
<1>5. R(f)
  BY <1>4
<1> HIDE DEF f
<1>6. Rounds(f, "FixDown", [q |-> p, at |-> parent], k)
  BY <1>1, <1>5 DEF Rounds
<1> QED
  BY <1>2, <1>6

LEMMA CollectRounds ==
  ASSUME NEW p, NEW k \in Nat, k = Len(p.heap)
  PROVE  \E g : /\ Rounds(g, "HandleTimeout", [q |-> p, out |-> <<>>], k)
                /\ Collect(p) = g[k]
<1> DEFINE Chosen(x) == CHOOSE s \in {TakeDue(r) : r \in {x}} : TRUE
           R(g) == g = [n \in 0..k |-> IF n = 0 THEN [q |-> p, out |-> <<>>] ELSE Chosen(g[n - 1])]
           f == CHOOSE g : R(g)
<1>1. \A x : Chosen(x) = Round("HandleTimeout", x)
  <2> TAKE x
  <2>1. {TakeDue(r) : r \in {x}} = {TakeDue(x)}
    OBVIOUS
  <2> QED
    BY <2>1, RoundIs
<1>2. Collect(p) = f[k]
  BY DEF Collect, Loop
<1> HIDE DEF Chosen
<1>3. PICK g : Rounds(g, "HandleTimeout", [q |-> p, out |-> <<>>], k)
  BY RoundsExist
<1>4. R(g)
  BY <1>1, <1>3 DEF Rounds
<1>5. R(f)
  BY <1>4
<1> HIDE DEF f
<1>6. Rounds(f, "HandleTimeout", [q |-> p, out |-> <<>>], k)
  BY <1>1, <1>5 DEF Rounds
<1> QED
  BY <1>2, <1>6

-----------------------------------------------------------------------------
(* The order of nodes, and positions in the heap.                          *)

NotAfter(a, b) == ~After(a, b)

LEMMA OrderFacts ==
  /\ \A a, b \in Node : NotAfter(a, b) \/ NotAfter(b, a)
  /\ \A a, b, c \in Node : NotAfter(a, b) /\ NotAfter(b, c) => NotAfter(a, c)
<1>1. \A e \in Expiries : e \in Int
  BY NumberAssumption
<1>2. \A n \in Ids : n \in Int
  BY NumberAssumption DEF Ids
<1>3. \A a \in Node : a.timerId \in Ids /\ a.expiry \in Expiries
  BY DEF Node
<1> HIDE DEF Node
<1>4. \A a \in Node : a.timerId \in Int /\ a.expiry \in Int
  BY <1>1, <1>2, <1>3
<1> QED
  BY <1>4 DEF NotAfter, After

LEMMA ParentFacts ==
  /\ \A i \in Nat \ {0} : Parent(i) \in Nat /\ Parent(i) < i /\ i \in {Parent(i) * 2 + 1, Parent(i) * 2 + 2}
  /\ \A k \in Nat : Parent(k * 2 + 1) = k /\ Parent(k * 2 + 2) = k
BY DEF Parent

\* The heap and the map describe each other.
Linked(p) ==
  /\ p = [heap |-> p.heap, index |-> p.index]
  /\ p.heap \in Seq(Node)
  /\ p.index \in [DOMAIN p.index -> Nat]
  /\ DOMAIN p.index \subseteq Ids
  /\ \A n \in 1..Len(p.heap) :
       p.heap[n].timerId \in DOMAIN p.index /\ p.index[p.heap[n].timerId] = n - 1
  /\ \A i \in DOMAIN p.index :
       p.index[i] < Len(p.heap) /\ p.heap[p.index[i] + 1].timerId = i

LEMMA Swapped ==
  ASSUME NEW p, Linked(p), NEW i \in 0..(Len(p.heap) - 1), NEW j \in 0..(Len(p.heap) - 1), i # j
  PROVE  LET r == SwapNodes(p, i, j) IN
         /\ Linked(r) /\ Contents(r) = Contents(p) /\ Len(r.heap) = Len(p.heap)
         /\ \A n \in 0..(Len(p.heap) - 1) :
              At(r.heap, n) = IF n = i THEN At(p.heap, j)
                              ELSE IF n = j THEN At(p.heap, i) ELSE At(p.heap, n)
<1> DEFINE h == p.heap
           m == p.index
           a == h[i + 1].timerId
           b == h[j + 1].timerId
           g == [h EXCEPT ![i + 1] = h[j + 1], ![j + 1] = h[i + 1]]
           x == [m EXCEPT ![a] = m[b], ![b] = m[a]]
           r == [heap |-> g, index |-> x]
<1>1. SwapNodes(p, i, j) = r
  BY DEF SwapNodes, At
<1>2. /\ h \in Seq(Node) /\ Len(h) \in Nat /\ DOMAIN h = 1..Len(h)
      /\ m \in [DOMAIN m -> Nat] /\ DOMAIN m \subseteq Ids
      /\ \A n \in 1..Len(h) : h[n] \in Node /\ h[n].timerId \in DOMAIN m /\ m[h[n].timerId] = n - 1
      /\ \A k \in DOMAIN m : m[k] < Len(h) /\ h[m[k] + 1].timerId = k
  BY DEF Linked
<1> HIDE DEF h, m
<1>3. i \in Nat /\ j \in Nat /\ i + 1 \in 1..Len(h) /\ j + 1 \in 1..Len(h)
  BY <1>2 DEF h
<1>4. g \in Seq(Node) /\ Len(g) = Len(h) /\ DOMAIN g = 1..Len(h)
  BY <1>2, <1>3
<1>5. \A n \in 1..Len(h) : g[n] = IF n = i + 1 THEN h[j + 1] ELSE IF n = j + 1 THEN h[i + 1] ELSE h[n]
  BY <1>2, <1>3
<1>6. a \in DOMAIN m /\ b \in DOMAIN m /\ m[a] = i /\ m[b] = j /\ a # b
  BY <1>2, <1>3
<1>7. /\ DOMAIN x = DOMAIN m
      /\ \A k \in DOMAIN m : x[k] = IF k = a THEN j ELSE IF k = b THEN i ELSE m[k]
  BY <1>2, <1>6
<1>8. x \in [DOMAIN x -> Nat]
  BY <1>2, <1>3, <1>6
<1>9. r.heap = g /\ r.index = x
  OBVIOUS
<1> HIDE DEF g, x, r
<1>10. ASSUME NEW n \in 1..Len(g) PROVE g[n].timerId \in DOMAIN x /\ x[g[n].timerId] = n - 1
  <2>1. CASE n = i + 1
    BY <2>1, <1>2, <1>3, <1>4, <1>5, <1>6, <1>7 DEF b
  <2>2. CASE n = j + 1
    BY <2>2, <1>2, <1>3, <1>4, <1>5, <1>6, <1>7 DEF a
  <2>3. CASE n # i + 1 /\ n # j + 1
    <3>1. g[n] = h[n] /\ n \in 1..Len(h)
      BY <2>3, <1>4, <1>5
    <3>2. m[h[n].timerId] = n - 1 /\ h[n].timerId \in DOMAIN m
      BY <1>2, <3>1
    <3>3. h[n].timerId # a /\ h[n].timerId # b
      <4>1. n - 1 # i /\ n - 1 # j
        <5>1. n \in Nat
          BY <3>1, <1>2
        <5> QED
          BY <5>1, <2>3, <1>3
      <4> HIDE DEF a, b
      <4> QED
        BY <4>1, <3>2, <1>6
    <3> QED
      BY <3>1, <3>2, <3>3, <1>7
  <2> QED
    BY <2>1, <2>2, <2>3
<1>11. ASSUME NEW k \in DOMAIN x
       PROVE  /\ x[k] \in Nat /\ x[k] < Len(g) /\ g[x[k] + 1].timerId = k
              /\ g[x[k] + 1] = h[m[k] + 1]
  <2>1. CASE k = a
    BY <2>1, <1>2, <1>3, <1>4, <1>5, <1>6, <1>7 DEF a
  <2>2. CASE k = b
    BY <2>2, <1>2, <1>3, <1>4, <1>5, <1>6, <1>7 DEF b
  <2>3. CASE k # a /\ k # b
    <3>1. x[k] = m[k] /\ k \in DOMAIN m /\ m[k] \in Nat /\ m[k] < Len(h) /\ h[m[k] + 1].timerId = k
      BY <2>3, <1>2, <1>7
    <3>2. m[k] + 1 \in 1..Len(h) /\ m[k] + 1 # i + 1 /\ m[k] + 1 # j + 1
      BY <3>1, <2>3, <1>2, <1>3 DEF a, b
    <3> QED
      BY <3>1, <3>2, <1>4, <1>5
  <2> QED
    BY <2>1, <2>2, <2>3
<1>12. Linked(r)
  <2>1. r = [heap |-> r.heap, index |-> r.index]
    BY <1>9 DEF r
  <2> QED
    BY <2>1, <1>2, <1>4, <1>7, <1>8, <1>9, <1>10, <1>11 DEF Linked
<1>13. Contents(r) = Contents(p)
  <2>1. \A k \in DOMAIN m : g[x[k] + 1] = h[m[k] + 1]
    BY <1>7, <1>11
  <2> QED
    BY <2>1, <1>7, <1>9 DEF Contents, At, h, m
<1>14. ASSUME NEW n \in 0..(Len(p.heap) - 1)
       PROVE  At(r.heap, n) = IF n = i THEN At(p.heap, j) ELSE IF n = j THEN At(p.heap, i) ELSE At(p.heap, n)
  <2>1. n \in Nat /\ n + 1 \in 1..Len(h)
    BY <1>2 DEF h
  <2>2. g[n + 1] = IF n = i THEN h[j + 1] ELSE IF n = j THEN h[i + 1] ELSE h[n + 1]
    BY <2>1, <1>3, <1>5
  <2> QED
    BY <2>2, <1>9 DEF At, h
<1> QED
  BY <1>1, <1>4, <1>9, <1>12, <1>13, <1>14 DEF h

-----------------------------------------------------------------------------
(* Fixup and FixDown.                                                      *)

\* Positions of the code are numbers from 0.
Places(h) == 0..(Len(h) - 1)
Sons(h) == 1..(Len(h) - 1)

HeapOrder(h) == \A i \in Sons(h) : NotAfter(At(h, Parent(i)), At(h, i))

\* Only the node at place o may be too early for its parent.
EarlyAt(h, o) ==
  \A i \in Sons(h) :
    /\ i # o => NotAfter(At(h, Parent(i)), At(h, i))
    /\ Parent(i) = o /\ o > 0 => NotAfter(At(h, Parent(o)), At(h, i))

\* Only the node at place k may be too late for its sons, and the one at place
\* o, where FixDown began, too early for its parent.
LateAt(h, o, k) ==
  /\ \A i \in Sons(h) :
       /\ Parent(i) # k /\ i # o => NotAfter(At(h, Parent(i)), At(h, i))
       /\ Parent(i) = k /\ k > 0 => NotAfter(At(h, Parent(k)), At(h, i))
  /\ k # o /\ o > 0 => NotAfter(At(h, Parent(o)), At(h, o))

LEMMA PlaceFacts ==
  ASSUME NEW h \in Seq(Node)
  PROVE  /\ Len(h) \in Nat
         /\ \A i \in Places(h) : i \in Nat /\ i < Len(h) /\ At(h, i) \in Node
         /\ \A i \in Nat : i < Len(h) => i \in Places(h)
         /\ \A i \in Sons(h) : /\ i \in Nat \ {0} /\ i \in Places(h) /\ Parent(i) \in Places(h)
                               /\ Parent(i) < i /\ i \in {Parent(i) * 2 + 1, Parent(i) * 2 + 2}
         /\ \A i \in Places(h) : i # 0 => i \in Sons(h)
<1>1. Len(h) \in Nat /\ \A n \in 1..Len(h) : h[n] \in Node
  OBVIOUS
<1>2. \A i \in Places(h) : i \in Nat /\ i < Len(h) /\ i + 1 \in 1..Len(h)
  BY <1>1 DEF Places
<1>3. \A i \in Sons(h) : i \in Nat \ {0} /\ i < Len(h)
  BY <1>1 DEF Sons
<1>4. \A i \in Sons(h) : Parent(i) \in Nat /\ Parent(i) < i /\ i \in {Parent(i) * 2 + 1, Parent(i) * 2 + 2}
  BY <1>3, ParentFacts
<1>5. \A i \in Nat : i < Len(h) => i \in Places(h)
  BY <1>1 DEF Places
<1>6. \A i \in Sons(h) : Parent(i) < Len(h)
  BY <1>1, <1>3, <1>4
<1>7. \A i \in Places(h) : i # 0 => i \in Sons(h)
  BY <1>1 DEF Sons, Places
<1> QED
  BY <1>1, <1>2, <1>3, <1>4, <1>5, <1>6, <1>7 DEF At

\* A round of Fixup moves the exception up.
LEMMA RiseOrder ==
  ASSUME NEW h \in Seq(Node), NEW g \in Seq(Node), Len(g) = Len(h),
         NEW k \in Sons(h), EarlyAt(h, k), ~NotAfter(At(h, Parent(k)), At(h, k)),
         \A n \in Places(h) : At(g, n) = IF n = Parent(k) THEN At(h, k)
                                         ELSE IF n = k THEN At(h, Parent(k)) ELSE At(h, n)
  PROVE  EarlyAt(g, Parent(k))
<1> DEFINE u == Parent(k)
<1>1. k \in Nat \ {0} /\ k \in Places(h) /\ u \in Places(h) /\ u \in Nat /\ u < k
  BY PlaceFacts
<1>2. At(h, k) \in Node /\ At(h, u) \in Node /\ NotAfter(At(h, k), At(h, u))
  BY <1>1, PlaceFacts, OrderFacts
<1>3. At(g, u) = At(h, k) /\ At(g, k) = At(h, u)
  BY <1>1
<1>4. Sons(g) = Sons(h) /\ Places(g) = Places(h)
  BY DEF Sons, Places
<1> HIDE DEF u
<1>5. u > 0 => Parent(u) \in Places(h) /\ Parent(u) < u /\ u \in Sons(h) /\ At(h, Parent(u)) \in Node
  <2> SUFFICES ASSUME u > 0 PROVE Parent(u) \in Places(h) /\ Parent(u) < u /\ u \in Sons(h) /\ At(h, Parent(u)) \in Node
    OBVIOUS
  <2>1. u \in Sons(h)
    BY <1>1, PlaceFacts
  <2> QED
    BY <2>1, PlaceFacts
<1>6. u > 0 => At(g, Parent(u)) = At(h, Parent(u)) /\ NotAfter(At(h, Parent(u)), At(h, u))
  <2> SUFFICES ASSUME u > 0 PROVE At(g, Parent(u)) = At(h, Parent(u)) /\ NotAfter(At(h, Parent(u)), At(h, u))
    OBVIOUS
  <2>1. Parent(u) \in Nat
    BY <1>5, PlaceFacts
  <2>2. Parent(u) # u /\ Parent(u) # k /\ u # k
    BY <2>1, <1>1, <1>5
  <2> QED
    BY <2>2, <1>5 DEF EarlyAt, u
<1>7. ASSUME NEW i \in Sons(h), i # u
      PROVE  NotAfter(At(g, Parent(i)), At(g, i))
  <2>1. i \in Nat /\ i \in Places(h) /\ Parent(i) \in Places(h) /\ Parent(i) \in Nat /\ Parent(i) < i
    BY PlaceFacts
  <2>2. At(h, i) \in Node /\ At(h, Parent(i)) \in Node
    BY <2>1, PlaceFacts
  <2>3. CASE i = k
    BY <2>3, <1>2, <1>3 DEF u
  <2>4. CASE i # k /\ Parent(i) = k
    <3>1. At(g, i) = At(h, i)
      BY <2>1, <2>4, <1>7 DEF u
    <3>2. NotAfter(At(h, u), At(h, i))
      BY <2>4, <1>1 DEF EarlyAt, u
    <3> QED
      BY <3>1, <3>2, <2>4, <1>3
  <2>5. CASE i # k /\ Parent(i) = u
    <3>1. At(g, i) = At(h, i)
      BY <2>1, <2>5, <1>7 DEF u
    <3>2. NotAfter(At(h, u), At(h, i))
      BY <2>5 DEF EarlyAt
    <3> QED
      BY <3>1, <3>2, <2>2, <2>5, <1>2, <1>3, OrderFacts
  <2>6. CASE i # k /\ Parent(i) # k /\ Parent(i) # u
    <3>1. At(g, i) = At(h, i) /\ At(g, Parent(i)) = At(h, Parent(i))
      BY <2>1, <2>6, <1>7 DEF u
    <3> QED
      BY <3>1, <2>6 DEF EarlyAt
  <2> QED
    BY <2>3, <2>4, <2>5, <2>6
<1>8. ASSUME NEW i \in Sons(h), Parent(i) = u, u > 0
      PROVE  NotAfter(At(g, Parent(u)), At(g, i))
  <2>1. i \in Places(h) /\ i # u /\ At(h, i) \in Node
    BY <1>8, <1>1, PlaceFacts
  <2>2. CASE i = k
    BY <2>2, <1>3, <1>6, <1>8
  <2>3. CASE i # k
    <3>1. At(g, i) = At(h, i) /\ NotAfter(At(h, u), At(h, i))
      BY <2>1, <2>3, <1>8 DEF EarlyAt, u
    <3> QED
      BY <3>1, <2>1, <1>2, <1>5, <1>6, <1>8, OrderFacts
  <2> QED
    BY <2>2, <2>3
<1> QED
  BY <1>4, <1>7, <1>8 DEF EarlyAt, u

\* A round of FixDown moves the exception to the earlier son.
LEMMA SinkOrder ==
  ASSUME NEW h \in Seq(Node), NEW g \in Seq(Node), Len(g) = Len(h),
         NEW o \in Places(h), NEW k \in Places(h), o <= k, LateAt(h, o, k),
         NEW s \in Sons(h), Parent(s) = k, NotAfter(At(h, s), At(h, k)),
         \A i \in Sons(h) : Parent(i) = k => NotAfter(At(h, s), At(h, i)),
         \A n \in Places(h) : At(g, n) = IF n = k THEN At(h, s)
                                         ELSE IF n = s THEN At(h, k) ELSE At(h, n)
  PROVE  LateAt(g, o, s)
<1>1. s \in Places(h) /\ s \in Nat /\ k \in Nat /\ o \in Nat /\ k < s /\ o # s
  BY PlaceFacts
<1>2. At(g, k) = At(h, s) /\ At(g, s) = At(h, k)
  BY <1>1
<1>3. Sons(g) = Sons(h)
  BY DEF Sons
<1>4. ASSUME NEW i \in Sons(h)
      PROVE  /\ i \in Nat /\ i \in Places(h) /\ Parent(i) \in Places(h) /\ Parent(i) \in Nat
             /\ Parent(i) < i
  BY PlaceFacts
<1>5. ASSUME NEW i \in Sons(h), Parent(i) # s, i # o
      PROVE  NotAfter(At(g, Parent(i)), At(g, i))
  <2>1. CASE i = s
    BY <2>1, <1>2
  <2>2. CASE i # s /\ Parent(i) = k
    <3>1. i # k
      BY <2>2, <1>4
    <3> QED
      BY <3>1, <2>2, <1>2, <1>4
  <2>3. CASE i = k
    <3>1. k > 0 /\ Parent(k) # k /\ Parent(k) # s
      BY <2>3, <1>1, <1>4
    <3>2. NotAfter(At(h, Parent(k)), At(h, s))
      BY <3>1 DEF LateAt
    <3>3. At(g, Parent(k)) = At(h, Parent(k))
      BY <3>1, <2>3, <1>4
    <3> QED
      BY <3>2, <3>3, <2>3, <1>2
  <2>4. CASE i # s /\ i # k /\ Parent(i) # k
    <3>1. At(g, i) = At(h, i) /\ At(g, Parent(i)) = At(h, Parent(i))
      BY <2>4, <1>4, <1>5
    <3> QED
      BY <3>1, <2>4, <1>5 DEF LateAt
  <2> QED
    BY <2>1, <2>2, <2>3, <2>4
<1>6. ASSUME NEW i \in Sons(h), Parent(i) = s
      PROVE  NotAfter(At(g, Parent(s)), At(g, i))
  <2>1. i # s /\ i # k /\ i # o
    BY <1>1, <1>4, <1>6
  <2>2. At(g, i) = At(h, i)
    BY <2>1, <1>4
  <2>3. NotAfter(At(h, s), At(h, i))
    BY <2>1, <1>1, <1>6 DEF LateAt
  <2> QED
    BY <2>2, <2>3, <1>2
<1>7. o > 0 => NotAfter(At(g, Parent(o)), At(g, o))
  <2> SUFFICES ASSUME o > 0 PROVE NotAfter(At(g, Parent(o)), At(g, o))
    OBVIOUS
  <2>1. o \in Sons(h)
    BY PlaceFacts
  <2>2. Parent(o) \in Places(h) /\ Parent(o) # k /\ Parent(o) # s
    BY <2>1, <1>1, <1>4
  <2>3. At(g, Parent(o)) = At(h, Parent(o))
    BY <2>2
  <2>4. CASE o = k
    BY <2>3, <2>4, <1>2 DEF LateAt
  <2>5. CASE o # k
    BY <2>3, <2>5, <1>1 DEF LateAt
  <2> QED
    BY <2>4, <2>5
<1> QED
  BY <1>3, <1>5, <1>6, <1>7 DEF LateAt

\* r is a queue with the timers of p.
SameTimers(p, r) == Linked(r) /\ Contents(r) = Contents(p) /\ Len(r.heap) = Len(p.heap)

\* The loop of Fixup would break out.
Risen(s) == s.at = 0 \/ NotAfter(At(s.q.heap, Parent(s.at)), At(s.q.heap, s.at))

LEMMA RiseRound ==
  ASSUME NEW s, Linked(s.q), s.at \in Places(s.q.heap), EarlyAt(s.q.heap, s.at)
  PROVE  /\ SameTimers(s.q, Rise(s).q)
         /\ Rise(s).at \in Places(s.q.heap)
         /\ EarlyAt(Rise(s).q.heap, Rise(s).at)
         /\ Risen(s) => Rise(s) = s
         /\ ~Risen(s) => Rise(s).at < s.at
<1> DEFINE h == s.q.heap
           k == s.at
           r == SwapNodes(s.q, Parent(k), k)
<1>1. h \in Seq(Node) /\ k \in Places(h) /\ k \in Nat
  BY PlaceFacts DEF Linked
<1>2. CASE Risen(s)
  <2>1. Rise(s) = s
    BY <1>1, <1>2 DEF Rise, Risen, NotAfter
  <2> QED
    BY <1>2, <2>1 DEF SameTimers
<1>3. CASE ~Risen(s)
  <2>1. k # 0 /\ k > 0 /\ After(At(h, Parent(k)), At(h, k)) /\ ~NotAfter(At(h, Parent(k)), At(h, k))
    BY <1>1, <1>3 DEF Risen, NotAfter
  <2>2. Rise(s) = [q |-> r, at |-> Parent(k)]
    BY <2>1 DEF Rise
  <2>3. k \in Sons(h) /\ Parent(k) \in Places(h) /\ Parent(k) < k /\ Parent(k) # k
    <3>1. k \in Sons(h)
      BY <1>1, <2>1, PlaceFacts
    <3>2. Parent(k) \in Places(h) /\ Parent(k) < k
      BY <1>1, <3>1, PlaceFacts
    <3>3. Parent(k) \in Nat
      BY <1>1, <3>2, PlaceFacts
    <3> QED
      BY <1>1, <3>1, <3>2, <3>3
  <2>4. /\ Linked(r) /\ Contents(r) = Contents(s.q) /\ Len(r.heap) = Len(h)
        /\ \A n \in Places(h) : At(r.heap, n) = IF n = Parent(k) THEN At(h, k)
                                                ELSE IF n = k THEN At(h, Parent(k)) ELSE At(h, n)
    BY <1>1, <2>3, Swapped DEF Places
  <2>5. r.heap \in Seq(Node)
    BY <2>4 DEF Linked
  <2> HIDE DEF r
  <2>6. EarlyAt(r.heap, Parent(k))
    BY <1>1, <2>1, <2>3, <2>4, <2>5, RiseOrder
  <2>7. Rise(s).q = r /\ Rise(s).at = Parent(k)
    BY <2>2
  <2> QED
    BY <1>3, <2>3, <2>4, <2>6, <2>7 DEF SameTimers
<1> QED
  BY <1>2, <1>3

LEMMA FixupWorks ==
  ASSUME NEW p, Linked(p), NEW son \in Places(p.heap), EarlyAt(p.heap, son)
  PROVE  SameTimers(p, Fixup(p, son)) /\ HeapOrder(Fixup(p, son).heap)
<1>1. son \in Nat /\ p.heap \in Seq(Node)
  BY PlaceFacts DEF Linked
<1>2. PICK g : Rounds(g, "Fixup", [q |-> p, at |-> son], son) /\ Fixup(p, son) = g[son].q
  BY <1>1, FixupRounds
<1> DEFINE Ok(s, n) == /\ SameTimers(p, s.q) /\ s.at \in Places(p.heap) /\ EarlyAt(s.q.heap, s.at)
                       /\ s.at <= son - n \/ Risen(s)
           T == {n \in Nat : n <= son => Ok(g[n], n)}
<1>3. 0 \in T
  <2>1. g[0] = [q |-> p, at |-> son]
    BY <1>1, <1>2 DEF Rounds
  <2>2. Ok(g[0], 0)
    BY <1>1, <2>1 DEF SameTimers
  <2> QED
    BY <2>2
<1>4. ASSUME NEW n \in Nat, n \in T PROVE n + 1 \in T
  <2> SUFFICES ASSUME n + 1 <= son PROVE Ok(g[n + 1], n + 1)
    OBVIOUS
  <2>1. Ok(g[n], n)
    BY <1>1, <1>4
  <2>2. g[n + 1] = Rise(g[n])
    <3>1. n + 1 \in 0..son /\ n + 1 # 0 /\ (n + 1) - 1 = n
      BY <1>1
    <3> QED
      BY <1>2, <3>1, RoundIs DEF Rounds
  <2> DEFINE s == g[n]
             r == Rise(s)
  <2>3. Places(s.q.heap) = Places(p.heap)
    BY <2>1 DEF SameTimers, Places
  <2>4. /\ SameTimers(s.q, r.q) /\ r.at \in Places(s.q.heap) /\ EarlyAt(r.q.heap, r.at)
        /\ Risen(s) => r = s
        /\ ~Risen(s) => r.at < s.at
    BY <2>1, <2>3, RiseRound DEF SameTimers
  <2>5. SameTimers(p, r.q)
    BY <2>1, <2>4 DEF SameTimers
  <2>6. r.at <= son - (n + 1) \/ Risen(r)
    <3>1. CASE Risen(s)
      BY <3>1, <2>4
    <3>2. CASE ~Risen(s)
      <4>1. r.at \in Nat /\ s.at \in Nat
        BY <1>1, <2>1, <2>3, <2>4, PlaceFacts
      <4> QED
        BY <1>1, <2>1, <2>4, <3>2, <4>1
    <3> QED
      BY <3>1, <3>2
  <2> HIDE DEF r, s
  <2> QED
    BY <2>2, <2>3, <2>4, <2>5, <2>6 DEF r, s
<1>5. Ok(g[son], son)
  <2>1. \A n \in Nat : n \in T => n + 1 \in T
    BY <1>4
  <2>2. \A n \in Nat : n \in T
    <3> HIDE DEF T
    <3> QED
      BY <1>3, <2>1, SetInduction
  <2> QED
    BY <1>1, <2>2
<1> DEFINE s == g[son]
<1>6. SameTimers(p, s.q) /\ s.at \in Places(p.heap) /\ EarlyAt(s.q.heap, s.at) /\ s.at \in Nat
  BY <1>1, <1>5, PlaceFacts
<1>7. Risen(s)
  BY <1>1, <1>5, <1>6 DEF Risen
<1>8. HeapOrder(s.q.heap)
  <2>1. s.q.heap \in Seq(Node)
    BY <1>6 DEF SameTimers, Linked
  <2>2. ASSUME NEW i \in Sons(s.q.heap) PROVE NotAfter(At(s.q.heap, Parent(i)), At(s.q.heap, i))
    <3>1. i # 0
      BY <2>1, PlaceFacts
    <3> QED
      BY <3>1, <1>6, <1>7 DEF EarlyAt, Risen
  <2> QED
    BY <2>2 DEF HeapOrder
<1> QED
  BY <1>2, <1>6, <1>8

-----------------------------------------------------------------------------
\* The loop of FixDown would end.
Sunk(s) ==
  \A i \in Sons(s.q.heap) : Parent(i) = s.at => NotAfter(At(s.q.heap, s.at), At(s.q.heap, i))

Stopped(s) == Sunk(s) /\ Sink(s) = s

LEMMA SonFacts ==
  ASSUME NEW h \in Seq(Node), NEW k \in Places(h), k * 2 + 1 < Len(h)
  PROVE  /\ EarlierSon(h, k) \in Sons(h) /\ Parent(EarlierSon(h, k)) = k
         /\ \A i \in Sons(h) : Parent(i) = k => NotAfter(At(h, EarlierSon(h, k)), At(h, i))
<1>1. k \in Nat /\ Len(h) \in Nat
  BY PlaceFacts
<1> DEFINE a == k * 2 + 1
           b == k * 2 + 2
<1>2. a \in Nat /\ b \in Nat /\ a + 1 = b /\ a # b
  BY <1>1
<1>3. a \in Sons(h) /\ (b < Len(h) => b \in Sons(h))
  BY <1>1 DEF Sons
<1>4. Parent(a) = k /\ Parent(b) = k
  BY <1>1, ParentFacts
<1>5. \A i \in Sons(h) : i < Len(h) /\ (Parent(i) = k => i \in {a, b})
  BY PlaceFacts
<1>6. \A i \in Sons(h) : At(h, i) \in Node
  BY PlaceFacts
<1>7. EarlierSon(h, k) = IF b < Len(h) /\ ~NotAfter(At(h, a), At(h, b)) THEN b ELSE a
  BY <1>2 DEF EarlierSon, NotAfter
<1> HIDE DEF a, b
<1>8. \A x \in Node : NotAfter(x, x)
  BY OrderFacts
<1>9. CASE b < Len(h) /\ ~NotAfter(At(h, a), At(h, b))
  BY <1>3, <1>4, <1>5, <1>6, <1>7, <1>8, <1>9, OrderFacts
<1>10. CASE ~(b < Len(h) /\ ~NotAfter(At(h, a), At(h, b)))
  BY <1>3, <1>4, <1>5, <1>6, <1>7, <1>8, <1>10, OrderFacts
<1> QED
  BY <1>9, <1>10

LEMMA SinkRound ==
  ASSUME NEW s, NEW o, Linked(s.q), s.at \in Places(s.q.heap), o \in Places(s.q.heap),
         o <= s.at, LateAt(s.q.heap, o, s.at)
  PROVE  /\ SameTimers(s.q, Sink(s).q)
         /\ Sink(s).at \in Places(s.q.heap) /\ o <= Sink(s).at
         /\ LateAt(Sink(s).q.heap, o, Sink(s).at)
         /\ Stopped(s) \/ s.at < Sink(s).at
<1> DEFINE h == s.q.heap
           k == s.at
           e == EarlierSon(h, k)
           r == SwapNodes(s.q, k, e)
           Go == k * 2 + 1 < Len(h) /\ ~After(At(h, e), At(h, k))
<1>1. h \in Seq(Node) /\ k \in Places(h) /\ k \in Nat /\ o \in Nat /\ Len(h) \in Nat
  BY PlaceFacts DEF Linked
<1>2. CASE ~Go
  <2>1. Sink(s) = s
    BY <1>2 DEF Sink
  <2>2. Sunk(s)
    <3>1. CASE ~(k * 2 + 1 < Len(h))
      <4>1. ASSUME NEW i \in Sons(h), Parent(i) = k PROVE FALSE
        <5>1. i \in Nat /\ i < Len(h) /\ i \in {k * 2 + 1, k * 2 + 2}
          BY <1>1, <4>1, PlaceFacts
        <5> QED
          BY <1>1, <3>1, <5>1
      <4> QED
        BY <4>1 DEF Sunk
    <3>2. CASE k * 2 + 1 < Len(h)
      <4>1. /\ e \in Sons(h) /\ Parent(e) = k
            /\ \A i \in Sons(h) : Parent(i) = k => NotAfter(At(h, e), At(h, i))
        BY <1>1, <3>2, SonFacts
      <4>2. ~NotAfter(At(h, e), At(h, k))
        BY <1>2, <3>2 DEF NotAfter
      <4> HIDE DEF e
      <4>3. \A i \in Places(h) : At(h, i) \in Node
        BY <1>1, PlaceFacts
      <4>4. \A i \in Sons(h) : i \in Places(h)
        BY <1>1, PlaceFacts
      <4>5. NotAfter(At(h, k), At(h, e))
        BY <1>1, <4>1, <4>2, <4>3, <4>4, OrderFacts
      <4>6. ASSUME NEW i \in Sons(h), Parent(i) = k PROVE NotAfter(At(h, k), At(h, i))
        <5>1. At(h, k) \in Node /\ At(h, e) \in Node /\ At(h, i) \in Node
          BY <1>1, <4>1, <4>3, <4>4
        <5>2. NotAfter(At(h, e), At(h, i))
          BY <4>1, <4>6
        <5> QED
          BY <4>5, <5>1, <5>2, OrderFacts
      <4> QED
        BY <4>6 DEF Sunk
    <3> QED
      BY <3>1, <3>2
  <2> QED
    BY <2>1, <2>2 DEF SameTimers, Stopped
<1>3. CASE Go
  <2>1. Sink(s) = [q |-> r, at |-> e]
    BY <1>3 DEF Sink
  <2>2. /\ e \in Sons(h) /\ Parent(e) = k
        /\ \A i \in Sons(h) : Parent(i) = k => NotAfter(At(h, e), At(h, i))
    BY <1>1, <1>3, SonFacts
  <2>3. NotAfter(At(h, e), At(h, k))
    BY <1>3 DEF NotAfter
  <2> HIDE DEF e
  <2>4. e \in Places(h) /\ e \in Nat /\ k < e /\ k # e /\ o <= e
    <3>1. e \in Places(h) /\ k < e
      BY <1>1, <2>2, PlaceFacts
    <3>2. e \in Nat
      BY <1>1, <3>1, PlaceFacts
    <3> QED
      BY <1>1, <3>1, <3>2
  <2>5. /\ Linked(r) /\ Contents(r) = Contents(s.q) /\ Len(r.heap) = Len(h)
        /\ \A n \in Places(h) : At(r.heap, n) = IF n = k THEN At(h, e)
                                                ELSE IF n = e THEN At(h, k) ELSE At(h, n)
    <3>1. k \in 0..(Len(h) - 1) /\ e \in 0..(Len(h) - 1)
      BY <1>1, <2>4 DEF Places
    <3>2. Places(h) = 0..(Len(h) - 1)
      BY DEF Places
    <3>3. k # e
      BY <2>4
    <3>4. /\ Linked(r) /\ Contents(r) = Contents(s.q) /\ Len(r.heap) = Len(h)
          /\ \A n \in 0..(Len(h) - 1) : At(r.heap, n) = IF n = k THEN At(h, e)
                                                        ELSE IF n = e THEN At(h, k) ELSE At(h, n)
      BY <3>1, <3>3, Swapped, SMTT(30)
    <3> HIDE DEF r
    <3> QED
      BY <3>2, <3>4
  <2>6. r.heap \in Seq(Node)
    BY <2>5 DEF Linked
  <2> HIDE DEF r
  <2>7. LateAt(r.heap, o, e)
    BY <1>1, <2>2, <2>3, <2>5, <2>6, SinkOrder
  <2>8. Sink(s).q = r /\ Sink(s).at = e
    BY <2>1
  <2> QED
    BY <2>4, <2>5, <2>7, <2>8 DEF SameTimers
<1> QED
  BY <1>2, <1>3

\* FixDown leaves at most the node where it began too early for its parent.
LEMMA FixDownWorks ==
  ASSUME NEW p, Linked(p), NEW o \in Places(p.heap), LateAt(p.heap, o, o)
  PROVE  SameTimers(p, FixDown(p, o)) /\ EarlyAt(FixDown(p, o).heap, o)
<1> DEFINE k == Len(p.heap)
<1>1. o \in Nat /\ p.heap \in Seq(Node) /\ k \in Nat /\ o < k
  BY PlaceFacts DEF Linked
<1>2. PICK g : Rounds(g, "FixDown", [q |-> p, at |-> o], k) /\ FixDown(p, o) = g[k].q
  BY <1>1, FixDownRounds
<1> DEFINE Ok(s, n) == /\ SameTimers(p, s.q) /\ s.at \in Places(p.heap) /\ o <= s.at /\ LateAt(s.q.heap, o, s.at)
                       /\ o + n <= s.at \/ Stopped(s)
           T == {n \in Nat : n <= k => Ok(g[n], n)}
<1>3. 0 \in T
  <2>1. g[0] = [q |-> p, at |-> o]
    BY <1>1, <1>2 DEF Rounds
  <2>2. Ok(g[0], 0)
    BY <1>1, <2>1 DEF SameTimers
  <2> QED
    BY <2>2
<1>4. ASSUME NEW n \in Nat, n \in T PROVE n + 1 \in T
  <2> SUFFICES ASSUME n + 1 <= k PROVE Ok(g[n + 1], n + 1)
    OBVIOUS
  <2>1. Ok(g[n], n)
    BY <1>1, <1>4
  <2>2. g[n + 1] = Sink(g[n])
    <3>1. n + 1 \in 0..k /\ n + 1 # 0 /\ (n + 1) - 1 = n
      BY <1>1
    <3> QED
      BY <1>2, <3>1, RoundIs DEF Rounds
  <2> DEFINE s == g[n]
             r == Sink(s)
  <2>3. Places(s.q.heap) = Places(p.heap)
    BY <2>1 DEF SameTimers, Places
  <2>4. /\ SameTimers(s.q, r.q) /\ r.at \in Places(s.q.heap) /\ o <= r.at /\ LateAt(r.q.heap, o, r.at)
        /\ Stopped(s) \/ s.at < r.at
    BY <2>1, <2>3, SinkRound DEF SameTimers
  <2>5. SameTimers(p, r.q)
    BY <2>1, <2>4 DEF SameTimers
  <2>6. o + (n + 1) <= r.at \/ Stopped(r)
    <3>1. r.at \in Nat /\ s.at \in Nat
      BY <1>1, <2>1, <2>3, <2>4, PlaceFacts
    <3>2. CASE Stopped(s)
      <4>1. r = s
        BY <3>2 DEF Stopped
      <4> HIDE DEF r
      <4> QED
        BY <3>2, <4>1
    <3>3. CASE ~Stopped(s)
      BY <1>1, <2>1, <2>4, <3>1, <3>3
    <3> QED
      BY <3>2, <3>3
  <2> HIDE DEF r, s
  <2> QED
    BY <2>2, <2>3, <2>4, <2>5, <2>6 DEF r, s
<1>5. Ok(g[k], k)
  <2>1. \A n \in Nat : n \in T => n + 1 \in T
    BY <1>4
  <2>2. \A n \in Nat : n \in T
    <3> HIDE DEF T
    <3> QED
      BY <1>3, <2>1, SetInduction
  <2> QED
    BY <1>1, <2>2
<1> DEFINE s == g[k]
           h == s.q.heap
<1>6. SameTimers(p, s.q) /\ s.at \in Places(p.heap) /\ LateAt(h, o, s.at) /\ s.at \in Nat /\ s.at < k
  BY <1>1, <1>5, PlaceFacts
<1>7. Sunk(s)
  BY <1>1, <1>5, <1>6 DEF Stopped
<1>8. EarlyAt(h, o)
  <2>1. h \in Seq(Node) /\ Places(h) = Places(p.heap)
    BY <1>6 DEF SameTimers, Linked, Places
  <2>2. \A i \in Sons(h) : At(h, i) \in Node /\ At(h, Parent(i)) \in Node
    BY <2>1, PlaceFacts
  <2>3. ASSUME NEW i \in Sons(h), i # o PROVE NotAfter(At(h, Parent(i)), At(h, i))
    <3>1. CASE Parent(i) = s.at
      BY <3>1, <1>7 DEF Sunk
    <3>2. CASE Parent(i) # s.at
      BY <3>2, <2>3, <1>6 DEF LateAt
    <3> QED
      BY <3>1, <3>2
  <2>4. ASSUME NEW i \in Sons(h), Parent(i) = o, o > 0 PROVE NotAfter(At(h, Parent(o)), At(h, i))
    <3>1. CASE s.at = o
      BY <3>1, <2>4, <1>6 DEF LateAt
    <3>2. CASE s.at # o
      <4>1. NotAfter(At(h, Parent(o)), At(h, o))
        BY <3>2, <2>4, <1>6 DEF LateAt
      <4>2. i # o /\ o \in Sons(h)
        BY <1>1, <2>1, <2>4, PlaceFacts
      <4>3. NotAfter(At(h, o), At(h, i))
        BY <4>2, <2>3, <2>4
      <4> QED
        BY <4>1, <4>2, <4>3, <2>2, <2>4, OrderFacts
    <3> QED
      BY <3>1, <3>2
  <2> QED
    BY <2>3, <2>4 DEF EarlyAt
<1> QED
  BY <1>2, <1>6, <1>8

LEMMA FixDownEmpty ==
  ASSUME NEW p, p.heap = <<>>
  PROVE  FixDown(p, 0) = p
<1>1. Len(p.heap) = 0
  OBVIOUS
<1>2. PICK g : Rounds(g, "FixDown", [q |-> p, at |-> 0], 0) /\ FixDown(p, 0) = g[0].q
  BY <1>1, FixDownRounds
<1>3. g[0] = [q |-> p, at |-> 0]
  BY <1>2 DEF Rounds
<1> QED
  BY <1>2, <1>3

\* Nothing can be wrong at the root.
LEMMA EarlyAtRoot ==
  ASSUME NEW h \in Seq(Node), EarlyAt(h, 0)
  PROVE  HeapOrder(h)
<1>1. \A i \in Sons(h) : i # 0
  BY PlaceFacts
<1> QED
  BY <1>1 DEF EarlyAt, HeapOrder

\* MoveNode restores the order around a node whose expiry was changed.
LEMMA MoveNodeWorks ==
  ASSUME NEW p, Linked(p), NEW o \in Places(p.heap), LateAt(p.heap, o, o)
  PROVE  SameTimers(p, MoveNode(p, o)) /\ HeapOrder(MoveNode(p, o).heap)
<1> DEFINE r == FixDown(p, o)
<1>1. SameTimers(p, r) /\ EarlyAt(r.heap, o)
  BY FixDownWorks
<1>2. Linked(r) /\ o \in Places(r.heap)
  BY <1>1 DEF SameTimers, Places
<1>3. MoveNode(p, o) = Fixup(r, o)
  BY DEF MoveNode
<1> HIDE DEF r
<1>4. SameTimers(r, Fixup(r, o)) /\ HeapOrder(Fixup(r, o).heap)
  BY <1>1, <1>2, FixupWorks
<1> QED
  BY <1>1, <1>3, <1>4 DEF SameTimers

LEMMA RootFirst ==
  ASSUME NEW h \in Seq(Node), HeapOrder(h), NEW i \in Places(h)
  PROVE  NotAfter(At(h, 0), At(h, i))
<1> DEFINE T == {n \in Nat : \A j \in Places(h) : j <= n => NotAfter(At(h, 0), At(h, j))}
<1>1. \A j \in Places(h) : j \in Nat /\ At(h, j) \in Node
  BY PlaceFacts
<1>2. 0 \in Places(h) /\ At(h, 0) \in Node
  <2>1. Len(h) \in Nat /\ i \in Nat /\ i < Len(h)
    BY PlaceFacts
  <2>2. 0 \in Places(h)
    BY <2>1 DEF Places
  <2> QED
    BY <1>1, <2>2
<1>3. 0 \in T
  <2>1. \A j \in Places(h) : j <= 0 => j = 0
    BY <1>1
  <2>2. NotAfter(At(h, 0), At(h, 0))
    BY <1>2, OrderFacts
  <2> QED
    BY <2>1, <2>2
<1>4. ASSUME NEW n \in Nat, n \in T PROVE n + 1 \in T
  <2> SUFFICES ASSUME NEW j \in Places(h), j <= n + 1 PROVE NotAfter(At(h, 0), At(h, j))
    OBVIOUS
  <2>1. CASE j <= n
    BY <2>1, <1>4
  <2>2. CASE ~(j <= n)
    <3>1. j \in Nat /\ j # 0
      BY <2>2, <1>1
    <3>2. j \in Sons(h)
      BY <3>1, PlaceFacts
    <3>3. Parent(j) \in Places(h) /\ Parent(j) < j
      BY <3>2, PlaceFacts
    <3>4. Parent(j) <= n
      <4>1. Parent(j) \in Nat
        BY <1>1, <3>3
      <4> QED
        BY <3>1, <3>3, <4>1
    <3>5. NotAfter(At(h, 0), At(h, Parent(j)))
      BY <1>4, <3>3, <3>4
    <3>6. NotAfter(At(h, Parent(j)), At(h, j))
      BY <3>2 DEF HeapOrder
    <3> QED
      BY <1>1, <1>2, <3>3, <3>5, <3>6, OrderFacts
  <2> QED
    BY <2>1, <2>2
<1>5. \A n \in Nat : n \in T
  <2>1. \A n \in Nat : n \in T => n + 1 \in T
    BY <1>4
  <2> HIDE DEF T
  <2> QED
    BY <1>3, <2>1, SetInduction
<1>6. i \in T /\ i <= i
  BY <1>1, <1>5
<1> QED
  BY <1>6

\* PopRoot takes out the root and nothing else.
LEMMA PopRootWorks ==
  ASSUME NEW p, Linked(p), HeapOrder(p.heap), p.heap # <<>>
  PROVE  LET r == PopRoot(p) IN
         /\ Linked(r) /\ HeapOrder(r.heap) /\ Len(r.heap) = Len(p.heap) - 1
         /\ DOMAIN r.index = DOMAIN p.index \ {p.heap[1].timerId}
         /\ Contents(r) = [i \in DOMAIN r.index |-> Contents(p)[i]]
<1> DEFINE h == p.heap
           m == p.index
           N == Len(h)
           a == h[1].timerId
           z == h[N].timerId
           w == [h EXCEPT ![1] = h[N]]
           g == Front(w)
           x == [j \in DOMAIN m \ {a} |-> IF j = z THEN 0 ELSE m[j]]
           v == [heap |-> g, index |-> x]
<1>1. PopRoot(p) = FixDown(v, 0)
  BY DEF PopRoot, Last
<1>2. /\ h \in Seq(Node) /\ N \in Nat /\ DOMAIN h = 1..N /\ h # <<>> /\ N > 0
      /\ m \in [DOMAIN m -> Nat] /\ DOMAIN m \subseteq Ids
      /\ \A n \in 1..N : h[n] \in Node /\ h[n].timerId \in DOMAIN m /\ m[h[n].timerId] = n - 1
      /\ \A k \in DOMAIN m : m[k] \in Nat /\ m[k] < N /\ h[m[k] + 1].timerId = k
  <2>1. h \in Seq(Node) /\ h # <<>>
    BY DEF Linked
  <2>2. N \in Nat /\ N > 0 /\ DOMAIN h = 1..N /\ \A n \in 1..N : h[n] \in Node
    BY <2>1
  <2> QED
    BY <2>1, <2>2 DEF Linked
<1> HIDE DEF h, m, N
<1>3. 1 \in 1..N /\ N \in 1..N /\ a \in DOMAIN m /\ m[a] = 0 /\ z \in DOMAIN m /\ m[z] = N - 1
  BY <1>2
<1>4. w \in Seq(Node) /\ Len(w) = N /\ \A n \in 1..N : w[n] = IF n = 1 THEN h[N] ELSE h[n]
  BY <1>2, <1>3 DEF N
<1> HIDE DEF w
<1>5. g \in Seq(Node) /\ Len(g) = N - 1 /\ \A n \in 1..(N - 1) : g[n] = w[n]
  BY <1>2, <1>4 DEF Front
<1>6. \A n \in 1..(N - 1) : n \in 1..N /\ g[n] = IF n = 1 THEN h[N] ELSE h[n]
  BY <1>2, <1>4, <1>5
<1>7. /\ DOMAIN x = DOMAIN m \ {a} /\ x \in [DOMAIN x -> Nat]
      /\ \A k \in DOMAIN x : x[k] = IF k = z THEN 0 ELSE m[k]
  BY <1>2
<1>8. v.heap = g /\ v.index = x /\ v = [heap |-> v.heap, index |-> v.index]
  OBVIOUS
<1> HIDE DEF g, x, v
<1>9. ASSUME NEW n \in 1..(N - 1) PROVE g[n].timerId \in DOMAIN x /\ x[g[n].timerId] = n - 1
  <2>1. CASE n = 1
    <3>1. N - 1 # 0 /\ z # a
      BY <1>2, <1>3, <2>1
    <3> QED
      BY <2>1, <3>1, <1>3, <1>6, <1>7 DEF z
  <2>2. CASE n # 1
    <3>1. n \in 1..N /\ g[n] = h[n] /\ h[n].timerId \in DOMAIN m /\ m[h[n].timerId] = n - 1
      BY <1>2, <1>6, <2>2
    <3>2. n - 1 # 0 /\ n - 1 # N - 1
      BY <1>2, <2>2
    <3>3. h[n].timerId # a /\ h[n].timerId # z
      BY <1>3, <3>1, <3>2
    <3> QED
      BY <3>1, <3>3, <1>7
  <2> QED
    BY <2>1, <2>2
<1>10. ASSUME NEW k \in DOMAIN x
       PROVE  x[k] \in Nat /\ x[k] < N - 1 /\ g[x[k] + 1] = h[m[k] + 1] /\ h[m[k] + 1].timerId = k
  <2>1. k \in DOMAIN m /\ k # a /\ m[k] \in Nat /\ m[k] < N /\ h[m[k] + 1].timerId = k
    BY <1>2, <1>7
  <2>2. m[k] # 0
    BY <2>1 DEF a
  <2>3. CASE k = z
    <3>1. m[k] + 1 = N /\ N - 1 \in Nat \ {0}
      <4>1. m[k] = N - 1
        BY <2>3, <1>3
      <4>2. N \in Nat /\ m[k] \in Nat
        BY <2>1, <1>2
      <4> QED
        BY <2>2, <4>1, <4>2
    <3>2. x[k] = 0
      BY <2>3, <1>7
    <3>3. 1 \in 1..(N - 1)
      BY <3>1, <1>2
    <3> QED
      BY <2>1, <3>1, <3>2, <3>3, <1>2, <1>6
  <2>4. CASE k # z
    <3>1. m[k] + 1 # N
      BY <2>1, <2>4 DEF z
    <3>2. m[k] + 1 \in 1..(N - 1) /\ m[k] + 1 # 1 /\ m[k] < N - 1
      BY <2>1, <2>2, <3>1, <1>2
    <3> QED
      BY <2>1, <2>4, <3>2, <1>6, <1>7
  <2> QED
    BY <2>3, <2>4
<1>11. Linked(v)
  <2>1. g \in Seq(Node) /\ Len(g) = N - 1
    BY <1>5
  <2>2. x \in [DOMAIN x -> Nat] /\ DOMAIN x \subseteq Ids
    BY <1>2, <1>7
  <2>3. \A n \in 1..Len(g) : g[n].timerId \in DOMAIN x /\ x[g[n].timerId] = n - 1
    BY <2>1, <1>9
  <2>4. \A k \in DOMAIN x : x[k] < Len(g) /\ g[x[k] + 1].timerId = k
    BY <2>1, <1>10
  <2> QED
    BY <2>1, <2>2, <2>3, <2>4, <1>8 DEF Linked
<1>12. Contents(v) = [i \in DOMAIN x |-> Contents(p)[i]]
  <2>1. \A k \in DOMAIN x : k \in DOMAIN m /\ g[x[k] + 1] = h[m[k] + 1]
    BY <1>7, <1>10
  <2> QED
    BY <2>1, <1>8 DEF Contents, At, h, m
<1>13. CASE N = 1
  <2>1. g = <<>>
    BY <1>5, <1>13
  <2>2. PopRoot(p) = v
    BY <1>1, <1>8, <2>1, FixDownEmpty
  <2>3. HeapOrder(g)
    BY <2>1 DEF HeapOrder, Sons
  <2> QED
    BY <2>2, <2>3, <1>5, <1>7, <1>8, <1>11, <1>12 DEF N, h, m, a
<1>14. CASE N # 1
  <2>1. 0 \in Places(g)
    BY <1>2, <1>5, <1>14 DEF Places
  <2>2. LateAt(g, 0, 0)
    <3>1. ASSUME NEW i \in Sons(g), Parent(i) # 0 PROVE NotAfter(At(g, Parent(i)), At(g, i))
      <4>1. i \in Nat /\ i \in Places(g) /\ Parent(i) \in Places(g) /\ i # 0
        BY <1>5, PlaceFacts
      <4>2. \A j \in Places(g) : j \in Nat /\ j + 1 \in 1..(N - 1)
        BY <1>2, <1>5 DEF Places
      <4>3. At(g, i) = At(h, i) /\ At(g, Parent(i)) = At(h, Parent(i))
        <5>1. i + 1 # 1 /\ Parent(i) + 1 # 1
          <6>1. Parent(i) \in Nat
            BY <4>1, <4>2
          <6> QED
            BY <3>1, <4>1, <6>1
        <5> QED
          BY <4>1, <4>2, <5>1, <1>6 DEF At
      <4>4. i \in Sons(h)
        BY <1>2, <1>5 DEF Sons, N
      <4> QED
        BY <4>3, <4>4 DEF HeapOrder, h
    <3> QED
      BY <3>1 DEF LateAt
  <2>3. SameTimers(v, FixDown(v, 0)) /\ EarlyAt(FixDown(v, 0).heap, 0)
    BY <1>8, <1>11, <2>1, <2>2, FixDownWorks
  <2> DEFINE r == FixDown(v, 0)
  <2>4. Linked(r) /\ Contents(r) = Contents(v) /\ Len(r.heap) = N - 1
    BY <1>5, <1>8, <2>3 DEF SameTimers
  <2>5. HeapOrder(r.heap)
    BY <2>3, <2>4, EarlyAtRoot DEF Linked
  <2>6. DOMAIN r.index = DOMAIN x
    <3>1. DOMAIN Contents(r) = DOMAIN r.index /\ DOMAIN Contents(v) = DOMAIN v.index
      BY DEF Contents
    <3> QED
      BY <3>1, <2>4, <1>8
  <2> HIDE DEF r
  <2>7. PopRoot(p) = r
    BY <1>1 DEF r
  <2> QED
    BY <2>4, <2>5, <2>6, <2>7, <1>7, <1>12 DEF N, h, m, a
<1> QED
  BY <1>13, <1>14

-----------------------------------------------------------------------------
(* The operations.                                                         *)

Entry(n) == [expiry |-> n.expiry, task |-> n.task, valid |-> n.valid]

LEMMA ContentsFacts ==
  ASSUME NEW p
  PROVE  /\ DOMAIN Contents(p) = DOMAIN p.index
         /\ \A i \in DOMAIN p.index : Contents(p)[i] = Entry(p.heap[p.index[i] + 1])
BY DEF Contents, Entry, At

\* r is a queue with the timers of p and the new one.
IsAdded(p, i, node, r) ==
  /\ Linked(r) /\ HeapOrder(r.heap)
  /\ Contents(r) = [j \in DOMAIN p.index \cup {i} |-> IF j = i THEN Entry(node) ELSE Contents(p)[j]]

LEMMA AddWorks ==
  ASSUME NEW p, Linked(p), HeapOrder(p.heap),
         NEW i \in Ids, i \notin DOMAIN p.index, NEW node \in Node, node.timerId = i,
         NEW x, x = [j \in DOMAIN p.index \cup {i} |-> IF j = i THEN Len(p.heap) ELSE p.index[j]],
         NEW r, r = Fixup([heap |-> Append(p.heap, node), index |-> x], Len(p.heap))
  PROVE  IsAdded(p, i, node, r)
<1> DEFINE h == p.heap
           m == p.index
           N == Len(h)
           g == Append(h, node)
           v == [heap |-> g, index |-> x]
<1>1. /\ h \in Seq(Node) /\ N \in Nat /\ m \in [DOMAIN m -> Nat] /\ DOMAIN m \subseteq Ids
      /\ \A n \in 1..N : h[n].timerId \in DOMAIN m /\ m[h[n].timerId] = n - 1
      /\ \A k \in DOMAIN m : m[k] \in Nat /\ m[k] < N /\ h[m[k] + 1].timerId = k
  BY DEF Linked
<1>2. g \in Seq(Node) /\ Len(g) = N + 1 /\ g[N + 1] = node /\ \A n \in 1..N : g[n] = h[n]
  BY <1>1
<1>3. v.heap = g /\ v.index = x /\ v = [heap |-> v.heap, index |-> v.index]
  OBVIOUS
<1> HIDE DEF h, m, N, g, v
<1>4. /\ DOMAIN x = DOMAIN m \cup {i} /\ x[i] = N
      /\ \A k \in DOMAIN m : k # i /\ x[k] = m[k]
  BY DEF m, N, h
<1>5. x \in [DOMAIN x -> Nat] /\ DOMAIN x \subseteq Ids
  <2>1. \A k \in DOMAIN x : x[k] \in Nat
    BY <1>1, <1>4
  <2>2. x = [k \in DOMAIN x |-> x[k]]
    OBVIOUS
  <2> QED
    BY <1>1, <1>4, <2>1, <2>2
<1>6. Linked(v)
  <2>1. ASSUME NEW n \in 1..Len(g) PROVE g[n].timerId \in DOMAIN x /\ x[g[n].timerId] = n - 1
    <3>1. CASE n = N + 1
      BY <3>1, <1>1, <1>2, <1>4
    <3>2. CASE n # N + 1
      <4>1. n \in 1..N
        BY <3>2, <1>1, <1>2
      <4>2. g[n] = h[n] /\ h[n].timerId \in DOMAIN m /\ m[h[n].timerId] = n - 1
        BY <4>1, <1>1, <1>2
      <4> QED
        BY <4>2, <1>4
    <3> QED
      BY <3>1, <3>2
  <2>2. ASSUME NEW k \in DOMAIN x PROVE x[k] < Len(g) /\ g[x[k] + 1].timerId = k
    <3>1. CASE k = i
      BY <3>1, <1>1, <1>2, <1>4
    <3>2. CASE k # i
      <4>1. k \in DOMAIN m /\ x[k] = m[k] /\ m[k] \in Nat /\ m[k] < N /\ h[m[k] + 1].timerId = k
        BY <3>2, <1>1, <1>4
      <4>2. m[k] + 1 \in 1..N /\ m[k] < N + 1
        BY <4>1, <1>1
      <4> QED
        BY <4>1, <4>2, <1>2
    <3> QED
      BY <3>1, <3>2
  <2> QED
    BY <2>1, <2>2, <1>2, <1>3, <1>5 DEF Linked
<1>7. Contents(v) = [j \in DOMAIN m \cup {i} |-> IF j = i THEN Entry(node) ELSE Contents(p)[j]]
  <2>1. DOMAIN Contents(v) = DOMAIN m \cup {i} /\ Contents(v)[i] = Entry(node)
    <3>1. DOMAIN Contents(v) = DOMAIN x /\ Contents(v)[i] = Entry(v.heap[v.index[i] + 1])
      <4>1. i \in DOMAIN v.index
        BY <1>3, <1>4
      <4> QED
        BY <4>1, <1>3, ContentsFacts
    <3>2. v.heap[v.index[i] + 1] = node
      BY <1>2, <1>3, <1>4
    <3> QED
      BY <3>1, <3>2, <1>4
  <2>2. ASSUME NEW j \in DOMAIN m PROVE Contents(v)[j] = Contents(p)[j]
    <3>1. m[j] + 1 \in 1..N
      BY <1>1
    <3>2. g[x[j] + 1] = h[m[j] + 1]
      BY <3>1, <1>2, <1>4
    <3> QED
      BY <3>2, <1>3, <1>4, ContentsFacts DEF h, m
  <2>3. Contents(v) = [j \in DOMAIN Contents(v) |-> Contents(v)[j]]
    BY DEF Contents
  <2> QED
    BY <2>1, <2>2, <2>3, <1>4
<1>8. N \in Places(g)
  BY <1>1, <1>2 DEF Places
<1>9. EarlyAt(g, N)
  <2>1. ASSUME NEW j \in Sons(g)
        PROVE  j \in Nat /\ j # 0 /\ Parent(j) \in Nat /\ Parent(j) < j /\ j <= N
    <3>1. j \in Places(g) /\ Parent(j) \in Places(g) /\ Parent(j) < j /\ j \in Nat \ {0}
      BY <1>2, PlaceFacts
    <3>2. j < Len(g) /\ Parent(j) \in Nat
      BY <3>1, <1>2, PlaceFacts
    <3>3. j < N + 1
      BY <3>2, <1>2
    <3> QED
      BY <3>1, <3>2, <3>3, <1>1
  <2>2. ASSUME NEW j \in Sons(g), j # N PROVE NotAfter(At(g, Parent(j)), At(g, j))
    <3>1. j \in Sons(h)
      BY <2>1, <2>2, <1>1 DEF Sons, N
    <3>2. j + 1 \in 1..N /\ Parent(j) + 1 \in 1..N
      <4>1. j \in Nat /\ Parent(j) \in Nat /\ Parent(j) < j /\ j <= N
        BY <2>1
      <4>2. N \in Nat
        BY <1>1
      <4>3. j < N
        BY <4>1, <4>2, <2>2
      <4> QED
        BY <4>1, <4>2, <4>3
    <3>3. At(g, j) = At(h, j) /\ At(g, Parent(j)) = At(h, Parent(j))
      BY <3>2, <1>2 DEF At
    <3> QED
      BY <3>1, <3>3 DEF HeapOrder, h
  <2>3. ASSUME NEW j \in Sons(g), Parent(j) = N PROVE FALSE
    BY <2>1, <2>3, <1>1
  <2> QED
    BY <2>2, <2>3 DEF EarlyAt
<1>10. SameTimers(v, Fixup(v, N)) /\ HeapOrder(Fixup(v, N).heap)
  BY <1>3, <1>6, <1>8, <1>9, FixupWorks
<1>11. r = Fixup(v, N)
  BY DEF v, g, N, h
<1> QED
  BY <1>7, <1>10, <1>11 DEF SameTimers, IsAdded, m

\* A node is replaced by another one of the same timer.
WithNode(p, i, node) == [heap |-> [p.heap EXCEPT ![p.index[i] + 1] = node], index |-> p.index]
WithEntry(a, i, entry) == [a EXCEPT ![i] = entry]

IsReplaced(p, i, node, r) ==
  /\ Linked(r) /\ Len(r.heap) = Len(p.heap) /\ p.index[i] \in Places(p.heap)
  /\ Contents(r) = WithEntry(Contents(p), i, Entry(node))
  /\ \A n \in Places(p.heap) : At(r.heap, n) = IF n = p.index[i] THEN node ELSE At(p.heap, n)

LEMMA Replaced ==
  ASSUME NEW p, Linked(p), NEW i \in DOMAIN p.index, NEW node \in Node, node.timerId = i,
         NEW r, r = WithNode(p, i, node)
  PROVE  IsReplaced(p, i, node, r)
<1> DEFINE h == p.heap
           m == p.index
           N == Len(h)
           o == m[i]
           g == [h EXCEPT ![o + 1] = node]
<1>1. /\ h \in Seq(Node) /\ N \in Nat /\ m \in [DOMAIN m -> Nat] /\ DOMAIN m \subseteq Ids
      /\ \A n \in 1..N : h[n].timerId \in DOMAIN m /\ m[h[n].timerId] = n - 1
      /\ \A k \in DOMAIN m : m[k] \in Nat /\ m[k] < N /\ h[m[k] + 1].timerId = k
  BY DEF Linked
<1>2. r.heap = g /\ r.index = m /\ r = [heap |-> r.heap, index |-> r.index]
  BY DEF WithNode
<1>3. o \in Nat /\ o + 1 \in 1..N /\ h[o + 1].timerId = i
  BY <1>1
<1>4. g \in Seq(Node) /\ Len(g) = N /\ \A n \in 1..N : g[n] = IF n = o + 1 THEN node ELSE h[n]
  BY <1>1, <1>3
<1> HIDE DEF g, h, m, N, o
<1>5. \A n \in 1..N : g[n].timerId = h[n].timerId
  BY <1>3, <1>4
<1>6. \A k \in DOMAIN m : m[k] + 1 \in 1..N
  BY <1>1
<1>7. Linked(r)
  <2>1. \A n \in 1..Len(g) : g[n].timerId \in DOMAIN m /\ m[g[n].timerId] = n - 1
    BY <1>1, <1>4, <1>5
  <2>2. \A k \in DOMAIN m : m[k] < Len(g) /\ g[m[k] + 1].timerId = k
    BY <1>1, <1>4, <1>5, <1>6
  <2> QED
    <3>1. r.heap \in Seq(Node) /\ r.index \in [DOMAIN r.index -> Nat] /\ DOMAIN r.index \subseteq Ids
      BY <1>1, <1>2, <1>4
    <3>2. r = [heap |-> r.heap, index |-> r.index]
      BY <1>2
    <3> QED
      BY <2>1, <2>2, <3>1, <3>2, <1>2 DEF Linked
<1>8. Contents(r) = WithEntry(Contents(p), i, Entry(node))
  <2>1. DOMAIN Contents(r) = DOMAIN m /\ DOMAIN Contents(p) = DOMAIN m
    BY <1>2, ContentsFacts DEF m
  <2>2. ASSUME NEW k \in DOMAIN m
        PROVE  Contents(r)[k] = IF k = i THEN Entry(node) ELSE Contents(p)[k]
    <3>1. Contents(r)[k] = Entry(g[m[k] + 1]) /\ Contents(p)[k] = Entry(h[m[k] + 1])
      <4>1. Contents(p)[k] = Entry(h[m[k] + 1])
        BY ContentsFacts DEF m, h
      <4>2. k \in DOMAIN r.index
        BY <1>2
      <4>3. Contents(r)[k] = Entry(r.heap[r.index[k] + 1])
        BY <4>2, ContentsFacts
      <4> QED
        BY <4>1, <4>3, <1>2
    <3>2. CASE k = i
      BY <3>1, <3>2, <1>3, <1>4 DEF o
    <3>3. CASE k # i
      <4>1. m[k] + 1 # o + 1
        BY <3>3, <1>1, <1>3
      <4> QED
        BY <3>1, <3>3, <4>1, <1>4, <1>6
    <3> QED
      BY <3>2, <3>3
  <2>3. Contents(r) = [k \in DOMAIN m |-> Contents(r)[k]] /\ Contents(p) = [k \in DOMAIN m |-> Contents(p)[k]]
    BY <1>2 DEF Contents, m
  <2> QED
    BY <2>1, <2>2, <2>3 DEF WithEntry
<1>9. ASSUME NEW n \in Places(h) PROVE At(r.heap, n) = IF n = o THEN node ELSE At(h, n)
  <2>1. n \in Nat /\ n + 1 \in 1..N
    BY <1>1 DEF Places, N
  <2>2. g[n + 1] = IF n = o THEN node ELSE h[n + 1]
    BY <2>1, <1>3, <1>4
  <2> QED
    BY <2>2, <1>2 DEF At
<1>10. o \in Places(h)
  BY <1>1, <1>3 DEF Places, N
<1> QED
  BY <1>2, <1>4, <1>7, <1>8, <1>9, <1>10 DEF g, h, m, N, o, IsReplaced

LEMMA NodeChanges ==
  ASSUME NEW n \in Node
  PROVE  /\ \A b : [n EXCEPT !.valid = b] = [timerId |-> n.timerId, expiry |-> n.expiry, task |-> n.task, valid |-> b]
         /\ \A e : [n EXCEPT !.expiry = e] = [timerId |-> n.timerId, expiry |-> e, task |-> n.task, valid |-> n.valid]
BY DEF Node

LEMMA EntryChanges ==
  ASSUME NEW n
  PROVE  /\ \A b : [Entry(n) EXCEPT !.valid = b] = [expiry |-> n.expiry, task |-> n.task, valid |-> b]
         /\ \A e : [Entry(n) EXCEPT !.expiry = e] = [expiry |-> e, task |-> n.task, valid |-> n.valid]
BY DEF Entry

LEMMA OldNode ==
  ASSUME NEW p, Linked(p), NEW i \in DOMAIN p.index
  PROVE  p.heap[p.index[i] + 1] \in Node /\ p.heap[p.index[i] + 1].timerId = i
<1>1. p.index[i] \in Nat /\ p.index[i] + 1 \in 1..Len(p.heap) /\ p.heap[p.index[i] + 1].timerId = i
  BY DEF Linked
<1>2. p.heap \in Seq(Node)
  BY DEF Linked
<1> QED
  BY <1>1, <1>2

LEMMA CancelWorks ==
  ASSUME NEW p, Linked(p), HeapOrder(p.heap), NEW i \in DOMAIN p.index
  PROVE  LET r == [heap |-> [p.heap EXCEPT ![p.index[i] + 1].valid = FALSE], index |-> p.index] IN
         /\ Linked(r) /\ HeapOrder(r.heap)
         /\ Contents(r) = [Contents(p) EXCEPT ![i].valid = FALSE]
<1> DEFINE h == p.heap
           o == p.index[i]
           old == h[o + 1]
           node == [timerId |-> old.timerId, expiry |-> old.expiry, task |-> old.task, valid |-> FALSE]
           r == [heap |-> [h EXCEPT ![o + 1] = node], index |-> p.index]
<1>1. h \in Seq(Node) /\ old \in Node /\ old.timerId = i
  BY OldNode DEF Linked
<1> HIDE DEF old
<1>2. node \in Node /\ node.timerId = i /\ node.expiry = old.expiry /\ node.timerId = old.timerId
  BY <1>1 DEF Node
<1>3. Entry(node) = [Entry(old) EXCEPT !.valid = FALSE]
  <2>1. Entry(node) = [expiry |-> old.expiry, task |-> old.task, valid |-> FALSE]
    BY DEF Entry
  <2>2. \A b : [Entry(old) EXCEPT !.valid = b] = [expiry |-> old.expiry, task |-> old.task, valid |-> b]
    BY EntryChanges
  <2> QED
    BY <2>1, <2>2, Zenon
<1>4. node = [old EXCEPT !.valid = FALSE]
  <2>1. \A b : [old EXCEPT !.valid = b] = [timerId |-> old.timerId, expiry |-> old.expiry, task |-> old.task, valid |-> b]
    BY <1>1, NodeChanges
  <2> QED
    BY <2>1, Zenon
<1> HIDE DEF node
<1>5. /\ Linked(r) /\ Len(r.heap) = Len(h) /\ o \in Places(h)
      /\ Contents(r) = WithEntry(Contents(p), i, Entry(node))
      /\ \A n \in Places(h) : At(r.heap, n) = IF n = o THEN node ELSE At(h, n)
  <2>1. r = WithNode(p, i, node)
    BY Zenon DEF WithNode
  <2> HIDE DEF r
  <2>2. IsReplaced(p, i, node, r)
    BY <1>2, <2>1, Replaced, Zenon
  <2> QED
    BY <2>2 DEF IsReplaced
<1> HIDE DEF r
<1>6. Contents(p)[i] = Entry(old)
  BY ContentsFacts DEF old
<1>7. Contents(r) = [Contents(p) EXCEPT ![i].valid = FALSE]
  BY <1>3, <1>5, <1>6, Zenon DEF WithEntry
<1>8. \A n \in Places(h) :
        At(r.heap, n).expiry = At(h, n).expiry /\ At(r.heap, n).timerId = At(h, n).timerId
  BY <1>2, <1>5, Zenon DEF At, old
<1>9. HeapOrder(r.heap)
  <2>1. Sons(r.heap) = Sons(h)
    BY <1>5 DEF Sons
  <2>2. \A j \in Sons(h) : j \in Places(h) /\ Parent(j) \in Places(h)
    BY <1>1, PlaceFacts
  <2> QED
    BY <2>1, <2>2, <1>8 DEF HeapOrder, NotAfter, After
<1>10. r = [heap |-> [p.heap EXCEPT ![p.index[i] + 1].valid = FALSE], index |-> p.index]
  BY <1>4, Zenon DEF r, old
<1> QED
  BY <1>5, <1>7, <1>9, <1>10, Zenon

\* r is a queue with the timers of p, one of them moved.
IsUpdated(p, i, e, r) ==
  Linked(r) /\ HeapOrder(r.heap) /\ Contents(r) = [Contents(p) EXCEPT ![i].expiry = e]

LEMMA UpdateWorks ==
  ASSUME NEW p, Linked(p), HeapOrder(p.heap), NEW i \in DOMAIN p.index, NEW e \in Expiries,
         NEW u, u = [heap |-> [p.heap EXCEPT ![p.index[i] + 1].expiry = e], index |-> p.index],
         NEW r, r = MoveNode(u, p.index[i])
  PROVE  IsUpdated(p, i, e, r)
<1> DEFINE h == p.heap
           o == p.index[i]
           old == h[o + 1]
           node == [timerId |-> old.timerId, expiry |-> e, task |-> old.task, valid |-> old.valid]
           v == [heap |-> [h EXCEPT ![o + 1] = node], index |-> p.index]
           g == v.heap
<1>1. h \in Seq(Node) /\ old \in Node /\ old.timerId = i
  BY OldNode DEF Linked
<1> HIDE DEF old
<1>2. node \in Node /\ node.timerId = i
  BY <1>1 DEF Node
<1>3. Entry(node) = [Entry(old) EXCEPT !.expiry = e]
  BY EntryChanges DEF Entry
<1>4. node = [old EXCEPT !.expiry = e]
  BY <1>1, NodeChanges
<1> HIDE DEF node
<1>5. /\ Linked(v) /\ Len(g) = Len(h) /\ o \in Places(h)
      /\ Contents(v) = WithEntry(Contents(p), i, Entry(node))
      /\ \A n \in Places(h) : At(g, n) = IF n = o THEN node ELSE At(h, n)
  <2>1. v = WithNode(p, i, node)
    BY Zenon DEF WithNode
  <2> HIDE DEF v
  <2>2. IsReplaced(p, i, node, v)
    BY <1>2, <2>1, Replaced, Zenon
  <2> QED
    BY <2>2 DEF IsReplaced
<1> HIDE DEF v
<1>6. Contents(p)[i] = Entry(old)
  BY ContentsFacts DEF old
<1>7. Contents(v) = [Contents(p) EXCEPT ![i].expiry = e]
  BY <1>3, <1>5, <1>6, Zenon DEF WithEntry
<1>8. Sons(g) = Sons(h) /\ Places(g) = Places(h)
  BY <1>5 DEF Sons, Places
<1>9. LateAt(g, o, o)
  <2>1. ASSUME NEW j \in Sons(h)
        PROVE  /\ j \in Nat /\ j # 0 /\ j \in Places(h) /\ Parent(j) \in Places(h) /\ Parent(j) \in Nat /\ Parent(j) < j
               /\ At(h, j) \in Node /\ At(h, Parent(j)) \in Node
               /\ NotAfter(At(h, Parent(j)), At(h, j))
    BY <1>1, PlaceFacts DEF HeapOrder
  <2>2. ASSUME NEW j \in Sons(h), Parent(j) # o, j # o PROVE NotAfter(At(g, Parent(j)), At(g, j))
    BY <1>5, <2>1, <2>2
  <2>3. ASSUME NEW j \in Sons(h), Parent(j) = o, o > 0 PROVE NotAfter(At(g, Parent(o)), At(g, j))
    <3>1. o \in Nat /\ o # 0
      BY <2>1, <2>3
    <3>2. o \in Sons(h)
      BY <3>1, <1>1, <1>5, PlaceFacts
    <3>3. j # o /\ Parent(o) # o
      BY <2>1, <2>3, <3>1, <3>2
    <3>4. At(g, j) = At(h, j) /\ At(g, Parent(o)) = At(h, Parent(o))
      BY <1>5, <2>1, <3>2, <3>3
    <3>5. NotAfter(At(h, Parent(o)), At(h, o)) /\ NotAfter(At(h, o), At(h, j))
      BY <2>1, <2>3, <3>2
    <3> QED
      BY <2>1, <2>3, <3>2, <3>4, <3>5, OrderFacts
  <2> QED
    BY <1>8, <2>2, <2>3 DEF LateAt
<1>10. SameTimers(v, MoveNode(v, o)) /\ HeapOrder(MoveNode(v, o).heap)
  BY <1>5, <1>8, <1>9, MoveNodeWorks
<1>11. u = v
  BY <1>4, Zenon DEF v, old
<1>12. r = MoveNode(v, o)
  BY <1>11
<1> QED
  BY <1>7, <1>10, <1>12, Zenon DEF SameTimers, IsUpdated

-----------------------------------------------------------------------------
(* HandleTimeout.                                                          *)

LEMMA NodeFacts ==
  /\ \A n \in Node : n.timerId \in Ids /\ n.expiry \in Expiries /\ n.task \in Tasks /\ n.valid \in BOOLEAN
  /\ \A e \in Expiries : e \in Nat
  /\ \A i \in Ids : i \in Nat
<1>1. \A n \in Node : n.timerId \in Ids /\ n.expiry \in Expiries /\ n.task \in Tasks /\ n.valid \in BOOLEAN
  BY DEF Node
<1>2. \A e \in Expiries : e \in Nat
  BY NumberAssumption
<1>3. \A i \in Ids : i \in Nat
  BY NumberAssumption DEF Ids
<1> QED
  BY <1>1, <1>2, <1>3

\* What the loop has done to the queue p.
Gone(p, s) == DOMAIN p.index \ DOMAIN s.q.index

Taken(p, s) ==
  /\ Linked(s.q) /\ HeapOrder(s.q.heap)
  /\ DOMAIN s.q.index \subseteq DOMAIN p.index
  /\ Contents(s.q) = [i \in DOMAIN s.q.index |-> Contents(p)[i]]
  /\ \A i \in Gone(p, s) : Contents(p)[i].expiry <= now
  /\ \A i \in Gone(p, s), j \in DOMAIN s.q.index : Set!Before(Contents(p), i, j)
  /\ s.out \in Seq(Ids \X Tasks)
  /\ Set!Listing(s.out, Contents(p), Gone(p, s))

LEMMA EntryFacts ==
  ASSUME NEW p, Linked(p), NEW i \in DOMAIN p.index
  PROVE  /\ i \in Ids /\ Contents(p)[i].expiry \in Expiries /\ Contents(p)[i].task \in Tasks
         /\ Contents(p)[i].valid \in BOOLEAN
<1> DEFINE n == p.heap[p.index[i] + 1]
<1>1. n \in Node /\ n.timerId = i
  BY OldNode
<1>2. Contents(p)[i] = Entry(n)
  BY ContentsFacts
<1> HIDE DEF n
<1> QED
  BY <1>1, <1>2, NodeFacts DEF Entry

\* The root is the first of all timers.
LEMMA RootBefore ==
  ASSUME NEW p, Linked(p), HeapOrder(p.heap), p.heap # <<>>
  PROVE  /\ p.heap[1] \in Node /\ p.heap[1].timerId \in DOMAIN p.index
         /\ Contents(p)[p.heap[1].timerId] = Entry(p.heap[1])
         /\ \A j \in DOMAIN p.index : j # p.heap[1].timerId => Set!Before(Contents(p), p.heap[1].timerId, j)
         /\ \A j \in DOMAIN p.index : p.heap[1].expiry <= Contents(p)[j].expiry
<1> DEFINE h == p.heap
           root == h[1]
           a == Contents(p)
<1>1. h \in Seq(Node) /\ Len(h) \in Nat /\ 1 \in 1..Len(h)
  BY DEF Linked
<1>2. root \in Node /\ root.timerId \in DOMAIN p.index /\ p.index[root.timerId] = 0
  BY <1>1 DEF Linked
<1>3. a[root.timerId] = Entry(root)
  BY <1>2, ContentsFacts
<1>4. ASSUME NEW j \in DOMAIN p.index
      PROVE  /\ root.expiry <= a[j].expiry
             /\ j # root.timerId => Set!Before(a, root.timerId, j)
  <2> DEFINE n == h[p.index[j] + 1]
  <2>1. n \in Node /\ n.timerId = j /\ a[j] = Entry(n)
    BY OldNode, ContentsFacts
  <2>2. p.index[j] \in Places(h)
    BY <1>1 DEF Linked, Places
  <2>3. NotAfter(At(h, 0), At(h, p.index[j]))
    BY <1>1, <2>2, RootFirst
  <2>4. NotAfter(root, n)
    BY <2>3 DEF At
  <2> HIDE DEF n, root, a
  <2>5. root.expiry \in Nat /\ n.expiry \in Nat /\ root.timerId \in Nat /\ n.timerId \in Nat
    BY <1>2, <2>1, NodeFacts
  <2>6. root.expiry < n.expiry \/ (root.expiry = n.expiry /\ root.timerId <= n.timerId)
    BY <2>4, <2>5 DEF NotAfter, After
  <2>7. a[j].expiry = n.expiry /\ a[root.timerId].expiry = root.expiry
    BY <1>3, <2>1 DEF Entry
  <2> QED
    BY <2>1, <2>5, <2>6, <2>7 DEF Set!Before
<1> QED
  BY <1>2, <1>3, <1>4

\* The next timer goes to the end of the list.
LEMMA ListingGrows ==
  ASSUME NEW p, Linked(p), NEW out \in Seq(Ids \X Tasks), NEW gone, gone \subseteq DOMAIN p.index,
         Set!Listing(out, Contents(p), gone),
         NEW i \in DOMAIN p.index, i \notin gone,
         \A j \in gone : Set!Before(Contents(p), j, i),
         NEW new, new = IF Contents(p)[i].valid THEN Append(out, <<i, Contents(p)[i].task>>) ELSE out
  PROVE  new \in Seq(Ids \X Tasks) /\ Set!Listing(new, Contents(p), gone \cup {i})
<1> DEFINE a == Contents(p)
           V(due) == {j \in due : a[j].valid}
           x == <<i, a[i].task>>
<1>1. /\ {out[n] : n \in 1..Len(out)} = {<<j, a[j].task>> : j \in V(gone)}
      /\ \A m, n \in 1..Len(out) : m < n => Set!Before(a, out[m][1], out[n][1])
  BY DEF Set!Listing
<1> HIDE DEF a
<1>2. x \in Ids \X Tasks
  BY EntryFacts DEF a
<1>3. CASE ~a[i].valid
  <2>1. V(gone \cup {i}) = V(gone) /\ new = out
    BY <1>3 DEF a
  <2> QED
    BY <1>1, <2>1 DEF Set!Listing, a
<1>4. CASE a[i].valid
  <2>1. V(gone \cup {i}) = V(gone) \cup {i} /\ V(gone) \subseteq gone
    BY <1>4
  <2>2. new = Append(out, x)
    BY <1>4 DEF a
  <2> HIDE DEF V, x
  <2>3. Len(out) \in Nat
    OBVIOUS
  <2>4. new \in Seq(Ids \X Tasks) /\ Len(new) = Len(out) + 1 /\ new[Len(out) + 1] = x
        /\ \A n \in 1..Len(out) : new[n] = out[n]
    BY <1>2, <2>2
  <2>5. 1..Len(new) = (1..Len(out)) \cup {Len(out) + 1}
    BY <2>3, <2>4
  <2>6. {new[n] : n \in 1..Len(new)} = {<<j, a[j].task>> : j \in V(gone \cup {i})}
    <3>1. {new[n] : n \in 1..Len(new)} = {out[n] : n \in 1..Len(out)} \cup {x}
      <4>1. {new[n] : n \in 1..Len(new)} = {new[n] : n \in 1..Len(out)} \cup {new[Len(out) + 1]}
        BY <2>5
      <4>2. {new[n] : n \in 1..Len(out)} = {out[n] : n \in 1..Len(out)}
        BY <2>4
      <4> QED
        BY <2>4, <4>1, <4>2
    <3>2. {<<j, a[j].task>> : j \in V(gone \cup {i})} = {<<j, a[j].task>> : j \in V(gone)} \cup {x}
      BY <2>1 DEF x
    <3> QED
      BY <3>1, <3>2, <1>1
  <2>7. ASSUME NEW m \in 1..Len(new), NEW n \in 1..Len(new), m < n
        PROVE  Set!Before(a, new[m][1], new[n][1])
    <3>1. m \in 1..Len(out)
      BY <2>3, <2>5, <2>7
    <3>2. CASE n = Len(out) + 1
      <4>1. new[n] = x /\ new[m] = out[m]
        BY <3>1, <3>2, <2>4
      <4>2. PICK j \in V(gone) : out[m] = <<j, a[j].task>>
        BY <3>1, <1>1
      <4>3. Set!Before(a, j, i)
        BY <4>2, <2>1 DEF a
      <4>4. out[m][1] = j /\ x[1] = i
        BY <4>2 DEF x
      <4> QED
        BY <4>1, <4>3, <4>4
    <3>3. CASE n \in 1..Len(out)
      BY <3>1, <3>3, <2>7, <1>1, <2>4
    <3> QED
      BY <3>2, <3>3, <2>5
  <2> QED
    BY <2>4, <2>6, <2>7 DEF Set!Listing, a, V
<1> QED
  BY <1>3, <1>4

\* The loop of HandleTimeout would break out.
Settled(s) == ~DueNow(s.q.heap)

\* A round of HandleTimeout's loop takes one timer, or is the last.
LEMMA TakeRound ==
  ASSUME now \in Nat, NEW p, Linked(p), NEW s, Taken(p, s)
  PROVE  /\ Taken(p, TakeDue(s))
         /\ Settled(s) => TakeDue(s) = s
         /\ Settled(s) \/ Len(TakeDue(s).q.heap) = Len(s.q.heap) - 1
<1> DEFINE a == Contents(p)
           h == s.q.heap
           root == h[1]
           i == root.timerId
           u == PopRoot(s.q)
           new == IF a[i].valid THEN Append(s.out, <<i, a[i].task>>) ELSE s.out
           r == [q |-> u, out |-> new]
<1>1. CASE ~DueNow(h)
  <2>1. TakeDue(s) = s
    BY <1>1 DEF TakeDue
  <2> QED
    BY <1>1, <2>1 DEF Settled
<1>2. CASE DueNow(h)
  <2>1. /\ Linked(s.q) /\ HeapOrder(h) /\ h # <<>> /\ now >= root.expiry
        /\ DOMAIN s.q.index \subseteq DOMAIN p.index
        /\ \A j \in DOMAIN s.q.index : Contents(s.q)[j] = a[j]
        /\ \A j \in Gone(p, s) : a[j].expiry <= now
        /\ \A j \in Gone(p, s), l \in DOMAIN s.q.index : Set!Before(a, j, l)
        /\ s.out \in Seq(Ids \X Tasks) /\ Set!Listing(s.out, a, Gone(p, s))
    BY <1>2 DEF Taken, DueNow
  <2>2. /\ root \in Node /\ i \in DOMAIN s.q.index
        /\ Contents(s.q)[i] = Entry(root)
        /\ \A j \in DOMAIN s.q.index : j # i => Set!Before(Contents(s.q), i, j)
    BY <2>1, RootBefore
  <2>3. /\ Linked(u) /\ HeapOrder(u.heap) /\ Len(u.heap) = Len(h) - 1
        /\ DOMAIN u.index = DOMAIN s.q.index \ {i}
        /\ Contents(u) = [j \in DOMAIN u.index |-> Contents(s.q)[j]]
    BY <2>1, PopRootWorks
  <2>4. a[i] = Entry(root) /\ i \in DOMAIN p.index /\ i \notin Gone(p, s)
    BY <2>1, <2>2 DEF Gone
  <2>5. TakeDue(s) = r
    <3>1. a[i].valid = root.valid /\ a[i].task = root.task
      BY <2>4 DEF Entry
    <3> QED
      BY <1>2, <3>1, Zenon DEF TakeDue
  <2> HIDE DEF u, i, root, a, h
  <2>6. r.q = u /\ r.out = new
    OBVIOUS
  <2>7. Gone(p, r) = Gone(p, s) \cup {i}
    BY <2>1, <2>3, <2>4, <2>6 DEF Gone
  <2>8. \A j \in Gone(p, s) : Set!Before(a, j, i)
    BY <2>1, <2>2
  <2>9. new \in Seq(Ids \X Tasks) /\ Set!Listing(new, a, Gone(p, s) \cup {i})
    <3>1. Gone(p, s) \subseteq DOMAIN p.index
      BY DEF Gone
    <3>2. new = IF Contents(p)[i].valid THEN Append(s.out, <<i, Contents(p)[i].task>>) ELSE s.out
      BY Zenon DEF a
    <3>3. /\ s.out \in Seq(Ids \X Tasks) /\ Set!Listing(s.out, Contents(p), Gone(p, s))
          /\ i \in DOMAIN p.index /\ i \notin Gone(p, s)
          /\ \A j \in Gone(p, s) : Set!Before(Contents(p), j, i)
      BY <2>1, <2>4, <2>8 DEF a
    <3> HIDE DEF new
    <3>4. new \in Seq(Ids \X Tasks) /\ Set!Listing(new, Contents(p), Gone(p, s) \cup {i})
      BY <3>1, <3>2, <3>3, ListingGrows, Zenon
    <3> QED
      BY <3>4 DEF a
  <2> HIDE DEF r, new
  <2>10. Contents(r.q) = [j \in DOMAIN r.q.index |-> a[j]]
    BY <2>1, <2>3, <2>6
  <2>11. \A j \in Gone(p, r) : a[j].expiry <= now
    <3>1. a[i].expiry = root.expiry /\ root.expiry \in Nat
      BY <2>2, <2>4, NodeFacts DEF Entry
    <3>2. a[i].expiry <= now
      BY <2>1, <3>1
    <3> QED
      BY <3>2, <2>1, <2>7
  <2>12. \A j \in Gone(p, r), l \in DOMAIN r.q.index : Set!Before(a, j, l)
    <3>1. ASSUME NEW l \in DOMAIN s.q.index, l # i PROVE Set!Before(a, i, l)
      <4>1. Set!Before(Contents(s.q), i, l)
        BY <2>2, <3>1
      <4>2. Contents(s.q)[i] = a[i] /\ Contents(s.q)[l] = a[l]
        BY <2>1, <2>2
      <4> QED
        BY <4>1, <4>2 DEF Set!Before
    <3> QED
      BY <3>1, <2>1, <2>3, <2>6, <2>7
  <2>13. Taken(p, r)
    BY <2>1, <2>3, <2>6, <2>7, <2>9, <2>10, <2>11, <2>12 DEF Taken, a
  <2> QED
    BY <1>2, <2>3, <2>5, <2>6, <2>13 DEF h, Settled
<1> QED
  BY <1>1, <1>2

\* After n rounds of the loop.
Collecting(p, s, n) == Taken(p, s) /\ (Settled(s) \/ Len(s.q.heap) <= Len(p.heap) - n)

\* The whole loop: nothing is due after it.
LEMMA CollectWorks ==
  ASSUME now \in Nat, NEW p, Linked(p), HeapOrder(p.heap)
  PROVE  Taken(p, Collect(p)) /\ Settled(Collect(p))
<1> DEFINE k == Len(p.heap)
           s0 == [q |-> p, out |-> <<>>]
<1>1. p.heap \in Seq(Node) /\ k \in Nat
  BY DEF Linked
<1>2. PICK g : Rounds(g, "HandleTimeout", s0, k) /\ Collect(p) = g[k]
  BY <1>1, CollectRounds
<1> DEFINE T == {n \in Nat : n <= k => Collecting(p, g[n], n)}
<1>3. 0 \in T
  <2>1. g[0] = s0
    BY <1>1, <1>2 DEF Rounds
  <2>2. s0.q = p /\ s0.out = <<>>
    OBVIOUS
  <2> HIDE DEF s0
  <2>3. Gone(p, s0) = {}
    BY <2>2 DEF Gone
  <2>4. Contents(p) = [j \in DOMAIN p.index |-> Contents(p)[j]]
    BY DEF Contents
  <2>5. Set!Listing(<<>>, Contents(p), {}) /\ <<>> \in Seq(Ids \X Tasks)
    BY DEF Set!Listing
  <2>6. Taken(p, s0)
    BY <2>2, <2>3, <2>4, <2>5 DEF Taken
  <2>7. Collecting(p, s0, 0)
    BY <1>1, <2>2, <2>6 DEF Collecting
  <2> QED
    BY <2>1, <2>7
<1>4. ASSUME NEW n \in Nat, n \in T PROVE n + 1 \in T
  <2> SUFFICES ASSUME n + 1 <= k PROVE Collecting(p, g[n + 1], n + 1)
    OBVIOUS
  <2>1. Collecting(p, g[n], n)
    BY <1>1, <1>4
  <2>2. g[n + 1] = TakeDue(g[n])
    <3>1. n + 1 \in 0..k /\ n + 1 # 0 /\ (n + 1) - 1 = n
      BY <1>1
    <3> QED
      BY <1>2, <3>1, RoundIs DEF Rounds
  <2> DEFINE s == g[n]
             r == TakeDue(s)
  <2>2a. Taken(p, s) /\ (Settled(s) \/ Len(s.q.heap) <= k - n)
    BY <2>1 DEF Collecting
  <2>3. /\ Taken(p, r)
        /\ Settled(s) => r = s
        /\ Settled(s) \/ Len(r.q.heap) = Len(s.q.heap) - 1
    BY <2>2a, TakeRound
  <2>4. Len(s.q.heap) \in Nat
    BY <2>2a DEF Taken, Linked
  <2> HIDE DEF r
  <2>5. Settled(r) \/ Len(r.q.heap) <= k - (n + 1)
    <3>1. CASE Settled(s)
      BY <3>1, <2>3
    <3>2. CASE ~Settled(s)
      <4>1. Len(s.q.heap) <= k - n /\ Len(r.q.heap) = Len(s.q.heap) - 1
        BY <3>2, <2>2a, <2>3, Zenon
      <4> DEFINE x == Len(s.q.heap)
      <4> HIDE DEF x, k
      <4>2. x - 1 <= k - (n + 1)
        BY <1>1, <2>4, <4>1 DEF x
      <4> QED
        BY <4>1, <4>2 DEF x
    <3> QED
      BY <3>1, <3>2
  <2> QED
    BY <2>2, <2>3, <2>5 DEF r, Collecting
<1>5. Collecting(p, g[k], k)
  <2>1. \A n \in Nat : n \in T => n + 1 \in T
    BY <1>4
  <2>2. \A n \in Nat : n \in T
    <3> HIDE DEF T
    <3> QED
      BY <1>3, <2>1, SetInduction
  <2> QED
    BY <1>1, <2>2
<1>5a. Taken(p, g[k]) /\ (Settled(g[k]) \/ Len(g[k].q.heap) <= k - k)
  BY <1>5 DEF Collecting
<1>6. Settled(g[k])
  <2> DEFINE h == g[k].q.heap
  <2>1. h \in Seq(Node) /\ Len(h) \in Nat
    BY <1>5a DEF Taken, Linked
  <2>2. CASE Len(h) <= k - k
    <3>1. Len(h) = 0
      BY <1>1, <2>1, <2>2
    <3>2. h = <<>>
      BY <2>1, <3>1
    <3> QED
      BY <3>2 DEF Settled, DueNow
  <2> QED
    BY <1>5a, <2>2
<1> QED
  BY <1>2, <1>5a, <1>6

LEMMA LeastIs ==
  ASSUME NEW S, S \subseteq Int, NEW m \in S, \A x \in S : m <= x
  PROVE  Set!Least(S) = m
<1>1. \A x \in S : (\A y \in S : x <= y) => x = m
  OBVIOUS
<1> QED
  BY <1>1 DEF Set!Least

-----------------------------------------------------------------------------
(* Every operation is a step of the set of timers.                         *)

QueueInv == Linked(q) /\ HeapOrder(q.heap) /\ now \in Nat

LEMMA AddStep ==
  ASSUME QueueInv, NEW i \in Ids, NEW e \in Expiries, NEW k \in Tasks, AddTimer(i, e, k)
  PROVE  /\ QueueInv' /\ Set!Next
         /\ Queued' = Set!Added(Queued, i, e, k)
<1> DEFINE node == [timerId |-> i, expiry |-> e, task |-> k, valid |-> TRUE]
           x == [j \in DOMAIN q.index \cup {i} |-> IF j = i THEN Len(q.heap) ELSE q.index[j]]
<1>1. /\ q' = Fixup([heap |-> Append(q.heap, node), index |-> x], Len(q.heap))
      /\ i \notin DOMAIN q.index /\ Discard /\ now' = now
  BY DEF AddTimer
<1>2. node \in Node /\ node.timerId = i /\ Entry(node) = [expiry |-> e, task |-> k, valid |-> TRUE]
  BY DEF Node, Entry
<1> HIDE DEF node
<1>3. IsAdded(q, i, node, q')
  <2>1. x = [j \in DOMAIN q.index \cup {i} |-> IF j = i THEN Len(q.heap) ELSE q.index[j]]
    OBVIOUS
  <2> HIDE DEF x
  <2>2. Linked(q) /\ HeapOrder(q.heap) /\ i \notin DOMAIN q.index /\ node \in Node /\ node.timerId = i
    BY <1>1, <1>2 DEF QueueInv
  <2>3. QED
    BY <1>1, <2>1, <2>2, AddWorks, Zenon
<1>4. QueueInv'
  BY <1>1, <1>3 DEF QueueInv, IsAdded
<1>5. Queued' = Set!Added(Queued, i, e, k)
  <2>1. DOMAIN Contents(q) = DOMAIN q.index
    BY ContentsFacts
  <2> QED
    BY <1>2, <1>3, <2>1 DEF Queued, Set!Added, IsAdded
<1>6. i \in Ids \ DOMAIN Queued
  BY <1>1, ContentsFacts DEF Queued
<1>7. Set!Change
  BY <1>1, <1>5, <1>6, Zenon DEF Set!Change, Set!Discard, Discard
<1> QED
  BY <1>4, <1>5, <1>7 DEF Set!Next

LEMMA CancelStep ==
  ASSUME QueueInv, NEW i, CancelTimer(i)
  PROVE  /\ QueueInv' /\ Set!Next /\ i \in DOMAIN Queued
         /\ Queued' = [Queued EXCEPT ![i].valid = FALSE]
<1> DEFINE r == [heap |-> [q.heap EXCEPT ![q.index[i] + 1].valid = FALSE], index |-> q.index]
<1>1. q' = r /\ i \in DOMAIN q.index /\ Discard /\ now' = now
  BY Zenon DEF CancelTimer
<1>2. Linked(r) /\ HeapOrder(r.heap) /\ Contents(r) = [Contents(q) EXCEPT ![i].valid = FALSE]
  BY <1>1, CancelWorks, Zenon DEF QueueInv
<1> HIDE DEF r
<1>3. QueueInv'
  BY <1>1, <1>2 DEF QueueInv
<1>4. Queued' = [Queued EXCEPT ![i].valid = FALSE]
  BY <1>1, <1>2, Zenon DEF Queued
<1>5. i \in DOMAIN Queued
  BY <1>1, ContentsFacts DEF Queued
<1>6. Set!Change
  BY <1>1, <1>4, <1>5, Zenon DEF Set!Change, Set!Discard, Discard
<1> QED
  BY <1>3, <1>4, <1>5, <1>6, Zenon DEF Set!Next

LEMMA UpdateStep ==
  ASSUME QueueInv, NEW i, NEW e \in Expiries, UpdateTimer(i, e)
  PROVE  /\ QueueInv' /\ Set!Next /\ i \in DOMAIN Queued
         /\ Queued' = [Queued EXCEPT ![i].expiry = e]
<1> DEFINE u == [heap |-> [q.heap EXCEPT ![q.index[i] + 1].expiry = e], index |-> q.index]
<1>1. q' = MoveNode(u, q.index[i]) /\ i \in DOMAIN q.index /\ Discard /\ now' = now
  BY Zenon DEF UpdateTimer
<1>2. IsUpdated(q, i, e, q')
  <2>1. Linked(q) /\ HeapOrder(q.heap)
    BY DEF QueueInv
  <2>2. u = [heap |-> [q.heap EXCEPT ![q.index[i] + 1].expiry = e], index |-> q.index]
    BY Zenon
  <2> HIDE DEF u
  <2> QED
    BY <1>1, <2>1, <2>2, UpdateWorks, Zenon
<1>3. QueueInv'
  BY <1>1, <1>2, Zenon DEF QueueInv, IsUpdated
<1>4. Queued' = [Queued EXCEPT ![i].expiry = e]
  BY <1>2, Zenon DEF Queued, IsUpdated
<1>5. i \in DOMAIN Queued
  BY <1>1, ContentsFacts DEF Queued
<1>6. Set!Change
  BY <1>1, <1>4, <1>5, Zenon DEF Set!Change, Set!Discard, Discard
<1> QED
  BY <1>3, <1>4, <1>5, <1>6, Zenon DEF Set!Next

LEMMA MsFacts ==
  ASSUME NEW x \in Nat
  PROVE  Ms(x) \in Nat /\ Set!Ms(x) = Ms(x) /\ Ms(x) * PerMs <= x /\ x < Ms(x) * PerMs + PerMs
<1>1. PerMs \in Nat /\ PerMs > 0
  BY NumberAssumption
<1> QED
  BY <1>1 DEF Ms, Set!Ms

\* What HandleTimeout leaves: the timers that are not due.
LEMMA TimeoutLeaves ==
  ASSUME QueueInv, NEW s, s = Collect(q)
  PROVE  LET a == Queued
             due == {i \in DOMAIN a : a[i].expiry <= now}
             rest == DOMAIN a \ due
         IN /\ Linked(s.q) /\ HeapOrder(s.q.heap)
            /\ Set!Listing(s.out, a, due)
            /\ DOMAIN s.q.index = rest
            /\ Contents(s.q) = [i \in rest |-> a[i]]
            /\ s.q.heap # <<>> => s.q.heap[1].timerId \in rest /\ a[s.q.heap[1].timerId].expiry = s.q.heap[1].expiry
                                  /\ s.q.heap[1].expiry > now /\ s.q.heap[1].expiry \in Nat
                                  /\ \A i \in rest : s.q.heap[1].expiry <= a[i].expiry
            /\ s.q.heap = <<>> => rest = {}
<1> DEFINE a == Queued
           due == {i \in DOMAIN a : a[i].expiry <= now}
           rest == DOMAIN a \ due
           h == s.q.heap
<1>1. Taken(q, s) /\ Settled(s)
  BY CollectWorks DEF QueueInv
<1>2. DOMAIN a = DOMAIN q.index
  BY ContentsFacts DEF Queued
<1>3. /\ Linked(s.q) /\ HeapOrder(h) /\ DOMAIN s.q.index \subseteq DOMAIN a
      /\ Contents(s.q) = [i \in DOMAIN s.q.index |-> a[i]]
      /\ \A i \in DOMAIN a \ DOMAIN s.q.index : a[i].expiry <= now
      /\ Set!Listing(s.out, a, DOMAIN a \ DOMAIN s.q.index)
  BY <1>1, <1>2 DEF Taken, Gone, Queued
<1> HIDE DEF a
<1>4. now \in Nat /\ \A i \in DOMAIN a : a[i].expiry \in Nat
  BY <1>2, EntryFacts, NodeFacts DEF QueueInv, a, Queued
<1>5. h \in Seq(Node)
  BY <1>3 DEF Linked
<1>6. ASSUME h # <<>>
      PROVE  /\ h[1] \in Node /\ h[1].timerId \in DOMAIN s.q.index /\ h[1].expiry \in Nat /\ h[1].expiry > now
             /\ a[h[1].timerId].expiry = h[1].expiry
             /\ \A i \in DOMAIN s.q.index : h[1].expiry <= a[i].expiry
  <2>1. /\ h[1] \in Node /\ h[1].timerId \in DOMAIN s.q.index
        /\ Contents(s.q)[h[1].timerId] = Entry(h[1])
        /\ \A i \in DOMAIN s.q.index : h[1].expiry <= Contents(s.q)[i].expiry
    BY <1>3, <1>6, RootBefore
  <2>2. h[1].expiry \in Nat
    BY <2>1, NodeFacts
  <2>3. h[1].expiry > now
    BY <1>1, <1>4, <1>6, <2>2 DEF Settled, DueNow
  <2> QED
    BY <1>3, <2>1, <2>2, <2>3 DEF Entry
<1>7. h = <<>> => DOMAIN s.q.index = {}
  BY <1>3 DEF Linked
<1>8. ASSUME NEW i \in DOMAIN s.q.index PROVE i \in DOMAIN a /\ ~(a[i].expiry <= now)
  BY <1>3, <1>4, <1>6, <1>7
<1>9. DOMAIN a \ DOMAIN s.q.index = due /\ DOMAIN s.q.index = rest
  BY <1>3, <1>8
<1> HIDE DEF due
<1> QED
  BY <1>3, <1>6, <1>7, <1>9 DEF a, due

LEMMA TimeoutStep ==
  ASSUME QueueInv, HandleTimeout
  PROVE  /\ QueueInv' /\ Set!Next
         /\ DOMAIN Queued' \subseteq DOMAIN Queued
         /\ \A i \in DOMAIN Queued' : Queued'[i] = Queued[i]
<1> DEFINE s == Collect(q)
           a == Queued
           due == {i \in DOMAIN a : a[i].expiry <= now}
           rest == DOMAIN a \ due
           h == s.q.heap
<1>1. q' = s.q /\ fired' = s.out /\ wait' = SleepTime(h) /\ now' = now
  BY DEF HandleTimeout
<1>2. /\ Linked(s.q) /\ HeapOrder(h) /\ Set!Listing(s.out, a, due)
      /\ Contents(s.q) = [i \in rest |-> a[i]]
      /\ h # <<>> => /\ h[1].timerId \in rest /\ a[h[1].timerId].expiry = h[1].expiry
                     /\ h[1].expiry > now /\ h[1].expiry \in Nat
                     /\ \A i \in rest : h[1].expiry <= a[i].expiry
      /\ h = <<>> => rest = {}
  BY TimeoutLeaves
<1> HIDE DEF s
<1>3. QueueInv'
  BY <1>1, <1>2 DEF QueueInv
<1>4. Queued' = [i \in rest |-> a[i]]
  BY <1>1, <1>2 DEF Queued
<1>5. now \in Nat /\ \A i \in DOMAIN a : a[i].expiry \in Nat
  BY ContentsFacts, EntryFacts, NodeFacts DEF QueueInv, Queued
<1> HIDE DEF a
<1>6. wait' = IF rest = {} THEN Tick
              ELSE Set!Least({Tick, Set!Ms(Set!Least({a[i].expiry : i \in rest})) - Set!Ms(now)})
  <2>1. CASE h = <<>>
    BY <2>1, <1>1, <1>2 DEF SleepTime
  <2>2. CASE h # <<>>
    <3> DEFINE m == h[1].expiry
               E == {a[i].expiry : i \in rest}
               d == Ms(m) - Ms(now)
    <3>1. rest # {} /\ m \in E /\ m \in Nat /\ \A e \in E : m <= e
      BY <1>2, <2>2
    <3>2. E \subseteq Int
      BY <1>5
    <3> HIDE DEF m, E
    <3>3. Set!Least(E) = m
      BY <3>1, <3>2, LeastIs
    <3>4. Set!Ms(m) = Ms(m) /\ Set!Ms(now) = Ms(now) /\ Ms(m) \in Nat /\ Ms(now) \in Nat
      BY <1>5, <3>1, MsFacts
    <3>5. d \in Int /\ Tick \in Int
      BY <3>4, NumberAssumption
    <3>6. wait' = IF d > Tick THEN Tick ELSE d
      BY <1>1, <2>2 DEF SleepTime, m
    <3> HIDE DEF d
    <3>7. Set!Least({Tick, d}) = wait'
      <4> DEFINE S == {Tick, d}
      <4>1. S \subseteq Int /\ wait' \in S /\ \A x \in S : wait' <= x
        BY <3>5, <3>6
      <4> HIDE DEF S
      <4>2. Set!Least(S) = wait'
        BY <4>1, LeastIs
      <4> QED
        BY <4>2 DEF S
    <3> QED
      BY <3>1, <3>3, <3>4, <3>7 DEF d, E
  <2> QED
    BY <2>1, <2>2
<1>7. Set!Timeout
  BY <1>1, <1>2, <1>4, <1>6 DEF Set!Timeout, a
<1> QED
  BY <1>3, <1>4, <1>7 DEF Set!Next, a

LEMMA TimesOrder ==
  ASSUME NEW x \in Nat, NEW y \in Nat, NEW c \in Nat, x <= y
  PROVE  x * c <= y * c
<1> DEFINE z == y - x
<1>1. z \in Nat /\ y = x + z
  OBVIOUS
<1> HIDE DEF z
<1>2. y * c = x * c + z * c /\ z * c \in Nat /\ x * c \in Nat
  BY <1>1
<1> QED
  BY <1>2

\* Sleeping for what HandleTimeout returned.
LEMMA TimeoutPunctual ==
  ASSUME QueueInv, HandleTimeout
  PROVE  /\ wait' \in 0..Tick
         /\ \A n \in DOMAIN q'.heap : now + wait' * PerMs < q'.heap[n].expiry + PerMs
<1> DEFINE s == Collect(q)
           a == Queued
           due == {i \in DOMAIN a : a[i].expiry <= now}
           rest == DOMAIN a \ due
           h == s.q.heap
<1>1. q' = s.q /\ wait' = SleepTime(h) /\ now' = now
  BY DEF HandleTimeout
<1>2. /\ Linked(s.q) /\ HeapOrder(h)
      /\ h # <<>> => h[1].expiry > now /\ h[1].expiry \in Nat
  BY TimeoutLeaves
<1> HIDE DEF s
<1>3. now \in Nat /\ Tick \in Nat \ {0} /\ PerMs \in Nat \ {0} /\ h \in Seq(Node)
  BY <1>2, NumberAssumption DEF QueueInv, Linked
<1>4. CASE h = <<>>
  <2>1. wait' = Tick /\ DOMAIN q'.heap = {}
    BY <1>1, <1>4 DEF SleepTime
  <2> QED
    BY <2>1, <1>3
<1>5. CASE h # <<>>
  <2> DEFINE m == h[1].expiry
             d == Ms(m) - Ms(now)
  <2>1. m \in Nat /\ now < m
    BY <1>2, <1>3, <1>5
  <2>2. /\ Ms(m) \in Nat /\ Ms(m) * PerMs <= m /\ m < Ms(m) * PerMs + PerMs
        /\ Ms(now) \in Nat /\ Ms(now) * PerMs <= now /\ now < Ms(now) * PerMs + PerMs
    BY <1>3, <2>1, MsFacts
  <2>3. wait' = IF d > Tick THEN Tick ELSE d
    BY <1>1, <1>5 DEF SleepTime
  <2> HIDE DEF m
  <2>4. Ms(now) <= Ms(m)
    <3> DEFINE w == Ms(m) + 1
    <3>1. w \in Nat /\ w * PerMs = Ms(m) * PerMs + PerMs
      BY <2>2, <1>3
    <3>2. Ms(m) < Ms(now) => w <= Ms(now)
      BY <2>2
    <3> HIDE DEF w
    <3>3. w <= Ms(now) => w * PerMs <= Ms(now) * PerMs
      BY <3>1, <2>2, <1>3, TimesOrder
    <3> QED
      BY <3>1, <3>2, <3>3, <2>1, <2>2, <1>3
  <2>5. d \in Nat /\ wait' \in 0..Tick /\ wait' <= d
    BY <2>2, <2>3, <2>4, <1>3
  <2>6. wait' * PerMs <= d * PerMs /\ wait' * PerMs \in Int
    BY <2>5, <1>3
  <2>7. d * PerMs = Ms(m) * PerMs - Ms(now) * PerMs
    BY <2>2, <1>3
  <2>8. now + wait' * PerMs < m + PerMs
    BY <2>1, <2>2, <2>6, <2>7, <1>3
  <2>9. ASSUME NEW n \in DOMAIN q'.heap PROVE now + wait' * PerMs < q'.heap[n].expiry + PerMs
    <3>1. n \in 1..Len(h) /\ h[n] \in Node /\ n - 1 \in Places(h) /\ (n - 1) + 1 = n
      BY <1>1, <1>3 DEF Places
    <3>2. NotAfter(At(h, 0), At(h, n - 1))
      BY <3>1, <1>2, <1>3, RootFirst
    <3>3. NotAfter(h[1], h[n])
      BY <3>1, <3>2 DEF At
    <3>4. h[1] \in Node /\ h[n].expiry \in Nat
      BY <1>3, <1>5, <3>1, NodeFacts
    <3>5. m <= h[n].expiry
      BY <3>3, <3>4, <2>1 DEF NotAfter, After, m
    <3> QED
      BY <3>4, <3>5, <2>1, <2>6, <2>8, <1>1, <1>3
  <2> QED
    BY <2>5, <2>9
<1> QED
  BY <1>4, <1>5

-----------------------------------------------------------------------------
(* Timers.                                                                 *)

\* The queue is a linked heap, and every valid node belongs to a Timer.
TimerInv ==
  /\ QueueInv
  /\ created \in 0..MaxId /\ DOMAIN expiry \subseteq 1..created
  /\ \A i \in DOMAIN expiry : expiry[i] \in Expiries
  /\ TimersOwned

LEMMA TimerInvInit == TimerInit => TimerInv /\ Set!Init
<1> SUFFICES ASSUME TimerInit PROVE TimerInv /\ Set!Init
  OBVIOUS
<1>1. q = [heap |-> <<>>, index |-> <<>>] /\ q.heap = <<>> /\ q.index = <<>>
  BY DEF TimerInit, QueueInit
<1>2. Linked(q) /\ HeapOrder(q.heap)
  BY <1>1 DEF Linked, HeapOrder, Sons
<1>3. Queued = <<>>
  <2>1. DOMAIN Queued = {}
    BY <1>1, ContentsFacts DEF Queued
  <2>2. Queued = [i \in DOMAIN Queued |-> Queued[i]]
    BY DEF Queued, Contents
  <2> QED
    BY <2>1, <2>2
<1>4. TimerInv
  BY <1>2, <1>3, NumberAssumption DEF TimerInv, QueueInv, TimersOwned, TimerInit, QueueInit
<1>5. Set!Init
  BY <1>3 DEF Set!Init, TimerInit, QueueInit
<1> QED
  BY <1>4, <1>5

LEMMA WithoutFacts ==
  ASSUME NEW f, NEW i
  PROVE  /\ DOMAIN Without(f, i) = DOMAIN f \ {i}
         /\ \A j \in DOMAIN f : j # i => Without(f, i)[j] = f[j]
BY DEF Without

\* What a cancelled and a moved timer has.
LEMMA ChangedFacts ==
  ASSUME NEW a, NEW i \in DOMAIN a, DOMAIN a[i] = {"expiry", "task", "valid"}, NEW e
  PROVE  /\ LET c == [a EXCEPT ![i].valid = FALSE] IN
            DOMAIN c = DOMAIN a /\ c[i].valid = FALSE /\ \A j \in DOMAIN a : j # i => c[j] = a[j]
         /\ LET c == [a EXCEPT ![i].expiry = e] IN
            DOMAIN c = DOMAIN a /\ c[i].expiry = e /\ \A j \in DOMAIN a : j # i => c[j] = a[j]
<1>1. DOMAIN [a EXCEPT ![i].valid = FALSE] = DOMAIN a /\ DOMAIN [a EXCEPT ![i].expiry = e] = DOMAIN a
  BY Zenon
<1>2. [a EXCEPT ![i].valid = FALSE][i].valid = FALSE /\ [a EXCEPT ![i].expiry = e][i].expiry = e
  BY Zenon
<1>3. \A j \in DOMAIN a : j # i => [a EXCEPT ![i].valid = FALSE][j] = a[j] /\ [a EXCEPT ![i].expiry = e][j] = a[j]
  BY Zenon
<1> QED
  BY <1>1, <1>2, <1>3, Zenon

LEMMA QueuedFacts ==
  ASSUME QueueInv, NEW i \in DOMAIN Queued
  PROVE  i \in Ids /\ Queued[i].valid \in BOOLEAN /\ DOMAIN Queued[i] = {"expiry", "task", "valid"}
<1>1. i \in DOMAIN q.index
  BY ContentsFacts DEF Queued
<1>2. Queued[i] = Entry(q.heap[q.index[i] + 1])
  BY <1>1, ContentsFacts DEF Queued
<1>3. DOMAIN Queued[i] = {"expiry", "task", "valid"}
  BY <1>2 DEF Entry
<1> QED
  BY <1>1, <1>3, EntryFacts DEF QueueInv, Queued

\* A timer of the queue that is left alone keeps its owner.
Owned(a, f, i) == a[i].valid => i \in DOMAIN f /\ f[i] = a[i].expiry

LEMMA TimerInvStep ==
  ASSUME TimerInv, TimerNext
  PROVE  TimerInv' /\ (Set!Next \/ UNCHANGED queueVars)
<1>1. /\ QueueInv /\ created \in 0..MaxId /\ DOMAIN expiry \subseteq 1..created
      /\ \A i \in DOMAIN expiry : expiry[i] \in Expiries
      /\ \A i \in DOMAIN Queued : Owned(Queued, expiry, i)
      /\ MaxId \in Nat /\ created \in Nat /\ \A i \in DOMAIN expiry : i \in Ids
  BY NumberAssumption DEF TimerInv, TimersOwned, Owned, Ids
<1>2. ASSUME UNCHANGED queueVars PROVE QueueInv' /\ Queued' = Queued
  BY <1>1, <1>2 DEF QueueInv, queueVars, Queued
<1>3. ASSUME QueueInv', created' \in 0..MaxId, DOMAIN expiry' \subseteq 1..created',
             \A i \in DOMAIN expiry' : expiry'[i] \in Expiries,
             \A i \in DOMAIN Queued' : Owned(Queued', expiry', i)
      PROVE  TimerInv'
  BY <1>3 DEF TimerInv, TimersOwned, Owned
<1>4. ASSUME NEW e \in Expiries, Construct(e)
      PROVE  /\ created' = created + 1 /\ created' \in Ids /\ created' \in 0..MaxId
             /\ DOMAIN expiry' = DOMAIN expiry \cup {created'} /\ DOMAIN expiry' \subseteq 1..created'
             /\ \A i \in DOMAIN expiry' : expiry'[i] \in Expiries
             /\ expiry'[created'] = e
             /\ \A i \in DOMAIN expiry : i # created' /\ expiry'[i] = expiry[i]
             /\ \A i \in DOMAIN Queued : Owned(Queued, expiry', i)
  <2>1. created' = created + 1 /\ created < MaxId /\ expiry' = With(expiry, created', e)
    BY <1>4 DEF Construct
  <2>2. created' \in Ids /\ created' \in 0..MaxId /\ \A i \in 1..created : i # created' /\ i \in 1..created' /\ created' \in 1..created'
    BY <1>1, <2>1 DEF Ids
  <2>2a. created' \in 1..created'
    BY <1>1, <2>1
  <2>3. /\ DOMAIN expiry' = DOMAIN expiry \cup {created'} /\ expiry'[created'] = e
        /\ \A i \in DOMAIN expiry : i # created' => expiry'[i] = expiry[i]
    BY <2>1, Zenon DEF With
  <2>4. \A i \in DOMAIN expiry : i # created' /\ expiry'[i] = expiry[i]
    BY <1>1, <2>2, <2>3
  <2>5. DOMAIN expiry' \subseteq 1..created'
    BY <1>1, <2>2, <2>2a, <2>3
  <2>6. \A i \in DOMAIN expiry' : expiry'[i] \in Expiries
    BY <1>1, <2>3, <2>4
  <2>7. \A i \in DOMAIN Queued : Owned(Queued, expiry', i)
    BY <1>1, <2>3, <2>4 DEF Owned
  <2> QED
    BY <2>1, <2>2, <2>3, <2>4, <2>5, <2>6, <2>7
<1>5. ASSUME NEW i \in Ids, NEW e \in Expiries, NEW k \in Tasks, AddTimer(i, e, k)
      PROVE  /\ QueueInv' /\ Set!Next /\ DOMAIN Queued' = DOMAIN Queued \cup {i}
             /\ Queued'[i].expiry = e
             /\ \A j \in DOMAIN Queued : j # i => Queued'[j] = Queued[j]
  BY <1>1, <1>5, AddStep DEF Set!Added
<1>6. CASE Create
  <2>1. Construct(Epoch) /\ UNCHANGED queueVars /\ Epoch \in Expiries
    BY <1>6, EpochAssumption DEF Create
  <2>2. QueueInv' /\ Queued' = Queued
    BY <2>1, <1>2
  <2> QED
    BY <2>1, <2>2, <1>3, <1>4
<1>7. ASSUME NEW e \in Expiries, NEW k \in Tasks, Sleep(e, k) PROVE TimerInv' /\ Set!Next
  <2>1. Construct(e) /\ AddTimer(created', e, k)
    BY <1>7 DEF Sleep
  <2>2. created' \in Ids
    BY <2>1, <1>4
  <2>3. /\ QueueInv' /\ Set!Next /\ DOMAIN Queued' = DOMAIN Queued \cup {created'}
        /\ Queued'[created'].expiry = e
        /\ \A j \in DOMAIN Queued : j # created' => Queued'[j] = Queued[j]
    BY <2>1, <2>2, <1>5
  <2>4. ASSUME NEW i \in DOMAIN Queued' PROVE Owned(Queued', expiry', i)
    <3>1. CASE i = created'
      BY <3>1, <2>1, <2>3, <1>4 DEF Owned
    <3>2. CASE i # created'
      BY <3>2, <2>1, <2>3, <1>4 DEF Owned
    <3> QED
      BY <3>1, <3>2
  <2> QED
    BY <2>1, <2>3, <2>4, <1>3, <1>4
<1>8. ASSUME NEW i \in DOMAIN expiry, NEW e \in Expiries, ExpiresAt(i, e)
      PROVE  TimerInv' /\ (Set!Next \/ UNCHANGED queueVars)
  <2>1. created' = created /\ DOMAIN expiry' = DOMAIN expiry /\ expiry'[i] = e
        /\ \A j \in DOMAIN expiry : j # i => expiry'[j] = expiry[j]
    BY <1>8 DEF ExpiresAt
  <2>2. \A j \in DOMAIN expiry' : expiry'[j] \in Expiries
    BY <1>1, <2>1
  <2>3. CASE InQueue(i)
    <3>1. UpdateTimer(i, e)
      BY <1>8, <2>3 DEF ExpiresAt
    <3>2. /\ QueueInv' /\ Set!Next /\ i \in DOMAIN Queued
          /\ Queued' = [Queued EXCEPT ![i].expiry = e]
      BY <3>1, <1>1, UpdateStep, Zenon
    <3>3. DOMAIN Queued' = DOMAIN Queued /\ Queued'[i].expiry = e /\ \A j \in DOMAIN Queued : j # i => Queued'[j] = Queued[j]
      <4>1. DOMAIN Queued[i] = {"expiry", "task", "valid"} /\ i \in DOMAIN Queued
        BY <3>2, <1>1, QueuedFacts, Zenon
      <4> QED
        BY <3>2, <4>1, ChangedFacts, Zenon
    <3>4. ASSUME NEW j \in DOMAIN Queued' PROVE Owned(Queued', expiry', j)
      <4>1. CASE j = i
        BY <4>1, <3>3, <2>1 DEF Owned
      <4>2. CASE j # i
        BY <4>2, <3>3, <2>1, <1>1 DEF Owned
      <4> QED
        BY <4>1, <4>2
    <3>5. QueueInv' /\ Set!Next
      BY <3>2, Zenon
    <3> QED
      BY <2>1, <2>2, <3>4, <3>5, <1>1, <1>3
  <2>4. CASE ~InQueue(i)
    <3>1. UNCHANGED queueVars
      BY <1>8, <2>4 DEF ExpiresAt
    <3>2. QueueInv' /\ Queued' = Queued /\ i \notin DOMAIN Queued
      BY <3>1, <2>4, <1>2, ContentsFacts DEF InQueue, Queued
    <3>3. \A j \in DOMAIN Queued : Owned(Queued, expiry', j)
      BY <3>2, <2>1, <1>1 DEF Owned
    <3> QED
      BY <2>1, <2>2, <3>1, <3>2, <3>3, <1>1, <1>3
  <2> QED
    BY <2>3, <2>4
<1>9. ASSUME NEW i \in DOMAIN expiry, NEW k \in Tasks, AsyncWait(i, k) PROVE TimerInv' /\ Set!Next
  <2>1. AddTimer(i, expiry[i], k) /\ created' = created /\ expiry' = expiry
    BY <1>9 DEF AsyncWait
  <2>2. /\ QueueInv' /\ Set!Next /\ DOMAIN Queued' = DOMAIN Queued \cup {i}
        /\ Queued'[i].expiry = expiry[i]
        /\ \A j \in DOMAIN Queued : j # i => Queued'[j] = Queued[j]
    BY <2>1, <1>1, <1>5
  <2>3. ASSUME NEW j \in DOMAIN Queued' PROVE Owned(Queued', expiry, j)
    <3>1. CASE j = i
      BY <3>1, <2>2 DEF Owned
    <3>2. CASE j # i
      BY <3>2, <2>2, <1>1 DEF Owned
    <3> QED
      BY <3>1, <3>2
  <2> QED
    BY <2>1, <2>2, <2>3, <1>1, <1>3
<1>10. ASSUME NEW i, CancelIfQueued(i)
       PROVE  /\ QueueInv' /\ (Set!Next \/ UNCHANGED queueVars)
              /\ DOMAIN Queued' = DOMAIN Queued
              /\ i \in DOMAIN Queued => ~Queued'[i].valid
              /\ \A j \in DOMAIN Queued : j # i => Queued'[j] = Queued[j]
  <2>1. CASE InQueue(i)
    <3>1. CancelTimer(i)
      BY <1>10, <2>1 DEF CancelIfQueued
    <3>2. /\ QueueInv' /\ Set!Next /\ i \in DOMAIN Queued
          /\ Queued' = [Queued EXCEPT ![i].valid = FALSE]
      BY <3>1, <1>1, CancelStep, Zenon
    <3>3. DOMAIN Queued' = DOMAIN Queued /\ Queued'[i].valid = FALSE /\ \A j \in DOMAIN Queued : j # i => Queued'[j] = Queued[j]
      <4>1. DOMAIN Queued[i] = {"expiry", "task", "valid"} /\ i \in DOMAIN Queued
        BY <3>2, <1>1, QueuedFacts, Zenon
      <4> QED
        BY <3>2, <4>1, ChangedFacts, Zenon
    <3>5. QueueInv' /\ Set!Next
      BY <3>2, Zenon
    <3> QED
      BY <3>3, <3>5
  <2>2. CASE ~InQueue(i)
    <3>1. UNCHANGED queueVars
      BY <1>10, <2>2 DEF CancelIfQueued
    <3>2. QueueInv' /\ Queued' = Queued /\ i \notin DOMAIN Queued
      BY <3>1, <2>2, <1>2, ContentsFacts DEF InQueue, Queued
    <3> QED
      BY <3>1, <3>2
  <2> QED
    BY <2>1, <2>2
<1>11. ASSUME NEW i \in DOMAIN expiry, Cancel(i) PROVE TimerInv' /\ (Set!Next \/ UNCHANGED queueVars)
  <2>1. CancelIfQueued(i) /\ created' = created /\ expiry' = expiry
    BY <1>11 DEF Cancel
  <2>2. ASSUME NEW j \in DOMAIN Queued' PROVE Owned(Queued', expiry, j)
    BY <2>1, <1>1, <1>10 DEF Owned
  <2> QED
    BY <2>1, <2>2, <1>1, <1>3, <1>10
<1>12. ASSUME NEW i \in DOMAIN expiry, Destroy(i) PROVE TimerInv' /\ (Set!Next \/ UNCHANGED queueVars)
  <2>1. CancelIfQueued(i) /\ created' = created /\ expiry' = Without(expiry, i)
    BY <1>12 DEF Destroy
  <2>2. DOMAIN expiry' = DOMAIN expiry \ {i} /\ \A j \in DOMAIN expiry : j # i => expiry'[j] = expiry[j]
    BY <2>1, WithoutFacts
  <2>3. ASSUME NEW j \in DOMAIN Queued' PROVE Owned(Queued', expiry', j)
    <3>1. CASE j = i
      BY <3>1, <2>1, <1>10 DEF Owned
    <3>2. CASE j # i
      BY <3>2, <2>1, <2>2, <1>1, <1>10 DEF Owned
    <3> QED
      BY <3>1, <3>2
  <2>4. DOMAIN expiry' \subseteq 1..created' /\ \A j \in DOMAIN expiry' : expiry'[j] \in Expiries
    BY <2>1, <2>2, <1>1
  <2> QED
    BY <2>1, <2>3, <2>4, <1>1, <1>3, <1>10
<1>13. CASE RunTimers
  <2>1. HandleTimeout /\ created' = created /\ expiry' = expiry
    BY <1>13 DEF RunTimers
  <2>2. QueueInv' /\ Set!Next /\ DOMAIN Queued' \subseteq DOMAIN Queued /\ \A i \in DOMAIN Queued' : Queued'[i] = Queued[i]
    BY <2>1, <1>1, TimeoutStep
  <2>3. \A i \in DOMAIN Queued' : Owned(Queued', expiry, i)
    BY <2>2, <1>1 DEF Owned
  <2> QED
    BY <2>1, <2>2, <2>3, <1>1, <1>3
<1>14. CASE TimePasses
  <2>1. Advance /\ created' = created /\ expiry' = expiry
    BY <1>14 DEF TimePasses
  <2>2. now \in Nat /\ now' = now + 1 /\ q' = q /\ Discard
    BY <2>1, <1>1 DEF Advance, QueueInv
  <2>3. Queued' = Queued
    BY <2>2 DEF Queued
  <2>4. QueueInv'
    BY <2>2, <1>1 DEF QueueInv
  <2>5. Set!Advance
    BY <2>2, <2>3 DEF Set!Advance, Set!Discard, Discard
  <2> QED
    BY <2>1, <2>3, <2>4, <2>5, <1>1, <1>3 DEF Set!Next
<1> QED
  BY <1>6, <1>7, <1>8, <1>9, <1>11, <1>12, <1>13, <1>14 DEF TimerNext, MoveAssign

LEMMA TimerInvariant == TimerSpec => []TimerInv
<1>1. TimerInv /\ [TimerNext]_timerVars => TimerInv'
  <2> SUFFICES ASSUME TimerInv, [TimerNext]_timerVars PROVE TimerInv'
    OBVIOUS
  <2>1. CASE UNCHANGED timerVars
    BY <2>1 DEF timerVars, queueVars, TimerInv, QueueInv, TimersOwned, Queued
  <2> QED
    BY <2>1, TimerInvStep
<1> QED
  BY <1>1, TimerInvInit, PTL DEF TimerSpec

\* TimerQueue.cpp: the heap, the map from ids to positions and the loops of
\* AddTimer, UpdateTimer, CancelTimer and HandleTimeout together are a set of
\* timers: nothing is lost, fired early, out of order, twice or when cancelled.
THEOREM QueueImplementsSet == TimerSpec => ImplementsTimerSet
<1>1. TimerInv /\ [TimerNext]_timerVars => [Set!Next]_(Set!vars)
  <2> SUFFICES ASSUME TimerInv, [TimerNext]_timerVars PROVE [Set!Next]_(Set!vars)
    OBVIOUS
  <2>1. UNCHANGED queueVars => UNCHANGED Set!vars
    BY DEF queueVars, Set!vars, Queued
  <2>2. CASE UNCHANGED timerVars
    BY <2>1, <2>2 DEF timerVars
  <2> QED
    BY <2>1, <2>2, TimerInvStep
<1> QED
  BY <1>1, TimerInvariant, TimerInvInit, PTL DEF TimerSpec, ImplementsTimerSet, Set!Spec

\* Timer.cpp:12: a node that can still fire belongs to a Timer that exists and
\* has its expiry.
THEOREM NoTimerOutlivesOwner == TimerSpec => []TimersOwned
<1>1. TimerInv => TimersOwned
  BY DEF TimerInv
<1> QED
  BY <1>1, TimerInvariant, PTL

\* The clock and what HandleTimeout returned.
Timing == now \in Instants /\ wait \in 0..Tick

LEMMA TimingStep ==
  ASSUME QueueInv, Timing, TimerNext
  PROVE  Timing'
<1>1. ASSUME UNCHANGED queueVars \/ (Discard /\ UNCHANGED now) PROVE Timing'
  BY <1>1, NumberAssumption DEF Timing, queueVars, Discard
<1>2. ASSUME NEW i, CancelIfQueued(i) PROVE Timing'
  BY <1>1, <1>2, Zenon DEF CancelIfQueued, CancelTimer
<1>3. CASE Create
  BY <1>1, <1>3 DEF Create
<1>4. ASSUME NEW i, NEW e, NEW k, AddTimer(i, e, k) PROVE Timing'
  BY <1>1, <1>4, Zenon DEF AddTimer
<1>5. ASSUME NEW i, NEW e, ExpiresAt(i, e) PROVE Timing'
  BY <1>1, <1>5, Zenon DEF ExpiresAt, UpdateTimer
<1>6. CASE RunTimers
  <2>1. HandleTimeout /\ now' = now
    BY <1>6 DEF RunTimers, HandleTimeout
  <2> QED
    BY <2>1, TimeoutPunctual DEF Timing
<1>7. CASE TimePasses
  <2>1. now < MaxTime /\ now' = now + 1 /\ wait' = Tick
    BY <1>7 DEF TimePasses, Advance, Discard
  <2> QED
    BY <2>1, NumberAssumption DEF Timing, Instants
<1> QED
  BY <1>2, <1>3, <1>4, <1>5, <1>6, <1>7, Zenon
  DEF TimerNext, Sleep, AsyncWait, Cancel, Destroy, MoveAssign

\* TimerQueue.h:46-47: the nodes, the positions in the map and what HandleTimeout
\* returned are in their ranges.
THEOREM QueueTyped == TimerSpec => []QueueTypeOK
<1>1. TimerInit => Timing
  BY NumberAssumption DEF TimerInit, QueueInit, Timing, Instants
<1>2. TimerInv /\ Timing /\ [TimerNext]_timerVars => Timing'
  <2> SUFFICES ASSUME TimerInv, Timing, [TimerNext]_timerVars PROVE Timing'
    OBVIOUS
  <2>1. CASE UNCHANGED timerVars
    BY <2>1 DEF timerVars, queueVars, Timing
  <2> QED
    BY <2>1, TimingStep DEF TimerInv
<1>3. TimerInv /\ Timing => QueueTypeOK
  BY DEF TimerInv, QueueInv, Timing, QueueTypeOK, Linked
<1> QED
  BY <1>1, <1>2, <1>3, TimerInvariant, PTL DEF TimerSpec

\* TimerQueue.cpp:85-90: what HandleTimeout returns is within the tick, and the
\* sleep ends less than a millisecond after any timer that is left is due.
THEOREM SleepsArePunctual == TimerSpec => SleepIsPunctual
<1>1. TimerInv /\ [TimerNext]_timerVars =>
        [HandleTimeout => /\ wait' \in 0..Tick
                          /\ \A n \in DOMAIN q'.heap : now + wait' * PerMs < q'.heap[n].expiry + PerMs]_timerVars
  BY TimeoutPunctual DEF TimerInv
<1> QED
  BY <1>1, TimerInvariant, PTL DEF TimerSpec, SleepIsPunctual
=============================================================================
