-------------------------- MODULE IoServiceProofs --------------------------
(***************************************************************************)
(* Proofs about IoService, for every set of tasks and of threads, foreign  *)
(* ones included, and every bound on the suspensions of a task.  Only the  *)
(* theorem on frames assumes that no foreign thread resumes coroutines.    *)
(***************************************************************************)
EXTENDS IoService, FiniteSetTheorems, TLAPS

-----------------------------------------------------------------------------
(* Facts about the sequences the loop works on.                            *)

\* Dropping the innermost coroutine of a stack leaves a stack.
LEMMA FrontType ==
  ASSUME NEW S, NEW s \in Seq(S), s # <<>>
  PROVE  /\ Front(s) \in Seq(S)
         /\ Last(s) \in S
BY DEF Front, Last

\* Any order of a set of tasks is a sequence of tasks.
LEMMA SetToSeqsType ==
  ASSUME NEW S, NEW T, T \subseteq S, Cardinality(T) \in Nat,
         NEW s \in SetToSeqs(T)
  PROVE  s \in Seq(S)
BY DEF SetToSeqs

-----------------------------------------------------------------------------
(* Type correctness.                                                       *)

LEMMA TypeInit == Init => TypeOK
<1> SUFFICES ASSUME Init PROVE TypeOK
  OBVIOUS
<1>1. co \in [Tasks -> CoStates]
  BY DEF Init, CoStates
<1>2. stack \in [Procs -> Seq(Tasks)]
  <2>1. <<>> \in Seq(Tasks)
    OBVIOUS
  <2> QED
    BY <2>1 DEF Init
<1>3. suspends \in [Tasks -> 0..MaxSuspends]
  BY BoundAssumption DEF Init
<1>4. stopping \in [Procs -> {"no", "stored", "woken"}]
  BY DEF Init
<1>5. running \in BOOLEAN /\ signalled \in BOOLEAN /\ pc \in LoopPcs
  BY DEF Init, LoopPcs
<1>6. pending \in Seq(Tasks) /\ batch \in Seq(Tasks)
      /\ completion \in Seq(Tasks) /\ doomed \in Seq(Tasks)
  BY DEF Init
<1>7. awaiting \subseteq Tasks /\ lock \in Procs \cup {NoThread}
  BY DEF Init
<1> QED
  BY <1>1, <1>2, <1>3, <1>4, <1>5, <1>6, <1>7 DEF TypeOK

LEMMA SuspendType ==
  ASSUME TypeOK, NEW t \in Procs, NEW w \in {"io", "parked"}, SuspendIn(t, w)
  PROVE  TypeOK'
<1> DEFINE c == Last(stack[t])
<1>1. c \in Tasks /\ Front(stack[t]) \in Seq(Tasks)
  BY FrontType DEF SuspendIn, TypeOK
<1>2. suspends' \in [Tasks -> 0..MaxSuspends]
  BY <1>1, BoundAssumption DEF SuspendIn, TypeOK, MaySuspend
<1> QED
  BY <1>1, <1>2 DEF SuspendIn, TypeOK, CoStates, queues

LEMMA RunBatchType ==
  ASSUME TypeOK, NEW next \in LoopPcs, RunBatch(next)
  PROVE  TypeOK'
<1>1. CASE batch = <<>>
  BY <1>1 DEF RunBatch, TypeOK
<1>2. CASE batch # <<>>
  <2>1. Head(batch) \in Tasks /\ Tail(batch) \in Seq(Tasks)
    BY <1>2 DEF TypeOK
  <2>2. co' \in [Tasks -> CoStates] /\ awaiting' \subseteq Tasks
    BY <1>2, <2>1 DEF RunBatch, Keep, TypeOK, CoStates
  <2>3. stack' \in [Procs -> Seq(Tasks)]
    <3>1. <<Head(batch)>> \in Seq(Tasks)
      BY <2>1
    <3> QED
      BY <1>2, <3>1 DEF RunBatch, TypeOK
  <2> QED
    BY <1>2, <2>1, <2>2, <2>3 DEF RunBatch, TypeOK
<1> QED
  BY <1>1, <1>2

\* What a coroutine or a thread does keeps the types.
LEMMA TypeUserStep ==
  ASSUME TypeOK, NEW t \in Procs, UserStep(t)
  PROVE  TypeOK'
<1> USE DEF TypeOK, queues
<1>1. ASSUME NEW d \in Tasks, AddTaskPush(t, d) PROVE TypeOK'
  BY <1>1 DEF AddTaskPush, CoStates
<1>2. ASSUME NEW d \in Tasks, ResumeParked(t, d) PROVE TypeOK'
  BY <1>2 DEF ResumeParked, CoStates
<1>3. ASSUME NEW d \in Tasks, AddTimer(t, d) PROVE TypeOK'
  BY <1>3 DEF AddTimer, CoStates
<1>4. ASSUME NEW d \in Tasks, CancelTimer(t, d) PROVE TypeOK'
  BY <1>4 DEF CancelTimer, CoStates
<1>5. CASE AddTaskWake(t)
  BY <1>5 DEF AddTaskWake, WakeUp
<1>6. CASE StopStore(t)
  BY <1>6 DEF StopStore
<1>7. CASE StopWake(t)
  BY <1>7 DEF StopWake, WakeUp
<1>8. CASE Park(t)
  BY <1>8, SuspendType DEF Park
<1>9. CASE FinishPush(t)
  BY <1>9, FrontType DEF FinishPush, Publish, CoStates
<1>10. CASE FinishDone(t)
  BY <1>10, FrontType DEF FinishDone, CoStates
<1> QED
  BY <1>1, <1>2, <1>3, <1>4, <1>5, <1>6, <1>7, <1>8, <1>9, <1>10 DEF UserStep

\* Every step of Start() keeps the types.
LEMMA TypeLoopStep ==
  ASSUME TypeOK, LoopStep
  PROVE  TypeOK'
<1> USE DEF TypeOK, queues
<1>1. CASE Start
  BY <1>1 DEF Start, LoopPcs
<1>2. CASE SwapPending
  BY <1>2 DEF SwapPending, TakePending, LoopPcs, CoStates
<1>3. CASE RunPending
  BY <1>3, RunBatchType DEF RunPending, LoopPcs
<1>4. CASE HandleTimeout
  <2> DEFINE E == {c \in Tasks : co[c] = "expired"}
  <2>1. IsFiniteSet(E)
    BY BoundAssumption, FS_Subset
  <2>2. Cardinality(E) \in Nat
    BY <2>1, FS_CardinalityType
  <2>3. batch' \in Seq(Tasks)
    BY <1>4, <2>2, SetToSeqsType DEF HandleTimeout
  <2> QED
    BY <1>4, <2>3 DEF HandleTimeout, LoopPcs, CoStates
<1>5. CASE RunTimers
  BY <1>5, RunBatchType DEF RunTimers, LoopPcs
<1>6. CASE EpollReturn
  BY <1>6 DEF EpollReturn, LoopPcs, CoStates
<1>7. CASE HandleWakeUp
  BY <1>7 DEF HandleWakeUp, LoopPcs
<1>8. CASE RunActive
  <2>1. ASSUME NEW c \in Tasks, stack' = [stack EXCEPT ![Loop] = <<c>>]
        PROVE  stack' \in [Procs -> Seq(Tasks)]
    <3>1. <<c>> \in Seq(Tasks)
      OBVIOUS
    <3> QED
      BY <2>1, <3>1
  <2>2. co' \in [Tasks -> CoStates] /\ stack' \in [Procs -> Seq(Tasks)] /\ pc' \in LoopPcs
    BY <1>8, <2>1 DEF RunActive, LoopPcs, CoStates
  <2> QED
    BY <1>8, <2>2 DEF RunActive
<1>9. CASE SwapCompletions
  BY <1>9 DEF SwapCompletions, TakeCompletions, LoopPcs
<1>10. CASE EraseCompleted
  BY <1>10 DEF EraseCompleted, CoStates
<1>11. CASE EraseEnd
  BY <1>11 DEF EraseEnd, LoopPcs
<1>12. CASE CheckRunning
  BY <1>12 DEF CheckRunning, AfterCheck, LoopPcs
<1> QED
  BY <1>1, <1>2, <1>3, <1>4, <1>5, <1>6, <1>7, <1>8, <1>9, <1>10, <1>11, <1>12
  DEF LoopStep

LEMMA TypeNext == TypeOK /\ [Next]_vars => TypeOK'
<1> SUFFICES ASSUME TypeOK, [Next]_vars PROVE TypeOK'
  OBVIOUS
<1>1. CASE LoopStep
  BY <1>1, TypeLoopStep
<1>2. CASE SuspendIo
  BY <1>2, SuspendType DEF SuspendIo, Procs
<1>3. ASSUME NEW t \in Procs, UserStep(t) PROVE TypeOK'
  BY <1>3, TypeUserStep
<1>4. ASSUME NEW d \in Tasks, Expire(d) \/ IoReady(d) PROVE TypeOK'
  BY <1>4 DEF Expire, IoReady, TypeOK, CoStates, queues
<1>5. CASE UNCHANGED vars
  BY <1>5 DEF vars, queues, TypeOK
<1> QED
  BY <1>1, <1>2, <1>3, <1>4, <1>5 DEF Next, Terminated

\* Every variable of the loop keeps its type.
THEOREM TypeCorrect == Spec => []TypeOK
BY TypeInit, TypeNext, PTL DEF Spec

-----------------------------------------------------------------------------
(* No lost wake-up, no lost stop.  With the types, each is inductive: the  *)
(* eventfd is drained only after epoll_wait returned, and the loop comes   *)
(* back to sleep only through the swap of the pending tasks.               *)

Awake == NoLostWakeUp /\ NoLostStop

LEMMA AwakeInit == Init => Awake
BY DEF Init, Awake, NoLostWakeUp, NoLostStop, BeforeWakeUp

\* The steps of coroutines and threads do not move the loop.
LEMMA AwakeUserStep ==
  ASSUME TypeOK, Awake, NEW t \in Procs, UserStep(t)
  PROVE  Awake'
<1> USE DEF Awake, NoLostWakeUp, NoLostStop
<1>1. ASSUME NEW d \in Tasks, AddTaskPush(t, d) PROVE Awake'
  BY <1>1, ThreadAssumption DEF AddTaskPush, Procs
<1>2. ASSUME NEW d \in Tasks, ResumeParked(t, d) PROVE Awake'
  BY <1>2 DEF ResumeParked, queues
<1>3. ASSUME NEW d \in Tasks, AddTimer(t, d) PROVE Awake'
  BY <1>3 DEF AddTimer, queues
<1>4. ASSUME NEW d \in Tasks, CancelTimer(t, d) PROVE Awake'
  BY <1>4 DEF CancelTimer, queues
<1>5. CASE AddTaskWake(t)
  BY <1>5 DEF AddTaskWake, WakeUp
<1>6. CASE StopStore(t)
  <2>1. stopping'[t] = "stored"
    BY <1>6 DEF StopStore, TypeOK
  <2> QED
    BY <1>6, <2>1 DEF StopStore, queues
<1>7. CASE StopWake(t)
  BY <1>7 DEF StopWake, WakeUp
<1>8. CASE Park(t)
  BY <1>8 DEF Park, SuspendIn, queues
<1>9. CASE FinishPush(t)
  BY <1>9 DEF FinishPush
<1>10. CASE FinishDone(t)
  BY <1>10 DEF FinishDone, queues
<1> QED
  BY <1>1, <1>2, <1>3, <1>4, <1>5, <1>6, <1>7, <1>8, <1>9, <1>10 DEF UserStep

\* The steps of the loop: it is the swap that makes going to sleep safe.
LEMMA AwakeLoopStep ==
  ASSUME TypeOK, Awake, LoopStep
  PROVE  Awake'
<1> USE DEF Awake, NoLostWakeUp, NoLostStop, BeforeWakeUp
<1>1. CASE Start
  BY <1>1 DEF Start
<1>2. CASE SwapPending
  BY <1>2 DEF SwapPending, TakePending
<1>3. CASE RunPending
  BY <1>3 DEF RunPending, RunBatch
<1>4. CASE HandleTimeout
  BY <1>4 DEF HandleTimeout
<1>5. CASE RunTimers
  BY <1>5 DEF RunTimers, RunBatch
<1>6. CASE EpollReturn
  BY <1>6 DEF EpollReturn
<1>7. CASE HandleWakeUp
  BY <1>7 DEF HandleWakeUp
<1>8. CASE RunActive
  BY <1>8 DEF RunActive
<1>9. CASE SwapCompletions
  BY <1>9 DEF SwapCompletions
<1>10. CASE EraseCompleted
  BY <1>10 DEF EraseCompleted
<1>11. CASE EraseEnd
  BY <1>11 DEF EraseEnd
<1>12. CASE CheckRunning
  BY <1>12 DEF CheckRunning, AfterCheck
<1> QED
  BY <1>1, <1>2, <1>3, <1>4, <1>5, <1>6, <1>7, <1>8, <1>9, <1>10, <1>11, <1>12
  DEF LoopStep

LEMMA AwakeNext == TypeOK /\ Awake /\ [Next]_vars => Awake'
<1> SUFFICES ASSUME TypeOK, Awake, [Next]_vars PROVE Awake'
  OBVIOUS
<1>1. CASE LoopStep
  BY <1>1, AwakeLoopStep
<1>2. CASE SuspendIo
  BY <1>2 DEF SuspendIo, SuspendIn, queues, Awake, NoLostWakeUp, NoLostStop
<1>3. ASSUME NEW t \in Procs, UserStep(t) PROVE Awake'
  BY <1>3, AwakeUserStep
<1>4. ASSUME NEW d \in Tasks, Expire(d) \/ IoReady(d) PROVE Awake'
  BY <1>4 DEF Expire, IoReady, queues, Awake, NoLostWakeUp, NoLostStop
<1>5. CASE UNCHANGED vars
  BY <1>5 DEF vars, queues, Awake, NoLostWakeUp, NoLostStop
<1> QED
  BY <1>1, <1>2, <1>3, <1>4, <1>5 DEF Next, Terminated

\* The loop never goes to sleep over a spawned task without a wake-up being
\* due, whatever the threads do (AddTask against epoll_wait).
THEOREM WakeUpNotLost == Spec => []NoLostWakeUp
<1>1. Awake => NoLostWakeUp
  BY DEF Awake
<1> QED
  BY <1>1, AwakeInit, AwakeNext, TypeCorrect, PTL DEF Spec

\* The loop never goes to sleep over a Stop() without a wake-up being due.
THEOREM StopNotLost == Spec => []NoLostStop
<1>1. Awake => NoLostStop
  BY DEF Awake
<1> QED
  BY <1>1, AwakeInit, AwakeNext, TypeCorrect, PTL DEF Spec

-----------------------------------------------------------------------------
(* Frames.  When no other thread resumes coroutines of the service, the     *)
(* queue or the stack a coroutine is in determines its state, and only a    *)
(* coroutine on the loop's stack is between the two halves of its end.      *)

\* The loop executes a coroutine only in its three resuming loops.
OnlyLoopRuns ==
  /\ \A t \in Threads : stack[t] = <<>>
  /\ pc \notin {"runPending", "runTimers", "io"} => stack[Loop] = <<>>

Queued ==
  /\ \A c \in ToSet(pending) : co[c] = "pending"
  /\ \A c \in ToSet(batch) : co[c] \in {"batched", "revoked"}
  /\ IsInjective(pending) /\ IsInjective(batch)

Executed ==
  /\ \A c \in ToSet(stack[Loop]) : co[c] \in {"running", "finishing"} /\ c \in awaiting
  /\ \A c \in Tasks : co[c] = "finishing" => c \in ToSet(stack[Loop])
  /\ \A c \in Tasks : co[c] \in {"io", "ready", "active", "parked"} => c \in awaiting
  /\ IsInjective(stack[Loop])

Finished ==
  /\ \A c \in ToSet(completion) : co[c] \in {"finishing", "done"}
  /\ \A c \in ToSet(doomed) : co[c] = "done"
  /\ IsInjective(completion) /\ IsInjective(doomed)
  /\ ToSet(completion) \cap ToSet(doomed) = {}

FramesInv == OnlyLoopRuns /\ Queued /\ Executed /\ Finished

LEMMA EmptySet == ToSet(<<>>) = {} /\ IsInjective(<<>>)
BY DEF ToSet, IsInjective

LEMMA SingleSet ==
  ASSUME NEW x
  PROVE  ToSet(<<x>>) = {x} /\ IsInjective(<<x>>)
BY DEF ToSet, IsInjective

LEMMA AppendSet ==
  ASSUME NEW S, NEW s \in Seq(S), NEW x \in S
  PROVE  /\ ToSet(Append(s, x)) = ToSet(s) \cup {x}
         /\ IsInjective(s) /\ x \notin ToSet(s) => IsInjective(Append(s, x))
<1>1. /\ DOMAIN Append(s, x) = 1..(Len(s) + 1) /\ DOMAIN s = 1..Len(s) /\ Len(s) \in Nat
      /\ \A i \in 1..Len(s) : Append(s, x)[i] = s[i]
      /\ Append(s, x)[Len(s) + 1] = x
  OBVIOUS
<1> QED
  BY <1>1 DEF ToSet, IsInjective

LEMMA TailSet ==
  ASSUME NEW S, NEW s \in Seq(S), s # <<>>
  PROVE  /\ Head(s) \in ToSet(s) /\ ToSet(Tail(s)) \subseteq ToSet(s)
         /\ IsInjective(s) => IsInjective(Tail(s)) /\ Head(s) \notin ToSet(Tail(s))
<1>1. /\ Len(s) \in Nat \ {0} /\ DOMAIN s = 1..Len(s) /\ Head(s) = s[1]
      /\ DOMAIN Tail(s) = 1..(Len(s) - 1)
      /\ \A i \in 1..(Len(s) - 1) : Tail(s)[i] = s[i + 1]
  OBVIOUS
<1> QED
  BY <1>1 DEF ToSet, IsInjective

LEMMA FrontSet ==
  ASSUME NEW S, NEW s \in Seq(S), s # <<>>
  PROVE  /\ Last(s) \in ToSet(s) /\ ToSet(s) = ToSet(Front(s)) \cup {Last(s)}
         /\ IsInjective(s) => IsInjective(Front(s)) /\ Last(s) \notin ToSet(Front(s))
<1>1. /\ Len(s) \in Nat \ {0} /\ DOMAIN s = 1..Len(s) /\ Last(s) = s[Len(s)]
      /\ DOMAIN Front(s) = 1..(Len(s) - 1)
      /\ \A i \in 1..(Len(s) - 1) : Front(s)[i] = s[i]
  BY DEF Front, Last
<1> QED
  BY <1>1 DEF ToSet, IsInjective

LEMMA ConcatInjective ==
  ASSUME NEW S, NEW s \in Seq(S), NEW u \in Seq(S), IsInjective(s), IsInjective(u),
         ToSet(s) \cap ToSet(u) = {}
  PROVE  IsInjective(s \o u)
<1>1. /\ Len(s) \in Nat /\ Len(u) \in Nat /\ DOMAIN s = 1..Len(s) /\ DOMAIN u = 1..Len(u)
      /\ DOMAIN (s \o u) = 1..(Len(s) + Len(u))
      /\ \A i \in 1..(Len(s) + Len(u)) :
           (s \o u)[i] = IF i <= Len(s) THEN s[i] ELSE u[i - Len(s)]
  OBVIOUS
<1>2. \A i \in 1..Len(s), j \in 1..Len(u) : s[i] # u[j]
  BY <1>1 DEF ToSet
<1> SUFFICES ASSUME NEW i \in 1..(Len(s) + Len(u)), NEW j \in 1..(Len(s) + Len(u)),
                    (s \o u)[i] = (s \o u)[j]
             PROVE  i = j
  BY <1>1 DEF IsInjective
<1>3. CASE i <= Len(s) /\ j <= Len(s)
  BY <1>1, <1>3 DEF IsInjective
<1>4. CASE i > Len(s) /\ j > Len(s)
  <2>1. i - Len(s) \in 1..Len(u) /\ j - Len(s) \in 1..Len(u) /\ u[i - Len(s)] = u[j - Len(s)]
    BY <1>1, <1>4
  <2>2. i - Len(s) = j - Len(s)
    BY <1>1, <2>1 DEF IsInjective
  <2> QED
    BY <1>1, <2>2
<1>5. CASE i <= Len(s) /\ j > Len(s)
  <2>1. i \in 1..Len(s) /\ j - Len(s) \in 1..Len(u) /\ s[i] = u[j - Len(s)]
    BY <1>1, <1>5
  <2> QED
    BY <1>2, <2>1
<1>6. CASE i > Len(s) /\ j <= Len(s)
  <2>1. j \in 1..Len(s) /\ i - Len(s) \in 1..Len(u) /\ s[j] = u[i - Len(s)]
    BY <1>1, <1>6
  <2> QED
    BY <1>2, <2>1
<1> QED
  BY <1>1, <1>3, <1>4, <1>5, <1>6

\* Any order of a set of tasks lists tasks of the set, each once.
LEMMA SetToSeqsInjective ==
  ASSUME NEW T, Cardinality(T) \in Nat, NEW s \in SetToSeqs(T)
  PROVE  ToSet(s) \subseteq T /\ IsInjective(s)
BY DEF SetToSeqs, ToSet, IsInjective

LEMMA FramesInit == Init => FramesInv
<1> SUFFICES ASSUME Init PROVE FramesInv
  OBVIOUS
<1>1. OnlyLoopRuns
  BY DEF Init, OnlyLoopRuns, Procs
<1>2. stack[Loop] = <<>>
  BY DEF Init, Procs
<1>3. Queued
  BY EmptySet DEF Init, Queued
<1>4. Executed
  BY <1>2, EmptySet DEF Init, Executed
<1>5. Finished
  BY EmptySet DEF Init, Finished
<1> QED
  BY <1>1, <1>3, <1>4, <1>5 DEF FramesInv

\* The tasks the state of one coroutine c tells apart from it.
LEMMA QueuesTyped ==
  ASSUME TypeOK
  PROVE  /\ ToSet(pending) \subseteq Tasks /\ ToSet(batch) \subseteq Tasks
         /\ ToSet(completion) \subseteq Tasks /\ ToSet(doomed) \subseteq Tasks
         /\ ToSet(stack[Loop]) \subseteq Tasks
         /\ stack[Loop] \in Seq(Tasks)
<1>1. \A s \in Seq(Tasks) : ToSet(s) \subseteq Tasks
  BY DEF ToSet
<1>2. stack[Loop] \in Seq(Tasks)
  BY DEF TypeOK, Procs
<1> QED
  BY <1>1, <1>2 DEF TypeOK

\* A step that moves one coroutine from a state outside the queues to another.
OutsideMove(from, to) ==
  \/ from \in {"none", "timed", "expired"} /\ to \in {"timed", "expired", "cancelled"}
  \/ from = "io" /\ to = "ready"

LEMMA FramesOutside ==
  ASSUME TypeOK, FramesInv, NEW d \in Tasks, NEW new,
         OutsideMove(co[d], new), co' = [co EXCEPT ![d] = new],
         UNCHANGED <<pc, queues, stack>>
  PROVE  FramesInv'
<1>1. /\ d \notin ToSet(pending) /\ d \notin ToSet(batch)
      /\ d \notin ToSet(stack[Loop]) /\ d \notin ToSet(completion) /\ d \notin ToSet(doomed)
  BY DEF FramesInv, Queued, Executed, Finished, OutsideMove
<1>2. co'[d] = new /\ \A c \in Tasks : c # d => co'[c] = co[c]
  BY DEF TypeOK
<1>3. OnlyLoopRuns'
  BY DEF FramesInv, OnlyLoopRuns
<1>4. Queued'
  BY <1>1, <1>2, QueuesTyped DEF FramesInv, Queued, queues
<1>5. Executed'
  BY <1>1, <1>2, QueuesTyped DEF FramesInv, Executed, queues, OutsideMove
<1>6. Finished'
  BY <1>1, <1>2, QueuesTyped DEF FramesInv, Finished, queues
<1> QED
  BY <1>3, <1>4, <1>5, <1>6 DEF FramesInv

\* A step that touches neither queues nor coroutines; the loop may move on while
\* its stack is empty.
LEMMA FramesElsewhere ==
  ASSUME FramesInv, UNCHANGED <<queues, co, stack>>,
         pc' = pc \/ stack[Loop] = <<>>
  PROVE  FramesInv'
<1>1. OnlyLoopRuns'
  BY DEF FramesInv, OnlyLoopRuns
<1>2. Queued' /\ Executed' /\ Finished'
  BY DEF FramesInv, Queued, Executed, Finished, queues
<1> QED
  BY <1>1, <1>2 DEF FramesInv

\* Only the loop's thread has a coroutine on its stack.
LEMMA LoopExecutes ==
  ASSUME FramesInv, NEW t \in Procs, stack[t] # <<>>
  PROVE  t = Loop /\ pc \in {"runPending", "runTimers", "io"}
BY DEF FramesInv, OnlyLoopRuns, Procs

LEMMA FramesPush ==
  ASSUME TypeOK, FramesInv, NEW t \in Procs, NEW d \in Tasks, AddTaskPush(t, d)
  PROVE  FramesInv'
<1>1. /\ co[d] = "none" /\ pending' = Append(pending, d) /\ co' = [co EXCEPT ![d] = "pending"]
      /\ UNCHANGED <<pc, batch, awaiting, completion, doomed, stack>>
  BY DEF AddTaskPush
<1>2. /\ d \notin ToSet(pending) /\ d \notin ToSet(batch)
      /\ d \notin ToSet(stack[Loop]) /\ d \notin ToSet(completion) /\ d \notin ToSet(doomed)
  BY <1>1 DEF FramesInv, Queued, Executed, Finished
<1>3. co'[d] = "pending" /\ \A c \in Tasks : c # d => co'[c] = co[c]
  BY <1>1 DEF TypeOK
<1>4. ToSet(pending') = ToSet(pending) \cup {d} /\ IsInjective(pending')
  BY <1>1, <1>2, AppendSet DEF TypeOK, FramesInv, Queued
<1>5. OnlyLoopRuns'
  BY <1>1 DEF FramesInv, OnlyLoopRuns
<1>6. Queued'
  BY <1>1, <1>2, <1>3, <1>4, QueuesTyped DEF FramesInv, Queued
<1>7. Executed'
  BY <1>1, <1>2, <1>3, QueuesTyped DEF FramesInv, Executed
<1>8. Finished'
  BY <1>1, <1>2, <1>3, QueuesTyped DEF FramesInv, Finished
<1> QED
  BY <1>5, <1>6, <1>7, <1>8 DEF FramesInv

LEMMA FramesCancel ==
  ASSUME TypeOK, FramesInv, NEW t \in Procs, NEW d \in Tasks, CancelTimer(t, d)
  PROVE  FramesInv'
<1>1. UNCHANGED <<pc, queues, stack>>
  BY DEF CancelTimer
<1>2. CASE co[d] \in {"timed", "expired"} /\ co' = [co EXCEPT ![d] = "cancelled"]
  BY <1>1, <1>2, FramesOutside DEF OutsideMove
<1>3. CASE co[d] = "batched" /\ co' = [co EXCEPT ![d] = "revoked"]
  <2>1. /\ d \notin ToSet(pending)
        /\ d \notin ToSet(stack[Loop]) /\ d \notin ToSet(completion) /\ d \notin ToSet(doomed)
    BY <1>3 DEF FramesInv, Queued, Executed, Finished
  <2>2. co'[d] = "revoked" /\ \A c \in Tasks : c # d => co'[c] = co[c]
    BY <1>3 DEF TypeOK
  <2>3. OnlyLoopRuns'
    BY <1>1 DEF FramesInv, OnlyLoopRuns
  <2>4. Queued'
    BY <1>1, <2>1, <2>2, QueuesTyped DEF FramesInv, Queued, queues
  <2>5. Executed' /\ Finished'
    BY <1>1, <2>1, <2>2, QueuesTyped DEF FramesInv, Executed, Finished, queues
  <2> QED
    BY <2>3, <2>4, <2>5 DEF FramesInv
<1> QED
  BY <1>2, <1>3 DEF CancelTimer

LEMMA FramesSuspend ==
  ASSUME TypeOK, FramesInv, NEW t \in Procs, NEW w \in {"io", "parked"}, SuspendIn(t, w)
  PROVE  FramesInv'
<1>1. t = Loop /\ stack[Loop] # <<>> /\ pc \in {"runPending", "runTimers", "io"}
  BY LoopExecutes DEF SuspendIn
<1> DEFINE c == Last(stack[Loop])
<1>2. /\ co[c] = "running" /\ co' = [co EXCEPT ![c] = w]
      /\ stack' = [stack EXCEPT ![Loop] = Front(@)] /\ UNCHANGED <<pc, queues>>
  BY <1>1 DEF SuspendIn, Free
<1>3. /\ c \in ToSet(stack[Loop]) /\ ToSet(stack[Loop]) = ToSet(Front(stack[Loop])) \cup {c}
      /\ IsInjective(Front(stack[Loop])) /\ c \notin ToSet(Front(stack[Loop]))
  BY <1>1, FrontSet, QueuesTyped DEF FramesInv, Executed
<1>4. stack'[Loop] = Front(stack[Loop]) /\ \A u \in Threads : stack'[u] = stack[u]
  BY <1>2, ThreadAssumption DEF TypeOK, Procs
<1>5. c \in Tasks /\ c \in awaiting
  BY <1>3, QueuesTyped DEF FramesInv, Executed
<1> HIDE DEF c
<1>6. co'[c] = w /\ \A d \in Tasks : d # c => co'[d] = co[d]
  BY <1>2, <1>5 DEF TypeOK
<1>7. c \notin ToSet(pending) /\ c \notin ToSet(batch) /\ c \notin ToSet(completion) /\ c \notin ToSet(doomed)
  BY <1>2 DEF FramesInv, Queued, Finished
<1>8. OnlyLoopRuns'
  BY <1>1, <1>2, <1>4 DEF FramesInv, OnlyLoopRuns
<1>9. Queued' /\ Finished'
  BY <1>2, <1>6, <1>7, QueuesTyped DEF FramesInv, Queued, Finished, queues
<1>10. Executed'
  BY <1>2, <1>3, <1>4, <1>5, <1>6, QueuesTyped DEF FramesInv, Executed, queues
<1> QED
  BY <1>8, <1>9, <1>10 DEF FramesInv

LEMMA FramesResume ==
  ASSUME TypeOK, FramesInv, Foreign = {}, NEW t \in Procs, NEW d \in Tasks, ResumeParked(t, d)
  PROVE  FramesInv'
<1>1. /\ t = Loop /\ stack[Loop] # <<>> /\ co[d] = "parked" /\ co' = [co EXCEPT ![d] = "running"]
      /\ stack' = [stack EXCEPT ![Loop] = Append(@, d)] /\ UNCHANGED <<pc, queues>>
  BY DEF ResumeParked, Free
<1>2. pc \in {"runPending", "runTimers", "io"}
  BY <1>1, LoopExecutes
<1>3. /\ d \notin ToSet(pending) /\ d \notin ToSet(batch) /\ d \in awaiting
      /\ d \notin ToSet(stack[Loop]) /\ d \notin ToSet(completion) /\ d \notin ToSet(doomed)
  BY <1>1 DEF FramesInv, Queued, Executed, Finished
<1>4. co'[d] = "running" /\ \A c \in Tasks : c # d => co'[c] = co[c]
  BY <1>1 DEF TypeOK
<1>5. stack'[Loop] = Append(stack[Loop], d) /\ \A u \in Threads : stack'[u] = stack[u]
  BY <1>1, ThreadAssumption DEF TypeOK, Procs
<1>6. ToSet(stack'[Loop]) = ToSet(stack[Loop]) \cup {d} /\ IsInjective(stack'[Loop])
  BY <1>3, <1>5, AppendSet, QueuesTyped DEF FramesInv, Executed
<1>7. OnlyLoopRuns'
  BY <1>1, <1>2, <1>5 DEF FramesInv, OnlyLoopRuns
<1>8. Queued' /\ Finished'
  BY <1>1, <1>3, <1>4, QueuesTyped DEF FramesInv, Queued, Finished, queues
<1>9. Executed'
  BY <1>1, <1>3, <1>4, <1>6, QueuesTyped DEF FramesInv, Executed, queues
<1> QED
  BY <1>7, <1>8, <1>9 DEF FramesInv

LEMMA FramesFinish ==
  ASSUME TypeOK, FramesInv, NEW t \in Procs, FinishPush(t) \/ FinishDone(t)
  PROVE  FramesInv'
<1>1. t = Loop /\ stack[Loop] # <<>> /\ pc \in {"runPending", "runTimers", "io"}
  BY LoopExecutes DEF FinishPush, FinishDone
<1> DEFINE c == Last(stack[Loop])
<1>2. /\ c \in ToSet(stack[Loop]) /\ ToSet(stack[Loop]) = ToSet(Front(stack[Loop])) \cup {c}
      /\ IsInjective(Front(stack[Loop])) /\ c \notin ToSet(Front(stack[Loop]))
  BY <1>1, FrontSet, QueuesTyped DEF FramesInv, Executed
<1>3. c \in Tasks /\ c \in awaiting
  BY <1>2, QueuesTyped DEF FramesInv, Executed
<1>4. CASE FinishPush(t)
  <2>1. /\ co[c] = "running" /\ co' = [co EXCEPT ![c] = "finishing"]
        /\ completion' = Append(completion, c)
        /\ UNCHANGED <<pc, pending, batch, awaiting, doomed, stack>>
    BY <1>1, <1>4 DEF FinishPush, Publish, Free
  <2> HIDE DEF c
  <2>2. co'[c] = "finishing" /\ \A d \in Tasks : d # c => co'[d] = co[d]
    BY <1>3, <2>1 DEF TypeOK
  <2>3. c \notin ToSet(pending) /\ c \notin ToSet(batch) /\ c \notin ToSet(completion) /\ c \notin ToSet(doomed)
    BY <2>1 DEF FramesInv, Queued, Finished
  <2>4. ToSet(completion') = ToSet(completion) \cup {c} /\ IsInjective(completion')
    BY <1>3, <2>1, <2>3, AppendSet DEF TypeOK, FramesInv, Finished
  <2>5. OnlyLoopRuns' /\ Queued'
    BY <2>1, <2>2, <2>3, QueuesTyped DEF FramesInv, OnlyLoopRuns, Queued
  <2>6. Executed'
    BY <1>2, <1>3, <2>1, <2>2, QueuesTyped DEF FramesInv, Executed
  <2>7. Finished'
    BY <2>1, <2>2, <2>3, <2>4, QueuesTyped DEF FramesInv, Finished
  <2> QED
    BY <2>5, <2>6, <2>7 DEF FramesInv
<1>5. CASE FinishDone(t)
  <2>1. /\ co[c] = "finishing" /\ co' = [co EXCEPT ![c] = "done"]
        /\ stack' = [stack EXCEPT ![Loop] = Front(@)] /\ UNCHANGED <<pc, queues>>
    BY <1>1, <1>5 DEF FinishDone
  <2>2. stack'[Loop] = Front(stack[Loop]) /\ \A u \in Threads : stack'[u] = stack[u]
    BY <2>1, ThreadAssumption DEF TypeOK, Procs
  <2> HIDE DEF c
  <2>3. co'[c] = "done" /\ \A d \in Tasks : d # c => co'[d] = co[d]
    BY <1>3, <2>1 DEF TypeOK
  <2>4. c \notin ToSet(pending) /\ c \notin ToSet(batch) /\ c \notin ToSet(doomed)
    BY <2>1 DEF FramesInv, Queued, Finished
  <2>5. OnlyLoopRuns'
    BY <1>1, <2>1, <2>2 DEF FramesInv, OnlyLoopRuns
  <2>6. Queued' /\ Finished'
    BY <2>1, <2>3, <2>4, QueuesTyped DEF FramesInv, Queued, Finished, queues
  <2>7. Executed'
    BY <1>2, <1>3, <2>1, <2>2, <2>3, QueuesTyped DEF FramesInv, Executed, queues
  <2> QED
    BY <2>5, <2>6, <2>7 DEF FramesInv
<1> QED
  BY <1>4, <1>5

LEMMA FramesUserStep ==
  ASSUME TypeOK, FramesInv, Foreign = {}, NEW t \in Procs, UserStep(t)
  PROVE  FramesInv'
<1>1. ASSUME NEW d \in Tasks, AddTimer(t, d) PROVE FramesInv'
  <2>1. OutsideMove(co[d], "timed") /\ co' = [co EXCEPT ![d] = "timed"] /\ UNCHANGED <<pc, queues, stack>>
    BY <1>1 DEF AddTimer, OutsideMove
  <2> QED
    BY <2>1, FramesOutside
<1>2. CASE AddTaskWake(t) \/ StopStore(t) \/ StopWake(t)
  BY <1>2, FramesElsewhere DEF AddTaskWake, StopStore, StopWake
<1>3. CASE Park(t)
  BY <1>3, FramesSuspend DEF Park
<1> QED
  BY <1>1, <1>2, <1>3, FramesPush, FramesCancel, FramesResume, FramesFinish DEF UserStep

LEMMA FramesRunBatch ==
  ASSUME TypeOK, FramesInv, NEW next, RunBatch(next), pc \in {"runPending", "runTimers"}
  PROVE  FramesInv'
<1>0. stack[Loop] = <<>>
  BY DEF RunBatch
<1>1. CASE batch = <<>>
  BY <1>0, <1>1, FramesElsewhere DEF RunBatch, queues
<1>2. CASE batch # <<>>
  <2> DEFINE c == Head(batch)
  <2>1. /\ batch' = Tail(batch) /\ awaiting' = awaiting \cup {c} /\ co' = [co EXCEPT ![c] = "running"]
        /\ stack' = [stack EXCEPT ![Loop] = <<c>>]
        /\ UNCHANGED <<pc, pending, completion, doomed>>
    BY <1>2 DEF RunBatch, Keep
  <2>2. /\ c \in ToSet(batch) /\ ToSet(Tail(batch)) \subseteq ToSet(batch)
        /\ IsInjective(Tail(batch)) /\ c \notin ToSet(Tail(batch))
    BY <1>2, TailSet DEF TypeOK, FramesInv, Queued
  <2> HIDE DEF c
  <2>3. c \in Tasks /\ co[c] \in {"batched", "revoked"}
    BY <2>2, QueuesTyped DEF FramesInv, Queued
  <2>4. co'[c] = "running" /\ \A d \in Tasks : d # c => co'[d] = co[d]
    BY <2>1, <2>3 DEF TypeOK
  <2>5. stack'[Loop] = <<c>> /\ \A u \in Threads : stack'[u] = stack[u]
    BY <2>1, ThreadAssumption DEF TypeOK, Procs
  <2>6. ToSet(stack'[Loop]) = {c} /\ IsInjective(stack'[Loop])
    BY <2>5, SingleSet
  <2>7. c \notin ToSet(pending) /\ c \notin ToSet(completion) /\ c \notin ToSet(doomed)
    BY <2>3 DEF FramesInv, Queued, Finished
  <2>8. OnlyLoopRuns'
    BY <2>1, <2>5 DEF FramesInv, OnlyLoopRuns
  <2>9. Queued'
    BY <2>1, <2>2, <2>4, <2>7, QueuesTyped DEF FramesInv, Queued
  <2>10. Finished'
    BY <2>1, <2>4, <2>7, QueuesTyped DEF FramesInv, Finished
  <2>11. \A d \in Tasks : co[d] # "finishing"
    BY <1>0, EmptySet DEF FramesInv, Executed
  <2>12. Executed'
    BY <2>1, <2>3, <2>4, <2>6, <2>11, QueuesTyped DEF FramesInv, Executed
  <2> QED
    BY <2>8, <2>9, <2>10, <2>12 DEF FramesInv
<1> QED
  BY <1>1, <1>2

\* What the loop does to many coroutines at once.
LEMMA FramesSwapPending ==
  ASSUME TypeOK, FramesInv, SwapPending
  PROVE  FramesInv'
<1>1. /\ batch' = pending /\ pending' = <<>> /\ stack[Loop] = <<>>
      /\ co' = [c \in Tasks |-> IF co[c] = "pending" THEN "batched" ELSE co[c]]
      /\ UNCHANGED <<awaiting, completion, doomed, stack>>
  BY DEF SwapPending, TakePending, FramesInv, OnlyLoopRuns
<1>2. \A c \in Tasks : co'[c] = IF co[c] = "pending" THEN "batched" ELSE co[c]
  BY <1>1
<1>3. OnlyLoopRuns'
  BY <1>1 DEF FramesInv, OnlyLoopRuns
<1>4. Queued'
  BY <1>1, <1>2, QueuesTyped, EmptySet DEF FramesInv, Queued
<1>5. Executed'
  BY <1>1, <1>2, QueuesTyped DEF FramesInv, Executed
<1>6. Finished'
  BY <1>1, <1>2, QueuesTyped DEF FramesInv, Finished
<1> QED
  BY <1>3, <1>4, <1>5, <1>6 DEF FramesInv

LEMMA FramesTimeout ==
  ASSUME TypeOK, FramesInv, HandleTimeout
  PROVE  FramesInv'
<1> DEFINE T == {c \in Tasks : co[c] = "expired"}
<1>1. /\ batch' \in SetToSeqs(T) /\ stack[Loop] = <<>>
      /\ co' = [c \in Tasks |-> IF co[c] = "expired" THEN "batched" ELSE co[c]]
      /\ UNCHANGED <<pending, awaiting, completion, doomed, stack>>
  BY DEF HandleTimeout, FramesInv, OnlyLoopRuns
<1>2. Cardinality(T) \in Nat
  <2>1. IsFiniteSet(T)
    BY BoundAssumption, FS_Subset
  <2> QED
    BY <2>1, FS_CardinalityType
<1>3. ToSet(batch') \subseteq T /\ IsInjective(batch')
  BY <1>1, <1>2, SetToSeqsInjective
<1>4. \A c \in Tasks : co'[c] = IF co[c] = "expired" THEN "batched" ELSE co[c]
  BY <1>1
<1>5. OnlyLoopRuns'
  BY <1>1 DEF FramesInv, OnlyLoopRuns
<1>6. Queued'
  BY <1>1, <1>3, <1>4, QueuesTyped DEF FramesInv, Queued
<1>7. Executed'
  BY <1>1, <1>4, QueuesTyped DEF FramesInv, Executed
<1>8. Finished'
  BY <1>1, <1>4, QueuesTyped DEF FramesInv, Finished
<1> QED
  BY <1>5, <1>6, <1>7, <1>8 DEF FramesInv

LEMMA FramesEpoll ==
  ASSUME TypeOK, FramesInv, EpollReturn
  PROVE  FramesInv'
<1>1. /\ stack[Loop] = <<>> /\ UNCHANGED <<queues, stack>>
      /\ \A c \in Tasks : co'[c] = IF co[c] = "ready" THEN "active" ELSE co[c]
  BY DEF EpollReturn, FramesInv, OnlyLoopRuns
<1>2. OnlyLoopRuns'
  BY <1>1 DEF FramesInv, OnlyLoopRuns
<1>3. Queued'
  BY <1>1, QueuesTyped DEF FramesInv, Queued, queues
<1>4. Executed'
  BY <1>1, QueuesTyped DEF FramesInv, Executed, queues
<1>5. Finished'
  BY <1>1, QueuesTyped DEF FramesInv, Finished, queues
<1> QED
  BY <1>2, <1>3, <1>4, <1>5 DEF FramesInv

LEMMA FramesActive ==
  ASSUME TypeOK, FramesInv, RunActive
  PROVE  FramesInv'
<1>0. stack[Loop] = <<>> /\ pc = "io" /\ UNCHANGED queues
  BY DEF RunActive
<1>1. CASE UNCHANGED <<co, stack>>
  BY <1>0, <1>1, FramesElsewhere
<1>2. ASSUME NEW c \in Tasks, co[c] = "active", co' = [co EXCEPT ![c] = "running"],
             stack' = [stack EXCEPT ![Loop] = <<c>>], pc' = pc
      PROVE  FramesInv'
  <2>1. co'[c] = "running" /\ \A d \in Tasks : d # c => co'[d] = co[d]
    BY <1>2 DEF TypeOK
  <2>2. stack'[Loop] = <<c>> /\ \A u \in Threads : stack'[u] = stack[u]
    BY <1>2, ThreadAssumption DEF TypeOK, Procs
  <2>3. ToSet(stack'[Loop]) = {c} /\ IsInjective(stack'[Loop])
    BY <2>2, SingleSet
  <2>4. /\ c \notin ToSet(pending) /\ c \notin ToSet(batch) /\ c \notin ToSet(completion)
        /\ c \notin ToSet(doomed) /\ c \in awaiting
    BY <1>2 DEF FramesInv, Queued, Executed, Finished
  <2>5. OnlyLoopRuns'
    BY <1>0, <1>2, <2>2 DEF FramesInv, OnlyLoopRuns
  <2>6. Queued' /\ Finished'
    BY <1>0, <2>1, <2>4, QueuesTyped DEF FramesInv, Queued, Finished, queues
  <2>7. \A d \in Tasks : co[d] # "finishing"
    BY <1>0, EmptySet DEF FramesInv, Executed
  <2>8. Executed'
    BY <1>0, <2>1, <2>3, <2>4, <2>7, QueuesTyped DEF FramesInv, Executed, queues
  <2> QED
    BY <2>5, <2>6, <2>8 DEF FramesInv
<1> QED
  BY <1>1, <1>2 DEF RunActive

\* The loop's stack is empty when it takes the completions, so that none of
\* them is between the two halves of its end any more.
LEMMA FramesReap ==
  ASSUME TypeOK, FramesInv, SwapCompletions \/ EraseCompleted
  PROVE  FramesInv'
<1>0. stack[Loop] = <<>>
  BY DEF SwapCompletions, EraseCompleted, FramesInv, OnlyLoopRuns
<1>1. CASE SwapCompletions
  <2>1. /\ doomed' = completion /\ completion' = <<>>
        /\ UNCHANGED <<pending, batch, awaiting, co, stack>>
    BY <1>1 DEF SwapCompletions, TakeCompletions
  <2>2. \A c \in Tasks : co[c] # "finishing"
    BY <1>0, EmptySet DEF FramesInv, Executed
  <2>3. OnlyLoopRuns' /\ Queued' /\ Executed'
    BY <1>0, <2>1 DEF FramesInv, OnlyLoopRuns, Queued, Executed
  <2>4. Finished'
    BY <2>1, <2>2, QueuesTyped, EmptySet DEF FramesInv, Finished
  <2> QED
    BY <2>3, <2>4 DEF FramesInv
<1>2. CASE EraseCompleted
  <2> DEFINE c == Head(doomed)
  <2>1. /\ doomed # <<>> /\ doomed' = Tail(doomed) /\ awaiting' = awaiting \ {c}
        /\ co' = [co EXCEPT ![c] = "destroyed"]
        /\ UNCHANGED <<pc, pending, batch, completion, stack>>
    BY <1>2 DEF EraseCompleted
  <2>2. /\ c \in ToSet(doomed) /\ ToSet(Tail(doomed)) \subseteq ToSet(doomed)
        /\ IsInjective(Tail(doomed)) /\ c \notin ToSet(Tail(doomed))
    BY <2>1, TailSet DEF TypeOK, FramesInv, Finished
  <2> HIDE DEF c
  <2>3. c \in Tasks /\ co[c] = "done"
    BY <2>2, QueuesTyped DEF FramesInv, Finished
  <2>4. co'[c] = "destroyed" /\ \A d \in Tasks : d # c => co'[d] = co[d]
    BY <2>1, <2>3 DEF TypeOK
  <2>5. /\ c \notin ToSet(pending) /\ c \notin ToSet(batch) /\ c \notin ToSet(completion)
        /\ c \notin ToSet(stack[Loop])
    BY <2>2, <2>3 DEF FramesInv, Queued, Executed, Finished
  <2>6. OnlyLoopRuns' /\ Queued'
    BY <2>1, <2>4, <2>5, QueuesTyped DEF FramesInv, OnlyLoopRuns, Queued
  <2>7. Executed'
    BY <2>1, <2>3, <2>4, <2>5, QueuesTyped DEF FramesInv, Executed
  <2>8. Finished'
    BY <2>1, <2>2, <2>4, <2>5, QueuesTyped DEF FramesInv, Finished
  <2> QED
    BY <2>6, <2>7, <2>8 DEF FramesInv
<1> QED
  BY <1>1, <1>2

LEMMA FramesNext ==
  ASSUME TypeOK, FramesInv, Foreign = {}, [Next]_vars
  PROVE  FramesInv'
<1>1. CASE LoopStep
  <2>1. CASE RunPending \/ RunTimers
    BY <2>1, FramesRunBatch DEF RunPending, RunTimers
  <2>2. CASE Start \/ HandleWakeUp \/ EraseEnd \/ CheckRunning
    <3>1. stack[Loop] = <<>> /\ UNCHANGED <<queues, co, stack>>
      BY <2>2 DEF Start, HandleWakeUp, EraseEnd, CheckRunning, FramesInv, OnlyLoopRuns
    <3> QED
      BY <3>1, FramesElsewhere
  <2> QED
    BY <1>1, <2>1, <2>2, FramesSwapPending, FramesTimeout, FramesEpoll, FramesActive, FramesReap DEF LoopStep
<1>2. CASE SuspendIo
  BY <1>2, FramesSuspend DEF SuspendIo, Procs
<1>3. ASSUME NEW t \in Procs, UserStep(t) PROVE FramesInv'
  BY <1>3, FramesUserStep
<1>4. ASSUME NEW d \in Tasks, Expire(d) \/ IoReady(d) PROVE FramesInv'
  <2>1. \E new : OutsideMove(co[d], new) /\ co' = [co EXCEPT ![d] = new] /\ UNCHANGED <<pc, queues, stack>>
    BY <1>4 DEF Expire, IoReady, OutsideMove
  <2> QED
    BY <2>1, FramesOutside
<1>5. CASE UNCHANGED vars
  BY <1>5, FramesElsewhere DEF vars
<1> QED
  BY <1>1, <1>2, <1>3, <1>4, <1>5 DEF Next, Terminated

LEMMA FramesInvSafe ==
  ASSUME TypeOK, FramesInv
  PROVE  FramesSafe
<1>1. \A t \in Procs : ToSet(stack[t]) # {} => t = Loop
  BY LoopExecutes, EmptySet
<1>2. \A t \in Procs : stack[t] \in Seq(Tasks)
  BY DEF TypeOK
<1>3. \A t \in Procs : \A i \in 1..Len(stack[t]) : stack[t][i] \in ToSet(stack[t])
  BY <1>2 DEF ToSet
<1>4. CompletionDone
  <2> SUFFICES ASSUME doomed # <<>> PROVE co[Head(doomed)] = "done"
    BY DEF CompletionDone
  <2>1. Head(doomed) \in ToSet(doomed)
    BY TailSet DEF TypeOK
  <2> QED
    BY <2>1 DEF FramesInv, Finished
<1>5. FramesAlive
  BY <1>1, <1>3, <1>4 DEF FramesInv, Executed, FramesAlive
<1>6. \A t \in Procs : IsInjective(stack[t])
  BY EmptySet DEF FramesInv, OnlyLoopRuns, Executed, Procs
<1>7. IsInjective(pending \o batch)
  <2>1. ToSet(pending) \cap ToSet(batch) = {}
    BY DEF FramesInv, Queued
  <2> QED
    BY <2>1, ConcatInjective DEF TypeOK, FramesInv, Queued
<1>8. IsInjective(completion \o doomed)
  BY ConcatInjective DEF TypeOK, FramesInv, Finished
<1>9. ResumedOnce
  BY <1>1, <1>6, <1>7, <1>8 DEF ResumedOnce
<1> QED
  BY <1>5, <1>9 DEF FramesSafe

\* When no thread but the loop's resumes coroutines of the service, the reaping
\* loop destroys only finished frames, and every resumption, from whichever of
\* the loop's vectors, is of a suspended coroutine whose frame is alive.
THEOREM FramesSafeOnOneThread == Foreign = {} => (Spec => []FramesSafe)
<1> DEFINE I == Foreign = {} => FramesInv
<1>1. Init => I
  BY FramesInit
<1>2. TypeOK /\ I /\ [Next]_vars => I'
  BY FramesNext
<1>3. Foreign = {} => (TypeOK /\ I => FramesSafe)
  BY FramesInvSafe
<1> HIDE DEF I
<1>4. Spec => []I
  BY <1>1, <1>2, TypeCorrect, PTL DEF Spec
<1>5. Spec => [](TypeOK /\ I)
  BY <1>4, TypeCorrect, PTL
<1> SUFFICES ASSUME Foreign = {} PROVE Spec => []FramesSafe
  OBVIOUS
<1>6. TypeOK /\ I => FramesSafe
  BY <1>3
<1> QED
  BY <1>5, <1>6, PTL
=============================================================================
