------------------------------ MODULE IoService ------------------------------
(***************************************************************************)
(* One Cold::Base::IoService: the event loop that owns spawned coroutines, *)
(* resumes them, sleeps in epoll_wait and destroys the frames of the       *)
(* coroutines that completed (coro/IoService.h, coro/IoService.cpp).       *)
(*                                                                         *)
(* The loop runs on the thread Loop.  Threads are the other threads of the *)
(* program: they spawn tasks, arm timers and stop the loop.  The threads   *)
(* in Foreign also resume parked coroutines of this service on their own   *)
(* stack, which is what AsyncMutex::Unlock and ConditionVariable::Notify*  *)
(* do when the caller runs on another IoService.                           *)
(*                                                                         *)
(* A task of Tasks is one wrapper coroutine (WrapTask) together with the   *)
(* user coroutine it awaits.  Between two suspensions it may spawn, arm a  *)
(* timer, stop the loop or resume a parked coroutine inline, in any order; *)
(* it suspends at most MaxSuspends times, so every task can finish.        *)
(***************************************************************************)
EXTENDS Naturals, Sequences, FiniteSets, SequencesExt

CONSTANTS Tasks,        \* wrapper coroutines
          Threads,      \* threads other than the loop's
          Foreign,      \* those of them that resume coroutines of this service
          Loop,         \* the thread that called Start()
          NoThread,     \* "mutex is free"
          MaxSuspends   \* bound: suspensions of one task

ASSUME ThreadAssumption ==
  /\ Foreign \subseteq Threads
  /\ Loop \notin Threads
  /\ NoThread \notin Threads \cup {Loop}

ASSUME BoundAssumption == MaxSuspends \in Nat /\ IsFiniteSet(Tasks)

VARIABLES
  running,      \* running_
  pc,           \* where Start() is
  pending,      \* pendingTasks_
  lock,         \* holder of mutexForPendingTasks_ inside AddTask
  signalled,    \* the wake-up eventfd is readable
  batch,        \* the local vector `tasks` of Start()
  awaiting,     \* keys of awaitCompletionTasks_: the frames kept alive
  completion,   \* completionTasks_
  doomed,       \* the local vector `completions` of Start()
  co,           \* state of every coroutine
  stack,        \* coroutines a thread is executing, innermost last
  suspends,     \* suspensions so far
  stopping      \* progress of Stop() on every thread

queues == <<pending, batch, awaiting, completion, doomed>>
vars == <<running, pc, lock, signalled, queues, co, stack, suspends, stopping>>

Procs == Threads \cup {Loop}

CoStates == {"none", "pending", "timed", "expired", "cancelled", "batched", "revoked",
             "running", "finishing", "io", "ready", "active", "parked",
             "done", "destroyed"}

LoopPcs == {"new", "swap", "runPending", "timeout", "runTimers", "asleep",
            "drain", "io", "reap", "erase", "check", "exited"}

(***************************************************************************)
(* One type invariant.                                                     *)
(***************************************************************************)
TypeOK ==
  /\ running \in BOOLEAN
  /\ pc \in LoopPcs
  /\ pending \in Seq(Tasks)
  /\ lock \in Procs \cup {NoThread}
  /\ signalled \in BOOLEAN
  /\ batch \in Seq(Tasks)
  /\ awaiting \subseteq Tasks
  /\ completion \in Seq(Tasks)
  /\ doomed \in Seq(Tasks)
  /\ co \in [Tasks -> CoStates]
  /\ stack \in [Procs -> Seq(Tasks)]
  /\ suspends \in [Tasks -> 0..MaxSuspends]
  /\ stopping \in [Procs -> {"no", "stored", "woken"}]

Init ==
  /\ running = FALSE
  /\ pc = "new"
  /\ pending = <<>> /\ batch = <<>>
  /\ completion = <<>> /\ doomed = <<>>
  /\ awaiting = {}
  /\ lock = NoThread
  /\ signalled = FALSE
  /\ co = [c \in Tasks |-> "none"]
  /\ stack = [t \in Procs |-> <<>>]
  /\ suspends = [c \in Tasks |-> 0]
  /\ stopping = [t \in Procs |-> "no"]

-----------------------------------------------------------------------------
(* What a coroutine, or a plain thread, does while it executes.            *)

\* t is inside user code: not between the two halves of AddTask or Stop, nor
\* of the completion of a coroutine.  The loop thread executes user code only
\* while a coroutine is on its stack.
Free(t) ==
  /\ lock # t
  /\ stopping[t] # "stored"
  /\ stack[t] = <<>> => t # Loop
  /\ stack[t] # <<>> => co[Last(stack[t])] = "running"

\* IoWatcher::WakeUp makes the eventfd readable.
WakeUpLost == UNCHANGED signalled           \* mutant: no write
WakeUp == signalled' = TRUE

\* CoSpawn: WrapTask, then AddTask takes the mutex and appends...
AddTaskPush(t, d) ==
  /\ Free(t)
  /\ lock = NoThread
  /\ co[d] = "none"
  /\ lock' = t
  /\ pending' = Append(pending, d)
  /\ co' = [co EXCEPT ![d] = "pending"]
  /\ UNCHANGED <<running, pc, signalled, batch, awaiting, completion,
                 doomed, stack, suspends, stopping>>

\* ... and still under the mutex writes to the eventfd.
AddTaskWake(t) ==
  /\ lock = t
  /\ WakeUp
  /\ lock' = NoThread
  /\ UNCHANGED <<running, pc, queues, co, stack, suspends, stopping>>

\* Stop() is two steps with no mutex around them.
StopStore(t) ==
  /\ Free(t)
  /\ stopping[t] = "no"
  /\ running' = FALSE
  /\ stopping' = [stopping EXCEPT ![t] = "stored"]
  /\ UNCHANGED <<pc, lock, signalled, queues, co, stack, suspends>>

StopWake(t) ==
  /\ stopping[t] = "stored"
  /\ WakeUp
  /\ stopping' = [stopping EXCEPT ![t] = "woken"]
  /\ UNCHANGED <<running, pc, lock, queues, co, stack, suspends>>

\* AddTimer, under mutexForTimerQueue_; the eventfd is not written.  Expiry
\* times, and UpdateTimer which moves them, are the business of TimerQueue.tla.
AddTimer(t, d) ==
  /\ Free(t)
  /\ co[d] = "none"
  /\ co' = [co EXCEPT ![d] = "timed"]
  /\ UNCHANGED <<running, pc, lock, signalled, queues, stack, suspends, stopping>>

\* CancelTimer has an effect only until HandleTimeout collects the task: a task
\* that is already in the loop's batch is not found any more.  "revoked" is
\* such a task; it records the call and changes nothing else.
CancelTimer(t, d) ==
  /\ Free(t)
  /\ \/ co[d] \in {"timed", "expired"} /\ co' = [co EXCEPT ![d] = "cancelled"]
     \/ pc = "runTimers" /\ co[d] = "batched" /\ co' = [co EXCEPT ![d] = "revoked"]
  /\ UNCHANGED <<running, pc, lock, signalled, queues, stack, suspends, stopping>>

MaySuspend(c) == suspends[c] < MaxSuspends

\* The coroutine on top of t's stack suspends; control returns to whoever
\* called resume().  "io": it registered with the watcher, which only the
\* loop thread may touch.  "parked": something other than the loop holds the
\* handle (a mutex, a condition variable, a timer task).
SuspendIn(t, where) ==
  /\ Free(t)
  /\ stack[t] # <<>>
  /\ LET c == Last(stack[t]) IN
       /\ MaySuspend(c)
       /\ suspends' = [suspends EXCEPT ![c] = @ + 1]
       /\ co' = [co EXCEPT ![c] = where]
  /\ stack' = [stack EXCEPT ![t] = Front(@)]
  /\ UNCHANGED <<running, pc, lock, signalled, queues, stopping>>

SuspendIo == SuspendIn(Loop, "io")

Park(t) == SuspendIn(t, "parked")

\* handle.resume() on a parked coroutine, inline on the resuming thread.
ResumeParked(t, d) ==
  /\ Free(t)
  /\ t \in Foreign \cup {Loop}
  /\ co[d] = "parked"
  /\ co' = [co EXCEPT ![d] = "running"]
  /\ stack' = [stack EXCEPT ![t] = Append(@, d)]
  /\ UNCHANGED <<running, pc, lock, signalled, queues, suspends, stopping>>

\* completionTasks_.push_back(handle)
Publish(c) == completion' = Append(completion, c)

\* The user coroutine returned: TaskCompletionAwaitable publishes the handle
\* of the wrapper, which is not done yet...
FinishPush(t) ==
  /\ Free(t)
  /\ stack[t] # <<>>
  /\ LET c == Last(stack[t]) IN
       /\ co' = [co EXCEPT ![c] = "finishing"]
       /\ Publish(c)
  /\ UNCHANGED <<running, pc, lock, signalled, pending, batch,
                 awaiting, doomed, stack, suspends, stopping>>

\* ... and resumes the wrapper, which runs to its final suspension.
FinishDone(t) ==
  /\ stack[t] # <<>>
  /\ LET c == Last(stack[t]) IN
       /\ co[c] = "finishing"
       /\ co' = [co EXCEPT ![c] = "done"]
  /\ stack' = [stack EXCEPT ![t] = Front(@)]
  /\ UNCHANGED <<running, pc, lock, signalled, queues, suspends, stopping>>

-----------------------------------------------------------------------------
(* The environment: time passes, descriptors become ready.                 *)

Expire(d) ==
  /\ co[d] = "timed"
  /\ co' = [co EXCEPT ![d] = "expired"]
  /\ UNCHANGED <<running, pc, lock, signalled, queues, stack, suspends, stopping>>

IoReady(c) ==
  /\ co[c] = "io"
  /\ co' = [co EXCEPT ![c] = "ready"]
  /\ UNCHANGED <<running, pc, lock, signalled, queues, stack, suspends, stopping>>

-----------------------------------------------------------------------------
(* Start(): one action per step of an iteration of the loop.               *)

Start ==
  /\ pc = "new"
  /\ running' = TRUE
  /\ pc' = "swap"
  /\ UNCHANGED <<lock, signalled, queues, co, stack, suspends, stopping>>

\* tasks.swap(pendingTasks_)
TakePendingCopy == batch' = pending /\ UNCHANGED pending     \* mutant: copy
TakePending == batch' = pending /\ pending' = <<>>

SwapPending ==
  /\ pc = "swap"
  /\ lock = NoThread
  /\ TakePending
  /\ co' = [c \in Tasks |-> IF co[c] = "pending" THEN "batched" ELSE co[c]]
  /\ pc' = "runPending"
  /\ UNCHANGED <<running, lock, signalled, awaiting, completion,
                 doomed, stack, suspends, stopping>>

\* awaitCompletionTasks_.insert({handle, std::move(task)})
Keep(c) == awaiting' = awaiting \cup {c}

\* The body of the two for loops over `tasks`: insert the frame, resume it.
\* The next iteration waits until the coroutine gave the thread back.
RunBatch(next) ==
  /\ stack[Loop] = <<>>
  /\ IF batch = <<>>
       THEN pc' = next /\ UNCHANGED <<batch, awaiting, co, stack>>
       ELSE LET c == Head(batch) IN
            /\ batch' = Tail(batch)
            /\ Keep(c)
            /\ co' = [co EXCEPT ![c] = "running"]
            /\ stack' = [stack EXCEPT ![Loop] = <<c>>]
            /\ pc' = pc
  /\ UNCHANGED <<running, lock, signalled, pending, completion,
                 doomed, suspends, stopping>>

RunPending == pc = "runPending" /\ RunBatch("timeout")

\* timerQueue_->HandleTimeout(tasks)
HandleTimeout ==
  /\ pc = "timeout"
  /\ batch' \in SetToSeqs({c \in Tasks : co[c] = "expired"})
  /\ co' = [c \in Tasks |-> IF co[c] = "expired" THEN "batched" ELSE co[c]]
  /\ pc' = "runTimers"
  /\ UNCHANGED <<running, lock, signalled, pending, awaiting, completion,
                 doomed, stack, suspends, stopping>>

RunTimers == pc = "runTimers" /\ RunBatch("asleep")

\* The timeout given to epoll_wait, at most TimerQueue's tick, may be over.
TimeoutNever == FALSE                       \* mutant: wait without a timeout
TimeoutOver == TRUE

\* epoll_wait returns.
EpollReturn ==
  /\ pc = "asleep"
  /\ \/ signalled
     \/ \E c \in Tasks : co[c] = "ready"
     \/ TimeoutOver
  /\ co' = [c \in Tasks |-> IF co[c] = "ready" THEN "active" ELSE co[c]]
  /\ pc' = IF signalled THEN "drain" ELSE "io"
  /\ UNCHANGED <<running, lock, signalled, queues, stack, suspends, stopping>>

\* HandleWakeUp reads the eventfd, whatever was added to it meanwhile.
HandleWakeUp ==
  /\ pc = "drain"
  /\ signalled' = FALSE
  /\ pc' = "io"
  /\ UNCHANGED <<running, lock, queues, co, stack, suspends, stopping>>

\* for (coro : activeCoros) coro.resume()
RunActive ==
  /\ pc = "io"
  /\ stack[Loop] = <<>>
  /\ \/ \E c \in Tasks :
          /\ co[c] = "active"
          /\ co' = [co EXCEPT ![c] = "running"]
          /\ stack' = [stack EXCEPT ![Loop] = <<c>>]
          /\ pc' = pc
     \/ /\ \A c \in Tasks : co[c] # "active"
        /\ pc' = "reap"
        /\ UNCHANGED <<co, stack>>
  /\ UNCHANGED <<running, lock, signalled, queues, suspends, stopping>>

\* completions.swap(completionTasks_)
TakeCompletions == doomed' = completion /\ completion' = <<>>

SwapCompletions ==
  /\ pc = "reap"
  /\ TakeCompletions
  /\ pc' = "erase"
  /\ UNCHANGED <<running, lock, signalled, pending, batch, awaiting,
                 co, stack, suspends, stopping>>

\* awaitCompletionTasks_.erase(completion) destroys the frame.
EraseCompleted ==
  /\ pc = "erase"
  /\ doomed # <<>>
  /\ doomed' = Tail(doomed)
  /\ awaiting' = awaiting \ {Head(doomed)}
  /\ co' = [co EXCEPT ![Head(doomed)] = "destroyed"]
  /\ UNCHANGED <<running, pc, lock, signalled, pending, batch,
                 completion, stack, suspends, stopping>>

EraseEnd ==
  /\ pc = "erase"
  /\ doomed = <<>>
  /\ pc' = "check"
  /\ UNCHANGED <<running, lock, signalled, queues, co, stack, suspends, stopping>>

\* while (running_)
AfterCheck == IF running THEN "swap" ELSE "exited"

CheckRunning ==
  /\ pc = "check"
  /\ pc' = AfterCheck
  /\ UNCHANGED <<running, lock, signalled, queues, co, stack, suspends, stopping>>

\* Start() has returned and nobody has anything left to do.
Terminated == pc = "exited" /\ UNCHANGED vars

-----------------------------------------------------------------------------

LoopStep ==
  \/ Start \/ SwapPending \/ RunPending \/ HandleTimeout \/ RunTimers
  \/ EpollReturn \/ HandleWakeUp \/ RunActive
  \/ SwapCompletions \/ EraseCompleted \/ EraseEnd \/ CheckRunning

UserStep(t) ==
  \/ \E d \in Tasks :
       \/ AddTaskPush(t, d) \/ ResumeParked(t, d)
       \/ AddTimer(t, d) \/ CancelTimer(t, d)
  \/ AddTaskWake(t)
  \/ StopStore(t) \/ StopWake(t)
  \/ Park(t)
  \/ FinishPush(t) \/ FinishDone(t)

Next ==
  \/ LoopStep
  \/ SuspendIo
  \/ \E t \in Procs : UserStep(t)
  \/ \E d \in Tasks : Expire(d) \/ IoReady(d)
  \/ Terminated

\* What ends the execution of a coroutine on t, or a call into the service.
Leave(t) == AddTaskWake(t) \/ StopWake(t) \/ FinishPush(t) \/ FinishDone(t)

Spec == Init /\ [][Next]_vars

\* The loop's thread is scheduled, every call into the service returns, every
\* coroutine eventually suspends or returns, and an armed timer expires.
FairSpec ==
  /\ Spec
  /\ WF_vars(LoopStep)
  /\ \A t \in Procs : WF_vars(Leave(t))
  /\ \A d \in Tasks : WF_vars(Expire(d))

-----------------------------------------------------------------------------
(* Safety.                                                                 *)

\* From the swap of the pending tasks up to the return of epoll_wait, i.e. as
\* long as the loop has not yet committed to look at pendingTasks_ again.
BeforeWakeUp == {"runPending", "timeout", "runTimers", "asleep"}

\* No lost wake-up: a task that is in pendingTasks_ when the loop is about to
\* enter, or is in, epoll_wait has made the eventfd readable, or the thread
\* that appended it is still inside AddTask and will (IoService.cpp:72-76).
NoLostWakeUp ==
  pc \in BeforeWakeUp /\ pending # <<>> => signalled \/ lock # NoThread

\* A Stop() that came after the loop last read running_ cannot be slept
\* through: the eventfd is readable, or the stopping thread has not yet
\* written it (IoService.cpp:67-70).
NoLostStop ==
  pc \in BeforeWakeUp \cup {"swap"} /\ ~running =>
    signalled \/ \E t \in Procs : stopping[t] = "stored"

\* The assertion of the reaping loop: a published coroutine is at its final
\* suspension by the time its frame is erased, IoService.cpp:60.
CompletionDone ==
  pc = "erase" /\ doomed # <<>> => co[Head(doomed)] = "done"

\* The frame of a coroutine that some thread is executing, or whose handle
\* somebody holds in order to resume it, has not been destroyed, and only
\* finished coroutines are about to be
\* (IoService.cpp:59-62 against the resumptions at lines 32, 45 and 51).
FramesAlive ==
  /\ TypeOK
  /\ \A t \in Procs : \A i \in 1..Len(stack[t]) : stack[t][i] \in awaiting
  /\ \A c \in Tasks : co[c] \in {"io", "ready", "active", "parked"} => c \in awaiting
  /\ CompletionDone

\* No coroutine is executed by two threads, or twice by one, and the vectors
\* never hold a handle twice: every resumption is of a suspended coroutine.
ResumedOnce ==
  /\ \A t \in Procs : IsInjective(stack[t])
  /\ \A t, u \in Procs : t # u => ToSet(stack[t]) \cap ToSet(stack[u]) = {}
  /\ IsInjective(pending \o batch)
  /\ IsInjective(completion \o doomed)

\* Every resumption is of a suspended coroutine with a live frame, whatever
\* threads, timers and the reaping loop do (IoService.cpp:25-63).
FramesSafe == FramesAlive /\ ResumedOnce

-----------------------------------------------------------------------------
(* Liveness.                                                               *)

\* Every spawned task is resumed, unless the loop has returned.
SpawnedRuns ==
  \A d \in Tasks : co[d] = "pending" ~> (co[d] = "running" \/ pc = "exited")

\* A timer armed from any thread fires although AddTimer does not wake the
\* loop: the tick bounds epoll_wait.
TimerFires ==
  \A d \in Tasks :
    co[d] = "timed" ~> (co[d] \in {"running", "cancelled"} \/ pc = "exited")

\* No leak: the frame of every coroutine that ran to its end is reclaimed.
CompletedReclaimed ==
  \A d \in Tasks : co[d] = "done" ~> (co[d] = "destroyed" \/ pc = "exited")

\* A Stop() that takes effect after Start() makes Start() return.
StopExits == (pc # "new" /\ ~running) ~> pc = "exited"

\* The loop makes progress: what is spawned runs, timers fire, frames are
\* reclaimed and a stop takes effect (IoService::Start).
LoopProgress == SpawnedRuns /\ TimerFires /\ CompletedReclaimed /\ StopExits
=============================================================================
