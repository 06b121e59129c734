--------------------------- MODULE IoServicePool ---------------------------
(***************************************************************************)
(* Cold::Base::IoServicePool and Cold::Base::Thread (coro/IoServicePool,    *)
(* thread/Thread, thread/Condition, thread/Lock): a main thread that starts *)
(* one thread for each service, runs its own service and, when that has     *)
(* been stopped, joins the others in the destructor.                       *)
(*                                                                         *)
(* Thread::Start holds the thread's mutex from before pthread_create until  *)
(* it waits; ThreadMainFunc needs it to set started_, and moves task_ out   *)
(* of the Thread object only after it has let Start return.                *)
(***************************************************************************)
EXTENDS Naturals

CONSTANT PoolSize           \* number of services beside the main one

ASSUME PoolSizeAssumption == PoolSize \in Nat

VARIABLES main,      \* where the main thread is
          cur,       \* the thread Start or the destructor is at
          held,      \* the main thread holds that thread's mutex_
          started,   \* started_ of each Thread
          thread,    \* where each thread is
          alive,     \* the Thread and IoService objects exist
          running,   \* running_ of each service; 0 is the main one
          stopped,   \* services somebody called Stop on
          stoppedEarly \* those where that was before their loop began

poolVars == <<main, cur, held, started, thread, alive, running, stopped, stoppedEarly>>

Threads == 1..PoolSize
Services == 0..PoolSize

PoolInit ==
  /\ main = "listen" /\ cur = 1 /\ held = FALSE
  /\ started = [t \in Threads |-> FALSE]
  /\ thread = [t \in Threads |-> "none"]
  /\ alive = TRUE
  /\ running = [s \in Services |-> FALSE]
  /\ stopped = {} /\ stoppedEarly = {}

-----------------------------------------------------------------------------
(* Thread::Start, called by IoServicePool::Start for one thread after the   *)
(* other, and IoService::Start of the main service.                        *)

\* pthread_create may fail, and nobody looks at its result: Start waits all the
\* same.
CreateUnlocked ==                \* mutant: the mutex is not taken
  /\ main = "start" /\ cur \in Threads
  /\ thread' \in {thread, [thread EXCEPT ![cur] = "begin"]}
  /\ main' = "check"
  /\ UNCHANGED <<cur, held, started, alive, running, stopped, stoppedEarly>>
Create ==
  /\ main = "start" /\ cur \in Threads
  /\ held' = TRUE
  /\ thread' \in {thread, [thread EXCEPT ![cur] = "begin"]}
  /\ main' = "check"
  /\ UNCHANGED <<cur, started, alive, running, stopped, stoppedEarly>>

\* while (!started_) condition_.Wait(): the test, and the wait that gives the
\* mutex up.
CheckStarted ==
  /\ main = "check"
  /\ IF started[cur]
     THEN main' = "start" /\ cur' = cur + 1 /\ held' = FALSE
     ELSE main' = "tested" /\ UNCHANGED <<cur, held>>
  /\ UNCHANGED <<started, thread, alive, running, stopped, stoppedEarly>>

Wait ==
  /\ main = "tested" /\ main' = "waiting" /\ held' = FALSE
  /\ UNCHANGED <<cur, started, thread, alive, running, stopped, stoppedEarly>>

\* The wait returns with the mutex, and started_ is tested again.
AfterWaitTrusted ==              \* mutant: if instead of while
  main' = "start" /\ cur' = cur + 1 /\ held' = FALSE
AfterWait == main' = "check" /\ held' = TRUE /\ UNCHANGED cur

\* It returns because of a signal (NotifyStarted), or for no reason.
WakeUp ==
  /\ main = "woken" /\ AfterWait
  /\ UNCHANGED <<started, thread, alive, running, stopped, stoppedEarly>>
SpuriousWakeUp ==
  /\ main = "waiting" /\ AfterWait
  /\ UNCHANGED <<started, thread, alive, running, stopped, stoppedEarly>>

RunMain ==
  /\ main = "start" /\ cur \notin Threads
  /\ running' = [running EXCEPT ![0] = TRUE]
  /\ main' = "run"
  /\ UNCHANGED <<cur, held, started, thread, alive, stopped, stoppedEarly>>

\* The loop sees running_ FALSE; the pool goes out of scope.
MainLoopEnds ==
  /\ main = "run" /\ ~running[0]
  /\ main' = "destroy" /\ cur' = 1
  /\ UNCHANGED <<held, started, thread, alive, running, stopped, stoppedEarly>>

-----------------------------------------------------------------------------
(* ThreadMainFunc.                                                         *)

\* The block under the mutex: started_ is set, and the waiting Start signalled.
NotifyStarted(t) ==
  /\ thread[t] = "begin" /\ ~(held /\ cur = t)
  /\ started' = [started EXCEPT ![t] = TRUE]
  /\ main' = IF main = "waiting" /\ cur = t THEN "woken" ELSE main
  /\ thread' = [thread EXCEPT ![t] = "notified"]
  /\ UNCHANGED <<cur, held, alive, running, stopped, stoppedEarly>>

\* task_ is moved out of the Thread object.
TakeTask(t) ==
  /\ thread[t] = "notified"
  /\ thread' = [thread EXCEPT ![t] = "task"]
  /\ UNCHANGED <<main, cur, held, started, alive, running, stopped, stoppedEarly>>

\* The task is IoService::Start of the thread's service.
RunService(t) ==
  /\ thread[t] = "task"
  /\ running' = [running EXCEPT ![t] = TRUE]
  /\ thread' = [thread EXCEPT ![t] = "loop"]
  /\ UNCHANGED <<main, cur, held, started, alive, stopped, stoppedEarly>>

LoopEnds(t) ==
  /\ thread[t] = "loop" /\ ~running[t]
  /\ thread' = [thread EXCEPT ![t] = "exited"]
  /\ UNCHANGED <<main, cur, held, started, alive, running, stopped, stoppedEarly>>

-----------------------------------------------------------------------------
(* IoService::Stop, called by a coroutine of the main service (main = run)  *)
(* or of a pool service, and the destructor.                               *)

Stop(s) ==
  /\ main = "run" \/ \E t \in Threads : thread[t] = "loop"
  /\ alive /\ s \notin stopped
  /\ running' = [running EXCEPT ![s] = FALSE]
  /\ stopped' = stopped \cup {s}
  /\ stoppedEarly' = IF running[s] THEN stoppedEarly ELSE stoppedEarly \cup {s}
  /\ UNCHANGED <<main, cur, held, started, thread, alive>>

Joined(t) == thread[t] = "exited"

\* ~IoServicePool: every started thread is joined.
Join ==
  /\ main = "destroy" /\ cur \in Threads
  /\ started[cur] => Joined(cur)
  /\ cur' = cur + 1
  /\ UNCHANGED <<main, held, started, thread, alive, running, stopped, stoppedEarly>>

Destroy ==
  /\ main = "destroy" /\ cur \notin Threads
  /\ alive' = FALSE /\ main' = "gone"
  /\ UNCHANGED <<cur, held, started, thread, running, stopped, stoppedEarly>>

MainSteps == Create \/ CheckStarted \/ Wait \/ WakeUp \/ RunMain \/ MainLoopEnds \/ Join \/ Destroy
ThreadSteps(t) == NotifyStarted(t) \/ TakeTask(t) \/ RunService(t) \/ LoopEnds(t)

-----------------------------------------------------------------------------
(* Properties.                                                             *)

\* No thread uses its Thread object or its service after the pool is destroyed:
\* task_ is read after Start has returned, and only the join keeps the object.  A
\* thread that has not begun when Start returns would not even be joined, so
\* Start must not trust a wake-up without a signal.
ObjectsOutliveThreads ==
  alive \/ \A t \in Threads : thread[t] \in {"none", "exited"}

\* Start of every thread returns although the new thread may signal first, unless
\* that thread could not be created, and the destructor ends unless a service
\* still runs that nobody stopped, or that was stopped before its loop had begun
\* (IoService::Start sets running_ again).
NotCreated == main \in {"check", "tested", "waiting"} /\ thread[cur] = "none"

PoolStartsAndEnds ==
  /\ main = "start" ~> main = "run" \/ NotCreated
  /\ main = "destroy" ~> main = "gone" \/ \E t \in Threads : running[t] /\ (t \notin stopped \/ t \in stoppedEarly)
=============================================================================
