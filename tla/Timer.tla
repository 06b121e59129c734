------------------------------- MODULE Timer -------------------------------
(***************************************************************************)
(* Cold::Base::Timer, TimerAwaitable and SleepAwaitable (time/Timer.h,      *)
(* time/Timer.cpp) on the TimerQueue of their service: tasks that a timer   *)
(* runs, and coroutines that co_await one.                                 *)
(*                                                                         *)
(* A Timer object is known by its id, so the move constructor, which hands  *)
(* the id on and leaves 0 behind, changes nothing here.  Nobody uses a      *)
(* timer after it was moved from, other than to destroy it.  The task of    *)
(* an awaitable is one that resumes the coroutine which waits.             *)
(***************************************************************************)
EXTENDS TimerQueue

VARIABLES created,    \* numCreated_
          expiry      \* expiry_ of every Timer that exists

timerVars == <<queueVars, created, expiry>>

Epoch == 0            \* Time()

ASSUME EpochAssumption == Epoch \in Expiries

TimerInit == QueueInit /\ created = 0 /\ expiry = <<>>

InQueue(i) == i \in DOMAIN q.index
Without(f, i) == [j \in DOMAIN f \ {i} |-> f[j]]
With(f, i, e) == [j \in DOMAIN f \cup {i} |-> IF j = i THEN e ELSE f[j]]

-----------------------------------------------------------------------------

Construct(e) ==
  /\ created < MaxId
  /\ created' = created + 1
  /\ expiry' = With(expiry, created', e)

Create == Construct(Epoch) /\ UNCHANGED queueVars

\* ExpiresAfter comes here, too.
ExpiresAt(i, e) ==
  /\ expiry' = [expiry EXCEPT ![i] = e]
  /\ IF InQueue(i) THEN UpdateTimer(i, e) ELSE UNCHANGED queueVars
  /\ UNCHANGED created

\* The task is one of the user, or the wrapper of a TimerAwaitable.
AsyncWait(i, k) == AddTimer(i, expiry[i], k) /\ UNCHANGED <<created, expiry>>

\* co_await Sleep(...): the awaitable has a timer of its own, which only it uses
\* and destroys once it is resumed; the model lets others change that one, too.
Sleep(e, k) == e >= now /\ Construct(e) /\ AddTimer(created', e, k)

CancelIfQueued(i) == IF InQueue(i) THEN CancelTimer(i) ELSE UNCHANGED queueVars

Cancel(i) == CancelIfQueued(i) /\ UNCHANGED <<created, expiry>>

\* ~Timer, and the move assignment to the Timer with id i, which goes on with
\* the id and the expiry of another one.
Destroy(i) == CancelIfQueued(i) /\ expiry' = Without(expiry, i) /\ UNCHANGED created
MoveAssign(i) == (\E j \in DOMAIN expiry : j # i) /\ Destroy(i)

\* The loop collects the tasks of the timers that are due.
RunTimers == HandleTimeout /\ UNCHANGED <<created, expiry>>

TimePasses == Advance /\ UNCHANGED <<created, expiry>>

TimerNext ==
  \/ Create \/ \E e \in Expiries, k \in Tasks : Sleep(e, k)
  \/ \E i \in DOMAIN expiry :
       \/ \E e \in Expiries : ExpiresAt(i, e)
       \/ \E k \in Tasks : AsyncWait(i, k)
       \/ Cancel(i) \/ Destroy(i) \/ MoveAssign(i)
  \/ RunTimers \/ TimePasses

TimerSpec == TimerInit /\ [][TimerNext]_timerVars

\* Time passes and the loop comes round to HandleTimeout.
FairTimerSpec == TimerSpec /\ WF_timerVars(TimePasses) /\ WF_timerVars(RunTimers)

-----------------------------------------------------------------------------

\* The queue implements the set of timers: nothing is lost, fired early, fired
\* out of order, fired twice or fired after it was cancelled.
Set == INSTANCE TimerSet WITH armed <- Queued

ImplementsTimerSet == Set!Spec

\* Right after HandleTimeout, sleeping for what it returned ends less than a
\* millisecond after the next timer is due and never after the tick, in spite
\* of the truncation of both instants (TimerQueue.cpp:85-90).
SleepIsPunctual ==
  [][HandleTimeout =>
       /\ wait' \in 0..Tick
       /\ \A n \in DOMAIN q'.heap :
            now + wait' * PerMs < q'.heap[n].expiry + PerMs]_timerVars

\* No timer stays armed: it fires, or is cancelled.
Armed(i) == \E n \in DOMAIN q.heap : q.heap[n].timerId = i /\ q.heap[n].valid
ArmedFires == \A i \in Ids : []<>~Armed(i)

\* A valid node belongs to a Timer that exists and has the expiry of that Timer:
\* nothing fires for a Timer that was destroyed or assigned to.
TimersOwned ==
  \A i \in DOMAIN Queued :
    Queued[i].valid => i \in DOMAIN expiry /\ expiry[i] = Queued[i].expiry

\* Timers fire, in time, and not after their Timer is gone (Timer.cpp:12).
TimersPunctual == SleepIsPunctual /\ ArmedFires /\ []TimersOwned
=============================================================================
