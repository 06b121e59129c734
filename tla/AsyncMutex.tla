----------------------------- MODULE AsyncMutex -----------------------------
(***************************************************************************)
(* Cold::Base::AsyncMutex (coro/AsyncMutex.h): a lock-free coroutine mutex.*)
(*                                                                         *)
(* The atomic word state_ is kNotLocked, kLockedNoWaiters or the address   *)
(* of the newest lock operation in a linked list of waiters.  Here it is   *)
(* the pair (locked, lifo); StateWord is the word.  A compare-and-swap     *)
(* sees only the word, so a thread may act on a list that was taken and    *)
(* rebuilt behind the same address.  waitersHead_, the list an unlocker    *)
(* took and reversed, is fifo; only the owner touches it.                  *)
(*                                                                         *)
(* Threads execute coroutines on a stack: Unlock resumes the next owner    *)
(* inline, on the unlocking thread, and returns when that coroutine        *)
(* suspends or finishes.  Only the innermost coroutine of a stack runs.    *)
(***************************************************************************)
EXTENDS Naturals, Sequences, SequencesExt

CONSTANTS Coros,              \* coroutines that use the mutex
          Threads,            \* threads that execute them
          kNotLocked, kLockedNoWaiters

ASSUME WordAssumption ==
  /\ kNotLocked # kLockedNoWaiters
  /\ kNotLocked \notin Coros
  /\ kLockedNoWaiters \notin Coros

VARIABLES locked,   \* state_ # kNotLocked
          lifo,     \* the list state_ points to, newest first
          fifo,     \* the list waitersHead_ points to, oldest first
          pc,       \* where every coroutine is
          seen,     \* oldState in await_suspend
          stack     \* what every thread executes, innermost last

vars == <<locked, lifo, fifo, pc, seen, stack>>

Words == Coros \cup {kNotLocked, kLockedNoWaiters}

StateWord ==
  IF ~locked THEN kNotLocked
  ELSE IF lifo = <<>> THEN kLockedNoWaiters ELSE Head(lifo)

\* "cs": owns the mutex and runs.  "held": owns it and is suspended on
\* something else.  The next three are the steps of Unlock.
OwnerPcs == {"cs", "held", "release", "exchange", "pop"}

Owners == {c \in Coros : pc[c] \in OwnerPcs}

TypeOK ==
  /\ locked \in BOOLEAN
  /\ lifo \in Seq(Coros)
  /\ fifo \in Seq(Coros)
  /\ pc \in [Coros -> {"idle", "start", "try", "waiting"} \cup OwnerPcs]
  /\ seen \in [Coros -> Words]
  /\ stack \in [Threads -> Seq(Coros)]

Init ==
  /\ locked = FALSE
  /\ lifo = <<>>
  /\ fifo = <<>>
  /\ pc = [c \in Coros |-> "idle"]
  /\ seen = [c \in Coros |-> kNotLocked]
  /\ stack = [t \in Threads |-> <<>>]

-----------------------------------------------------------------------------
(* Control of the threads.                                                 *)

\* c is the innermost coroutine of t and is at label l.
Runs(t, c, l) ==
  /\ stack[t] # <<>>
  /\ c = Last(stack[t])
  /\ pc[c] = l

Goto(c, l) == pc' = [pc EXCEPT ![c] = l]

\* The coroutine leaves t: control returns to the caller of resume().
Return(t) == stack' = [stack EXCEPT ![t] = Front(@)]

\* An event loop with nothing on its stack resumes a coroutine that is about
\* to use the mutex, or one that owns it and awaited something else.
Resume(t, c) ==
  /\ stack[t] = <<>>
  /\ \/ pc[c] = "idle" /\ Goto(c, "start")
     \/ pc[c] = "held" /\ Goto(c, "cs")
  /\ stack' = [stack EXCEPT ![t] = <<c>>]
  /\ UNCHANGED <<locked, lifo, fifo, seen>>

\* The coroutine suspends outside the mutex operations, or finishes.
Suspend(t, c) ==
  /\ \/ Runs(t, c, "start") /\ Goto(c, "idle")
     \/ Runs(t, c, "cs") /\ Goto(c, "held")
  /\ Return(t)
  /\ UNCHANGED <<locked, lifo, fifo, seen>>

-----------------------------------------------------------------------------
(* co_await mutex.Lock(): AsyncMutexLockOperation::await_suspend.          *)

LockLoad(t, c) ==
  /\ Runs(t, c, "start")
  /\ seen' = [seen EXCEPT ![c] = StateWord]
  /\ Goto(c, "try")
  /\ UNCHANGED <<locked, lifo, fifo, stack>>

\* The compare-and-swap of a coroutine that saw the mutex free.
LockAcquireBlind(t, c) ==       \* mutant: plain store instead of the exchange
  /\ Runs(t, c, "try")
  /\ seen[c] = kNotLocked
  /\ locked' = TRUE
  /\ Goto(c, "cs")
  /\ UNCHANGED <<lifo, fifo, seen, stack>>
LockAcquire(t, c) ==
  /\ Runs(t, c, "try")
  /\ seen[c] = kNotLocked
  /\ seen[c] = StateWord
  /\ locked' = TRUE
  /\ Goto(c, "cs")
  /\ UNCHANGED <<lifo, fifo, seen, stack>>

\* The compare-and-swap that puts this operation in front of the list it saw.
PushHead(c) == lifo' = <<c>> \o lifo

MayEnqueue(c) == seen[c] # kNotLocked /\ seen[c] = StateWord

LockEnqueue(t, c) ==
  /\ Runs(t, c, "try")
  /\ MayEnqueue(c)
  /\ PushHead(c)
  /\ Goto(c, "waiting")
  /\ Return(t)
  /\ UNCHANGED <<locked, fifo, seen>>

\* A failed compare-and-swap reloads oldState.  A spurious failure of the
\* weak form reloads the same word, so it is a stuttering step.
LockRetry(t, c) ==
  /\ Runs(t, c, "try")
  /\ seen[c] # StateWord
  /\ seen' = [seen EXCEPT ![c] = StateWord]
  /\ UNCHANGED <<locked, lifo, fifo, pc, stack>>

TryLock(t, c) ==
  /\ Runs(t, c, "start")
  /\ ~locked
  /\ locked' = TRUE
  /\ Goto(c, "cs")
  /\ UNCHANGED <<lifo, fifo, seen, stack>>

-----------------------------------------------------------------------------
(* Unlock(), called by the owner or by the destructor of its guard.        *)

UnlockLoad(t, c) ==
  /\ Runs(t, c, "cs")
  /\ Goto(c, IF fifo # <<>> THEN "pop"
             ELSE IF StateWord = kLockedNoWaiters THEN "release"
             ELSE "exchange")
  /\ UNCHANGED <<locked, lifo, fifo, seen, stack>>

\* The strong compare-and-swap; it fails if a waiter arrived after the load.
UnlockRelease(t, c) ==
  /\ Runs(t, c, "release")
  /\ \/ /\ StateWord = kLockedNoWaiters
        /\ locked' = FALSE
        /\ Goto(c, "start")
     \/ /\ StateWord # kLockedNoWaiters
        /\ Goto(c, "exchange")
        /\ UNCHANGED locked
  /\ UNCHANGED <<lifo, fifo, seen, stack>>

\* The whole list is taken and reversed; nobody else can reach its nodes.
TakeUnreversed == fifo' = lifo              \* mutant: not reversed
TakeReversed == fifo' = Reverse(lifo)

UnlockExchange(t, c) ==
  /\ Runs(t, c, "exchange")
  /\ TakeReversed
  /\ lifo' = <<>>
  /\ Goto(c, "pop")
  /\ UNCHANGED <<locked, seen, stack>>

\* The oldest waiter becomes the owner and runs on top of the unlocker.
PopNot == UNCHANGED fifo                    \* mutant: head not advanced
PopAll == fifo' = <<>>                      \* mutant: the rest forgotten
PopHead == fifo' = Tail(fifo)

UnlockResume(t, c) ==
  /\ Runs(t, c, "pop")
  /\ PopHead
  /\ pc' = [pc EXCEPT ![c] = "start", ![Head(fifo)] = "cs"]
  /\ stack' = [stack EXCEPT ![t] = Append(@, Head(fifo))]
  /\ UNCHANGED <<locked, lifo, seen>>

-----------------------------------------------------------------------------

Lock(t, c) == LockLoad(t, c) \/ LockAcquire(t, c) \/ LockEnqueue(t, c) \/ LockRetry(t, c)

Unlock(t, c) ==
  \/ UnlockLoad(t, c) \/ UnlockRelease(t, c)
  \/ UnlockExchange(t, c) \/ UnlockResume(t, c)

Step(t, c) ==
  \/ Resume(t, c) \/ Suspend(t, c)
  \/ Lock(t, c) \/ TryLock(t, c) \/ Unlock(t, c)

Next == \E t \in Threads, c \in Coros : Step(t, c)

Spec == Init /\ [][Next]_vars

\* Threads are scheduled; a coroutine that owns the mutex and awaits something
\* else is resumed when a thread is repeatedly free to do it, and does not go
\* on suspending for ever instead of unlocking.
FairSpec ==
  /\ Spec
  /\ \A t \in Threads : WF_vars(\E c \in Coros : Step(t, c))
  /\ SF_vars(\E t \in Threads, c \in Coros : pc[c] = "held" /\ Resume(t, c))
  /\ SF_vars(\E t \in Threads, c \in Coros : UnlockLoad(t, c))

-----------------------------------------------------------------------------
(* Safety.                                                                 *)

\* No two coroutines are between lock and unlock, whichever threads run them.
MutualExclusion == \A c, d \in Owners : c = d

\* The assertions of Unlock: the mutex is locked (line 104), the exchanged
\* list is not empty (line 116), and there is a waiter to resume (line 126).
UnlockAsserts ==
  \A c \in Coros :
    /\ pc[c] \in OwnerPcs => locked
    /\ pc[c] = "exchange" => lifo # <<>>
    /\ pc[c] = "pop" => fifo # <<>>

\* No waiter is lost or resumed twice: the suspended lock operations are the
\* nodes of the two lists, each in one place.
WaitersListed ==
  /\ \A c \in Coros : pc[c] = "waiting" <=> c \in ToSet(lifo) \cup ToSet(fifo)
  /\ IsInjective(lifo) /\ IsInjective(fifo)
  /\ ToSet(lifo) \cap ToSet(fifo) = {}

\* A free mutex has no waiters, so the destructor's assertions (lines 80-81)
\* hold whenever every coroutine is done with the mutex, and a suspended
\* waiter always has an owner that will unlock.
FreeHasNoWaiters ==
  /\ ~locked => lifo = <<>> /\ fifo = <<>>
  /\ (\E c \in Coros : pc[c] = "waiting") => Owners # {}

\* Everything the proofs need of a reachable state: the word says "locked" just
\* when there is an owner, a free mutex has no waiters, and an owner that gave
\* up on waitersHead_ left it empty.
LockInv ==
  /\ TypeOK
  /\ MutualExclusion
  /\ locked <=> Owners # {}
  /\ ~locked => lifo = <<>> /\ fifo = <<>>
  /\ \A c \in Coros : pc[c] \in {"release", "exchange"} => fifo = <<>>
  /\ UnlockAsserts

\* The mutex implements the abstract FIFO mutex.
Fifo == INSTANCE FifoMutex WITH owners <- Owners, queue <- fifo \o Reverse(lifo)

ImplementsFifo == Fifo!Spec

(* Liveness.                                                               *)

\* Every coroutine that suspended in Lock() becomes the owner.
WaiterServed == \A c \in Coros : pc[c] = "waiting" ~> pc[c] = "cs"
=============================================================================
