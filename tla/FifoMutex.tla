------------------------------ MODULE FifoMutex ------------------------------
(***************************************************************************)
(* What an AsyncMutex promises: at most one coroutine owns it, coroutines  *)
(* that find it owned are queued, and an unlock hands it to the coroutine  *)
(* that has been queued longest.  Nobody overtakes a queued coroutine.     *)
(***************************************************************************)
EXTENDS Naturals, Sequences

CONSTANT Coros

VARIABLES owners,   \* the coroutines between lock and unlock
          queue     \* the coroutines waiting, oldest first

vars == <<owners, queue>>

Init == owners = {} /\ queue = <<>>

Acquire(c) ==
  /\ owners = {} /\ queue = <<>>
  /\ owners' = {c}
  /\ UNCHANGED queue

Enqueue(c) ==
  /\ owners # {}
  /\ c \notin owners
  /\ \A i \in 1..Len(queue) : queue[i] # c
  /\ queue' = Append(queue, c)
  /\ UNCHANGED owners

Release(c) ==
  /\ owners = {c} /\ queue = <<>>
  /\ owners' = {}
  /\ UNCHANGED queue

HandOver(c) ==
  /\ owners = {c} /\ queue # <<>>
  /\ owners' = {Head(queue)}
  /\ queue' = Tail(queue)

Next == \E c \in Coros : Acquire(c) \/ Enqueue(c) \/ Release(c) \/ HandOver(c)

Spec == Init /\ [][Next]_vars
=============================================================================
