------------------------- MODULE ConditionVariable -------------------------
(***************************************************************************)
(* Cold::Base::ConditionVariable (coro/ConditionVariable.h) with consumers *)
(* that wait for messages and producers that add them and notify, on       *)
(* several threads.  The waiters form a lock-free stack of awaiters, each  *)
(* in the frame of its coroutine's Wait(); notifiers pop awaiters and      *)
(* resume their coroutines inline.                                         *)
(*                                                                         *)
(* The mutex is the abstract one of FifoMutex, which AsyncMutex is proved  *)
(* to implement: an owner and a queue.  Unlock resumes the next owner      *)
(* inline, on top of the unlocker.                                         *)
(***************************************************************************)
EXTENDS Naturals, Sequences, FiniteSets, SequencesExt

CONSTANTS Consumers, Producers, Threads,
          Null,         \* nullptr
          Sole,         \* the producer that may notify without the mutex
          MaxItems      \* bound: messages of one producer

ASSUME CvAssumption ==
  /\ IsFiniteSet(Consumers) /\ IsFiniteSet(Producers)
  /\ Consumers \cap Producers = {} /\ Null \notin Consumers \cup Producers
  /\ Sole \in Producers /\ MaxItems \in Nat \ {0}

VARIABLES
  held,       \* producers notify while they hold the mutex; otherwise there is
              \* one producer, which calls NotifyOne after it unlocked
  messages,   \* length of the queue the mutex protects
  produced,   \* messages every producer has added
  owner,      \* of the mutex
  queue,      \* of coroutines that wait for it
  head,       \* head_
  next,       \* next_ of the awaiter of every consumer
  waiting,    \* the consumer is inside Wait(), so its frame exists
  cur,        \* cur, or i, of every notifier
  nxt,        \* the value of cur->next_ a NotifyOne has read
  pc,         \* where every coroutine is
  stack,      \* coroutines a thread executes, innermost last
  unlocks,    \* the thread is inside await_suspend, about to call Unlock()
  dangling    \* an awaiter was read after the frame it lived in was destroyed

vars == <<held, messages, produced, owner, queue, head, next, waiting, cur, nxt, pc,
          stack, unlocks, dangling>>

Coros == Consumers \cup Producers
Pointers == Consumers \cup {Null}

Pcs == {"idle", "lock", "blocked", "check", "load", "cas", "listed", "produce",
        "choose", "oneLoad", "oneRead", "oneCas", "allLoad", "allCas",
        "allResume", "allNext", "notified", "unlock"}

TypeOK ==
  /\ held \in BOOLEAN
  /\ messages \in Nat
  /\ produced \in [Producers -> 0..MaxItems]
  /\ owner \in Coros \cup {Null} /\ queue \in Seq(Coros)
  /\ head \in Pointers /\ next \in [Consumers -> Pointers]
  /\ waiting \subseteq Consumers
  /\ cur \in [Producers -> Pointers] /\ nxt \in [Producers -> Pointers]
  /\ pc \in [Coros -> Pcs]
  /\ stack \in [Threads -> Seq(Coros)]
  /\ unlocks \subseteq Threads
  /\ dangling \in BOOLEAN

Init ==
  /\ held \in BOOLEAN
  /\ messages = 0 /\ produced = [p \in Producers |-> 0]
  /\ owner = Null /\ queue = <<>>
  /\ head = Null /\ next = [c \in Consumers |-> Null]
  /\ waiting = {}
  /\ cur = [p \in Producers |-> Null] /\ nxt = [p \in Producers |-> Null]
  /\ pc = [c \in Coros |-> "idle"]
  /\ stack = [t \in Threads |-> <<>>] /\ unlocks = {}
  /\ dangling = FALSE

-----------------------------------------------------------------------------
(* Threads and the mutex.                                                  *)

At(t, c, l) ==
  /\ t \notin unlocks
  /\ stack[t] # <<>> /\ Last(stack[t]) = c
  /\ pc[c] = l

Goto(c, l) == pc' = [pc EXCEPT ![c] = l]

Return(t) == stack' = [stack EXCEPT ![t] = Front(@)]

mutex == <<owner, queue>>
data == <<held, messages, produced>>

Active == IF held THEN Producers ELSE {Sole}
Modes == IF held THEN {"one", "all"} ELSE {"one"}
list == <<head, next, waiting>>
locals == <<cur, nxt, dangling>>

\* A loop starts a consumer, or a producer that has something left to produce.
Resume(t, c) ==
  /\ stack[t] = <<>> /\ t \notin unlocks
  /\ pc[c] = "idle"
  /\ c \in Producers => c \in Active /\ produced[c] < MaxItems
  /\ Goto(c, "lock")
  /\ stack' = [stack EXCEPT ![t] = <<c>>]
  /\ UNCHANGED <<data, mutex, list, locals, unlocks>>

\* Where the owner of the mutex goes on.
Owning(c) == IF c \in Consumers THEN "check" ELSE "produce"

Lock(t, c) ==
  /\ At(t, c, "lock")
  /\ \/ /\ owner = Null
        /\ owner' = c
        /\ Goto(c, Owning(c))
        /\ UNCHANGED <<queue, stack>>
     \/ /\ owner # Null
        /\ queue' = Append(queue, c)
        /\ Goto(c, "blocked")
        /\ Return(t)
        /\ UNCHANGED owner
  /\ UNCHANGED <<data, list, locals, unlocks>>

\* Unlock() on t, where s is the stack of t; q are the labels so far.
HandOver(t, s, q) ==
  IF queue = <<>>
    THEN /\ owner' = Null
         /\ pc' = q
         /\ stack' = [stack EXCEPT ![t] = s]
         /\ UNCHANGED queue
    ELSE /\ owner' = Head(queue)
         /\ queue' = Tail(queue)
         /\ pc' = [q EXCEPT ![Head(queue)] = Owning(Head(queue))]
         /\ stack' = [stack EXCEPT ![t] = Append(s, Head(queue))]

\* The guard's destructor; the coroutine then goes back to its loop.  The sole
\* producer notifies only now.
Unlock(t, c) ==
  /\ At(t, c, "unlock")
  /\ IF c \in Producers /\ ~held
       THEN HandOver(t, stack[t], [pc EXCEPT ![c] = "choose"])
       ELSE HandOver(t, Front(stack[t]), [pc EXCEPT ![c] = "idle"])
  /\ UNCHANGED <<data, list, locals, unlocks>>

-----------------------------------------------------------------------------
(* Wait().                                                                 *)

\* while (!cond()): the predicate is evaluated under the mutex.
Cond(c) == messages > 0

Check(t, c) ==
  /\ At(t, c, "check")
  /\ IF Cond(c)
       THEN /\ messages' = messages - 1
            /\ waiting' = waiting \ {c}
            /\ Goto(c, "unlock")
       ELSE /\ waiting' = waiting \cup {c}
            /\ Goto(c, "load")
            /\ UNCHANGED messages
  /\ UNCHANGED <<held, produced, mutex, head, next, locals, stack, unlocks>>

\* await_suspend: next_ = head_, then the compare-and-swap.
AwaitLoad(t, c) ==
  /\ At(t, c, "load")
  /\ next' = [next EXCEPT ![c] = head]
  /\ Goto(c, "cas")
  /\ UNCHANGED <<data, mutex, head, waiting, locals, stack, unlocks>>

\* The awaiter is published.  From here on the coroutine may be resumed, while
\* this thread is still to unlock the mutex on its behalf.
AwaitCas(t, c) ==
  /\ At(t, c, "cas")
  /\ next[c] = head
  /\ head' = c
  /\ Goto(c, "listed")
  /\ Return(t)
  /\ unlocks' = unlocks \cup {t}
  /\ UNCHANGED <<data, mutex, next, waiting, locals>>

\* A failed exchange reloads next_.
AwaitRetry(t, c) ==
  /\ At(t, c, "cas")
  /\ next[c] # head
  /\ next' = [next EXCEPT ![c] = head]
  /\ UNCHANGED <<data, mutex, head, waiting, locals, pc, stack, unlocks>>

AwaitUnlock(t) ==
  /\ t \in unlocks
  /\ unlocks' = unlocks \ {t}
  /\ HandOver(t, stack[t], pc)
  /\ UNCHANGED <<data, list, locals>>

-----------------------------------------------------------------------------
(* A producer adds a message and notifies.                                 *)

Produce(t, p) ==
  /\ At(t, p, "produce")
  /\ messages' = messages + 1
  /\ produced' = [produced EXCEPT ![p] = @ + 1]
  /\ Goto(p, IF held THEN "choose" ELSE "unlock")
  /\ UNCHANGED <<held, mutex, list, locals, stack, unlocks>>

Choose(t, p) ==
  /\ At(t, p, "choose")
  /\ \E m \in Modes : Goto(p, IF m = "one" THEN "oneLoad" ELSE "allLoad")
  /\ UNCHANGED <<data, mutex, list, locals, stack, unlocks>>

\* The notification is over; a producer that holds the mutex unlocks it.
Notified(t, p) ==
  /\ At(t, p, "notified")
  /\ IF held THEN Goto(p, "unlock") /\ UNCHANGED stack
             ELSE Goto(p, "idle") /\ Return(t)
  /\ UNCHANGED <<data, mutex, list, locals, unlocks>>

\* What a coroutine does when it is resumed: co_await mutex_->Lock().
Relock == "lock"

\* resume() of c's coroutine, on top of p.
WakenNot(t, p, c, l) == Goto(p, l) /\ UNCHANGED stack   \* mutant: not resumed
Waken(t, p, c, l) ==
  /\ pc' = [pc EXCEPT ![p] = l, ![c] = Relock]
  /\ stack' = [stack EXCEPT ![t] = Append(@, c)]

\* The load of head_; an empty list ends the call.
NotifyLoad(t, p, l, then) ==
  /\ At(t, p, l)
  /\ cur' = [cur EXCEPT ![p] = head]
  /\ Goto(p, IF head = Null THEN "notified" ELSE then)
  /\ UNCHANGED <<data, mutex, list, nxt, dangling, stack, unlocks>>

\* cur->next_; the awaiter is in the frame of its coroutine's Wait().
ReadNext(p) == dangling' = (dangling \/ cur[p] \notin waiting)

\* NotifyOne evaluates cur->next_ ...
NotifyOneRead(t, p) ==
  /\ At(t, p, "oneRead")
  /\ nxt' = [nxt EXCEPT ![p] = next[cur[p]]]
  /\ ReadNext(p)
  /\ Goto(p, "oneCas")
  /\ UNCHANGED <<data, mutex, list, cur, stack, unlocks>>

\* ... and pops cur, or starts again.
PopNone(p) == UNCHANGED head           \* mutant: not advanced
PopAll(p) == head' = Null              \* mutant: the rest cut off
Pop(p) == head' = nxt[p]

NotifyOneCas(t, p) ==
  /\ At(t, p, "oneCas")
  /\ IF head = cur[p]
       THEN Pop(p) /\ Waken(t, p, cur[p], "notified")
       ELSE Goto(p, "oneLoad") /\ UNCHANGED <<head, stack>>
  /\ UNCHANGED <<data, mutex, next, waiting, locals, unlocks>>

\* NotifyAll takes the whole list ...
NotifyAllCas(t, p) ==
  /\ At(t, p, "allCas")
  /\ IF head = cur[p]
       THEN head' = Null /\ Goto(p, "allResume")
       ELSE Goto(p, "allLoad") /\ UNCHANGED head
  /\ UNCHANGED <<data, mutex, next, waiting, locals, stack, unlocks>>

\* ... and resumes one after another, reading next_ after the resumption.
NotifyAllResume(t, p) ==
  /\ At(t, p, "allResume")
  /\ Waken(t, p, cur[p], "allNext")
  /\ UNCHANGED <<data, mutex, list, locals, unlocks>>

StepOn(p) == next[cur[p]]

NotifyAllNext(t, p) ==
  /\ At(t, p, "allNext")
  /\ cur' = [cur EXCEPT ![p] = StepOn(p)]
  /\ ReadNext(p)
  /\ Goto(p, IF StepOn(p) = Null THEN "notified" ELSE "allResume")
  /\ UNCHANGED <<data, mutex, list, nxt, stack, unlocks>>

-----------------------------------------------------------------------------

Wait(t, c) == Check(t, c) \/ AwaitLoad(t, c) \/ AwaitCas(t, c) \/ AwaitRetry(t, c)

NotifyOne(t, p) ==
  \/ NotifyLoad(t, p, "oneLoad", "oneRead")
  \/ NotifyOneRead(t, p) \/ NotifyOneCas(t, p)

NotifyAll(t, p) ==
  \/ NotifyLoad(t, p, "allLoad", "allCas")
  \/ NotifyAllCas(t, p) \/ NotifyAllResume(t, p) \/ NotifyAllNext(t, p)

Run(t) ==
  \/ \E c \in Coros : Lock(t, c) \/ Unlock(t, c)
  \/ \E c \in Consumers : Wait(t, c)
  \/ AwaitUnlock(t)
  \/ \E p \in Producers :
       Produce(t, p) \/ Choose(t, p) \/ NotifyOne(t, p) \/ NotifyAll(t, p) \/ Notified(t, p)

\* Every message was produced and taken: the consumers wait for ever.
Exhausted ==
  /\ \A p \in Active : produced[p] = MaxItems
  /\ messages = 0
  /\ UNCHANGED vars

Next == (\E t \in Threads : Run(t) \/ \E c \in Coros : Resume(t, c)) \/ Exhausted

Spec == Init /\ [][Next]_vars

\* Threads are scheduled, and a consumer that is not waiting is started again.
FairSpec ==
  /\ Spec
  /\ \A t \in Threads : WF_vars(Run(t))
  /\ \A c \in Consumers : SF_vars(\E t \in Threads : Resume(t, c))

-----------------------------------------------------------------------------

\* No notifier reads an awaiter whose frame is gone: lines 53 and
\* 65, where another notifier, or the resumed coroutine itself, may have been
\* faster.
NoDanglingRead == ~dangling

\* s is the list of awaiters from first on: next_ leads from each to the next.
Chains == UNION {[1..n -> Consumers] : n \in 0..Cardinality(Consumers)}
Follows(s, first) ==
  /\ s = <<>> <=> first = Null
  /\ s # <<>> => s[1] = first /\ next[s[Len(s)]] = Null
  /\ \A i \in 1..(Len(s) - 1) : next[s[i]] = s[i + 1]

\* A NotifyAll that has taken the list, and the rest of it, not resumed yet.
Takes(p) == pc[p] \in {"allResume", "allNext"}
Rest(p) == IF pc[p] = "allResume" THEN cur[p] ELSE next[cur[p]]

\* No waiter is lost or listed twice: the suspended consumers are exactly the
\* awaiters on one list, which head_ starts, or, while head_ is empty, what a
\* NotifyAll in progress still has to go through.
WaitersReachable ==
  /\ TypeOK
  /\ \E s \in Chains :
       /\ IsInjective(s) /\ ToSet(s) = {c \in Consumers : pc[c] = "listed"}
       /\ (\A p \in Producers : ~Takes(p)) => Follows(s, head)
       /\ \A p \in Producers : Takes(p) => head = Null /\ Follows(s, Rest(p))

\* No notification is lost: while consumers are suspended, every message there
\* is has a consumer that is awake, or a producer about to notify.
NoLostNotification ==
  (\E c \in Consumers : pc[c] = "listed") =>
    messages <= Cardinality({c \in Consumers : pc[c] \in {"lock", "blocked", "check"}})
              + Cardinality({p \in Producers : pc[p] \in
                  {"choose", "oneLoad", "oneRead", "oneCas", "allLoad", "allCas",
                   "allResume", "allNext"}
                  \/ (pc[p] = "unlock" /\ ~held)})

\* Every message is taken.
MessagesTaken == messages > 0 ~> messages = 0
=============================================================================
