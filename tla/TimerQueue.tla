----------------------------- MODULE TimerQueue -----------------------------
(***************************************************************************)
(* Cold::Base::TimerQueue (time/TimerQueue.h, time/TimerQueue.cpp): a      *)
(* binary heap of timer nodes and a map from timer id to heap index.  All  *)
(* operations run under the IoService's mutexForTimerQueue_, so each is    *)
(* one step.                                                               *)
(*                                                                         *)
(* A queue is a record [heap, index]: heap is a sequence of nodes, whose   *)
(* element i is timeHeap_[i - 1]; index maps ids to the code's 0-based     *)
(* positions.                                                              *)
(***************************************************************************)
EXTENDS Integers, Sequences, FiniteSets, SequencesExt

CONSTANTS MaxId,        \* bound: timer ids are 1..MaxId
          Tasks,        \* what AsyncWait is given
          MaxTime,      \* bound: the clock is 0..MaxTime
          Expiries,     \* instants an expiry may be set to
          PerMs,        \* instants of the clock in one millisecond
          Tick          \* kDefaultTickMilliSeconds

ASSUME NumberAssumption ==
  /\ MaxId \in Nat /\ MaxTime \in Nat /\ Expiries \subseteq 0..MaxTime
  /\ PerMs \in Nat \ {0} /\ Tick \in Nat \ {0}

VARIABLES now,      \* Time::Now()
          q,        \* timeHeap_ and timerIdToIndexMap_
          fired,    \* what HandleTimeout collected, until the next operation
          wait      \* what it returned, until then

queueVars == <<now, q, fired, wait>>

Ids == 1..MaxId
Instants == 0..MaxTime
Node == [timerId : Ids, expiry : Expiries, task : Tasks, valid : BOOLEAN]

QueueTypeOK ==
  /\ now \in Instants
  /\ q.heap \in Seq(Node)
  /\ \A i \in DOMAIN q.index : i \in Ids /\ q.index[i] \in 0..(Len(q.heap) - 1)
  /\ wait \in 0..Tick

QueueInit ==
  /\ now = 0
  /\ q = [heap |-> <<>>, index |-> <<>>]
  /\ fired = <<>>
  /\ wait = Tick

-----------------------------------------------------------------------------
(* The heap.                                                               *)

\* TimerNode::operator>
AfterByExpiry(a, b) == a.expiry > b.expiry     \* mutant: id not compared
After(a, b) ==
  IF a.expiry = b.expiry THEN a.timerId > b.timerId ELSE a.expiry > b.expiry

\* A loop of at most k rounds: a round in which it would break out changes
\* nothing.  (The singletons make TLC evaluate every round once.)
Loop(Round(_), start, k) ==
  LET after[n \in 0..k] ==
        IF n = 0 THEN start ELSE CHOOSE s \in {Round(r) : r \in {after[n - 1]}} : TRUE
  IN after[k]

\* timeHeap_[i]
At(h, i) == h[i + 1]

\* The two std::swap of Fixup and FixDown: the map entries, then the nodes.
SwapNodes(p, i, j) ==
  LET a == At(p.heap, i).timerId
      b == At(p.heap, j).timerId
  IN [heap  |-> [p.heap EXCEPT ![i + 1] = At(p.heap, j), ![j + 1] = At(p.heap, i)],
      index |-> [p.index EXCEPT ![a] = p.index[b], ![b] = p.index[a]]]

Parent(son) == (son - 1) \div 2

\* One round of Fixup's loop, which has come to a node.
Rise(s) ==
  IF s.at > 0 /\ After(At(s.q.heap, Parent(s.at)), At(s.q.heap, s.at))
    THEN [q |-> SwapNodes(s.q, Parent(s.at), s.at), at |-> Parent(s.at)]
    ELSE s

\* Every round is nearer to the root.
Fixup(p, son) == Loop(Rise, [q |-> p, at |-> son], son).q

\* The child FixDown compares with: the earlier one of the two.
EarlierSon(h, parent) ==
  LET son == parent * 2 + 1 IN
  IF son + 1 < Len(h) /\ After(At(h, son), At(h, son + 1)) THEN son + 1 ELSE son

\* One round of FixDown's loop.
Sink(s) ==
  LET son == EarlierSon(s.q.heap, s.at) IN
  IF s.at * 2 + 1 < Len(s.q.heap) /\ ~After(At(s.q.heap, son), At(s.q.heap, s.at))
    THEN [q |-> SwapNodes(s.q, s.at, son), at |-> son]
    ELSE s

FixDown(p, parent) == Loop(Sink, [q |-> p, at |-> parent], Len(p.heap)).q

-----------------------------------------------------------------------------
(* The operations of a Timer, and what they do to the queue.               *)

\* The results of the last HandleTimeout have been used.
Discard == fired' = <<>> /\ wait' = Tick

\* Timer::AsyncWait -> TimerQueue::AddTimer.  If a node with this id is still
\* in the heap, a cancelled one included, the new task is dropped.
\* timer.expiry_ is whatever ExpiresAt set it to.
AddTimer(i, e, k) ==
  /\ i \notin DOMAIN q.index
  /\ LET last == Len(q.heap)
         node == [timerId |-> i, expiry |-> e, task |-> k, valid |-> TRUE]
         index == [j \in DOMAIN q.index \cup {i} |-> IF j = i THEN last ELSE q.index[j]]
     IN q' = Fixup([heap |-> Append(q.heap, node), index |-> index], last)
  /\ Discard
  /\ UNCHANGED now

\* Timer::Cancel -> TimerQueue::CancelTimer: the node stays in the heap.
CancelTimer(i) ==
  /\ i \in DOMAIN q.index
  /\ q' = [heap |-> [q.heap EXCEPT ![q.index[i] + 1].valid = FALSE], index |-> q.index]
  /\ Discard
  /\ UNCHANGED now

\* Timer::ExpiresAt -> TimerQueue::UpdateTimer; nothing to do for a timer that
\* is not in the queue.
MoveNode(p, at) == Fixup(FixDown(p, at), at)

UpdateTimer(i, e) ==
  /\ i \in DOMAIN q.index
  /\ q' = MoveNode([heap |-> [q.heap EXCEPT ![q.index[i] + 1].expiry = e], index |-> q.index], q.index[i])
  /\ Discard
  /\ UNCHANGED now

\* The root leaves, the last node takes its place.
PopRoot(p) ==
  LET root == p.heap[1]
      last == Last(p.heap)
      heap == Front([p.heap EXCEPT ![1] = last])
      index == [j \in DOMAIN p.index \ {root.timerId} |->
                  IF j = last.timerId THEN 0 ELSE p.index[j]]
  IN FixDown([heap |-> heap, index |-> index], 0)

DueNow(h) == h # <<>> /\ now >= h[1].expiry

\* One round of the while loop of HandleTimeout: s has the queue and what was
\* taken out of it before.
TakeDue(s) ==
  LET root == s.q.heap[1] IN
  IF DueNow(s.q.heap)
    THEN [q |-> PopRoot(s.q),
          out |-> IF root.valid THEN Append(s.out, <<root.timerId, root.task>>) ELSE s.out]
    ELSE s

Collect(p) == Loop(TakeDue, [q |-> p, out |-> <<>>], Len(p.heap))

\* Time::TimeSinceEpochMilliSeconds truncates.
Ms(instant) == instant \div PerMs

\* The milliseconds the loop may sleep.
SleepTimeUncapped(h) ==                        \* mutant: no tick
  IF h = <<>> THEN Tick ELSE Ms(h[1].expiry) - Ms(now)
SleepTime(h) ==
  IF h = <<>> \/ Ms(h[1].expiry) - Ms(now) > Tick
    THEN Tick
    ELSE Ms(h[1].expiry) - Ms(now)

HandleTimeout ==
  /\ \E left \in {Collect(q)} :
       /\ q' = left.q
       /\ fired' = left.out
       /\ wait' = SleepTime(left.q.heap)
  /\ UNCHANGED now

Advance ==
  /\ now < MaxTime
  /\ now' = now + 1
  /\ Discard
  /\ UNCHANGED q

-----------------------------------------------------------------------------

\* What the heap and the map say of every timer.
Contents(p) ==
  [i \in DOMAIN p.index |->
     LET n == At(p.heap, p.index[i]) IN [expiry |-> n.expiry, task |-> n.task, valid |-> n.valid]]
Queued == Contents(q)
=============================================================================
