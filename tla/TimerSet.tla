------------------------------ MODULE TimerSet ------------------------------
(***************************************************************************)
(* What Cold::Base::TimerQueue promises: a set of timers, each with an     *)
(* expiry, a task and a validity.  HandleTimeout takes out every timer     *)
(* whose time has come and returns the tasks of the valid ones, ordered by *)
(* expiry and then by timer id, with the time the caller may sleep.        *)
(***************************************************************************)
EXTENDS Naturals, Sequences

CONSTANTS Ids,        \* timer ids, numbers
          Tasks,      \* what AsyncWait is given
          Expiries,   \* instants an expiry may be set to, numbers
          PerMs,      \* instants of the clock in one millisecond
          Tick        \* kDefaultTickMilliSeconds

VARIABLES now, armed, fired, wait

vars == <<now, armed, fired, wait>>

Ms(instant) == instant \div PerMs

Least(S) == CHOOSE x \in S : \A y \in S : x <= y

Entry == [expiry : Expiries, task : Tasks, valid : BOOLEAN]

Before(a, i, j) ==
  a[i].expiry < a[j].expiry \/ (a[i].expiry = a[j].expiry /\ i < j)

Init ==
  /\ now \in Nat
  /\ armed = <<>>
  /\ fired = <<>>
  /\ wait = Tick

Discard == fired' = <<>> /\ wait' = Tick

Advance == now' > now /\ Discard /\ UNCHANGED armed

Added(a, i, e, k) ==
  [j \in DOMAIN a \cup {i} |->
     IF j = i THEN [expiry |-> e, task |-> k, valid |-> TRUE] ELSE a[j]]

\* One timer is added, cancelled or moved.  A timer that is still in the set
\* keeps its expiry and its task.
Change ==
  LET old == armed
      new == armed'
  IN /\ Discard
     /\ UNCHANGED now
     /\ \/ \E i \in Ids \ DOMAIN old, e \in Expiries, k \in Tasks : new = Added(old, i, e, k)
        \/ \E i \in DOMAIN old :
             \/ new = [old EXCEPT ![i].valid = FALSE]
             \/ \E e \in Expiries : new = [old EXCEPT ![i].expiry = e]

\* out lists the valid due timers, each once, by expiry and then by id.
Listing(out, a, due) ==
  /\ {out[n] : n \in 1..Len(out)} = {<<i, a[i].task>> : i \in {j \in due : a[j].valid}}
  /\ \A m, n \in 1..Len(out) : m < n => Before(a, out[m][1], out[n][1])

Timeout ==
  LET a == armed
      due == {i \in DOMAIN a : a[i].expiry <= now}
      rest == DOMAIN a \ due
  IN /\ UNCHANGED now
     /\ Listing(fired', a, due)
     /\ armed' = [i \in rest |-> a[i]]
     /\ wait' = IF rest = {} THEN Tick
                ELSE Least({Tick, Ms(Least({a[i].expiry : i \in rest})) - Ms(now)})

Next == Advance \/ Change \/ Timeout

Spec == Init /\ [][Next]_vars
=============================================================================
