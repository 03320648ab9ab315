-------------------------- MODULE AbstractMonitor --------------------------
(***************************************************************************)
(* What threads/synch.h promises to threads that use locks and condition   *)
(* variables as it asks them to: a lock has one holder at a time, Wait     *)
(* gives the lock up and waits in one step, Signal wakes one waiter,       *)
(* Broadcast wakes all of them, and a woken waiter must get the lock again *)
(* before it goes on (Mesa style).  No queues, no scheduler.               *)
(***************************************************************************)
CONSTANTS Threads, Locks, Conds, NoThread, NoLock, NoCond,
          LockOf    \* the lock that protects each condition

VARIABLES
  holder,   \* the thread inside each lock, if any
  wants,    \* the lock a thread is waiting to enter
  waits     \* the condition a thread waits for

absVars == <<holder, wants, waits>>

Init ==
  /\ holder = [l \in Locks |-> NoThread]
  /\ wants = [t \in Threads |-> NoLock]
  /\ waits = [t \in Threads |-> NoCond]

\* t is neither waiting to enter a lock nor waiting for a condition.
Free(t) == wants[t] = NoLock /\ waits[t] = NoCond

Request(t, l) ==
  /\ Free(t)
  /\ wants' = [wants EXCEPT ![t] = l]
  /\ UNCHANGED <<holder, waits>>

Enter(t, l) ==
  /\ Free(t) \/ wants[t] = l
  /\ holder[l] = NoThread
  /\ holder' = [holder EXCEPT ![l] = t]
  /\ wants' = [wants EXCEPT ![t] = NoLock]
  /\ UNCHANGED waits

Leave(t, l) ==
  /\ Free(t)
  /\ holder[l] = t
  /\ holder' = [holder EXCEPT ![l] = NoThread]
  /\ UNCHANGED <<wants, waits>>

Wait(t, c) ==
  /\ Free(t)
  /\ holder[LockOf[c]] = t
  /\ holder' = [holder EXCEPT ![LockOf[c]] = NoThread]
  /\ waits' = [waits EXCEPT ![t] = c]
  /\ UNCHANGED wants

Waiters(c) == {t \in Threads : waits[t] = c}

\* The threads of W are woken: they go from waiting for c to wanting its lock.
Wake(W, c) ==
  /\ waits' = [t \in Threads |-> IF t \in W THEN NoCond ELSE waits[t]]
  /\ wants' = [t \in Threads |-> IF t \in W THEN LockOf[c] ELSE wants[t]]
  /\ UNCHANGED holder

Signal(t, c) ==
  /\ Free(t)
  /\ holder[LockOf[c]] = t
  /\ \E w \in Waiters(c) : Wake({w}, c)

Broadcast(t, c) ==
  /\ Free(t)
  /\ holder[LockOf[c]] = t
  /\ Wake(Waiters(c), c)

Next ==
  \E t \in Threads :
    \/ \E l \in Locks : Request(t, l) \/ Enter(t, l) \/ Leave(t, l)
    \/ \E c \in Conds : Wait(t, c) \/ Signal(t, c) \/ Broadcast(t, c)

Spec == Init /\ [][Next]_absVars

=============================================================================
