--------------------------- MODULE MonitorClients ---------------------------
(***************************************************************************)
(* Threads that use the locks and conditions of Monitors the way synch.h   *)
(* asks: "All operations on a condition variable must be made while the    *)
(* current thread has acquired a lock.  Indeed, all accesses to a given    *)
(* condition variable must be protected by the same lock" (synch.h:103).   *)
(* They may hold several locks, and finish only when they hold none.       *)
(***************************************************************************)
EXTENDS Monitors

CONSTANT LockOf     \* the lock that protects each condition

ASSUME LockOfAssumption == LockOf \in [Conds -> Locks]

Holds(l) == lockOwner[l] = currentThread

ClientAcquire(l) == ~Holds(l) /\ Acquire(l)
ClientRelease(l) == Holds(l) /\ Release(l)
ClientWait(c) == Holds(LockOf[c]) /\ Wait(c, LockOf[c])
ClientSignal(c) == Holds(LockOf[c]) /\ Signal(c, LockOf[c])
ClientBroadcast(c) == Holds(LockOf[c]) /\ Broadcast(c, LockOf[c])
ClientFinish == (\A l \in Locks : ~Holds(l)) /\ Finish

\* The rest of an operation after the thread got the processor back.
Continue == AcquireReturn \/ WaitReacquire \/ BroadcastSignal \/ BroadcastReturn

ClientNext ==
  \/ \E t \in Threads : Fork(t)
  \/ Yield
  \/ ClientFinish
  \/ Idle
  \/ Stopped
  \/ \E l \in Locks : ClientAcquire(l)
  \/ \E l \in Locks : ClientRelease(l)
  \/ \E c \in Conds : ClientWait(c)
  \/ \E c \in Conds : ClientSignal(c)
  \/ \E c \in Conds : ClientBroadcast(c)
  \/ Continue

ClientSpec == MonitorInit /\ [][ClientNext]_vars

(***************************************************************************)
(* Fairness.  With -rs the timer interrupts for ever, at random intervals, *)
(* and its handler asks for a context switch, which is taken the next time *)
(* interrupts are enabled (timer.cc, Interrupt::OneTick): a running thread *)
(* is always preempted again, and a thread that gets the processor again   *)
(* and again is not cut off for ever before it does its next step.  The    *)
(* last conjunct is asked of the clients: a thread that keeps getting the  *)
(* processor while it holds a lock releases it.                            *)
(***************************************************************************)
Fairness ==
  /\ SF_vars(Yield)
  /\ \A t \in Threads : SF_vars(currentThread = t /\ Continue)
  /\ \A t \in Threads, l \in Locks : SF_vars(currentThread = t /\ ClientRelease(l))

FairClientSpec == ClientSpec /\ Fairness

----------------------------------------------------------------------------
(***************************************************************************)
(* The refinement mapping.  A thread is inside a lock from the moment it   *)
(* returns from Acquire, not from the moment the lock is handed over to    *)
(* it.  A Broadcast counts as done when its loop begins: the threads still *)
(* in the queue are then as good as woken.                                 *)
(***************************************************************************)
Entering(t, l) == pc[t] = "Acquire" /\ argLock[t] = l

BroadcastGoesOn(c) == \E t \in Threads : pc[t] = "Broadcast" /\ argCond[t] = c

StillWaits(t) == BlockedAt(t, "Wait") /\ ~BroadcastGoesOn(argCond[t])

holderBar ==
  [l \in Locks |-> IF lockOwner[l] # NoThread /\ ~Entering(lockOwner[l], l)
                     THEN lockOwner[l] ELSE NoThread]

wantsBar ==
  [t \in Threads |-> IF pc[t] = "Acquire" \/ (pc[t] = "Wait" /\ ~StillWaits(t))
                       THEN argLock[t] ELSE NoLock]

waitsBar == [t \in Threads |-> IF StillWaits(t) THEN argCond[t] ELSE NoCond]

Abstract == INSTANCE AbstractMonitor
              WITH holder <- holderBar, wants <- wantsBar, waits <- waitsBar

\* Locks and conditions of synch.cc, under the Nachos dispatcher, do what
\* synch.h promises, although Release hands locks over to threads that have
\* not run yet and Broadcast wakes its waiters one by one with interrupts
\* enabled.
ImplementsMonitor == Abstract!Spec

\* Broadcast() "wake[s] up all threads waiting on the condition" (synch.h:101)
\* and comes back: nobody can join the queue while it is being emptied.
BroadcastEnds ==
  \A t \in Threads : pc[t] = "Broadcast" ~> pc[t] = "run"

\* A thread asleep in Acquire gets the lock if every holder releases it in
\* the end: waiters are served in order of arrival.
LockWaiterServed ==
  \A t \in Threads : BlockedAt(t, "Acquire") ~> pc[t] = "run"

=============================================================================
