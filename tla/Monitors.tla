------------------------------ MODULE Monitors ------------------------------
(***************************************************************************)
(* Lock and Condition of threads/synch.cc over the dispatcher.             *)
(*                                                                         *)
(* The threads call every operation with every argument at any time: the   *)
(* kernel does not rely on its callers holding the lock they pass, so      *)
(* neither does this module.  MonitorClients restricts the callers to the  *)
(* discipline synch.h asks of them.                                        *)
(*                                                                         *)
(* pc says where in an operation a thread is when it loses the processor:  *)
(*   "run"        in its own code, outside every operation                 *)
(*   "Acquire"    in Lock::Acquire, after Sleep                            *)
(*   "Wait"       in Condition::Wait, after Sleep                          *)
(*   "Broadcast"  in the loop of Condition::Broadcast, interrupts enabled  *)
(*   "finished"   in Thread::Finish                                        *)
(***************************************************************************)
EXTENDS Scheduler

CONSTANTS
  Locks,      \* the Lock objects
  Conds,      \* the Condition objects
  NoLock,     \* the NULL lock pointer
  NoCond      \* placeholder of a thread that is in no condition operation

ASSUME MonitorsAssumption == NoLock \notin Locks /\ NoCond \notin Conds

VARIABLES
  lockStatus,   \* Lock::lockStatus
  lockOwner,    \* Lock::lockOwner
  lockQueue,    \* Lock::waitQueue
  waitingLock,  \* Condition::waitingLock
  condQueue,    \* Condition::waitQueue
  pc,           \* where each thread is (see above)
  argLock,      \* the lock argument of the operation a thread is in
  argCond       \* the condition a thread is in an operation of

lockVars == <<lockStatus, lockOwner, lockQueue>>
condVars == <<waitingLock, condQueue>>
pcVars == <<pc, argLock, argCond>>
monitorVars == <<lockVars, condVars, pcVars>>
vars == <<schedVars, monitorVars>>

PC == {"run", "Acquire", "Wait", "Broadcast", "finished"}

TypeOK ==
  /\ SchedTypeOK
  /\ lockStatus \in [Locks -> {"FREE", "BUSY"}]
  /\ lockOwner \in [Locks -> Threads \cup {NoThread}]
  /\ lockQueue \in [Locks -> Seq(Threads)]
  /\ waitingLock \in [Conds -> Locks \cup {NoLock}]
  /\ condQueue \in [Conds -> Seq(Threads)]
  /\ pc \in [Threads -> PC]
  /\ argLock \in [Threads -> Locks \cup {NoLock}]
  /\ argCond \in [Threads -> Conds \cup {NoCond}]
  /\ \A t \in Threads :
       /\ pc[t] \in {"Acquire", "Wait", "Broadcast"} => argLock[t] \in Locks
       /\ pc[t] \in {"Wait", "Broadcast"} => argCond[t] \in Conds

MonitorInit ==
  /\ SchedInit
  /\ lockStatus = [l \in Locks |-> "FREE"]
  /\ lockOwner = [l \in Locks |-> NoThread]
  /\ lockQueue = [l \in Locks |-> << >>]
  /\ waitingLock = [c \in Conds |-> NoLock]
  /\ condQueue = [c \in Conds |-> << >>]
  /\ pc = [t \in Threads |-> "run"]
  /\ argLock = [t \in Threads |-> NoLock]
  /\ argCond = [t \in Threads |-> NoCond]

----------------------------------------------------------------------------
\* currentThread executes at the given place.
At(place) == Processing /\ pc[currentThread] = place

\* The current operation goes on at the given place, with its arguments.
Goto(place, l, c) ==
  /\ pc' = [pc EXCEPT ![currentThread] = place]
  /\ argLock' = [argLock EXCEPT ![currentThread] = l]
  /\ argCond' = [argCond EXCEPT ![currentThread] = c]

\* The current operation returns to the thread's own code.
Return == Goto("run", NoLock, NoCond)

----------------------------------------------------------------------------
(***************************************************************************)
(* Lock::Acquire.                                                          *)
(***************************************************************************)
DoAcquire(l) ==
  \/ /\ lockOwner[l] = currentThread
     /\ Return
     /\ UNCHANGED <<schedVars, lockVars>>
  \/ /\ lockOwner[l] # currentThread
     /\ lockStatus[l] = "FREE"
     /\ lockStatus' = [lockStatus EXCEPT ![l] = "BUSY"]
     /\ lockOwner' = [lockOwner EXCEPT ![l] = currentThread]
     /\ Return
     /\ UNCHANGED <<schedVars, lockQueue>>
  \/ /\ lockOwner[l] # currentThread
     /\ lockStatus[l] = "BUSY"
     /\ lockQueue' = [lockQueue EXCEPT ![l] = Append(@, currentThread)]
     /\ Goto("Acquire", l, NoCond)
     /\ Sleep(readyList, status, threadToBeDestroyed)
     /\ UNCHANGED <<lockStatus, lockOwner>>

Acquire(l) ==
  /\ At("run")
  /\ DoAcquire(l)
  /\ UNCHANGED condVars

\* The rest of Lock::Acquire after Sleep: ownership was handed over by the
\* releaser, the thread only restores the interrupt level.
AcquireReturn ==
  /\ At("Acquire")
  /\ Return
  /\ UNCHANGED <<schedVars, lockVars, condVars>>

(***************************************************************************)
(* Lock::Release.  A releaser with waiters hands the lock over: the lock   *)
(* stays BUSY and the head of its queue becomes owner and ready.           *)
(***************************************************************************)
HandsOver(l) == lockOwner[l] = currentThread /\ lockQueue[l] # << >>

\* Mutant of ReleasedReady: Release forgets scheduler->ReadyToRun.
ReleaseForgetsReady(l) == readyList

ReleasedReady(l) ==
  IF HandsOver(l) THEN Append(readyList, Head(lockQueue[l])) ELSE readyList

ReleasedStatus(l) ==
  IF HandsOver(l) THEN [status EXCEPT ![Head(lockQueue[l])] = "READY"] ELSE status

\* Mutant of DoRelease: the new owner stays in the queue.
ReleaseKeepsHead(l) ==
  /\ IF HandsOver(l) THEN lockOwner' = [lockOwner EXCEPT ![l] = Head(lockQueue[l])]
                     ELSE UNCHANGED lockOwner
  /\ UNCHANGED <<lockStatus, lockQueue>>

\* Mutant of DoRelease: a lock without waiters is freed by any caller.
ReleaseByAnyone(l) ==
  \/ /\ HandsOver(l)
     /\ lockOwner' = [lockOwner EXCEPT ![l] = Head(lockQueue[l])]
     /\ lockQueue' = [lockQueue EXCEPT ![l] = Tail(@)]
     /\ UNCHANGED lockStatus
  \/ /\ lockQueue[l] = << >>
     /\ lockStatus' = [lockStatus EXCEPT ![l] = "FREE"]
     /\ lockOwner' = [lockOwner EXCEPT ![l] = NoThread]
     /\ UNCHANGED lockQueue
  \/ /\ lockOwner[l] # currentThread
     /\ lockQueue[l] # << >>
     /\ UNCHANGED lockVars

DoRelease(l) ==
  \/ /\ lockOwner[l] # currentThread
     /\ UNCHANGED lockVars
  \/ /\ HandsOver(l)
     /\ lockOwner' = [lockOwner EXCEPT ![l] = Head(lockQueue[l])]
     /\ lockQueue' = [lockQueue EXCEPT ![l] = Tail(@)]
     /\ UNCHANGED lockStatus
  \/ /\ lockOwner[l] = currentThread
     /\ lockQueue[l] = << >>
     /\ lockStatus' = [lockStatus EXCEPT ![l] = "FREE"]
     /\ lockOwner' = [lockOwner EXCEPT ![l] = NoThread]
     /\ UNCHANGED lockQueue

Release(l) ==
  /\ At("run")
  /\ DoRelease(l)
  /\ readyList' = ReleasedReady(l)
  /\ status' = ReleasedStatus(l)
  /\ UNCHANGED <<currentThread, threadToBeDestroyed, started, deleted, halted,
                 condVars, pcVars>>

----------------------------------------------------------------------------
(***************************************************************************)
(* Condition::Wait.  A first waiter fixes the lock of the condition; a     *)
(* waiter with another lock, or with NULL, returns at once.                *)
(***************************************************************************)
AcceptsWaiter(c, l) == l # NoLock /\ waitingLock[c] \in {NoLock, l}

Wait(c, l) ==
  /\ At("run")
  /\ AcceptsWaiter(c, l)
  /\ waitingLock' = [waitingLock EXCEPT ![c] = l]
  /\ condQueue' = [condQueue EXCEPT ![c] = Append(@, currentThread)]
  /\ DoRelease(l)
  /\ Goto("Wait", l, c)
  /\ Sleep(ReleasedReady(l), ReleasedStatus(l), threadToBeDestroyed)

WaitRefused(c, l) ==
  /\ At("run")
  /\ ~AcceptsWaiter(c, l)
  /\ UNCHANGED vars

\* Mutant of WaitReacquire: Wait returns without the lock.
WaitReturns ==
  /\ At("Wait")
  /\ Return
  /\ UNCHANGED <<schedVars, lockVars, condVars>>

\* The rest of Condition::Wait after Sleep, up to the end of Acquire.
WaitReacquire ==
  /\ At("Wait")
  /\ DoAcquire(argLock[currentThread])
  /\ UNCHANGED condVars

(***************************************************************************)
(* Condition::Signal.                                                      *)
(***************************************************************************)
Wakes(c, l) == condQueue[c] # << >> /\ waitingLock[c] = l

\* Mutant of DoSignal: waitingLock is kept when the last waiter leaves.
SignalKeepsLock(c, l) ==
  \/ /\ Wakes(c, l)
     /\ condQueue' = [condQueue EXCEPT ![c] = Tail(@)]
     /\ ReadyToRun(Head(condQueue[c]))
     /\ UNCHANGED waitingLock
  \/ /\ ~Wakes(c, l)
     /\ UNCHANGED <<schedVars, condVars>>

\* Mutant of DoSignal: waitingLock is reset although waiters are left.
SignalForgetsLock(c, l) ==
  \/ /\ Wakes(c, l)
     /\ condQueue' = [condQueue EXCEPT ![c] = Tail(@)]
     /\ waitingLock' = [waitingLock EXCEPT ![c] = NoLock]
     /\ ReadyToRun(Head(condQueue[c]))
  \/ /\ ~Wakes(c, l)
     /\ UNCHANGED <<schedVars, condVars>>

DoSignal(c, l) ==
  \/ /\ Wakes(c, l)
     /\ condQueue' = [condQueue EXCEPT ![c] = Tail(@)]
     /\ waitingLock' = [waitingLock EXCEPT
                          ![c] = IF Tail(condQueue[c]) = << >> THEN NoLock ELSE @]
     /\ ReadyToRun(Head(condQueue[c]))
  \/ /\ ~Wakes(c, l)
     /\ UNCHANGED <<schedVars, condVars>>

Signal(c, l) ==
  /\ At("run")
  /\ DoSignal(c, l)
  /\ UNCHANGED <<lockVars, pcVars>>

(***************************************************************************)
(* Condition::Broadcast.  The checks are atomic; the loop runs with        *)
(* interrupts enabled, each Signal in it being atomic.                     *)
(***************************************************************************)
\* Mutant of Broadcast: the lock is not compared with NULL first.
BroadcastUnchecked(c, l) ==
  /\ At("run")
  /\ IF l = waitingLock[c] THEN Goto("Broadcast", l, c) ELSE UNCHANGED pcVars
  /\ UNCHANGED <<schedVars, lockVars, condVars>>

Broadcast(c, l) ==
  /\ At("run")
  /\ \/ /\ l # NoLock /\ l = waitingLock[c]
        /\ Goto("Broadcast", l, c)
     \/ /\ l = NoLock \/ l # waitingLock[c]
        /\ UNCHANGED pcVars
  /\ UNCHANGED <<schedVars, lockVars, condVars>>

BroadcastSignal ==
  /\ At("Broadcast")
  /\ condQueue[argCond[currentThread]] # << >>
  /\ DoSignal(argCond[currentThread], argLock[currentThread])
  /\ UNCHANGED <<lockVars, pcVars>>

BroadcastReturn ==
  /\ At("Broadcast")
  /\ condQueue[argCond[currentThread]] = << >>
  /\ Return
  /\ UNCHANGED <<schedVars, lockVars, condVars>>

----------------------------------------------------------------------------
Fork(t) ==
  /\ At("run")
  /\ SchedFork(t)
  /\ UNCHANGED monitorVars

\* A time slice, or a call of Thread::Yield, where interrupts are enabled.
Yield ==
  /\ At("run") \/ At("Broadcast")
  /\ SchedYield
  /\ UNCHANGED monitorVars

Finish ==
  /\ At("run")
  /\ SchedFinish
  /\ Goto("finished", NoLock, NoCond)
  /\ UNCHANGED <<lockVars, condVars>>

Idle ==
  /\ SchedIdle
  /\ UNCHANGED monitorVars

\* The machine has stopped.
Stopped == halted /\ UNCHANGED vars

LockArgs == Locks \cup {NoLock}

Next ==
  \/ \E t \in Threads : Fork(t)
  \/ Yield
  \/ Finish
  \/ Idle
  \/ Stopped
  \/ \E l \in Locks : Acquire(l)
  \/ \E l \in Locks : Release(l)
  \/ AcquireReturn
  \/ \E c \in Conds, l \in LockArgs : Wait(c, l)
  \/ \E c \in Conds, l \in LockArgs : WaitRefused(c, l)
  \/ WaitReacquire
  \/ \E c \in Conds, l \in LockArgs : Signal(c, l)
  \/ \E c \in Conds, l \in LockArgs : Broadcast(c, l)
  \/ BroadcastSignal
  \/ BroadcastReturn

Spec == MonitorInit /\ [][Next]_vars

----------------------------------------------------------------------------
(***************************************************************************)
(* Properties.                                                             *)
(***************************************************************************)
BlockedAt(t, place) == status[t] = "BLOCKED" /\ pc[t] = place

\* No queue of the kernel (ready list, lock queues, condition queues) holds a
\* thread twice: a second ReadyToRun of the same thread would run it twice.
QueuesDistinct ==
  /\ IsInjective(readyList)
  /\ \A l \in Locks : IsInjective(lockQueue[l])
  /\ \A c \in Conds : IsInjective(condQueue[c])

\* No thread is lost and none is in two places: a ready thread is on the
\* ready list and nowhere else, a thread asleep in Acquire or Wait is in the
\* queue of exactly that lock or condition, and only the current thread runs.
EveryThreadInItsPlace ==
  /\ QueuesDistinct
  /\ \A t \in Threads :
       /\ status[t] = "READY" <=> t \in Range(readyList)
       /\ status[t] = "RUNNING" => t = currentThread
       /\ status[t] = "BLOCKED" => pc[t] \in {"Acquire", "Wait", "finished"}
       /\ \A l \in Locks : t \in Range(lockQueue[l])
                             <=> BlockedAt(t, "Acquire") /\ argLock[t] = l
       /\ \A c \in Conds : t \in Range(condQueue[c])
                             <=> BlockedAt(t, "Wait") /\ argCond[t] = c

\* lockStatus, lockOwner and waitQueue agree, and a lock that is handed over
\* belongs to the thread that sleeps in Acquire from then on: when that
\* thread returns from Acquire it owns the lock, whatever ran in between.
LocksConsistent ==
  /\ \A l \in Locks :
       /\ lockStatus[l] = "FREE" <=> lockOwner[l] = NoThread
       /\ lockStatus[l] = "FREE" => lockQueue[l] = << >>
       /\ lockOwner[l] \notin Range(lockQueue[l])
  /\ \A t \in Threads :
       /\ pc[t] = "Acquire" /\ status[t] # "BLOCKED" => lockOwner[argLock[t]] = t
       /\ pc[t] = "Wait" => lockOwner[argLock[t]] # t

\* waitingLock is set exactly while threads wait, and all of them wait with
\* that lock: Signal and Broadcast compare their argument with it only.
ConditionsConsistent ==
  \A c \in Conds :
    /\ waitingLock[c] = NoLock <=> condQueue[c] = << >>
    /\ \A t \in Range(condQueue[c]) : argLock[t] = waitingLock[c]

\* What the monitors promise a thread that comes back from Acquire or Wait, and
\* the agreement of the four queues, owners and locks behind it.
MonitorsConsistent == LocksConsistent /\ ConditionsConsistent

\* Run() frees only threads that can never be dispatched again.
CarcassesAreFinished ==
  \A t \in deleted \cup ({threadToBeDestroyed} \ {NoThread}) :
    pc[t] = "finished" /\ status[t] = "BLOCKED"

\* The inductive invariant: none of its parts is inductive without the others.
IInv ==
  /\ TypeOK
  /\ EveryThreadInItsPlace
  /\ LocksConsistent
  /\ ConditionsConsistent
  /\ CarcassesAreFinished

\* "only the thread that acquired the lock may release it" (synch.h:61), and
\* a lock with waiters goes to the first of them: nobody overtakes.
HandOver ==
  \A l \in Locks : lockOwner'[l] # lockOwner[l] =>
    IF lockOwner[l] = NoThread
      THEN lockOwner'[l] = currentThread
      ELSE /\ lockOwner[l] = currentThread
           /\ lockOwner'[l] = IF lockQueue[l] = << >> THEN NoThread
                                                     ELSE Head(lockQueue[l])

LockHandedOverInOrder == [][HandOver]_vars

\* "Scheduler::Run() will call the destructor, once we're running in the
\* context of a different thread" (thread.cc:137): a finished thread is freed
\* or still remembered in threadToBeDestroyed.
FinishedThreadsAreFreed ==
  \A t \in Threads :
    pc[t] = "finished" => t \in deleted \cup {threadToBeDestroyed}

=============================================================================
