----------------------------- MODULE Semaphores -----------------------------
(***************************************************************************)
(* Semaphore of threads/synch.cc over the dispatcher.  V is called by      *)
(* threads and by interrupt handlers; the handlers of the disk, console    *)
(* and network devices use nothing else to wake a thread.  A handler runs  *)
(* where interrupts are enabled, or while the machine idles.               *)
(***************************************************************************)
EXTENDS Scheduler, FiniteSets, Integers

CONSTANTS
  Sems,          \* the Semaphore objects
  NoSem,         \* of a thread that is not in P
  InitialValue,  \* the value each semaphore is made with
  MaxV,          \* bound: calls of V by threads, per semaphore
  MaxInterrupts  \* bound: device interrupts that post each semaphore

ASSUME SemaphoresAssumption ==
  /\ NoSem \notin Sems
  /\ InitialValue \in [Sems -> Nat]
  /\ MaxV \in Nat
  /\ MaxInterrupts \in [Sems -> Nat]

VARIABLES
  semValue,   \* Semaphore::value
  semQueue,   \* Semaphore::queue
  inP,        \* the semaphore a thread has called P on and not returned from
  pending,    \* the device interrupts still to come for each semaphore
  posted,     \* history: completed calls of V
  taken       \* history: completed calls of P

semVars == <<semValue, semQueue, inP, pending, posted, taken>>
semAllVars == <<schedVars, semVars>>

SemTypeOK ==
  /\ SchedTypeOK
  /\ semValue \in [Sems -> Nat]
  /\ semQueue \in [Sems -> Seq(Threads)]
  /\ inP \in [Threads -> Sems \cup {NoSem}]
  /\ pending \in [Sems -> Nat]
  /\ posted \in [Sems -> Nat]
  /\ taken \in [Sems -> Nat]

SemInit ==
  /\ SchedInit
  /\ semValue = InitialValue
  /\ semQueue = [s \in Sems |-> << >>]
  /\ inP = [t \in Threads |-> NoSem]
  /\ pending = MaxInterrupts
  /\ posted = [s \in Sems |-> 0]
  /\ taken = [s \in Sems |-> 0]

----------------------------------------------------------------------------
\* Mutant of DoP: "if" for "while", a woken thread does not test again.
PTestsOnce(s) ==
  IF semValue[s] # 0 \/ inP[currentThread] = s
    THEN /\ semValue' = [semValue EXCEPT ![s] = @ - 1]
         /\ taken' = [taken EXCEPT ![s] = @ + 1]
         /\ inP' = [inP EXCEPT ![currentThread] = NoSem]
         /\ UNCHANGED <<schedVars, semQueue, pending, posted>>
    ELSE /\ semQueue' = [semQueue EXCEPT ![s] = Append(@, currentThread)]
         /\ inP' = [inP EXCEPT ![currentThread] = s]
         /\ Sleep(readyList, status, threadToBeDestroyed)
         /\ UNCHANGED <<semValue, pending, posted, taken>>

\* The loop of Semaphore::P from its test on: take a unit and return, or
\* queue up and sleep.
DoP(s) ==
  \/ /\ semValue[s] # 0
     /\ semValue' = [semValue EXCEPT ![s] = @ - 1]
     /\ taken' = [taken EXCEPT ![s] = @ + 1]
     /\ inP' = [inP EXCEPT ![currentThread] = NoSem]
     /\ UNCHANGED <<schedVars, semQueue, pending, posted>>
  \/ /\ semValue[s] = 0
     /\ semQueue' = [semQueue EXCEPT ![s] = Append(@, currentThread)]
     /\ inP' = [inP EXCEPT ![currentThread] = s]
     /\ Sleep(readyList, status, threadToBeDestroyed)
     /\ UNCHANGED <<semValue, pending, posted, taken>>

\* Mutants of DoV: the unit is not added when a thread waits; a waiter is
\* woken only when the value was zero; the woken thread stays in the queue.
VMutant(s, adds, wakes, leaves) ==
  /\ semValue' = [semValue EXCEPT ![s] = IF adds THEN @ + 1 ELSE @]
  /\ posted' = [posted EXCEPT ![s] = @ + 1]
  /\ IF wakes THEN ReadyToRun(Head(semQueue[s])) ELSE UNCHANGED schedVars
  /\ semQueue' = [semQueue EXCEPT ![s] = IF leaves THEN Tail(@) ELSE @]
  /\ UNCHANGED <<inP, taken>>

VHandsOver(s) ==
  LET waiters == semQueue[s] # << >> IN VMutant(s, ~waiters, waiters, waiters)

VWakesAtZero(s) ==
  LET wakes == semQueue[s] # << >> /\ semValue[s] = 0
  IN  VMutant(s, TRUE, wakes, wakes)

VPeeks(s) == VMutant(s, TRUE, semQueue[s] # << >>, FALSE)

\* Semaphore::V: wake the first waiter, if any, and add a unit all the same;
\* the waiter takes it when it runs, unless another thread did before.
DoV(s) ==
  /\ semValue' = [semValue EXCEPT ![s] = @ + 1]
  /\ posted' = [posted EXCEPT ![s] = @ + 1]
  /\ \/ /\ semQueue[s] # << >>
        /\ ReadyToRun(Head(semQueue[s]))
        /\ semQueue' = [semQueue EXCEPT ![s] = Tail(@)]
     \/ /\ semQueue[s] = << >>
        /\ UNCHANGED <<schedVars, semQueue>>
  /\ UNCHANGED <<inP, taken>>

\* currentThread executes outside P, interrupts enabled.
Outside == Processing /\ inP[currentThread] = NoSem

P(s) ==
  /\ Outside
  /\ DoP(s)

\* P goes on after Sleep.
PResume ==
  /\ Processing
  /\ inP[currentThread] # NoSem
  /\ DoP(inP[currentThread])

V(s) ==
  /\ Outside
  /\ posted[s] < MaxV + MaxInterrupts[s] - pending[s]
  /\ DoV(s)
  /\ UNCHANGED pending

\* A device interrupt whose handler posts s: Interrupt::OneTick, or Idle, which
\* calls every handler that is due before a thread that one of them has made
\* ready gets the processor.
Handler(s) ==
  /\ Outside \/ Idling
  /\ pending[s] > 0
  /\ pending' = [pending EXCEPT ![s] = @ - 1]
  /\ DoV(s)

SemFork(t) ==
  /\ Outside
  /\ SchedFork(t)
  /\ UNCHANGED semVars

SemYield ==
  /\ Outside
  /\ SchedYield
  /\ UNCHANGED semVars

SemFinish ==
  /\ Outside
  /\ SchedFinish
  /\ UNCHANGED semVars

\* Idle with a ready thread, after a handler has woken it.
SemWake ==
  /\ SchedWake
  /\ UNCHANGED semVars

\* Idle with no interrupt to come.
SemIdle ==
  /\ \A s \in Sems : pending[s] = 0
  /\ SchedIdle
  /\ UNCHANGED semVars

SemStopped == halted /\ UNCHANGED semAllVars

SemNext ==
  \/ \E s \in Sems : P(s)
  \/ PResume
  \/ \E s \in Sems : V(s)
  \/ \E s \in Sems : Handler(s)
  \/ \E t \in Threads : SemFork(t)
  \/ SemYield
  \/ SemFinish
  \/ SemWake
  \/ SemIdle
  \/ SemStopped

SemSpec == SemInit /\ [][SemNext]_semAllVars

(***************************************************************************)
(* Fairness: the kernel goes on, pending device interrupts come, and with  *)
(* -rs threads are preempted again and again, but not for ever at the same *)
(* place.  No thread is assumed to call anything.                          *)
(***************************************************************************)
SemFairness ==
  /\ \A t \in Threads : SF_semAllVars(currentThread = t /\ PResume)
  /\ SF_semAllVars(SemYield)
  /\ WF_semAllVars(SemWake)
  /\ \A s \in Sems : SF_semAllVars(Handler(s))

FairSemSpec == SemSpec /\ SemFairness

----------------------------------------------------------------------------
\* "semaphore value, always >= 0" (synch.h:49), and no unit is lost or made:
\* the value counts the calls of V that no call of P has used up.
UnitsAreConserved ==
  /\ SemTypeOK
  /\ \A s \in Sems : /\ semValue[s] >= 0
                     /\ semValue[s] = InitialValue[s] + posted[s] - taken[s]

\* The threads that V(s) has woken and that have not tested the value again.
WokenFor(s) == {t \in Threads : inP[t] = s /\ status[t] # "BLOCKED"}

\* A thread sleeps in P exactly while it is in the queue of that semaphore,
\* once; a thread woken by a handler while the machine idles, even the current
\* one, is on the ready list, once.
SleepersAreQueued ==
  /\ IsInjective(readyList)
  /\ \A t \in Threads : status[t] = "READY" <=> t \in Range(readyList)
  /\ \A s \in Sems :
       /\ IsInjective(semQueue[s])
       /\ \A t \in Threads : t \in Range(semQueue[s])
                               <=> inP[t] = s /\ status[t] = "BLOCKED"

\* No lost wakeup: sleepers are where V looks for them, and while threads sleep
\* on a semaphore, every unit of its value is matched by a woken thread that
\* will still come for it.
NoLostWakeup ==
  /\ SleepersAreQueued
  /\ \A s \in Sems : semQueue[s] # << >> => semValue[s] <= Cardinality(WokenFor(s))

\* Units and sleeping threads do not stay side by side.
SleepersGetUnits ==
  \A s \in Sems :
    semValue[s] > 0 /\ semQueue[s] # << >> ~> semValue[s] = 0 \/ semQueue[s] = << >>

=============================================================================
