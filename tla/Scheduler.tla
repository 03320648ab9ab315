----------------------------- MODULE Scheduler -----------------------------
(***************************************************************************)
(* The thread dispatcher of the Nachos kernel: threads/scheduler.cc, the   *)
(* thread operations of threads/thread.cc, and Interrupt::Idle.            *)
(*                                                                         *)
(* The machine has one processor.  Kernel code that has disabled           *)
(* interrupts runs without a context switch until it restores them or      *)
(* gives up the processor, so each such section is one atomic step here.   *)
(* A context switch can happen where interrupts are enabled again (the     *)
(* time slice of Interrupt::OneTick) and in Sleep, Yield and Finish.       *)
(*                                                                         *)
(* The module has no next-state relation of its own: the synchronization   *)
(* modules extend it and use its operators inside their actions.           *)
(***************************************************************************)
EXTENDS Sequences, Functions

CONSTANTS
  Threads,    \* the Thread objects
  Main,       \* the thread that runs main(), made by Initialize()
  NoThread    \* the NULL thread pointer

ASSUME ThreadsAssumption == Main \in Threads /\ NoThread \notin Threads

VARIABLES
  currentThread,        \* the thread holding the processor
  status,               \* Thread::status of every thread
  readyList,            \* Scheduler::readyList, first in first out
  threadToBeDestroyed,  \* the finished thread whose memory is still to be freed
  started,              \* the threads that have been switched to at least once
  deleted,              \* the threads whose destructor has run
  halted                \* Interrupt::Halt has been called

schedVars == <<currentThread, status, readyList, threadToBeDestroyed,
               started, deleted, halted>>

ThreadStatus == {"JUST_CREATED", "RUNNING", "READY", "BLOCKED"}

SchedTypeOK ==
  /\ currentThread \in Threads
  /\ status \in [Threads -> ThreadStatus]
  /\ readyList \in Seq(Threads)
  /\ threadToBeDestroyed \in Threads \cup {NoThread}
  /\ started \subseteq Threads
  /\ deleted \subseteq Threads
  /\ halted \in BOOLEAN

SchedInit ==
  /\ currentThread = Main
  /\ status = [t \in Threads |-> IF t = Main THEN "RUNNING" ELSE "JUST_CREATED"]
  /\ readyList = << >>
  /\ threadToBeDestroyed = NoThread
  /\ started = {Main}
  /\ deleted = {}
  /\ halted = FALSE

----------------------------------------------------------------------------
\* The processor executes code of currentThread: it is not looping in Idle.
Processing == ~halted /\ status[currentThread] = "RUNNING"

\* currentThread gave up the processor, found the ready list empty, and is
\* still inside Thread::Sleep, calling Interrupt::Idle.  An interrupt handler
\* may have made it ready meanwhile.
Idling == ~halted /\ status[currentThread] # "RUNNING"

(***************************************************************************)
(* Scheduler::Run.  rl and st are the ready list and the statuses as the   *)
(* caller leaves them, carcass the value of threadToBeDestroyed.  A thread *)
(* that was switched out inside Run comes back after SWITCH and frees the  *)
(* carcass; a thread that runs for the first time begins in ThreadRoot,    *)
(* which does not.                                                         *)
(***************************************************************************)
Run(next, rl, st, carcass) ==
  /\ currentThread' = next
  /\ status' = [st EXCEPT ![next] = "RUNNING"]
  /\ readyList' = rl
  /\ started' = started \cup {next}
  /\ IF next \in started
       THEN /\ deleted' = deleted \cup ({carcass} \ {NoThread})
            /\ threadToBeDestroyed' = NoThread
       ELSE /\ threadToBeDestroyed' = carcass
            /\ UNCHANGED deleted
  /\ UNCHANGED halted

\* Thread::Sleep: block, and run the next ready thread, if there is one.
Sleep(rl, st, carcass) ==
  LET blocked == [st EXCEPT ![currentThread] = "BLOCKED"] IN
  \/ /\ rl # << >>
     /\ Run(Head(rl), Tail(rl), blocked, carcass)
  \/ /\ rl = << >>
     /\ status' = blocked
     /\ readyList' = rl
     /\ threadToBeDestroyed' = carcass
     /\ UNCHANGED <<currentThread, started, deleted, halted>>

\* Scheduler::ReadyToRun by the running thread.
ReadyToRun(t) ==
  /\ status' = [status EXCEPT ![t] = "READY"]
  /\ readyList' = Append(readyList, t)
  /\ UNCHANGED <<currentThread, threadToBeDestroyed, started, deleted, halted>>

\* Thread::Yield, called by the thread itself or by a time slice.
SchedYield ==
  /\ readyList # << >>
  /\ Run(Head(readyList), Append(Tail(readyList), currentThread),
         [status EXCEPT ![currentThread] = "READY"], threadToBeDestroyed)

\* Thread::Fork of a new thread.
SchedFork(t) ==
  /\ status[t] = "JUST_CREATED"
  /\ ReadyToRun(t)

\* Mutant of SchedFinish: the finished thread yields instead of sleeping.
FinishYields ==
  /\ readyList # << >>
  /\ Run(Head(readyList), Append(Tail(readyList), currentThread),
         [status EXCEPT ![currentThread] = "READY"], currentThread)

\* Thread::Finish: the thread leaves its own carcass to be freed.
SchedFinish == Sleep(readyList, status, currentThread)

\* Interrupt::Idle with no interrupt pending (the timer alone does not
\* count): "Assuming the program completed".
SchedIdle ==
  /\ Idling
  /\ readyList = << >>
  /\ halted' = TRUE
  /\ UNCHANGED <<currentThread, status, readyList, threadToBeDestroyed,
                 started, deleted>>

\* Thread::Sleep leaves its loop: an interrupt handler made a thread ready.
SchedWake ==
  /\ Idling
  /\ readyList # << >>
  /\ Run(Head(readyList), Tail(readyList), status, threadToBeDestroyed)

=============================================================================
