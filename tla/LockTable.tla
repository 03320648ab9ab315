----------------------------- MODULE LockTable -----------------------------
(***************************************************************************)
(* The lock system calls of userprog/lock_syscalls.cc: the table of the    *)
(* locks that the threads of one address space create, use and destroy.    *)
(*                                                                         *)
(* A slot of the table is the index a user program passes; the Lock object *)
(* in it is the lock of Monitors with that index.  locksLock protects the  *)
(* table.  Between the return of a kernel lock operation and the next one  *)
(* no interrupt is enabled, so the checks of a call, its changes and the   *)
(* Release of locksLock are one step; the userLock is acquired or released *)
(* in a later step, after locksLock has been given up.                     *)
(*                                                                         *)
(* A use of a Lock object whose destructor has run is undefined.  The      *)
(* model records it in "undefined" and goes no further.                    *)
(***************************************************************************)
EXTENDS Monitors, Integers

CONSTANTS
  locksLock,      \* AddrSpace::locksLock
  MaxLockCount,   \* MAX_LOCK_COUNT
  InitialLocks,   \* the locks the program has created when the model begins
  SysCalls,       \* the system calls the program makes from then on
  LockIndices     \* the lock indices it passes

UserLocks == 0 .. MaxLockCount - 1
NoIndex == -1       \* a thread outside a call, or in one that has no such argument

ASSUME LockTableAssumption ==
  /\ MaxLockCount \in Nat
  /\ InitialLocks \in 0..MaxLockCount
  /\ LockIndices \subseteq Int
  /\ locksLock \in Locks
  /\ UserLocks \subseteq Locks \ {locksLock}

VARIABLES
  lockCount,        \* AddrSpace::lockCount
  lockDeleteFlag,   \* UserLock::deleteFlag of each slot
  lockIsDeleted,    \* UserLock::isDeleted of each slot
  lockFreed,        \* the locks whose destructor has run
  undefined,        \* a destroyed lock has been used
  sys,              \* the place of each thread in a system call
  lockIndex         \* the lock argument of the system call

tableVars == <<lockCount, lockDeleteFlag, lockIsDeleted, lockFreed>>
sysVars == <<sys, lockIndex>>
lockTableVars == <<tableVars, undefined, sysVars>>
lockTableAllVars == <<vars, lockTableVars>>

\* The calls begin with locksLock; "Halt" is the interrupt->Halt() of
\* Acquire_sys, the other places come after locksLock has been released.
TableCalls == {"CreateLock", "Acquire", "Release", "DestroyLock"}
LockPlaces == TableCalls \cup {"user", "Halt", "AcquireUserLock",
                               "ReleaseUserLock", "CheckDestroy"}

TableTypeOK ==
  /\ TypeOK
  /\ lockCount \in 0..MaxLockCount
  /\ lockDeleteFlag \in [UserLocks -> BOOLEAN]
  /\ lockIsDeleted \in [UserLocks -> BOOLEAN]
  /\ lockFreed \subseteq UserLocks
  /\ undefined \in BOOLEAN
  /\ lockIndex \in [Threads -> LockIndices \cup {NoIndex}]

LockTableInit ==
  /\ MonitorInit
  /\ lockCount = InitialLocks
  /\ lockDeleteFlag = [i \in UserLocks |-> FALSE]
  /\ lockIsDeleted = [i \in UserLocks |-> FALSE]
  /\ lockFreed = {}
  /\ undefined = FALSE
  /\ sys = [t \in Threads |-> "user"]
  /\ lockIndex = [t \in Threads |-> NoIndex]

----------------------------------------------------------------------------
InCall(place) == ~undefined /\ At("run") /\ sys[currentThread] = place

\* The call goes on at the given place, or returns to the user program.
SysGoto(place) ==
  /\ sys' = [sys EXCEPT ![currentThread] = place]
  /\ UNCHANGED lockIndex

SysReturn ==
  /\ sys' = [sys EXCEPT ![currentThread] = "user"]
  /\ lockIndex' = [lockIndex EXCEPT ![currentThread] = NoIndex]

index == lockIndex[currentThread]
ValidLock == index >= 0 /\ index < lockCount

\* The lock arguments of a call: the calls that create have none, nor has
\* DestroyCondition.
LockArguments(call) ==
  IF call \in {"CreateLock", "CreateCondition", "DestroyCondition"} THEN {NoIndex}
                                                                  ELSE LockIndices

\* locksLock->Acquire(), with which every call begins.
BeginLockCall(call, i) ==
  /\ InCall("user")
  /\ Acquire(locksLock)
  /\ sys' = [sys EXCEPT ![currentThread] = call]
  /\ lockIndex' = [lockIndex EXCEPT ![currentThread] = i]
  /\ UNCHANGED <<tableVars, undefined>>

\* A call releases locksLock and goes on, or returns to the user program.
Unlock(place) ==
  /\ Release(locksLock)
  /\ IF place = "user" THEN SysReturn ELSE SysGoto(place)
  /\ UNCHANGED undefined

\* A thread is about to use the lock of its index, which has been destroyed.
UseDestroyed ==
  /\ undefined' = TRUE
  /\ UNCHANGED <<vars, tableVars, sysVars>>

\* isDeleted = TRUE; delete userLock
DestroyUserLock(i) ==
  /\ lockIsDeleted' = [lockIsDeleted EXCEPT ![i] = TRUE]
  /\ lockFreed' = lockFreed \cup {i}

----------------------------------------------------------------------------
(***************************************************************************)
(* CreateLock_sys.  The table never shrinks: a slot is used once.          *)
(***************************************************************************)
CreateLock ==
  /\ InCall("CreateLock")
  /\ lockCount < MaxLockCount
  /\ lockDeleteFlag' = [lockDeleteFlag EXCEPT ![lockCount] = FALSE]
  /\ lockIsDeleted' = [lockIsDeleted EXCEPT ![lockCount] = FALSE]
  /\ lockCount' = lockCount + 1
  /\ Unlock("user")
  /\ UNCHANGED lockFreed

\* The table is full, or the length of the name is out of range.
CreateLockFails ==
  /\ InCall("CreateLock")
  /\ Unlock("user")
  /\ UNCHANGED tableVars

\* The address of the name is not mapped: copyin reads it in a loop, and the
\* first failing read raises an exception whose handler halts the machine.
CreateLockFaults ==
  /\ InCall("CreateLock")
  /\ lockCount < MaxLockCount
  /\ halted' = TRUE
  /\ UNCHANGED <<currentThread, status, readyList, threadToBeDestroyed,
                 started, deleted, monitorVars, lockTableVars>>

(***************************************************************************)
(* Acquire_sys.                                                            *)
(***************************************************************************)
AcquireChecks ==
  /\ InCall("Acquire")
  /\ \/ ~ValidLock /\ Unlock("user")
     \/ ValidLock /\ lockIsDeleted[index] /\ Unlock("Halt")
     \/ ValidLock /\ ~lockIsDeleted[index] /\ Unlock("AcquireUserLock")
  /\ UNCHANGED tableVars

AcquireHalts ==
  /\ InCall("Halt")
  /\ halted' = TRUE
  /\ UNCHANGED <<currentThread, status, readyList, threadToBeDestroyed,
                 started, deleted, monitorVars, lockTableVars>>

\* userLock->Acquire()
AcquireUserLock ==
  /\ InCall("AcquireUserLock")
  /\ \/ index \in lockFreed /\ UseDestroyed
     \/ /\ index \notin lockFreed
        /\ Acquire(index)
        /\ SysReturn
        /\ UNCHANGED <<tableVars, undefined>>

(***************************************************************************)
(* Release_sys.                                                            *)
(***************************************************************************)
MayRelease == ValidLock /\ ~lockIsDeleted[index] /\ lockStatus[index] # "FREE"

ReleaseChecks ==
  /\ InCall("Release")
  /\ \/ ~MayRelease /\ Unlock("user")
     \/ MayRelease /\ Unlock("ReleaseUserLock")
  /\ UNCHANGED tableVars

\* userLock->Release()
ReleaseUserLock ==
  /\ InCall("ReleaseUserLock")
  /\ \/ index \in lockFreed /\ UseDestroyed
     \/ /\ index \notin lockFreed
        /\ Release(index)
        /\ SysGoto("CheckDestroy")
        /\ UNCHANGED <<tableVars, undefined>>

\* Mutant of CheckDestroy: the releaser leaves a marked lock alone.
CheckDestroyForgets ==
  /\ InCall("CheckDestroy")
  /\ SysReturn
  /\ UNCHANGED <<vars, tableVars, undefined>>

\* After userLock->Release(), without locksLock: a lock that is marked is
\* destroyed by the releaser that finds it free.
CheckDestroy ==
  /\ InCall("CheckDestroy")
  /\ \/ index \in lockFreed /\ UseDestroyed
     \/ /\ index \notin lockFreed
        /\ IF lockStatus[index] = "FREE" /\ lockDeleteFlag[index]
             THEN DestroyUserLock(index)
             ELSE UNCHANGED <<lockIsDeleted, lockFreed>>
        /\ SysReturn
        /\ UNCHANGED <<vars, lockCount, lockDeleteFlag, undefined>>

(***************************************************************************)
(* DestroyLock_sys.                                                        *)
(***************************************************************************)
MayDestroy == ValidLock /\ ~lockIsDeleted[index]

\* Mutant of DestroyLock: an early return keeps locksLock.
DestroyLockKeepsLock ==
  /\ InCall("DestroyLock")
  /\ SysReturn
  /\ UNCHANGED <<vars, tableVars, undefined>>

\* The DEBUG line at the end, which asks a deleted lock for its name, is left out.
DestroyLock ==
  /\ InCall("DestroyLock")
  /\ MayDestroy
  /\ lockDeleteFlag' = [lockDeleteFlag EXCEPT ![index] = TRUE]
  /\ IF lockStatus[index] = "BUSY"
       THEN UNCHANGED <<lockIsDeleted, lockFreed>>
       ELSE DestroyUserLock(index)
  /\ Unlock("user")
  /\ UNCHANGED lockCount

DestroyLockRefused ==
  /\ InCall("DestroyLock")
  /\ ~MayDestroy
  /\ Unlock("user")
  /\ UNCHANGED tableVars

----------------------------------------------------------------------------
\* The kernel operations go on; threads are forked, preempted, and exit.
LockTableKernel ==
  /\ ~undefined
  /\ \/ AcquireReturn
     \/ Yield
     \/ Idle
     \/ InCall("user") /\ \E t \in Threads : Fork(t)
     \/ InCall("user") /\ Finish
  /\ UNCHANGED lockTableVars

LockTableStopped == (halted \/ undefined) /\ UNCHANGED lockTableAllVars

\* The next step of a call that has the processor.
LockCallStep ==
  \/ CreateLock
  \/ CreateLockFails
  \/ CreateLockFaults
  \/ AcquireChecks
  \/ AcquireHalts
  \/ AcquireUserLock
  \/ ReleaseChecks
  \/ ReleaseUserLock
  \/ CheckDestroy
  \/ DestroyLock
  \/ DestroyLockRefused

LockTableNext ==
  \/ \E call \in TableCalls \cap SysCalls : \E i \in LockArguments(call) : BeginLockCall(call, i)
  \/ LockCallStep
  \/ LockTableKernel
  \/ LockTableStopped

LockTableSpec == LockTableInit /\ [][LockTableNext]_lockTableAllVars

(***************************************************************************)
(* Fairness: the timer preempts for ever (-rs), and a thread that keeps    *)
(* getting the processor inside a call does the next step of it.  Nothing  *)
(* is assumed about threads outside the calls.                             *)
(***************************************************************************)
LockTableFairness ==
  /\ SF_lockTableAllVars(Yield /\ UNCHANGED lockTableVars)
  /\ \A t \in Threads :
       /\ SF_lockTableAllVars(currentThread = t /\ LockCallStep)
       /\ SF_lockTableAllVars(currentThread = t /\ AcquireReturn /\ UNCHANGED lockTableVars)

FairLockTableSpec == LockTableSpec /\ LockTableFairness

----------------------------------------------------------------------------
\* A thread that executes owns locksLock exactly inside the checked part of a
\* call: every path through a call gives locksLock up, and two threads are
\* never in the table together.
TableIsProtected ==
  \A t \in Threads :
    pc[t] = "run" => (lockOwner[locksLock] = t <=> sys[t] \in TableCalls)

\* A lock is destroyed while no thread owns it or waits for it: the destroy
\* of a BUSY lock waits for its last Release, whatever came in between.
DestroyedWhenFree ==
  [][\A i \in lockFreed' \ lockFreed : lockStatus[i] = "FREE" /\ lockQueue[i] = << >>]_lockTableAllVars

\* A destroy that was put off is not forgotten: a marked lock that is free has
\* a releaser that will still look at the mark, or a thread that gave it up in
\* Condition::Wait, which does not look, and that acquires and releases it again.
NoDestroyForgotten ==
  \A i \in UserLocks :
    lockDeleteFlag[i] /\ ~lockIsDeleted[i] /\ lockStatus[i] = "FREE"
      => \/ undefined
         \/ \E t \in Threads : \/ sys[t] = "CheckDestroy" /\ lockIndex[t] = i
                               \/ pc[t] = "Wait" /\ argLock[t] = i

\* Every call gets through the part that locksLock protects.
CallsLeaveTheTable ==
  \A t \in Threads :
    sys[t] \in TableCalls ~> sys[t] \notin TableCalls \/ halted \/ undefined

\* "acquire kernelLock so that no other thread is running on kernel mode"
\* (lock_syscalls.cc:84): the lock a call has checked is still there when the
\* call uses it.
NoUseAfterDestroy == ~undefined

=============================================================================
