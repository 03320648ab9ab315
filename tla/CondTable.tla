----------------------------- MODULE CondTable -----------------------------
(***************************************************************************)
(* The condition system calls of userprog/condition_syscalls.cc, together  *)
(* with the lock system calls of LockTable: both tables belong to one      *)
(* address space, and a condition call names a lock, too.                  *)
(*                                                                         *)
(* condsLock protects the table of conditions; the condition calls read    *)
(* the table of locks without locksLock.  The Condition in a slot is the   *)
(* condition of Monitors with that index.                                  *)
(***************************************************************************)
EXTENDS LockTable

CONSTANTS
  condsLock,      \* AddrSpace::condsLock
  MaxCondCount,   \* MAX_COND_COUNT
  InitialConds,   \* the conditions the program has created at the beginning
  CondIndices     \* the condition indices the program passes

UserConds == 0 .. MaxCondCount - 1

ASSUME CondTableAssumption ==
  /\ MaxCondCount \in Nat
  /\ InitialConds \in 0..MaxCondCount
  /\ CondIndices \subseteq Int
  /\ condsLock \in Locks \ (UserLocks \cup {locksLock})
  /\ UserConds = Conds

VARIABLES
  condCount,        \* AddrSpace::condCount
  condDeleteFlag,   \* UserCond::deleteFlag of each slot
  condIsDeleted,    \* UserCond::isDeleted of each slot
  condFreed,        \* the conditions whose destructor has run
  condIndex         \* the condition argument of the system call

condTableVars == <<condCount, condDeleteFlag, condIsDeleted, condFreed>>
condTableAllVars == <<vars, lockTableVars, condTableVars, condIndex>>

\* The calls begin with condsLock; the other places come after its release.
CondCalls == {"CreateCondition", "Wait", "Signal", "Broadcast", "DestroyCondition"}
CondPlaces == CondCalls \cup {"WaitUserCond", "SignalUserCond", "CheckSignalled",
                              "BroadcastUserCond", "CheckBroadcast"}

CondTableTypeOK ==
  /\ TableTypeOK
  /\ sys \in [Threads -> LockPlaces \cup CondPlaces]
  /\ condCount \in 0..MaxCondCount
  /\ condDeleteFlag \in [UserConds -> BOOLEAN]
  /\ condIsDeleted \in [UserConds -> BOOLEAN]
  /\ condFreed \subseteq UserConds
  /\ condIndex \in [Threads -> CondIndices \cup {NoIndex}]

CondTableInit ==
  /\ LockTableInit
  /\ condCount = InitialConds
  /\ condDeleteFlag = [c \in UserConds |-> FALSE]
  /\ condIsDeleted = [c \in UserConds |-> FALSE]
  /\ condFreed = {}
  /\ condIndex = [t \in Threads |-> NoIndex]

----------------------------------------------------------------------------
cond == condIndex[currentThread]
ValidCond == cond >= 0 /\ cond < condCount

CondArguments(call) == IF call = "CreateCondition" THEN {NoIndex} ELSE CondIndices

\* condsLock->Acquire(), with which every call begins.
BeginCondCall(call, i, c) ==
  /\ InCall("user")
  /\ Acquire(condsLock)
  /\ sys' = [sys EXCEPT ![currentThread] = call]
  /\ lockIndex' = [lockIndex EXCEPT ![currentThread] = i]
  /\ condIndex' = [condIndex EXCEPT ![currentThread] = c]
  /\ UNCHANGED <<tableVars, undefined, condTableVars>>

\* The call goes on at the given place.
CondGoto(place) ==
  /\ SysGoto(place)
  /\ UNCHANGED <<undefined, condIndex>>

CondReturn ==
  /\ SysReturn
  /\ condIndex' = [condIndex EXCEPT ![currentThread] = NoIndex]
  /\ UNCHANGED undefined

\* condsLock->Release(), and the call goes on or returns.
UnlockConds(place) ==
  /\ Release(condsLock)
  /\ IF place = "user" THEN CondReturn ELSE CondGoto(place)

\* A destroyed condition or lock is used.
UseDestroyedObject == UseDestroyed /\ UNCHANGED <<condTableVars, condIndex>>

----------------------------------------------------------------------------
\* Mutant of CreateCondition: a full table is not noticed.
CreateConditionUnbounded ==
  /\ InCall("CreateCondition")
  /\ condCount' = condCount + 1
  /\ UnlockConds("user")
  /\ UNCHANGED <<tableVars, condDeleteFlag, condIsDeleted, condFreed>>

(***************************************************************************)
(* CreateCondition_sys.                                                    *)
(***************************************************************************)
CreateCondition ==
  /\ InCall("CreateCondition")
  /\ condCount # MaxCondCount
  /\ condDeleteFlag' = [condDeleteFlag EXCEPT ![condCount] = FALSE]
  /\ condIsDeleted' = [condIsDeleted EXCEPT ![condCount] = FALSE]
  /\ condCount' = condCount + 1
  /\ UnlockConds("user")
  /\ UNCHANGED <<tableVars, condFreed>>

\* The table is full, or the length of the name is out of range.  (A name that is
\* not mapped halts the machine, as in CreateLockFaults; left out here.)
CreateConditionFails ==
  /\ InCall("CreateCondition")
  /\ UnlockConds("user")
  /\ UNCHANGED <<tableVars, condTableVars>>

(***************************************************************************)
(* The checks that Wait_sys, Signal_sys and Broadcast_sys share.           *)
(***************************************************************************)
ArgumentsAlive ==
  /\ ValidCond
  /\ ValidLock
  /\ ~condIsDeleted[cond]
  /\ ~lockIsDeleted[index]

CondChecks(call, next) ==
  /\ InCall(call)
  /\ UnlockConds(IF ArgumentsAlive THEN next ELSE "user")
  /\ UNCHANGED <<tableVars, condTableVars>>

(***************************************************************************)
(* Wait_sys: userCond->Wait(userLock).                                     *)
(***************************************************************************)
WaitUserCond ==
  /\ InCall("WaitUserCond")
  /\ \/ /\ cond \in condFreed \/ index \in lockFreed
        /\ UseDestroyedObject
     \/ /\ cond \notin condFreed /\ index \notin lockFreed
        /\ Wait(cond, index) \/ WaitRefused(cond, index)
        /\ CondReturn
        /\ UNCHANGED <<tableVars, condTableVars>>

\* Wait acquires its lock again; Condition::Wait does not look at the
\* condition any more.
WaitEnds ==
  /\ ~undefined
  /\ IF At("Wait") /\ argLock[currentThread] \in lockFreed
       THEN UseDestroyedObject
       ELSE WaitReacquire /\ UNCHANGED <<lockTableVars, condTableVars, condIndex>>

(***************************************************************************)
(* Signal_sys: userCond->Signal(userLock), which compares the pointer to   *)
(* the lock only; then, without condsLock, the destroy that was put off.   *)
(***************************************************************************)
SignalUserCond ==
  /\ InCall("SignalUserCond")
  /\ \/ cond \in condFreed /\ UseDestroyedObject
     \/ /\ cond \notin condFreed
        /\ Signal(cond, index)
        /\ CondGoto("CheckSignalled")
        /\ UNCHANGED <<tableVars, condTableVars>>

DestroyUserCond ==
  /\ condIsDeleted' = [condIsDeleted EXCEPT ![cond] = TRUE]
  /\ condFreed' = condFreed \cup {cond}

\* Mutant of CheckSignalled: the signaller leaves a marked condition alone.
CheckSignalledForgets ==
  /\ InCall("CheckSignalled")
  /\ CondReturn
  /\ UNCHANGED <<vars, tableVars, condTableVars>>

\* Mutant of CheckSignalled: the queue is not tested.
CheckSignalledBlindly ==
  /\ InCall("CheckSignalled")
  /\ IF condDeleteFlag[cond] /\ cond \notin condFreed
       THEN DestroyUserCond
       ELSE UNCHANGED <<condIsDeleted, condFreed>>
  /\ CondReturn
  /\ UNCHANGED <<vars, tableVars, condCount, condDeleteFlag>>

CheckSignalled ==
  /\ InCall("CheckSignalled")
  /\ \/ condDeleteFlag[cond] /\ cond \in condFreed /\ UseDestroyedObject
     \/ /\ condDeleteFlag[cond] => cond \notin condFreed
        /\ IF condDeleteFlag[cond] /\ condQueue[cond] = << >>
             THEN DestroyUserCond
             ELSE UNCHANGED <<condIsDeleted, condFreed>>
        /\ CondReturn
        /\ UNCHANGED <<vars, tableVars, condCount, condDeleteFlag>>

(***************************************************************************)
(* Broadcast_sys: userCond->Broadcast(userLock); then the destroy that was *)
(* put off, whether or not threads still wait.                             *)
(***************************************************************************)
BroadcastUserCond ==
  /\ InCall("BroadcastUserCond")
  /\ \/ cond \in condFreed /\ UseDestroyedObject
     \/ /\ cond \notin condFreed
        /\ Broadcast(cond, index)
        /\ CondGoto("CheckBroadcast")
        /\ UNCHANGED <<tableVars, condTableVars>>

\* The loop of Condition::Broadcast.
BroadcastGoesOn ==
  /\ ~undefined
  /\ IF At("Broadcast") /\ argCond[currentThread] \in condFreed
       THEN UseDestroyedObject
       ELSE /\ BroadcastSignal \/ BroadcastReturn
            /\ UNCHANGED <<lockTableVars, condTableVars, condIndex>>

CheckBroadcast ==
  /\ InCall("CheckBroadcast")
  /\ \/ condDeleteFlag[cond] /\ cond \in condFreed /\ UseDestroyedObject
     \/ /\ condDeleteFlag[cond] => cond \notin condFreed
        /\ IF condDeleteFlag[cond]
             THEN DestroyUserCond
             ELSE UNCHANGED <<condIsDeleted, condFreed>>
        /\ CondReturn
        /\ UNCHANGED <<vars, tableVars, condCount, condDeleteFlag>>

(***************************************************************************)
(* DestroyCondition_sys.                                                   *)
(***************************************************************************)
DestroyCondition ==
  /\ InCall("DestroyCondition")
  /\ ValidCond
  /\ ~condIsDeleted[cond]
  /\ IF condQueue[cond] # << >>
       THEN /\ condDeleteFlag' = [condDeleteFlag EXCEPT ![cond] = TRUE]
            /\ UNCHANGED <<condIsDeleted, condFreed>>
       ELSE /\ DestroyUserCond
            /\ UNCHANGED condDeleteFlag
  /\ UnlockConds("user")
  /\ UNCHANGED <<tableVars, condCount>>

\* Mutant of DestroyConditionRefused: an early return keeps condsLock.
DestroyConditionKeepsLock ==
  /\ InCall("DestroyCondition")
  /\ CondReturn
  /\ UNCHANGED <<vars, tableVars, condTableVars>>

DestroyConditionRefused ==
  /\ InCall("DestroyCondition")
  /\ ValidCond => condIsDeleted[cond]
  /\ UnlockConds("user")
  /\ UNCHANGED <<tableVars, condTableVars>>

----------------------------------------------------------------------------
\* The next step of a condition call that has the processor.
CondCallStep ==
  \/ CreateCondition
  \/ CreateConditionFails
  \/ CondChecks("Wait", "WaitUserCond")
  \/ WaitUserCond
  \/ WaitEnds
  \/ CondChecks("Signal", "SignalUserCond")
  \/ SignalUserCond
  \/ CheckSignalled
  \/ CondChecks("Broadcast", "BroadcastUserCond")
  \/ BroadcastUserCond
  \/ BroadcastGoesOn
  \/ CheckBroadcast
  \/ DestroyCondition
  \/ DestroyConditionRefused

\* A step of the lock calls, or of the kernel on their behalf.
LockTableStep ==
  /\ \/ \E call \in TableCalls \cap SysCalls : \E i \in LockArguments(call) : BeginLockCall(call, i)
     \/ LockCallStep
     \/ LockTableKernel
  /\ UNCHANGED <<condTableVars, condIndex>>

CondTableStopped == (halted \/ undefined) /\ UNCHANGED condTableAllVars

CondTableNext ==
  \/ \E call \in CondCalls \cap SysCalls :
       \E i \in LockArguments(call), c \in CondArguments(call) : BeginCondCall(call, i, c)
  \/ CondCallStep
  \/ LockTableStep
  \/ CondTableStopped

CondTableSpec == CondTableInit /\ [][CondTableNext]_condTableAllVars

(***************************************************************************)
(* Fairness as in LockTable.                                               *)
(***************************************************************************)
CondTableFairness ==
  /\ SF_condTableAllVars(Yield /\ LockTableStep)
  /\ \A t \in Threads :
       /\ SF_condTableAllVars(currentThread = t /\ CondCallStep)
       /\ SF_condTableAllVars(currentThread = t /\ LockCallStep /\ LockTableStep)
       /\ SF_condTableAllVars(currentThread = t /\ AcquireReturn /\ LockTableStep)

FairCondTableSpec == CondTableSpec /\ CondTableFairness

----------------------------------------------------------------------------
\* A thread that executes owns condsLock exactly inside the checked part of a
\* condition call, and never both table locks.
CondTableIsProtected ==
  /\ CondTableTypeOK
  /\ \A t \in Threads :
       pc[t] = "run" => /\ lockOwner[condsLock] = t <=> sys[t] \in CondCalls
                        /\ lockOwner[locksLock] = t <=> sys[t] \in TableCalls

\* Nothing is destroyed under its users: a lock only while no thread owns it or
\* waits for it, a condition with waiters never by Signal or DestroyCondition,
\* and it is the one of the call.
DestroyWaitsForUsers ==
  /\ DestroyedWhenFree
  /\ [][\A c \in condFreed' \ condFreed :
          /\ c = cond
          /\ condQueue[c] = << >> \/ InCall("CheckBroadcast")]_condTableAllVars

\* A destroy that was put off is not forgotten, of a lock or of a condition: a
\* marked condition without waiters has a signaller or broadcaster that will
\* still look at the mark.
NoCondDestroyForgotten ==
  /\ NoDestroyForgotten
  /\ \A c \in UserConds :
       condDeleteFlag[c] /\ ~condIsDeleted[c] /\ condQueue[c] = << >>
         => undefined \/ \E t \in Threads :
              sys[t] \in {"CheckSignalled", "CheckBroadcast"} /\ condIndex[t] = c

\* DestroyCondition puts the destroy off because the "cond [is] still in use"
\* (condition_syscalls.cc:179): no thread waits in a destroyed condition,
\* where nobody can ever wake it.
NoWaiterStranded == \A c \in condFreed : condQueue[c] = << >>

\* After a user error "the kernel has to return and resume normal operation"
\* (WRITEUP:48): Broadcast comes back although threads use one condition with
\* several locks.
BroadcastComesBack ==
  \A t \in Threads : pc[t] = "Broadcast" ~> pc[t] # "Broadcast" \/ halted \/ undefined

=============================================================================
