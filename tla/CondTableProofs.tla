--------------------------- MODULE CondTableProofs ---------------------------
(***************************************************************************)
(* The tables of locks and conditions of an address space are used by one  *)
(* thread at a time, nothing in them is destroyed under its users, and no  *)
(* destroy that was put off is forgotten: for any number of threads and    *)
(* tables of any size.  What the kernel's own locks do is taken from       *)
(* MonitorsProofs; a step of a system call is a step of Monitors.          *)
(***************************************************************************)
EXTENDS CondTable, MonitorsProofs

USE LockTableAssumption, CondTableAssumption

\* The places of a call behind the checks of its lock or condition argument.
UsesLock == {"AcquireUserLock", "ReleaseUserLock", "CheckDestroy",
             "WaitUserCond", "SignalUserCond", "BroadcastUserCond"}
UsesCond == {"WaitUserCond", "SignalUserCond", "CheckSignalled",
             "BroadcastUserCond", "CheckBroadcast"}

IndicesAreValid ==
  \A t \in Threads :
    /\ sys[t] \in UsesLock => lockIndex[t] \in UserLocks
    /\ sys[t] \in UsesCond => condIndex[t] \in UserConds

\* Where a thread is in a condition operation, as far as its call says.
OperationsAgree ==
  \A t \in Threads :
    /\ pc[t] = "Wait" => argLock[t] \in UserLocks /\ sys[t] = "user"
    /\ pc[t] = "Broadcast" => sys[t] = "CheckBroadcast" /\ condIndex[t] = argCond[t]

\* A thread is in one of the given calls when it owns the lock L, or sleeps in
\* the Acquire of L with which the call begins.
Guarded(L, calls) ==
  \A t \in Threads :
    /\ lockOwner[L] = t => sys[t] \in calls
    /\ pc[t] = "Acquire" /\ argLock[t] = L => sys[t] \in calls
    /\ sys[t] \in calls => \/ pc[t] = "run" /\ lockOwner[L] = t
                           \/ pc[t] = "Acquire" /\ argLock[t] = L

TablesGuarded == Guarded(locksLock, TableCalls) /\ Guarded(condsLock, CondCalls)

TableInv ==
  /\ IInv
  /\ CondTableTypeOK
  /\ IndicesAreValid
  /\ OperationsAgree
  /\ TablesGuarded
  /\ NoCondDestroyForgotten

\* The two table locks, and the calls that each of them guards.
TableLocks == {locksLock, condsLock}
CallsUnder(L) == IF L = locksLock THEN TableCalls ELSE CondCalls

----------------------------------------------------------------------------
(***************************************************************************)
(* Facts about the constants and the places.                               *)
(***************************************************************************)
\* The table locks are no user locks, and every call has one of them.
LEMMA TableLocksFacts ==
  /\ TableLocks \subseteq Locks /\ locksLock # condsLock
  /\ UserLocks \subseteq Locks \ TableLocks
  /\ UserConds = Conds
  /\ TablesGuarded <=> \A L \in TableLocks : Guarded(L, CallsUnder(L))
  /\ TableCalls \cap CondCalls = {}
BY DEF TableLocks, CallsUnder, TablesGuarded, TableCalls, CondCalls

\* A valid index is one of a slot.
LEMMA ValidIndices ==
  ASSUME CondTableTypeOK, currentThread \in Threads
  PROVE  /\ ValidLock => index \in UserLocks
         /\ ValidCond => cond \in UserConds
<1>1. index \in Int /\ cond \in Int
  <2>1. index \in LockIndices \cup {NoIndex} /\ cond \in CondIndices \cup {NoIndex}
    BY DEF CondTableTypeOK, TableTypeOK, index, cond
  <2>2. NoIndex \in Int
    BY DEF NoIndex
  <2> QED BY <2>1, <2>2
<1>2. lockCount \in 0..MaxLockCount /\ condCount \in 0..MaxCondCount
  BY DEF CondTableTypeOK, TableTypeOK
<1> QED BY <1>1, <1>2 DEF ValidLock, ValidCond, UserLocks, UserConds

\* What TableInv says of the thread that executes a call.
LEMMA CallerFacts ==
  ASSUME TableInv, NEW place, InCall(place)
  PROVE  /\ currentThread \in Threads
         /\ Processing
         /\ pc[currentThread] = "run"
         /\ sys[currentThread] = place
         /\ ~undefined
         /\ place \in UsesLock => index \in UserLocks
         /\ place \in UsesCond => cond \in UserConds
BY DispatcherFacts DEF TableInv, InCall, At, IndicesAreValid, index, cond

\* sys' of the two ways to go on, one of which returns to the user program.
LEMMA GoesTo ==
  ASSUME CondTableTypeOK, currentThread \in Threads, NEW place \in LockPlaces \cup CondPlaces,
         sys' = [sys EXCEPT ![currentThread] = place]
  PROVE  /\ sys' \in [Threads -> LockPlaces \cup CondPlaces]
         /\ sys'[currentThread] = place
         /\ \A t \in Threads \ {currentThread} : sys'[t] = sys[t]
BY DEF CondTableTypeOK

\* An index argument of the current thread that is set or reset.
LEMMA IndexSet ==
  ASSUME NEW S, NEW f \in [Threads -> S], NEW t \in Threads, NEW i \in S
  PROVE  /\ [f EXCEPT ![t] = i] \in [Threads -> S]
         /\ [f EXCEPT ![t] = i][t] = i
         /\ \A u \in Threads \ {t} : [f EXCEPT ![t] = i][u] = f[u]
OBVIOUS

----------------------------------------------------------------------------
(***************************************************************************)
(* The locks of the tables.                                                *)
(***************************************************************************)
\* L->Acquire() at the beginning of a call.
LEMMA EnteringKeepsGuard ==
  ASSUME TableInv, NEW L \in TableLocks, Processing, DoAcquire(L),
         sys'[currentThread] \in CallsUnder(L), sys[currentThread] = "user",
         \A t \in Threads \ {currentThread} : sys'[t] = sys[t]
  PROVE  TablesGuarded'
<1> DEFINE cur == currentThread
<1>1. /\ cur \in Threads
      /\ \A t \in Threads \ {cur} : pc'[t] = pc[t] /\ argLock'[t] = argLock[t]
      /\ \A k \in Locks \ {L} : lockOwner'[k] = lockOwner[k]
      /\ \/ /\ pc'[cur] = "run" /\ lockOwner'[L] = cur
            /\ lockOwner[L] \in {cur, NoThread}
         \/ /\ pc'[cur] = "Acquire" /\ argLock'[cur] = L
            /\ lockOwner'[L] = lockOwner[L]
            /\ lockOwner[L] # cur
  BY AcquireMoves, TableLocksFacts DEF TableInv
<1>2. \A K \in TableLocks : Guarded(K, CallsUnder(K)) /\ "user" \notin CallsUnder(K)
  BY TableLocksFacts DEF TableInv, CallsUnder, TableCalls, CondCalls
<1>3. Guarded(L, CallsUnder(L))'
  BY <1>1, <1>2, ThreadsAssumption DEF Guarded
<1>4. ASSUME NEW K \in TableLocks \ {L} PROVE Guarded(K, CallsUnder(K))'
  <2>1. sys'[cur] \notin CallsUnder(K) /\ lockOwner'[K] = lockOwner[K]
    BY <1>1, <1>4, TableLocksFacts DEF TableLocks, CallsUnder
  <2>2. lockOwner[K] # cur
    BY <1>1, <1>2 DEF Guarded
  <2> QED BY <1>1, <1>2, <1>4, <2>1, <2>2 DEF Guarded
<1> QED BY <1>3, <1>4 DEF TablesGuarded, TableLocks, CallsUnder

\* L->Release() at the end of the checked part of a call.
LEMMA LeavingKeepsGuard ==
  ASSUME TableInv, NEW L \in TableLocks, Release(L),
         sys[currentThread] \in CallsUnder(L),
         sys'[currentThread] \notin TableCalls \cup CondCalls,
         \A t \in Threads \ {currentThread} : sys'[t] = sys[t]
  PROVE  TablesGuarded'
<1> DEFINE cur == currentThread
<1>1. /\ Processing /\ DoRelease(L) /\ cur \in Threads
      /\ pc' = pc /\ argLock' = argLock /\ pc[cur] = "run"
  BY DispatcherFacts DEF TableInv, Release, At, pcVars
<1>2. /\ \A k \in Locks \ {L} : lockOwner'[k] = lockOwner[k]
      /\ lockOwner'[L] # cur
      /\ \A t \in Threads :
           /\ lockOwner[L] = t => lockOwner'[L] = t \/ t = cur
           /\ lockOwner'[L] = t => \/ lockOwner[L] = t
                                   \/ pc[t] = "Acquire" /\ argLock[t] = L
  BY <1>1, ReleaseMoves, TableLocksFacts DEF TableInv
<1>3. \A K \in TableLocks : /\ Guarded(K, CallsUnder(K))
                            /\ sys'[cur] \notin CallsUnder(K)
  BY TableLocksFacts DEF TableInv, CallsUnder
<1>4. Guarded(L, CallsUnder(L))'
  BY <1>1, <1>2, <1>3 DEF Guarded
<1>5. ASSUME NEW K \in TableLocks \ {L} PROVE Guarded(K, CallsUnder(K))'
  <2>1. sys[cur] \notin CallsUnder(K) /\ lockOwner'[K] = lockOwner[K]
    BY <1>2, <1>5, TableLocksFacts DEF TableLocks, CallsUnder
  <2> QED BY <1>1, <1>3, <1>5, <2>1 DEF Guarded
<1> QED BY <1>4, <1>5 DEF TablesGuarded, TableLocks, CallsUnder

\* Whatever else a thread does outside the checked parts of the calls, with
\* other locks than those of the tables.
LEMMA OutsideKeepsGuard ==
  ASSUME TableInv, NEW cur \in Threads,
         sys[cur] \notin TableCalls \cup CondCalls,
         sys'[cur] \notin TableCalls \cup CondCalls,
         pc'[cur] = "Acquire" => argLock'[cur] \notin TableLocks,
         \A t \in Threads \ {cur} :
           pc'[t] = pc[t] /\ argLock'[t] = argLock[t] /\ sys'[t] = sys[t],
         \A L \in TableLocks : lockOwner'[L] = lockOwner[L]
  PROVE  TablesGuarded'
<1>1. ASSUME NEW K \in TableLocks PROVE Guarded(K, CallsUnder(K))'
  <2>1. Guarded(K, CallsUnder(K))
    BY TableLocksFacts DEF TableInv
  <2>2. sys[cur] \notin CallsUnder(K) /\ sys'[cur] \notin CallsUnder(K)
    BY DEF CallsUnder
  <2> QED BY <2>1, <2>2 DEF Guarded
<1> QED BY <1>1 DEF TablesGuarded, TableLocks, CallsUnder

----------------------------------------------------------------------------
(***************************************************************************)
(* What the other parts of the invariant need of a step.                   *)
(***************************************************************************)
\* The other threads stay where they are, and so does their part.
LEMMA OthersKeepTheirArguments ==
  ASSUME TableInv, NEW cur \in Threads,
         \A t \in Threads \ {cur} :
           /\ pc'[t] = pc[t] /\ argLock'[t] = argLock[t] /\ argCond'[t] = argCond[t]
           /\ sys'[t] = sys[t] /\ lockIndex'[t] = lockIndex[t] /\ condIndex'[t] = condIndex[t],
         sys'[cur] \in UsesLock => lockIndex'[cur] \in UserLocks,
         sys'[cur] \in UsesCond => condIndex'[cur] \in UserConds,
         pc'[cur] = "Wait" => argLock'[cur] \in UserLocks /\ sys'[cur] = "user",
         pc'[cur] = "Broadcast" => sys'[cur] = "CheckBroadcast" /\ condIndex'[cur] = argCond'[cur]
  PROVE  IndicesAreValid' /\ OperationsAgree'
BY DEF TableInv, IndicesAreValid, OperationsAgree

\* A marked lock that is free, or a marked condition without waiters, and who
\* will still look at the mark.
LockPutOff(i) == lockDeleteFlag[i] /\ ~lockIsDeleted[i] /\ lockStatus[i] = "FREE"
CondPutOff(c) == condDeleteFlag[c] /\ ~condIsDeleted[c] /\ condQueue[c] = << >>
LooksAtLock(t, i) == \/ sys[t] = "CheckDestroy" /\ lockIndex[t] = i
                     \/ pc[t] = "Wait" /\ argLock[t] = i
LooksAtCond(t, c) == sys[t] \in {"CheckSignalled", "CheckBroadcast"} /\ condIndex[t] = c

\* No destroy is forgotten when the current thread looks at what it leaves
\* behind, or did not have to look before.
LEMMA NothingIsForgotten ==
  ASSUME TableInv, ~undefined, NEW cur \in Threads,
         \A t \in Threads \ {cur} :
           /\ pc'[t] = pc[t] /\ argLock'[t] = argLock[t]
           /\ sys'[t] = sys[t] /\ lockIndex'[t] = lockIndex[t] /\ condIndex'[t] = condIndex[t],
         \A i \in UserLocks :
           LockPutOff(i)' => LooksAtLock(cur, i)' \/ (LockPutOff(i) /\ ~LooksAtLock(cur, i)),
         \A c \in UserConds :
           CondPutOff(c)' => LooksAtCond(cur, c)' \/ (CondPutOff(c) /\ ~LooksAtCond(cur, c))
  PROVE  NoCondDestroyForgotten'
<1>1. ASSUME NEW i \in UserLocks, LockPutOff(i)'
      PROVE  \E t \in Threads : LooksAtLock(t, i)'
  <2>1. CASE LockPutOff(i) /\ ~LooksAtLock(cur, i)
    <3>1. PICK t \in Threads : LooksAtLock(t, i)
      BY <2>1 DEF TableInv, NoCondDestroyForgotten, NoDestroyForgotten, LockPutOff, LooksAtLock
    <3>2. LooksAtLock(t, i)'
      BY <2>1, <3>1 DEF LooksAtLock
    <3> QED BY <3>2
  <2> QED BY <1>1, <2>1
<1>2. ASSUME NEW c \in UserConds, CondPutOff(c)'
      PROVE  \E t \in Threads : LooksAtCond(t, c)'
  <2>1. CASE CondPutOff(c) /\ ~LooksAtCond(cur, c)
    <3>1. PICK t \in Threads : LooksAtCond(t, c)
      BY <2>1 DEF TableInv, NoCondDestroyForgotten, CondPutOff, LooksAtCond
    <3>2. LooksAtCond(t, c)'
      BY <2>1, <3>1 DEF LooksAtCond
    <3> QED BY <3>2
  <2> QED BY <1>2, <2>1
<1> QED BY <1>1, <1>2
        DEF NoCondDestroyForgotten, NoDestroyForgotten, LockPutOff, CondPutOff,
            LooksAtLock, LooksAtCond

----------------------------------------------------------------------------
(***************************************************************************)
(* The beginning and the end of the checked part of a call.                *)
(***************************************************************************)
\* The facts about Release of a table lock that no other lock shares in.
LEMMA TableLockReleased ==
  ASSUME TableInv, NEW L \in TableLocks, Release(L)
  PROVE  /\ currentThread \in Threads
         /\ UNCHANGED <<pc, argLock, argCond, waitingLock, condQueue>>
         /\ \A i \in UserLocks : lockStatus'[i] = lockStatus[i]
<1>1. Processing /\ DoRelease(L) /\ UNCHANGED <<condVars, pcVars>>
  BY DEF Release, At
<1> QED BY <1>1, DispatcherFacts, ReleaseMoves, TableLocksFacts DEF TableInv, condVars, pcVars

\* A lock call gives locksLock up and goes on to one of its later places.
LEMMA LockCallEnds ==
  ASSUME TableInv, NEW call \in TableCalls, InCall(call),
         NEW place \in {"user", "Halt", "AcquireUserLock", "ReleaseUserLock"},
         place \in UsesLock => index \in UserLocks,
         Unlock(place), UNCHANGED condIndex
  PROVE  /\ currentThread \in Threads
         /\ UNCHANGED <<pc, argLock, argCond, waitingLock, condQueue, undefined>>
         /\ sys' \in [Threads -> LockPlaces \cup CondPlaces]
         /\ lockIndex' \in [Threads -> LockIndices \cup {NoIndex}]
         /\ sys'[currentThread] = place
         /\ \A t \in Threads \ {currentThread} :
              sys'[t] = sys[t] /\ lockIndex'[t] = lockIndex[t]
         /\ \A i \in UserLocks : lockStatus'[i] = lockStatus[i]
         /\ IndicesAreValid' /\ OperationsAgree' /\ TablesGuarded'
<1> DEFINE cur == currentThread
<1>1. cur \in Threads /\ sys[cur] = call /\ CondTableTypeOK /\ pc[cur] = "run"
  BY CallerFacts DEF TableInv
<1>2. Release(locksLock) /\ undefined' = undefined /\ sys' = [sys EXCEPT ![cur] = place]
  BY DEF Unlock, SysReturn, SysGoto
<1>3. /\ lockIndex' \in [Threads -> LockIndices \cup {NoIndex}]
      /\ \A t \in Threads \ {cur} : lockIndex'[t] = lockIndex[t]
      /\ place # "user" => lockIndex' = lockIndex
  BY <1>1 DEF Unlock, SysReturn, SysGoto, CondTableTypeOK, TableTypeOK
<1>4. /\ UNCHANGED <<pc, argLock, argCond, waitingLock, condQueue>>
      /\ \A i \in UserLocks : lockStatus'[i] = lockStatus[i]
  BY <1>2, TableLockReleased DEF TableLocks
<1>5. place \in LockPlaces \cup CondPlaces /\ place \notin TableCalls \cup CondCalls
      /\ place \notin UsesCond
  BY DEF LockPlaces, TableCalls, CondCalls, UsesCond
<1>6. /\ sys' \in [Threads -> LockPlaces \cup CondPlaces]
      /\ sys'[cur] = place
      /\ \A t \in Threads \ {cur} : sys'[t] = sys[t]
  BY <1>1, <1>2, <1>5, GoesTo
<1>7. TablesGuarded'
  BY <1>1, <1>2, <1>5, <1>6, LeavingKeepsGuard DEF TableLocks, CallsUnder
<1>8. place \in UsesLock => lockIndex'[cur] \in UserLocks
  BY <1>3 DEF index, UsesLock
<1>9. IndicesAreValid' /\ OperationsAgree'
  BY <1>1, <1>3, <1>4, <1>5, <1>6, <1>8, OthersKeepTheirArguments
<1> QED BY <1>1, <1>2, <1>3, <1>4, <1>6, <1>7, <1>9

\* A condition call gives condsLock up and goes on to one of its later places.
LEMMA CondCallEnds ==
  ASSUME TableInv, NEW call \in CondCalls, InCall(call),
         NEW place \in {"user", "WaitUserCond", "SignalUserCond", "BroadcastUserCond"},
         place # "user" => index \in UserLocks /\ cond \in UserConds,
         UnlockConds(place)
  PROVE  /\ currentThread \in Threads
         /\ UNCHANGED <<pc, argLock, argCond, waitingLock, condQueue, undefined>>
         /\ sys' \in [Threads -> LockPlaces \cup CondPlaces]
         /\ lockIndex' \in [Threads -> LockIndices \cup {NoIndex}]
         /\ condIndex' \in [Threads -> CondIndices \cup {NoIndex}]
         /\ sys'[currentThread] = place
         /\ \A t \in Threads \ {currentThread} :
              sys'[t] = sys[t] /\ lockIndex'[t] = lockIndex[t] /\ condIndex'[t] = condIndex[t]
         /\ \A i \in UserLocks : lockStatus'[i] = lockStatus[i]
         /\ IndicesAreValid' /\ OperationsAgree' /\ TablesGuarded'
<1> DEFINE cur == currentThread
<1>1. cur \in Threads /\ sys[cur] = call /\ CondTableTypeOK /\ pc[cur] = "run"
  BY CallerFacts DEF TableInv
<1>2. Release(condsLock) /\ undefined' = undefined /\ sys' = [sys EXCEPT ![cur] = place]
  BY DEF UnlockConds, CondReturn, CondGoto, SysReturn, SysGoto
<1>3. /\ lockIndex' \in [Threads -> LockIndices \cup {NoIndex}]
      /\ condIndex' \in [Threads -> CondIndices \cup {NoIndex}]
      /\ \A t \in Threads \ {cur} : lockIndex'[t] = lockIndex[t] /\ condIndex'[t] = condIndex[t]
      /\ place # "user" => lockIndex' = lockIndex /\ condIndex' = condIndex
  BY <1>1 DEF UnlockConds, CondReturn, CondGoto, SysReturn, SysGoto, CondTableTypeOK, TableTypeOK
<1>4. /\ UNCHANGED <<pc, argLock, argCond, waitingLock, condQueue>>
      /\ \A i \in UserLocks : lockStatus'[i] = lockStatus[i]
  BY <1>2, TableLockReleased DEF TableLocks
<1>5. place \in LockPlaces \cup CondPlaces /\ place \notin TableCalls \cup CondCalls
  BY DEF LockPlaces, CondPlaces, TableCalls, CondCalls
<1>6. /\ sys' \in [Threads -> LockPlaces \cup CondPlaces]
      /\ sys'[cur] = place
      /\ \A t \in Threads \ {cur} : sys'[t] = sys[t]
  BY <1>1, <1>2, <1>5, GoesTo
<1>7. TablesGuarded'
  <2>1. sys[cur] \in CallsUnder(condsLock)
    BY <1>1, TableLocksFacts DEF CallsUnder
  <2> QED BY <1>2, <1>5, <1>6, <2>1, LeavingKeepsGuard DEF TableLocks
<1>8. /\ place \in UsesLock => lockIndex'[cur] \in UserLocks
      /\ place \in UsesCond => condIndex'[cur] \in UserConds
  BY <1>3 DEF index, cond, UsesLock, UsesCond
<1>9. IndicesAreValid' /\ OperationsAgree'
  BY <1>1, <1>3, <1>4, <1>6, <1>8, OthersKeepTheirArguments
<1> QED BY <1>1, <1>2, <1>3, <1>4, <1>6, <1>7, <1>9

\* A call begins: it owns the lock of its table, or sleeps in it.
LEMMA CallBegins ==
  ASSUME TableInv, NEW L \in TableLocks, NEW call \in CallsUnder(L),
         InCall("user"), Acquire(L),
         sys' = [sys EXCEPT ![currentThread] = call],
         \A t \in Threads \ {currentThread} :
           lockIndex'[t] = lockIndex[t] /\ condIndex'[t] = condIndex[t]
  PROVE  /\ currentThread \in Threads
         /\ pc'[currentThread] # "Wait"
         /\ sys' \in [Threads -> LockPlaces \cup CondPlaces]
         /\ sys'[currentThread] = call
         /\ \A t \in Threads \ {currentThread} :
              pc'[t] = pc[t] /\ argLock'[t] = argLock[t] /\ sys'[t] = sys[t]
         /\ UNCHANGED condQueue
         /\ \A i \in UserLocks : lockStatus'[i] = lockStatus[i]
         /\ IndicesAreValid' /\ OperationsAgree' /\ TablesGuarded'
<1> DEFINE cur == currentThread
<1>1. cur \in Threads /\ Processing /\ pc[cur] = "run" /\ sys[cur] = "user" /\ CondTableTypeOK
  BY CallerFacts DEF TableInv
<1>2. DoAcquire(L) /\ UNCHANGED condQueue
  BY DEF Acquire, condVars
<1>3. call \in TableCalls \cup CondCalls /\ call \notin UsesLock /\ call \notin UsesCond
  BY DEF CallsUnder, TableCalls, CondCalls, UsesLock, UsesCond
<1>4. /\ sys' \in [Threads -> LockPlaces \cup CondPlaces]
      /\ sys'[cur] = call
      /\ \A t \in Threads \ {cur} : sys'[t] = sys[t]
  BY <1>1, <1>3, GoesTo DEF LockPlaces, CondPlaces
<1>5. /\ \A t \in Threads \ {cur} :
           pc'[t] = pc[t] /\ argLock'[t] = argLock[t] /\ argCond'[t] = argCond[t]
      /\ \A k \in Locks \ {L} : lockStatus'[k] = lockStatus[k]
      /\ pc'[cur] \in {"run", "Acquire"}
  BY <1>1, <1>2, AcquireMoves, TableLocksFacts DEF TableInv
<1>6. TablesGuarded'
  BY <1>1, <1>2, <1>4, EnteringKeepsGuard
<1>7. IndicesAreValid' /\ OperationsAgree'
  BY <1>1, <1>3, <1>4, <1>5, OthersKeepTheirArguments
<1> QED BY <1>1, <1>2, <1>4, <1>5, <1>6, <1>7, TableLocksFacts

----------------------------------------------------------------------------
(***************************************************************************)
(* The lock system calls.                                                  *)
(***************************************************************************)
\* locksLock->Acquire() at the beginning of a lock call.
LEMMA BeginLockCallKeepsInv ==
  ASSUME TableInv, IInv', NEW call \in TableCalls, NEW i \in LockArguments(call),
         BeginLockCall(call, i), UNCHANGED <<condTableVars, condIndex>>
  PROVE  TableInv'
<1> DEFINE cur == currentThread
<1>1. /\ InCall("user") /\ Acquire(locksLock)
      /\ sys' = [sys EXCEPT ![cur] = call] /\ lockIndex' = [lockIndex EXCEPT ![cur] = i]
      /\ UNCHANGED <<lockCount, lockDeleteFlag, lockIsDeleted, lockFreed, undefined>>
      /\ UNCHANGED <<condCount, condDeleteFlag, condIsDeleted, condFreed, condIndex>>
  BY DEF BeginLockCall, tableVars, condTableVars
<1>2. cur \in Threads /\ sys[cur] = "user" /\ pc[cur] = "run" /\ ~undefined /\ CondTableTypeOK
  BY <1>1, CallerFacts DEF TableInv
<1>3. /\ lockIndex' \in [Threads -> LockIndices \cup {NoIndex}]
      /\ \A t \in Threads \ {cur} : lockIndex'[t] = lockIndex[t]
  BY <1>1, <1>2 DEF LockArguments, CondTableTypeOK, TableTypeOK
<1>4. call \in CallsUnder(locksLock) /\ locksLock \in TableLocks
  BY DEF CallsUnder, TableLocks
<1>5. /\ pc'[cur] # "Wait"
      /\ sys' \in [Threads -> LockPlaces \cup CondPlaces] /\ sys'[cur] = call
      /\ \A t \in Threads \ {cur} :
           pc'[t] = pc[t] /\ argLock'[t] = argLock[t] /\ sys'[t] = sys[t]
      /\ UNCHANGED condQueue
      /\ \A k \in UserLocks : lockStatus'[k] = lockStatus[k]
      /\ IndicesAreValid' /\ OperationsAgree' /\ TablesGuarded'
  BY <1>1, <1>3, <1>4, CallBegins
<1>6. CondTableTypeOK'
  BY <1>1, <1>2, <1>3, <1>5 DEF IInv, CondTableTypeOK, TableTypeOK
<1>7. NoCondDestroyForgotten'
  BY <1>1, <1>2, <1>3, <1>5, NothingIsForgotten
     DEF LockPutOff, CondPutOff, LooksAtLock, LooksAtCond
<1> QED BY <1>5, <1>6, <1>7 DEF TableInv

\* CreateLock_sys, which makes a new slot, and its failure.
LEMMA CreateLockKeepsInv ==
  ASSUME TableInv, IInv', CreateLock \/ CreateLockFails, UNCHANGED <<condTableVars, condIndex>>
  PROVE  TableInv'
<1> DEFINE cur == currentThread
<1>1. /\ InCall("CreateLock") /\ Unlock("user")
      /\ UNCHANGED <<lockFreed, condCount, condDeleteFlag, condIsDeleted, condFreed, condIndex>>
      /\ \/ UNCHANGED <<lockCount, lockDeleteFlag, lockIsDeleted>>
         \/ /\ lockCount < MaxLockCount
            /\ lockCount' = lockCount + 1
            /\ lockDeleteFlag' = [lockDeleteFlag EXCEPT ![lockCount] = FALSE]
            /\ lockIsDeleted' = [lockIsDeleted EXCEPT ![lockCount] = FALSE]
  BY DEF CreateLock, CreateLockFails, tableVars, condTableVars
<1>2. sys[cur] = "CreateLock" /\ pc[cur] = "run" /\ ~undefined /\ CondTableTypeOK
  BY <1>1, CallerFacts DEF TableInv
<1>3. /\ cur \in Threads
      /\ UNCHANGED <<pc, argLock, condQueue, undefined>>
      /\ sys' \in [Threads -> LockPlaces \cup CondPlaces]
      /\ lockIndex' \in [Threads -> LockIndices \cup {NoIndex}]
      /\ sys'[cur] = "user"
      /\ \A t \in Threads \ {cur} : sys'[t] = sys[t] /\ lockIndex'[t] = lockIndex[t]
      /\ \A i \in UserLocks : lockStatus'[i] = lockStatus[i]
      /\ IndicesAreValid' /\ OperationsAgree' /\ TablesGuarded'
  BY <1>1, LockCallEnds DEF TableCalls, UsesLock
<1>4. /\ lockCount' \in 0..MaxLockCount
      /\ lockDeleteFlag' \in [UserLocks -> BOOLEAN] /\ lockIsDeleted' \in [UserLocks -> BOOLEAN]
      /\ \A i \in UserLocks : lockDeleteFlag'[i] => lockDeleteFlag[i] /\ lockIsDeleted'[i] = lockIsDeleted[i]
  <2>1. lockCount \in 0..MaxLockCount /\ lockDeleteFlag \in [UserLocks -> BOOLEAN]
        /\ lockIsDeleted \in [UserLocks -> BOOLEAN]
    BY <1>2 DEF CondTableTypeOK, TableTypeOK
  <2>2. CASE UNCHANGED <<lockCount, lockDeleteFlag, lockIsDeleted>>
    BY <2>1, <2>2
  <2>3. CASE /\ lockCount < MaxLockCount
             /\ lockCount' = lockCount + 1
             /\ lockDeleteFlag' = [lockDeleteFlag EXCEPT ![lockCount] = FALSE]
             /\ lockIsDeleted' = [lockIsDeleted EXCEPT ![lockCount] = FALSE]
    <3>1. lockCount + 1 \in 0..MaxLockCount /\ lockCount \in UserLocks
      BY <2>1, <2>3 DEF UserLocks
    <3> QED BY <2>1, <2>3, <3>1
  <2> QED BY <1>1, <2>2, <2>3
<1>5. CondTableTypeOK'
  BY <1>1, <1>2, <1>3, <1>4 DEF IInv, CondTableTypeOK, TableTypeOK
<1>6. NoCondDestroyForgotten'
  BY <1>1, <1>2, <1>3, <1>4, NothingIsForgotten
     DEF LockPutOff, CondPutOff, LooksAtLock, LooksAtCond
<1> QED BY <1>3, <1>5, <1>6 DEF TableInv

\* The checks of Acquire_sys and Release_sys, and a DestroyLock_sys that is
\* refused, change no slot.
LEMMA LockChecksKeepInv ==
  ASSUME TableInv, IInv', AcquireChecks \/ ReleaseChecks \/ DestroyLockRefused,
         UNCHANGED <<condTableVars, condIndex>>
  PROVE  TableInv'
<1> DEFINE cur == currentThread
<1>1. PICK call \in TableCalls, place \in {"user", "Halt", "AcquireUserLock", "ReleaseUserLock"} :
        /\ InCall(call) /\ Unlock(place)
        /\ place \in UsesLock => ValidLock
  BY DEF AcquireChecks, ReleaseChecks, DestroyLockRefused, MayRelease, TableCalls, UsesLock
<1>2. /\ UNCHANGED <<lockCount, lockDeleteFlag, lockIsDeleted, lockFreed>>
      /\ UNCHANGED <<condCount, condDeleteFlag, condIsDeleted, condFreed, condIndex>>
  BY DEF AcquireChecks, ReleaseChecks, DestroyLockRefused, tableVars, condTableVars
<1>3. cur \in Threads /\ sys[cur] = call /\ pc[cur] = "run" /\ ~undefined /\ CondTableTypeOK
  BY <1>1, CallerFacts DEF TableInv
<1>4. place \in UsesLock => index \in UserLocks
  BY <1>1, <1>3, ValidIndices
<1>5. /\ UNCHANGED <<pc, argLock, condQueue, undefined>>
      /\ sys' \in [Threads -> LockPlaces \cup CondPlaces]
      /\ lockIndex' \in [Threads -> LockIndices \cup {NoIndex}]
      /\ sys'[cur] = place
      /\ \A t \in Threads \ {cur} : sys'[t] = sys[t] /\ lockIndex'[t] = lockIndex[t]
      /\ \A i \in UserLocks : lockStatus'[i] = lockStatus[i]
      /\ IndicesAreValid' /\ OperationsAgree' /\ TablesGuarded'
  BY <1>1, <1>2, <1>4, LockCallEnds
<1>6. CondTableTypeOK'
  BY <1>2, <1>3, <1>5 DEF IInv, CondTableTypeOK, TableTypeOK
<1>7. NoCondDestroyForgotten'
  BY <1>2, <1>3, <1>5, NothingIsForgotten
     DEF LockPutOff, CondPutOff, LooksAtLock, LooksAtCond, TableCalls
<1> QED BY <1>5, <1>6, <1>7 DEF TableInv

\* DestroyLock_sys marks a lock that is BUSY and destroys any other.
LEMMA DestroyLockKeepsInv ==
  ASSUME TableInv, IInv', DestroyLock, UNCHANGED <<condTableVars, condIndex>>
  PROVE  TableInv'
<1> DEFINE cur == currentThread
<1>1. /\ InCall("DestroyLock") /\ ValidLock /\ Unlock("user")
      /\ lockDeleteFlag' = [lockDeleteFlag EXCEPT ![index] = TRUE]
      /\ \/ lockStatus[index] = "BUSY" /\ UNCHANGED <<lockIsDeleted, lockFreed>>
         \/ /\ lockIsDeleted' = [lockIsDeleted EXCEPT ![index] = TRUE]
            /\ lockFreed' = lockFreed \cup {index}
      /\ UNCHANGED <<lockCount, condCount, condDeleteFlag, condIsDeleted, condFreed, condIndex>>
  BY DEF DestroyLock, MayDestroy, DestroyUserLock, condTableVars
<1>2. /\ sys[cur] = "DestroyLock" /\ pc[cur] = "run" /\ ~undefined /\ CondTableTypeOK
      /\ index \in UserLocks
  BY <1>1, CallerFacts, ValidIndices DEF TableInv
<1>3. /\ cur \in Threads
      /\ UNCHANGED <<pc, argLock, condQueue, undefined>>
      /\ sys' \in [Threads -> LockPlaces \cup CondPlaces]
      /\ lockIndex' \in [Threads -> LockIndices \cup {NoIndex}]
      /\ sys'[cur] = "user"
      /\ \A t \in Threads \ {cur} : sys'[t] = sys[t] /\ lockIndex'[t] = lockIndex[t]
      /\ \A i \in UserLocks : lockStatus'[i] = lockStatus[i]
      /\ IndicesAreValid' /\ OperationsAgree' /\ TablesGuarded'
  BY <1>1, LockCallEnds DEF TableCalls, UsesLock
<1>4. /\ lockDeleteFlag' \in [UserLocks -> BOOLEAN] /\ lockIsDeleted' \in [UserLocks -> BOOLEAN]
      /\ lockFreed' \subseteq UserLocks
      /\ \A i \in UserLocks \ {index} :
           lockDeleteFlag'[i] = lockDeleteFlag[i] /\ lockIsDeleted'[i] = lockIsDeleted[i]
      /\ lockStatus'[index] = "BUSY" \/ lockIsDeleted'[index]
  BY <1>1, <1>2, <1>3 DEF CondTableTypeOK, TableTypeOK
<1>5. CondTableTypeOK'
  BY <1>1, <1>2, <1>3, <1>4 DEF IInv, CondTableTypeOK, TableTypeOK
<1>6. ASSUME NEW i \in UserLocks, LockPutOff(i)' PROVE LockPutOff(i) /\ ~LooksAtLock(cur, i)
  <2>1. i # index
    BY <1>4, <1>6 DEF LockPutOff
  <2> QED BY <1>2, <1>3, <1>4, <1>6, <2>1 DEF LockPutOff, LooksAtLock
<1>7. NoCondDestroyForgotten'
  BY <1>1, <1>2, <1>3, <1>6, NothingIsForgotten DEF CondPutOff, LooksAtCond
<1> QED BY <1>3, <1>5, <1>7 DEF TableInv

\* userLock->Acquire(), behind the checks and without locksLock.
LEMMA AcquireUserLockKeepsInv ==
  ASSUME TableInv, IInv', InCall("AcquireUserLock"), Acquire(index), SysReturn,
         UNCHANGED <<tableVars, undefined, condTableVars, condIndex>>
  PROVE  TableInv'
<1> DEFINE cur == currentThread
<1>1. /\ cur \in Threads /\ Processing /\ ~undefined /\ CondTableTypeOK
      /\ sys[cur] = "AcquireUserLock" /\ pc[cur] = "run" /\ index \in UserLocks
  BY CallerFacts DEF TableInv, UsesLock
<1>2. /\ DoAcquire(index) /\ UNCHANGED condQueue
      /\ UNCHANGED <<lockCount, lockDeleteFlag, lockIsDeleted, lockFreed, undefined>>
      /\ UNCHANGED <<condCount, condDeleteFlag, condIsDeleted, condFreed, condIndex>>
  BY DEF Acquire, condVars, tableVars, condTableVars
<1>3. /\ sys' \in [Threads -> LockPlaces \cup CondPlaces] /\ sys'[cur] = "user"
      /\ lockIndex' \in [Threads -> LockIndices \cup {NoIndex}]
      /\ \A t \in Threads \ {cur} : sys'[t] = sys[t] /\ lockIndex'[t] = lockIndex[t]
  BY <1>1, GoesTo DEF SysReturn, CondTableTypeOK, TableTypeOK, LockPlaces
<1>4. /\ \A t \in Threads \ {cur} :
           pc'[t] = pc[t] /\ argLock'[t] = argLock[t] /\ argCond'[t] = argCond[t]
      /\ \A k \in Locks \ {index} : lockOwner'[k] = lockOwner[k] /\ lockStatus'[k] = lockStatus[k]
      /\ lockStatus'[index] = "BUSY"
      /\ pc'[cur] = "run" \/ (pc'[cur] = "Acquire" /\ argLock'[cur] = index)
  BY <1>1, <1>2, AcquireMoves, TableLocksFacts DEF TableInv
<1>5. CondTableTypeOK'
  BY <1>1, <1>2, <1>3 DEF IInv, CondTableTypeOK, TableTypeOK
<1>6. IndicesAreValid' /\ OperationsAgree'
  BY <1>1, <1>2, <1>3, <1>4, OthersKeepTheirArguments DEF UsesLock, UsesCond
<1>7. TablesGuarded'
  BY <1>1, <1>3, <1>4, TableLocksFacts, OutsideKeepsGuard DEF TableCalls, CondCalls
<1>8. ASSUME NEW i \in UserLocks, LockPutOff(i)' PROVE LockPutOff(i) /\ ~LooksAtLock(cur, i)
  BY <1>1, <1>2, <1>4, <1>8, TableLocksFacts DEF LockPutOff, LooksAtLock
<1>9. NoCondDestroyForgotten'
  BY <1>1, <1>2, <1>3, <1>4, <1>8, NothingIsForgotten DEF CondPutOff, LooksAtCond
<1> QED BY <1>5, <1>6, <1>7, <1>9 DEF TableInv

\* userLock->Release(): the caller will look at the mark of the lock.
LEMMA ReleaseUserLockKeepsInv ==
  ASSUME TableInv, IInv', InCall("ReleaseUserLock"), Release(index), SysGoto("CheckDestroy"),
         UNCHANGED <<tableVars, undefined, condTableVars, condIndex>>
  PROVE  TableInv'
<1> PICK cur \in Threads : cur = currentThread
  BY DispatcherFacts DEF TableInv
<1>1. /\ cur \in Threads /\ Processing /\ ~undefined /\ CondTableTypeOK
      /\ sys[cur] = "ReleaseUserLock" /\ pc[cur] = "run" /\ index \in UserLocks
  BY CallerFacts DEF TableInv, UsesLock
<1>2. /\ DoRelease(index) /\ UNCHANGED <<condQueue, pc, argLock, argCond, lockIndex>>
      /\ UNCHANGED <<lockCount, lockDeleteFlag, lockIsDeleted, lockFreed, undefined>>
      /\ UNCHANGED <<condCount, condDeleteFlag, condIsDeleted, condFreed, condIndex>>
  BY DEF Release, SysGoto, condVars, pcVars, tableVars, condTableVars
<1>3. /\ sys' \in [Threads -> LockPlaces \cup CondPlaces] /\ sys'[cur] = "CheckDestroy"
      /\ \A t \in Threads \ {cur} : sys'[t] = sys[t]
  BY <1>1, GoesTo DEF SysGoto, LockPlaces
<1>4. \A k \in Locks \ {index} : lockOwner'[k] = lockOwner[k] /\ lockStatus'[k] = lockStatus[k]
  BY <1>1, <1>2, ReleaseMoves, TableLocksFacts DEF TableInv
<1>5. CondTableTypeOK'
  BY <1>1, <1>2, <1>3 DEF IInv, CondTableTypeOK, TableTypeOK
<1>6. IndicesAreValid' /\ OperationsAgree'
  BY <1>1, <1>2, <1>3, OthersKeepTheirArguments DEF UsesCond, index
<1>7. TablesGuarded'
  BY <1>1, <1>2, <1>3, <1>4, TableLocksFacts, OutsideKeepsGuard DEF TableCalls, CondCalls
<1>8. ASSUME NEW i \in UserLocks, LockPutOff(i)'
      PROVE  LooksAtLock(cur, i)' \/ (LockPutOff(i) /\ ~LooksAtLock(cur, i))
  <2>1. CASE i = index
    BY <1>2, <1>3, <2>1 DEF LooksAtLock, index
  <2>2. CASE i # index
    BY <1>1, <1>2, <1>4, <1>8, <2>2, TableLocksFacts DEF LockPutOff, LooksAtLock
  <2> QED BY <2>1, <2>2
<1>9. NoCondDestroyForgotten'
  BY <1>1, <1>2, <1>3, <1>8, NothingIsForgotten DEF CondPutOff, LooksAtCond
<1> QED BY <1>5, <1>6, <1>7, <1>9 DEF TableInv

\* The releaser destroys a marked lock that it finds free.
LEMMA CheckDestroyKeepsInv ==
  ASSUME TableInv, IInv', InCall("CheckDestroy"), SysReturn,
         \/ ~(lockStatus[index] = "FREE" /\ lockDeleteFlag[index])
            /\ UNCHANGED <<lockIsDeleted, lockFreed>>
         \/ DestroyUserLock(index),
         UNCHANGED <<vars, lockCount, lockDeleteFlag, undefined, condTableVars, condIndex>>
  PROVE  TableInv'
<1> DEFINE cur == currentThread
<1>1. /\ cur \in Threads /\ ~undefined /\ CondTableTypeOK
      /\ sys[cur] = "CheckDestroy" /\ pc[cur] = "run" /\ index \in UserLocks
  BY CallerFacts DEF TableInv, UsesLock
<1>2. /\ UNCHANGED <<condQueue, pc, argLock, argCond, lockOwner, lockStatus>>
      /\ UNCHANGED <<lockCount, lockDeleteFlag, undefined>>
      /\ UNCHANGED <<condCount, condDeleteFlag, condIsDeleted, condFreed, condIndex>>
  BY DEF condVars, pcVars, lockVars, monitorVars, vars, condTableVars
<1>3. /\ sys' \in [Threads -> LockPlaces \cup CondPlaces] /\ sys'[cur] = "user"
      /\ lockIndex' \in [Threads -> LockIndices \cup {NoIndex}]
      /\ \A t \in Threads \ {cur} : sys'[t] = sys[t] /\ lockIndex'[t] = lockIndex[t]
  BY <1>1, GoesTo DEF SysReturn, CondTableTypeOK, TableTypeOK, LockPlaces
<1>4. /\ lockIsDeleted' \in [UserLocks -> BOOLEAN] /\ lockFreed' \subseteq UserLocks
      /\ \A i \in UserLocks \ {index} : lockIsDeleted'[i] = lockIsDeleted[i]
      /\ lockIsDeleted'[index] \/ ~(lockStatus[index] = "FREE" /\ lockDeleteFlag[index])
  BY <1>1 DEF DestroyUserLock, CondTableTypeOK, TableTypeOK
<1>5. CondTableTypeOK'
  BY <1>1, <1>2, <1>3, <1>4 DEF IInv, CondTableTypeOK, TableTypeOK
<1>6. IndicesAreValid' /\ OperationsAgree'
  BY <1>1, <1>2, <1>3, OthersKeepTheirArguments DEF UsesLock, UsesCond
<1>7. TablesGuarded'
  BY <1>1, <1>2, <1>3, OutsideKeepsGuard DEF TableCalls, CondCalls
<1>8. ASSUME NEW i \in UserLocks, LockPutOff(i)' PROVE LockPutOff(i) /\ ~LooksAtLock(cur, i)
  <2>1. i # index
    BY <1>2, <1>4, <1>8 DEF LockPutOff
  <2> QED BY <1>1, <1>2, <1>4, <1>8, <2>1 DEF LockPutOff, LooksAtLock, index
<1>9. NoCondDestroyForgotten'
  BY <1>1, <1>2, <1>3, <1>8, NothingIsForgotten DEF CondPutOff, LooksAtCond
<1> QED BY <1>5, <1>6, <1>7, <1>9 DEF TableInv

\* Steps that leave all places, locks, queues and slots alone: time slices,
\* new threads, the end of the machine, and the use of a destroyed object.
LEMMA NothingMoves ==
  ASSUME TableInv, IInv', undefined' \in {undefined, TRUE},
         UNCHANGED <<monitorVars, tableVars, sysVars, condTableVars, condIndex>>
  PROVE  TableInv'
<1>1. /\ UNCHANGED <<condQueue, pc, argLock, argCond, lockOwner, lockStatus, sys, lockIndex>>
      /\ UNCHANGED <<lockCount, lockDeleteFlag, lockIsDeleted, lockFreed>>
      /\ UNCHANGED <<condCount, condDeleteFlag, condIsDeleted, condFreed, condIndex>>
  BY DEF monitorVars, lockVars, condVars, pcVars, tableVars, sysVars, condTableVars
<1>2. CondTableTypeOK'
  BY <1>1 DEF TableInv, IInv, CondTableTypeOK, TableTypeOK
<1>3. IndicesAreValid' /\ OperationsAgree' /\ TablesGuarded'
  BY <1>1 DEF TableInv, IndicesAreValid, OperationsAgree, TablesGuarded, Guarded
<1>4. NoCondDestroyForgotten'
  <2>1. CASE undefined' = TRUE
    BY <2>1 DEF NoCondDestroyForgotten, NoDestroyForgotten
  <2>2. CASE undefined' = undefined
    BY <1>1, <2>2 DEF TableInv, NoCondDestroyForgotten, NoDestroyForgotten
  <2> QED BY <2>1, <2>2
<1> QED BY <1>2, <1>3, <1>4 DEF TableInv

\* The kernel operations that bring a thread back into a call, or end it.
LEMMA ReturnsKeepInv ==
  ASSUME TableInv, IInv', ~undefined,
         AcquireReturn \/ (InCall("user") /\ Finish),
         UNCHANGED <<lockTableVars, condTableVars, condIndex>>
  PROVE  TableInv'
<1> PICK cur \in Threads : cur = currentThread
  BY DispatcherFacts DEF TableInv
<1>1. /\ UNCHANGED <<condQueue, lockOwner, lockStatus, sys, lockIndex, undefined>>
      /\ UNCHANGED <<lockCount, lockDeleteFlag, lockIsDeleted, lockFreed>>
      /\ UNCHANGED <<condCount, condDeleteFlag, condIsDeleted, condFreed, condIndex>>
  BY DEF AcquireReturn, Finish, lockVars, condVars, lockTableVars, tableVars, sysVars, condTableVars
<1>2. /\ cur \in Threads /\ CondTableTypeOK /\ TypeOK
      /\ \/ pc[cur] = "Acquire" /\ Return /\ status[cur] # "BLOCKED"
         \/ pc[cur] = "run" /\ sys[cur] = "user" /\ Goto("finished", NoLock, NoCond)
  BY DispatcherFacts DEF TableInv, IInv, AcquireReturn, Finish, InCall, At, Processing
<1>3. /\ pc'[cur] \in {"run", "finished"} /\ pc[cur] # "Wait"
      /\ pc'[cur] = "finished" => sys[cur] = "user"
      /\ \A t \in Threads \ {cur} :
           pc'[t] = pc[t] /\ argLock'[t] = argLock[t] /\ argCond'[t] = argCond[t]
  BY <1>2 DEF Return, Goto, TypeOK
<1>4. CondTableTypeOK'
  BY <1>1, <1>2 DEF IInv, CondTableTypeOK, TableTypeOK
<1>5. IndicesAreValid' /\ OperationsAgree'
  BY <1>1, <1>2, <1>3, OthersKeepTheirArguments DEF TableInv, IndicesAreValid
<1>6. ASSUME NEW L \in TableLocks PROVE Guarded(L, CallsUnder(L))'
  <2>1. Guarded(L, CallsUnder(L)) /\ "user" \notin CallsUnder(L)
    BY TableLocksFacts DEF TableInv, CallsUnder, TableCalls, CondCalls
  <2>2. pc[cur] = "Acquire" /\ argLock[cur] = L => lockOwner[L] = cur
    BY <1>2 DEF TableInv, IInv, LocksConsistent
  <2>3. sys[cur] \in CallsUnder(L) => pc'[cur] = "run" /\ lockOwner[L] = cur
    BY <1>2, <1>3, <2>1, <2>2 DEF Guarded
  <2> QED BY <1>1, <1>3, <2>1, <2>3 DEF Guarded
<1>7. TablesGuarded'
  BY <1>6 DEF TablesGuarded, TableLocks, CallsUnder
<1>8. ASSUME NEW i \in UserLocks, LockPutOff(i)'
      PROVE  LooksAtLock(cur, i)' \/ (LockPutOff(i) /\ ~LooksAtLock(cur, i))
  BY <1>1, <1>3, <1>8 DEF LockPutOff, LooksAtLock
<1>9. ASSUME NEW c \in UserConds, CondPutOff(c)'
      PROVE  LooksAtCond(cur, c)' \/ (CondPutOff(c) /\ ~LooksAtCond(cur, c))
  BY <1>1, <1>9 DEF CondPutOff, LooksAtCond
<1>10. NoCondDestroyForgotten'
  BY <1>1, <1>2, <1>3, <1>8, <1>9, NothingIsForgotten
<1> QED BY <1>4, <1>5, <1>7, <1>10 DEF TableInv

----------------------------------------------------------------------------
(***************************************************************************)
(* The condition system calls.                                             *)
(***************************************************************************)
\* condsLock->Acquire() at the beginning of a condition call.
LEMMA BeginCondCallKeepsInv ==
  ASSUME TableInv, IInv', NEW call \in CondCalls, NEW i \in LockArguments(call),
         NEW c \in CondArguments(call), BeginCondCall(call, i, c)
  PROVE  TableInv'
<1> DEFINE cur == currentThread
<1>1. /\ InCall("user") /\ Acquire(condsLock)
      /\ sys' = [sys EXCEPT ![cur] = call]
      /\ lockIndex' = [lockIndex EXCEPT ![cur] = i] /\ condIndex' = [condIndex EXCEPT ![cur] = c]
      /\ UNCHANGED <<lockCount, lockDeleteFlag, lockIsDeleted, lockFreed, undefined>>
      /\ UNCHANGED <<condCount, condDeleteFlag, condIsDeleted, condFreed>>
  BY DEF BeginCondCall, tableVars, condTableVars
<1>2. cur \in Threads /\ sys[cur] = "user" /\ pc[cur] = "run" /\ ~undefined /\ CondTableTypeOK
  BY <1>1, CallerFacts DEF TableInv
<1>3. /\ lockIndex' \in [Threads -> LockIndices \cup {NoIndex}]
      /\ condIndex' \in [Threads -> CondIndices \cup {NoIndex}]
      /\ \A t \in Threads \ {cur} : lockIndex'[t] = lockIndex[t] /\ condIndex'[t] = condIndex[t]
  BY <1>1, <1>2 DEF LockArguments, CondArguments, CondTableTypeOK, TableTypeOK
<1>4. call \in CallsUnder(condsLock) /\ condsLock \in TableLocks
  BY TableLocksFacts DEF CallsUnder, TableLocks
<1>5. /\ pc'[cur] # "Wait"
      /\ sys' \in [Threads -> LockPlaces \cup CondPlaces] /\ sys'[cur] = call
      /\ \A t \in Threads \ {cur} :
           pc'[t] = pc[t] /\ argLock'[t] = argLock[t] /\ sys'[t] = sys[t]
      /\ UNCHANGED condQueue
      /\ \A k \in UserLocks : lockStatus'[k] = lockStatus[k]
      /\ IndicesAreValid' /\ OperationsAgree' /\ TablesGuarded'
  BY <1>1, <1>3, <1>4, CallBegins
<1>6. CondTableTypeOK'
  BY <1>1, <1>2, <1>3, <1>5 DEF IInv, CondTableTypeOK, TableTypeOK
<1>7. NoCondDestroyForgotten'
  BY <1>1, <1>2, <1>3, <1>5, NothingIsForgotten
     DEF LockPutOff, CondPutOff, LooksAtLock, LooksAtCond
<1> QED BY <1>5, <1>6, <1>7 DEF TableInv

\* CreateCondition_sys, which makes a new slot, and its failure.
LEMMA CreateConditionKeepsInv ==
  ASSUME TableInv, IInv', CreateCondition \/ CreateConditionFails
  PROVE  TableInv'
<1> DEFINE cur == currentThread
<1>1. /\ InCall("CreateCondition") /\ UnlockConds("user")
      /\ UNCHANGED <<lockCount, lockDeleteFlag, lockIsDeleted, lockFreed, condFreed>>
      /\ \/ UNCHANGED <<condCount, condDeleteFlag, condIsDeleted>>
         \/ /\ condCount # MaxCondCount
            /\ condCount' = condCount + 1
            /\ condDeleteFlag' = [condDeleteFlag EXCEPT ![condCount] = FALSE]
            /\ condIsDeleted' = [condIsDeleted EXCEPT ![condCount] = FALSE]
  BY DEF CreateCondition, CreateConditionFails, tableVars, condTableVars
<1>2. sys[cur] = "CreateCondition" /\ pc[cur] = "run" /\ ~undefined /\ CondTableTypeOK
  BY <1>1, CallerFacts DEF TableInv
<1>3. /\ cur \in Threads
      /\ UNCHANGED <<pc, argLock, condQueue, undefined>>
      /\ sys' \in [Threads -> LockPlaces \cup CondPlaces]
      /\ lockIndex' \in [Threads -> LockIndices \cup {NoIndex}]
      /\ condIndex' \in [Threads -> CondIndices \cup {NoIndex}]
      /\ sys'[cur] = "user"
      /\ \A t \in Threads \ {cur} :
           sys'[t] = sys[t] /\ lockIndex'[t] = lockIndex[t] /\ condIndex'[t] = condIndex[t]
      /\ \A i \in UserLocks : lockStatus'[i] = lockStatus[i]
      /\ IndicesAreValid' /\ OperationsAgree' /\ TablesGuarded'
  BY <1>1, CondCallEnds DEF CondCalls
<1>4. /\ condCount' \in 0..MaxCondCount
      /\ condDeleteFlag' \in [UserConds -> BOOLEAN] /\ condIsDeleted' \in [UserConds -> BOOLEAN]
      /\ \A c \in UserConds : condDeleteFlag'[c] => condDeleteFlag[c] /\ condIsDeleted'[c] = condIsDeleted[c]
  <2>1. condCount \in 0..MaxCondCount /\ condDeleteFlag \in [UserConds -> BOOLEAN]
        /\ condIsDeleted \in [UserConds -> BOOLEAN]
    BY <1>2 DEF CondTableTypeOK
  <2>2. CASE UNCHANGED <<condCount, condDeleteFlag, condIsDeleted>>
    BY <2>1, <2>2
  <2>3. CASE /\ condCount # MaxCondCount
             /\ condCount' = condCount + 1
             /\ condDeleteFlag' = [condDeleteFlag EXCEPT ![condCount] = FALSE]
             /\ condIsDeleted' = [condIsDeleted EXCEPT ![condCount] = FALSE]
    <3>1. condCount + 1 \in 0..MaxCondCount /\ condCount \in UserConds
      BY <2>1, <2>3 DEF UserConds
    <3> QED BY <2>1, <2>3, <3>1
  <2> QED BY <1>1, <2>2, <2>3
<1>5. CondTableTypeOK'
  BY <1>1, <1>2, <1>3, <1>4 DEF IInv, CondTableTypeOK, TableTypeOK
<1>6. NoCondDestroyForgotten'
  BY <1>1, <1>2, <1>3, <1>4, NothingIsForgotten
     DEF LockPutOff, CondPutOff, LooksAtLock, LooksAtCond
<1> QED BY <1>3, <1>5, <1>6 DEF TableInv

\* The checks of Wait_sys, Signal_sys and Broadcast_sys, and a
\* DestroyCondition_sys that is refused, change no slot.
LEMMA CondChecksKeepInv ==
  ASSUME TableInv, IInv',
         \/ CondChecks("Wait", "WaitUserCond")
         \/ CondChecks("Signal", "SignalUserCond")
         \/ CondChecks("Broadcast", "BroadcastUserCond")
         \/ DestroyConditionRefused
  PROVE  TableInv'
<1> DEFINE cur == currentThread
<1>1. PICK call \in CondCalls, place \in {"user", "WaitUserCond", "SignalUserCond", "BroadcastUserCond"} :
        /\ InCall(call) /\ UnlockConds(place)
        /\ place # "user" => ValidLock /\ ValidCond
  BY DEF CondChecks, ArgumentsAlive, DestroyConditionRefused, CondCalls
<1>2. /\ UNCHANGED <<lockCount, lockDeleteFlag, lockIsDeleted, lockFreed>>
      /\ UNCHANGED <<condCount, condDeleteFlag, condIsDeleted, condFreed>>
  BY DEF CondChecks, DestroyConditionRefused, tableVars, condTableVars
<1>3. cur \in Threads /\ sys[cur] = call /\ pc[cur] = "run" /\ ~undefined /\ CondTableTypeOK
  BY <1>1, CallerFacts DEF TableInv
<1>4. place # "user" => index \in UserLocks /\ cond \in UserConds
  BY <1>1, <1>3, ValidIndices
<1>5. /\ UNCHANGED <<pc, argLock, condQueue, undefined>>
      /\ sys' \in [Threads -> LockPlaces \cup CondPlaces]
      /\ lockIndex' \in [Threads -> LockIndices \cup {NoIndex}]
      /\ condIndex' \in [Threads -> CondIndices \cup {NoIndex}]
      /\ sys'[cur] = place
      /\ \A t \in Threads \ {cur} :
           sys'[t] = sys[t] /\ lockIndex'[t] = lockIndex[t] /\ condIndex'[t] = condIndex[t]
      /\ \A i \in UserLocks : lockStatus'[i] = lockStatus[i]
      /\ IndicesAreValid' /\ OperationsAgree' /\ TablesGuarded'
  BY <1>1, <1>4, CondCallEnds
<1>6. CondTableTypeOK'
  BY <1>2, <1>3, <1>5 DEF IInv, CondTableTypeOK, TableTypeOK
<1>7. NoCondDestroyForgotten'
  BY <1>2, <1>3, <1>5, NothingIsForgotten
     DEF LockPutOff, CondPutOff, LooksAtLock, LooksAtCond, CondCalls
<1> QED BY <1>5, <1>6, <1>7 DEF TableInv

\* DestroyCondition_sys marks a condition with waiters and destroys any other.
LEMMA DestroyConditionKeepsInv ==
  ASSUME TableInv, IInv', DestroyCondition
  PROVE  TableInv'
<1> DEFINE cur == currentThread
<1>1. /\ InCall("DestroyCondition") /\ ValidCond /\ UnlockConds("user")
      /\ \/ /\ condQueue[cond] # << >>
            /\ condDeleteFlag' = [condDeleteFlag EXCEPT ![cond] = TRUE]
            /\ UNCHANGED <<condIsDeleted, condFreed>>
         \/ /\ condIsDeleted' = [condIsDeleted EXCEPT ![cond] = TRUE]
            /\ condFreed' = condFreed \cup {cond}
            /\ UNCHANGED condDeleteFlag
      /\ UNCHANGED <<lockCount, lockDeleteFlag, lockIsDeleted, lockFreed, condCount>>
  BY DEF DestroyCondition, DestroyUserCond, tableVars
<1>2. /\ sys[cur] = "DestroyCondition" /\ pc[cur] = "run" /\ ~undefined /\ CondTableTypeOK
      /\ cond \in UserConds
  BY <1>1, CallerFacts, ValidIndices DEF TableInv
<1>3. /\ cur \in Threads
      /\ UNCHANGED <<pc, argLock, condQueue, undefined>>
      /\ sys' \in [Threads -> LockPlaces \cup CondPlaces]
      /\ lockIndex' \in [Threads -> LockIndices \cup {NoIndex}]
      /\ condIndex' \in [Threads -> CondIndices \cup {NoIndex}]
      /\ sys'[cur] = "user"
      /\ \A t \in Threads \ {cur} :
           sys'[t] = sys[t] /\ lockIndex'[t] = lockIndex[t] /\ condIndex'[t] = condIndex[t]
      /\ \A i \in UserLocks : lockStatus'[i] = lockStatus[i]
      /\ IndicesAreValid' /\ OperationsAgree' /\ TablesGuarded'
  BY <1>1, CondCallEnds DEF CondCalls
<1>4. /\ condDeleteFlag' \in [UserConds -> BOOLEAN] /\ condIsDeleted' \in [UserConds -> BOOLEAN]
      /\ condFreed' \subseteq UserConds
      /\ \A c \in UserConds \ {cond} :
           condDeleteFlag'[c] = condDeleteFlag[c] /\ condIsDeleted'[c] = condIsDeleted[c]
      /\ condQueue'[cond] # << >> \/ condIsDeleted'[cond]
  BY <1>1, <1>2, <1>3 DEF CondTableTypeOK
<1>5. CondTableTypeOK'
  BY <1>1, <1>2, <1>3, <1>4 DEF IInv, CondTableTypeOK, TableTypeOK
<1>6. ASSUME NEW c \in UserConds, CondPutOff(c)' PROVE CondPutOff(c) /\ ~LooksAtCond(cur, c)
  <2>1. c # cond
    BY <1>4, <1>6 DEF CondPutOff
  <2> QED BY <1>2, <1>3, <1>4, <1>6, <2>1 DEF CondPutOff, LooksAtCond
<1>7. NoCondDestroyForgotten'
  BY <1>1, <1>2, <1>3, <1>6, NothingIsForgotten DEF LockPutOff, LooksAtLock
<1> QED BY <1>3, <1>5, <1>7 DEF TableInv

\* The return of a condition call, with both arguments.
LEMMA CondReturns ==
  ASSUME CondTableTypeOK, currentThread \in Threads, CondReturn
  PROVE  /\ sys' \in [Threads -> LockPlaces \cup CondPlaces]
         /\ lockIndex' \in [Threads -> LockIndices \cup {NoIndex}]
         /\ condIndex' \in [Threads -> CondIndices \cup {NoIndex}]
         /\ sys'[currentThread] = "user"
         /\ \A t \in Threads \ {currentThread} :
              sys'[t] = sys[t] /\ lockIndex'[t] = lockIndex[t] /\ condIndex'[t] = condIndex[t]
         /\ UNCHANGED undefined
BY GoesTo DEF CondReturn, SysReturn, CondTableTypeOK, TableTypeOK, LockPlaces

\* userCond->Wait(userLock): who gives a marked lock up in Wait acquires and
\* releases it again, and a condition with a waiter is not put off.
LEMMA WaitUserCondKeepsInv ==
  ASSUME TableInv, IInv', InCall("WaitUserCond"), Wait(cond, index), CondReturn,
         UNCHANGED <<tableVars, condTableVars>>
  PROVE  TableInv'
<1> PICK cur \in Threads : cur = currentThread
  BY DispatcherFacts DEF TableInv
<1>1. /\ Processing /\ ~undefined /\ CondTableTypeOK /\ TypeOK
      /\ sys[cur] = "WaitUserCond" /\ pc[cur] = "run"
      /\ index \in UserLocks /\ cond \in UserConds
  BY CallerFacts DEF TableInv, IInv, UsesLock, UsesCond
<1>2. /\ DoRelease(index) /\ Goto("Wait", index, cond)
      /\ condQueue' = [condQueue EXCEPT ![cond] = Append(@, cur)]
      /\ UNCHANGED <<lockCount, lockDeleteFlag, lockIsDeleted, lockFreed>>
      /\ UNCHANGED <<condCount, condDeleteFlag, condIsDeleted, condFreed>>
  BY DEF Wait, tableVars, condTableVars
<1>3. /\ sys' \in [Threads -> LockPlaces \cup CondPlaces] /\ sys'[cur] = "user"
      /\ lockIndex' \in [Threads -> LockIndices \cup {NoIndex}]
      /\ condIndex' \in [Threads -> CondIndices \cup {NoIndex}]
      /\ \A t \in Threads \ {cur} :
           sys'[t] = sys[t] /\ lockIndex'[t] = lockIndex[t] /\ condIndex'[t] = condIndex[t]
      /\ UNCHANGED undefined
  BY <1>1, CondReturns
<1>4. /\ pc'[cur] = "Wait" /\ argLock'[cur] = index
      /\ \A t \in Threads \ {cur} :
           pc'[t] = pc[t] /\ argLock'[t] = argLock[t] /\ argCond'[t] = argCond[t]
  BY <1>1, <1>2 DEF Goto, TypeOK
<1>5. \A k \in Locks \ {index} : lockOwner'[k] = lockOwner[k] /\ lockStatus'[k] = lockStatus[k]
  BY <1>1, <1>2, ReleaseMoves, TableLocksFacts DEF TableInv
<1>6. /\ condQueue'[cond] # << >>
      /\ \A c \in UserConds \ {cond} : condQueue'[c] = condQueue[c]
  <2>1. condQueue[cond] \in Seq(Threads) /\ condQueue'[cond] = Append(condQueue[cond], cur)
    BY <1>1, <1>2, TableLocksFacts DEF TypeOK
  <2>2. condQueue'[cond] # << >>
    BY <2>1, QueueAppend
  <2>3. \A c \in UserConds \ {cond} : condQueue'[c] = condQueue[c]
    BY <1>1, <1>2, TableLocksFacts DEF TypeOK
  <2> QED BY <2>2, <2>3
<1>7. CondTableTypeOK'
  BY <1>1, <1>2, <1>3 DEF IInv, CondTableTypeOK, TableTypeOK
<1>8. IndicesAreValid' /\ OperationsAgree'
  BY <1>1, <1>3, <1>4, OthersKeepTheirArguments DEF UsesLock, UsesCond
<1>9. TablesGuarded'
  BY <1>1, <1>3, <1>4, <1>5, TableLocksFacts, OutsideKeepsGuard DEF TableCalls, CondCalls
<1>10. ASSUME NEW i \in UserLocks, LockPutOff(i)'
       PROVE  LooksAtLock(cur, i)' \/ (LockPutOff(i) /\ ~LooksAtLock(cur, i))
  <2>1. CASE i = index
    BY <1>4, <2>1 DEF LooksAtLock
  <2>2. CASE i # index
    BY <1>1, <1>2, <1>5, <1>10, <2>2, TableLocksFacts DEF LockPutOff, LooksAtLock
  <2> QED BY <2>1, <2>2
<1>11. ASSUME NEW c \in UserConds, CondPutOff(c)' PROVE CondPutOff(c) /\ ~LooksAtCond(cur, c)
  BY <1>1, <1>2, <1>6, <1>11 DEF CondPutOff, LooksAtCond
<1>12. NoCondDestroyForgotten'
  BY <1>1, <1>3, <1>4, <1>10, <1>11, NothingIsForgotten
<1> QED BY <1>7, <1>8, <1>9, <1>12 DEF TableInv

\* A Wait that is refused because of its lock only returns.
LEMMA WaitRefusedKeepsInv ==
  ASSUME TableInv, IInv', InCall("WaitUserCond"), UNCHANGED vars, CondReturn,
         UNCHANGED <<tableVars, condTableVars>>
  PROVE  TableInv'
<1> DEFINE cur == currentThread
<1>1. /\ cur \in Threads /\ ~undefined /\ CondTableTypeOK
      /\ sys[cur] = "WaitUserCond" /\ pc[cur] = "run"
  BY CallerFacts DEF TableInv
<1>2. /\ UNCHANGED <<condQueue, pc, argLock, argCond, lockOwner, lockStatus>>
      /\ UNCHANGED <<lockCount, lockDeleteFlag, lockIsDeleted, lockFreed>>
      /\ UNCHANGED <<condCount, condDeleteFlag, condIsDeleted, condFreed>>
  BY DEF vars, monitorVars, lockVars, condVars, pcVars, tableVars, condTableVars
<1>3. /\ sys' \in [Threads -> LockPlaces \cup CondPlaces] /\ sys'[cur] = "user"
      /\ lockIndex' \in [Threads -> LockIndices \cup {NoIndex}]
      /\ condIndex' \in [Threads -> CondIndices \cup {NoIndex}]
      /\ \A t \in Threads \ {cur} :
           sys'[t] = sys[t] /\ lockIndex'[t] = lockIndex[t] /\ condIndex'[t] = condIndex[t]
      /\ UNCHANGED undefined
  BY <1>1, CondReturns
<1>4. CondTableTypeOK'
  BY <1>1, <1>2, <1>3 DEF IInv, CondTableTypeOK, TableTypeOK
<1>5. IndicesAreValid' /\ OperationsAgree'
  BY <1>1, <1>2, <1>3, OthersKeepTheirArguments DEF UsesLock, UsesCond
<1>6. TablesGuarded'
  BY <1>1, <1>2, <1>3, OutsideKeepsGuard DEF TableCalls, CondCalls
<1>7. NoCondDestroyForgotten'
  BY <1>1, <1>2, <1>3, NothingIsForgotten
     DEF LockPutOff, CondPutOff, LooksAtLock, LooksAtCond
<1> QED BY <1>4, <1>5, <1>6, <1>7 DEF TableInv

\* The lock of the waiter is free or busy when Wait acquires it again; in
\* either case it is busy afterwards.
LEMMA WaitReacquireKeepsInv ==
  ASSUME TableInv, IInv', ~undefined, WaitReacquire,
         UNCHANGED <<lockTableVars, condTableVars, condIndex>>
  PROVE  TableInv'
<1> DEFINE cur == currentThread
           l == argLock[currentThread]
<1>1. /\ cur \in Threads /\ Processing /\ CondTableTypeOK
      /\ pc[cur] = "Wait" /\ l \in UserLocks /\ sys[cur] = "user"
      /\ DoAcquire(l)
  BY DispatcherFacts DEF TableInv, OperationsAgree, WaitReacquire, At
<1>2. /\ UNCHANGED <<condQueue, sys, lockIndex, undefined>>
      /\ UNCHANGED <<lockCount, lockDeleteFlag, lockIsDeleted, lockFreed>>
      /\ UNCHANGED <<condCount, condDeleteFlag, condIsDeleted, condFreed, condIndex>>
  BY DEF WaitReacquire, condVars, lockTableVars, tableVars, sysVars, condTableVars
<1>3. /\ \A t \in Threads \ {cur} :
           pc'[t] = pc[t] /\ argLock'[t] = argLock[t] /\ argCond'[t] = argCond[t]
      /\ \A k \in Locks \ {l} : lockOwner'[k] = lockOwner[k] /\ lockStatus'[k] = lockStatus[k]
      /\ lockStatus'[l] = "BUSY"
      /\ pc'[cur] = "run" \/ (pc'[cur] = "Acquire" /\ argLock'[cur] = l)
  <2> HIDE DEF l
  <2> QED BY <1>1, AcquireMoves, TableLocksFacts DEF TableInv
<1>4. CondTableTypeOK'
  BY <1>1, <1>2 DEF IInv, CondTableTypeOK, TableTypeOK
<1>5. IndicesAreValid' /\ OperationsAgree'
  BY <1>1, <1>2, <1>3, OthersKeepTheirArguments DEF UsesLock, UsesCond
<1>6. TablesGuarded'
  BY <1>1, <1>2, <1>3, TableLocksFacts, OutsideKeepsGuard DEF TableCalls, CondCalls
<1>7. ASSUME NEW i \in UserLocks, LockPutOff(i)' PROVE LockPutOff(i) /\ ~LooksAtLock(cur, i)
  <2>1. i # l
    BY <1>3, <1>7 DEF LockPutOff
  <2> QED BY <1>1, <1>2, <1>3, <1>7, <2>1, TableLocksFacts DEF LockPutOff, LooksAtLock
<1>8. NoCondDestroyForgotten'
  BY <1>1, <1>2, <1>3, <1>7, NothingIsForgotten DEF CondPutOff, LooksAtCond
<1> QED BY <1>4, <1>5, <1>6, <1>8 DEF TableInv

\* What Signal changes: one queue, of the given condition.
LEMMA SignalMoves ==
  ASSUME TypeOK, NEW c \in Conds, NEW l, DoSignal(c, l)
  PROVE  \A d \in Conds \ {c} : condQueue'[d] = condQueue[d]
BY DEF DoSignal, TypeOK, condVars

\* userCond->Signal(userLock) and userCond->Broadcast(userLock): the caller
\* will look at the mark of the condition.
LEMMA SignalUserCondKeepsInv ==
  ASSUME TableInv, IInv',
         NEW place \in {"SignalUserCond", "BroadcastUserCond"}, InCall(place),
         \/ place = "SignalUserCond" /\ Signal(cond, index) /\ CondGoto("CheckSignalled")
         \/ place = "BroadcastUserCond" /\ Broadcast(cond, index) /\ CondGoto("CheckBroadcast"),
         UNCHANGED <<tableVars, condTableVars>>
  PROVE  TableInv'
<1> PICK cur \in Threads : cur = currentThread
  BY DispatcherFacts DEF TableInv
<1>1. /\ ~undefined /\ CondTableTypeOK /\ TypeOK
      /\ sys[cur] = place /\ pc[cur] = "run"
      /\ index \in UserLocks /\ cond \in UserConds
  BY CallerFacts DEF TableInv, IInv, UsesLock, UsesCond
<1>2. /\ UNCHANGED <<lockOwner, lockStatus, lockIndex, condIndex, undefined>>
      /\ UNCHANGED <<lockCount, lockDeleteFlag, lockIsDeleted, lockFreed>>
      /\ UNCHANGED <<condCount, condDeleteFlag, condIsDeleted, condFreed>>
  BY DEF Signal, Broadcast, CondGoto, SysGoto, lockVars, tableVars, condTableVars
<1>3. PICK next \in {"CheckSignalled", "CheckBroadcast"} :
        /\ sys' = [sys EXCEPT ![cur] = next]
        /\ place = "BroadcastUserCond" => next = "CheckBroadcast"
  BY DEF CondGoto, SysGoto
<1>4. /\ sys' \in [Threads -> LockPlaces \cup CondPlaces] /\ sys'[cur] = next
      /\ \A t \in Threads \ {cur} : sys'[t] = sys[t]
  BY <1>1, <1>3, GoesTo DEF CondPlaces
<1>5. \A c \in UserConds \ {cond} : condQueue'[c] = condQueue[c]
  BY <1>1, SignalMoves, TableLocksFacts DEF Signal, Broadcast, condVars
<1>6. /\ \A t \in Threads \ {cur} :
           pc'[t] = pc[t] /\ argLock'[t] = argLock[t] /\ argCond'[t] = argCond[t]
      /\ \/ pc'[cur] = "run"
         \/ pc'[cur] = "Broadcast" /\ place = "BroadcastUserCond" /\ argCond'[cur] = cond
  BY <1>1 DEF Signal, Broadcast, Goto, pcVars, TypeOK
<1>7. CondTableTypeOK'
  BY <1>1, <1>2, <1>4 DEF IInv, CondTableTypeOK, TableTypeOK
<1>8. IndicesAreValid' /\ OperationsAgree'
  BY <1>1, <1>2, <1>3, <1>4, <1>6, OthersKeepTheirArguments DEF UsesLock, UsesCond, cond
<1>9. TablesGuarded'
  BY <1>1, <1>2, <1>4, <1>6, OutsideKeepsGuard DEF TableCalls, CondCalls
<1>10. ASSUME NEW i \in UserLocks, LockPutOff(i)' PROVE LockPutOff(i) /\ ~LooksAtLock(cur, i)
  BY <1>1, <1>2, <1>10 DEF LockPutOff, LooksAtLock
<1>11. ASSUME NEW c \in UserConds, CondPutOff(c)'
       PROVE  LooksAtCond(cur, c)' \/ (CondPutOff(c) /\ ~LooksAtCond(cur, c))
  <2>1. CASE c = cond
    BY <1>2, <1>4, <2>1 DEF LooksAtCond, cond
  <2>2. CASE c # cond
    BY <1>1, <1>2, <1>5, <1>11, <2>2 DEF CondPutOff, LooksAtCond
  <2> QED BY <2>1, <2>2
<1>12. NoCondDestroyForgotten'
  BY <1>1, <1>2, <1>4, <1>6, <1>10, <1>11, NothingIsForgotten
<1> QED BY <1>7, <1>8, <1>9, <1>12 DEF TableInv

\* The loop of Condition::Broadcast, whose caller has yet to look at the mark.
LEMMA BroadcastGoesOnKeepsInv ==
  ASSUME TableInv, IInv', ~undefined, BroadcastSignal \/ BroadcastReturn,
         UNCHANGED <<lockTableVars, condTableVars, condIndex>>
  PROVE  TableInv'
<1> PICK cur \in Threads : cur = currentThread
  BY DispatcherFacts DEF TableInv
<1>1. /\ CondTableTypeOK /\ TypeOK
      /\ pc[cur] = "Broadcast" /\ sys[cur] = "CheckBroadcast" /\ condIndex[cur] = argCond[cur]
      /\ argCond[cur] \in UserConds
  BY DEF TableInv, IInv, IndicesAreValid, OperationsAgree, BroadcastSignal, BroadcastReturn, At,
         UsesCond
<1>2. /\ UNCHANGED <<lockOwner, lockStatus, sys, lockIndex, undefined>>
      /\ UNCHANGED <<lockCount, lockDeleteFlag, lockIsDeleted, lockFreed>>
      /\ UNCHANGED <<condCount, condDeleteFlag, condIsDeleted, condFreed, condIndex>>
  BY DEF BroadcastSignal, BroadcastReturn, lockVars, lockTableVars, tableVars, sysVars, condTableVars
<1>3. \A c \in UserConds \ {argCond[cur]} : condQueue'[c] = condQueue[c]
  <2>1. argCond[cur] \in Conds
    BY <1>1, TableLocksFacts
  <2>2. CASE BroadcastSignal
    <3>1. DoSignal(argCond[cur], argLock[cur])
      BY <2>2 DEF BroadcastSignal
    <3>2. \A d \in Conds \ {argCond[cur]} : condQueue'[d] = condQueue[d]
      BY <1>1, <2>1, <3>1, SignalMoves
    <3> QED BY <3>2, TableLocksFacts
  <2>3. CASE BroadcastReturn
    BY <2>3 DEF BroadcastReturn, condVars
  <2> QED BY <2>2, <2>3
<1>4. /\ \A t \in Threads \ {cur} :
           pc'[t] = pc[t] /\ argLock'[t] = argLock[t] /\ argCond'[t] = argCond[t]
      /\ pc'[cur] = "run" \/ (pc'[cur] = "Broadcast" /\ argCond'[cur] = argCond[cur])
  BY <1>1 DEF BroadcastSignal, BroadcastReturn, Return, Goto, pcVars, TypeOK
<1>5. CondTableTypeOK'
  BY <1>1, <1>2 DEF IInv, CondTableTypeOK, TableTypeOK
<1>6. IndicesAreValid' /\ OperationsAgree'
  BY <1>1, <1>2, <1>4, OthersKeepTheirArguments DEF UsesLock, UsesCond
<1>7. TablesGuarded'
  BY <1>1, <1>2, <1>4, OutsideKeepsGuard DEF TableCalls, CondCalls
<1>8. ASSUME NEW i \in UserLocks, LockPutOff(i)' PROVE LockPutOff(i) /\ ~LooksAtLock(cur, i)
  BY <1>1, <1>2, <1>8 DEF LockPutOff, LooksAtLock
<1>9. ASSUME NEW c \in UserConds, CondPutOff(c)'
      PROVE  LooksAtCond(cur, c)' \/ (CondPutOff(c) /\ ~LooksAtCond(cur, c))
  <2>1. CASE c = argCond[cur]
    BY <1>1, <1>2, <2>1 DEF LooksAtCond
  <2>2. CASE c # argCond[cur]
    BY <1>1, <1>2, <1>3, <1>9, <2>2 DEF CondPutOff, LooksAtCond
  <2> QED BY <2>1, <2>2
<1>10. NoCondDestroyForgotten'
  BY <1>2, <1>4, <1>8, <1>9, NothingIsForgotten
<1> QED BY <1>5, <1>6, <1>7, <1>10 DEF TableInv

\* The signaller or broadcaster destroys a marked condition; the signaller
\* only one without waiters.
LEMMA CheckMarkKeepsInv ==
  ASSUME TableInv, IInv', InCall("CheckSignalled") \/ InCall("CheckBroadcast"), CondReturn,
         \/ ~(condDeleteFlag[cond] /\ condQueue[cond] = << >>)
            /\ UNCHANGED <<condIsDeleted, condFreed>>
         \/ DestroyUserCond,
         UNCHANGED <<vars, tableVars, condCount, condDeleteFlag>>
  PROVE  TableInv'
<1> DEFINE cur == currentThread
<1>1. /\ cur \in Threads /\ ~undefined /\ CondTableTypeOK
      /\ sys[cur] \in {"CheckSignalled", "CheckBroadcast"} /\ pc[cur] = "run"
      /\ cond \in UserConds
  BY CallerFacts DEF TableInv, UsesCond
<1>2. /\ UNCHANGED <<condQueue, pc, argLock, argCond, lockOwner, lockStatus>>
      /\ UNCHANGED <<lockCount, lockDeleteFlag, lockIsDeleted, lockFreed>>
      /\ UNCHANGED <<condCount, condDeleteFlag>>
  BY DEF condVars, pcVars, lockVars, monitorVars, vars, tableVars
<1>3. /\ sys' \in [Threads -> LockPlaces \cup CondPlaces] /\ sys'[cur] = "user"
      /\ lockIndex' \in [Threads -> LockIndices \cup {NoIndex}]
      /\ condIndex' \in [Threads -> CondIndices \cup {NoIndex}]
      /\ \A t \in Threads \ {cur} :
           sys'[t] = sys[t] /\ lockIndex'[t] = lockIndex[t] /\ condIndex'[t] = condIndex[t]
      /\ UNCHANGED undefined
  BY <1>1, CondReturns
<1>4. /\ condIsDeleted' \in [UserConds -> BOOLEAN] /\ condFreed' \subseteq UserConds
      /\ \A c \in UserConds \ {cond} : condIsDeleted'[c] = condIsDeleted[c]
      /\ condIsDeleted'[cond] \/ ~(condDeleteFlag[cond] /\ condQueue[cond] = << >>)
  BY <1>1 DEF DestroyUserCond, CondTableTypeOK
<1>5. CondTableTypeOK'
  BY <1>1, <1>2, <1>3, <1>4 DEF IInv, CondTableTypeOK, TableTypeOK
<1>6. IndicesAreValid' /\ OperationsAgree'
  BY <1>1, <1>2, <1>3, OthersKeepTheirArguments DEF UsesLock, UsesCond
<1>7. TablesGuarded'
  BY <1>1, <1>2, <1>3, OutsideKeepsGuard DEF TableCalls, CondCalls
<1>8. ASSUME NEW c \in UserConds, CondPutOff(c)' PROVE CondPutOff(c) /\ ~LooksAtCond(cur, c)
  <2>1. c # cond
    BY <1>2, <1>4, <1>8 DEF CondPutOff
  <2> QED BY <1>1, <1>2, <1>4, <1>8, <2>1 DEF CondPutOff, LooksAtCond, cond
<1>9. NoCondDestroyForgotten'
  BY <1>1, <1>2, <1>3, <1>8, NothingIsForgotten DEF LockPutOff, LooksAtLock
<1> QED BY <1>5, <1>6, <1>7, <1>9 DEF TableInv

----------------------------------------------------------------------------
(***************************************************************************)
(* The theorems.                                                           *)
(***************************************************************************)
\* The program begins with some locks and conditions, and in no call.
LEMMA TableInitInv == CondTableInit => TableInv
<1> SUFFICES ASSUME CondTableInit PROVE TableInv
  OBVIOUS
<1> USE DEF CondTableInit, LockTableInit
<1>1. IInv
  BY InitIInv
<1>2. CondTableTypeOK
  <2>1. lockCount \in 0..MaxLockCount /\ condCount \in 0..MaxCondCount
    OBVIOUS
  <2>2. "user" \in LockPlaces
    BY DEF LockPlaces
  <2> QED BY <1>1, <2>1, <2>2 DEF IInv, CondTableTypeOK, TableTypeOK
<1>3. pc = [t \in Threads |-> "run"] /\ lockOwner = [l \in Locks |-> NoThread]
  BY DEF MonitorInit
<1>4. IndicesAreValid /\ OperationsAgree
  BY <1>3 DEF IndicesAreValid, OperationsAgree, UsesLock, UsesCond
<1>5. TablesGuarded
  BY <1>3, ThreadsAssumption DEF TablesGuarded, Guarded, TableCalls, CondCalls
<1>6. NoCondDestroyForgotten
  BY DEF NoCondDestroyForgotten, NoDestroyForgotten
<1> QED BY <1>1, <1>2, <1>4, <1>5, <1>6 DEF TableInv

\* A step of a lock call is one of the kernel's locks, or halts the machine.
LEMMA LockStepKeepsIInv ==
  ASSUME TableInv, LockTableStep
  PROVE  IInv'
<1>1. ASSUME NEW call, NEW i, BeginLockCall(call, i) PROVE Next
  BY <1>1 DEF BeginLockCall, Next
<1>2. ASSUME NEW place, Unlock(place) PROVE Next
  BY <1>2 DEF Unlock, Next
<1>3. ASSUME CreateLock \/ CreateLockFails \/ AcquireChecks \/ ReleaseChecks
             \/ DestroyLock \/ DestroyLockRefused
      PROVE  Next
  BY <1>2, <1>3 DEF CreateLock, CreateLockFails, AcquireChecks, ReleaseChecks,
                    DestroyLock, DestroyLockRefused
<1>4. ASSUME CreateLockFaults \/ AcquireHalts PROVE IInv'
  BY <1>4, HaltKeepsIInv DEF TableInv, CreateLockFaults, AcquireHalts
<1>5. ASSUME AcquireUserLock PROVE [Next]_vars
  <2>1. index \in Locks
    BY <1>5, CallerFacts, TableLocksFacts DEF AcquireUserLock, UsesLock
  <2> QED BY <1>5, <2>1 DEF AcquireUserLock, UseDestroyed, Next
<1>6. ASSUME ReleaseUserLock PROVE [Next]_vars
  <2>1. index \in Locks
    BY <1>6, CallerFacts, TableLocksFacts DEF ReleaseUserLock, UsesLock
  <2> QED BY <1>6, <2>1 DEF ReleaseUserLock, UseDestroyed, Next
<1>7. ASSUME CheckDestroy PROVE UNCHANGED vars
  BY <1>7 DEF CheckDestroy, UseDestroyed
<1>8. ASSUME LockTableKernel PROVE Next
  BY <1>8 DEF LockTableKernel, Next
<1> QED BY <1>1, <1>3, <1>4, <1>5, <1>6, <1>7, <1>8, NextKeepsIInv
        DEF TableInv, LockTableStep, LockCallStep

\* A step of a condition call is one of the kernel's locks and conditions.
LEMMA CondStepKeepsIInv ==
  ASSUME TableInv, CondCallStep
  PROVE  IInv'
<1>1. ASSUME NEW place, UnlockConds(place) PROVE Next
  BY <1>1 DEF UnlockConds, Next
<1>2. ASSUME CreateCondition \/ CreateConditionFails \/ DestroyCondition \/ DestroyConditionRefused
             \/ CondChecks("Wait", "WaitUserCond") \/ CondChecks("Signal", "SignalUserCond")
             \/ CondChecks("Broadcast", "BroadcastUserCond")
      PROVE  Next
  BY <1>1, <1>2 DEF CreateCondition, CreateConditionFails, DestroyCondition,
                    DestroyConditionRefused, CondChecks
<1>3. ASSUME WaitUserCond PROVE [Next]_vars
  <2>1. index \in LockArgs /\ cond \in Conds
    BY <1>3, CallerFacts, TableLocksFacts DEF WaitUserCond, UsesLock, UsesCond, LockArgs
  <2> QED BY <1>3, <2>1 DEF WaitUserCond, UseDestroyedObject, UseDestroyed, Next
<1>4. ASSUME WaitEnds PROVE [Next]_vars
  BY <1>4 DEF WaitEnds, UseDestroyedObject, UseDestroyed, Next
<1>5. ASSUME SignalUserCond PROVE [Next]_vars
  <2>1. index \in LockArgs /\ cond \in Conds
    BY <1>5, CallerFacts, TableLocksFacts DEF SignalUserCond, UsesLock, UsesCond, LockArgs
  <2> QED BY <1>5, <2>1 DEF SignalUserCond, UseDestroyedObject, UseDestroyed, Next
<1>6. ASSUME BroadcastUserCond PROVE [Next]_vars
  <2>1. index \in LockArgs /\ cond \in Conds
    BY <1>6, CallerFacts, TableLocksFacts DEF BroadcastUserCond, UsesLock, UsesCond, LockArgs
  <2> QED BY <1>6, <2>1 DEF BroadcastUserCond, UseDestroyedObject, UseDestroyed, Next
<1>7. ASSUME BroadcastGoesOn PROVE [Next]_vars
  BY <1>7 DEF BroadcastGoesOn, UseDestroyedObject, UseDestroyed, Next
<1>8. ASSUME CheckSignalled \/ CheckBroadcast PROVE UNCHANGED vars
  BY <1>8 DEF CheckSignalled, CheckBroadcast, UseDestroyedObject, UseDestroyed
<1> QED BY <1>2, <1>3, <1>4, <1>5, <1>6, <1>7, <1>8, NextKeepsIInv DEF TableInv, CondCallStep

\* Every step of the lock calls keeps the invariant.
LEMMA LockTableStepKeepsInv ==
  ASSUME TableInv, LockTableStep
  PROVE  TableInv'
<1> USE LockStepKeepsIInv
<1>1. UNCHANGED <<condTableVars, condIndex>>
  BY DEF LockTableStep
<1>2. ASSUME NEW call \in TableCalls, NEW i \in LockArguments(call), BeginLockCall(call, i)
      PROVE  TableInv'
  BY <1>1, <1>2, BeginLockCallKeepsInv
<1>3. ASSUME CreateLock \/ CreateLockFails PROVE TableInv'
  BY <1>1, <1>3, CreateLockKeepsInv
<1>4. ASSUME AcquireChecks \/ ReleaseChecks \/ DestroyLockRefused PROVE TableInv'
  BY <1>1, <1>4, LockChecksKeepInv
<1>5. ASSUME DestroyLock PROVE TableInv'
  BY <1>1, <1>5, DestroyLockKeepsInv
<1>6. ASSUME UseDestroyed PROVE TableInv'
  BY <1>1, <1>6, NothingMoves DEF UseDestroyed, vars
<1>7. ASSUME AcquireUserLock PROVE TableInv'
  BY <1>1, <1>6, <1>7, AcquireUserLockKeepsInv DEF AcquireUserLock
<1>8. ASSUME ReleaseUserLock PROVE TableInv'
  BY <1>1, <1>6, <1>8, ReleaseUserLockKeepsInv DEF ReleaseUserLock
<1>9. ASSUME CheckDestroy PROVE TableInv'
  BY <1>1, <1>6, <1>9, CheckDestroyKeepsInv DEF CheckDestroy
<1>10. ASSUME CreateLockFaults \/ AcquireHalts PROVE TableInv'
  BY <1>1, <1>10, NothingMoves DEF CreateLockFaults, AcquireHalts, lockTableVars
<1>11. ASSUME LockTableKernel PROVE TableInv'
  <2>1. ~undefined /\ UNCHANGED lockTableVars
    BY <1>11 DEF LockTableKernel
  <2>2. ASSUME Yield \/ Idle \/ \E t \in Threads : Fork(t) PROVE TableInv'
    BY <1>1, <2>1, <2>2, NothingMoves DEF Yield, Idle, Fork, lockTableVars
  <2>3. ASSUME AcquireReturn \/ (InCall("user") /\ Finish) PROVE TableInv'
    BY <1>1, <2>1, <2>3, ReturnsKeepInv
  <2> QED BY <1>11, <2>2, <2>3 DEF LockTableKernel
<1> QED BY <1>2, <1>3, <1>4, <1>5, <1>7, <1>8, <1>9, <1>10, <1>11
        DEF LockTableStep, LockCallStep

\* Every step of the condition calls keeps the invariant.
LEMMA CondCallStepKeepsInv ==
  ASSUME TableInv, CondCallStep
  PROVE  TableInv'
<1> USE CondStepKeepsIInv
<1>1. ASSUME UseDestroyedObject PROVE TableInv'
  BY <1>1, NothingMoves DEF UseDestroyedObject, UseDestroyed, vars
<1>2. ASSUME CreateCondition \/ CreateConditionFails PROVE TableInv'
  BY <1>2, CreateConditionKeepsInv
<1>3. ASSUME \/ CondChecks("Wait", "WaitUserCond")
             \/ CondChecks("Signal", "SignalUserCond")
             \/ CondChecks("Broadcast", "BroadcastUserCond")
             \/ DestroyConditionRefused
      PROVE  TableInv'
  BY <1>3, CondChecksKeepInv
<1>4. ASSUME DestroyCondition PROVE TableInv'
  BY <1>4, DestroyConditionKeepsInv
<1>5. ASSUME WaitUserCond PROVE TableInv'
  BY <1>1, <1>5, WaitUserCondKeepsInv, WaitRefusedKeepsInv DEF WaitUserCond, WaitRefused
<1>6. ASSUME WaitEnds PROVE TableInv'
  BY <1>1, <1>6, WaitReacquireKeepsInv DEF WaitEnds, lockTableVars
<1>7. ASSUME SignalUserCond PROVE TableInv'
  BY <1>1, <1>7, SignalUserCondKeepsInv DEF SignalUserCond
<1>8. ASSUME BroadcastUserCond PROVE TableInv'
  BY <1>1, <1>8, SignalUserCondKeepsInv DEF BroadcastUserCond
<1>9. ASSUME BroadcastGoesOn PROVE TableInv'
  BY <1>1, <1>9, BroadcastGoesOnKeepsInv DEF BroadcastGoesOn, lockTableVars
<1>10. ASSUME CheckSignalled \/ CheckBroadcast PROVE TableInv'
  BY <1>1, <1>10, CheckMarkKeepsInv DEF CheckSignalled, CheckBroadcast
<1> QED BY <1>2, <1>3, <1>4, <1>5, <1>6, <1>7, <1>8, <1>9, <1>10 DEF CondCallStep

\* One step of the system calls keeps the invariant.
LEMMA TableStepKeepsInv == TableInv /\ [CondTableNext]_condTableAllVars => TableInv'
<1> SUFFICES ASSUME TableInv, [CondTableNext]_condTableAllVars PROVE TableInv'
  OBVIOUS
<1>1. ASSUME NEW call \in CondCalls, NEW i \in LockArguments(call), NEW c \in CondArguments(call),
             BeginCondCall(call, i, c)
      PROVE  TableInv'
  <2>1. Next
    BY <1>1 DEF BeginCondCall, Next
  <2> QED BY <1>1, <2>1, NextKeepsIInv, BeginCondCallKeepsInv DEF TableInv
<1>2. ASSUME CondTableStopped \/ UNCHANGED condTableAllVars PROVE TableInv'
  <2>1. UNCHANGED <<vars, tableVars, undefined, sysVars, condTableVars, condIndex>>
    BY <1>2 DEF CondTableStopped, condTableAllVars, lockTableVars
  <2>2. IInv'
    BY <2>1, StutterKeepsIInv DEF TableInv
  <2> QED BY <2>1, <2>2, NothingMoves DEF vars
<1> QED BY <1>1, <1>2, LockTableStepKeepsInv, CondCallStepKeepsInv DEF CondTableNext

\* TableInv holds throughout, whatever system calls the program makes.
THEOREM TableInvariance == CondTableSpec => []TableInv
BY TableInitInv, TableStepKeepsInv, PTL DEF CondTableSpec

\* A thread owns a table's lock exactly in the checked part of a call: every
\* path through lock_syscalls.cc and condition_syscalls.cc gives it up again.
THEOREM TablesAreProtected == CondTableSpec => []CondTableIsProtected
<1>1. TableInv => CondTableIsProtected
  BY DEF TableInv, TablesGuarded, Guarded, CondTableIsProtected
<1> QED BY <1>1, TableInvariance, PTL

\* A marked lock or condition that has become free has somebody who will still
\* look at the mark (lock_syscalls.cc:188, condition_syscalls.cc:115 and :159).
THEOREM DestroysAreRemembered == CondTableSpec => []NoCondDestroyForgotten
<1>1. TableInv => NoCondDestroyForgotten
  BY DEF TableInv
<1> QED BY <1>1, TableInvariance, PTL

\* A lock is destroyed while nobody owns it or waits for it: by the releaser
\* that finds it free, or by DestroyLock_sys.
LEMMA LocksDestroyedWhenFree ==
  ASSUME TableInv, [CondTableNext]_condTableAllVars,
         NEW i \in lockFreed' \ lockFreed
  PROVE  lockStatus[i] = "FREE" /\ lockQueue[i] = << >>
<1>1. ~UNCHANGED tableVars /\ ~UNCHANGED lockFreed
  BY DEF tableVars
<1>2. CASE CheckDestroy
  <2>1. index \in UserLocks
    BY <1>2, CallerFacts DEF CheckDestroy, UsesLock
  <2>2. i = index /\ lockStatus[index] = "FREE"
    BY <1>1, <1>2 DEF CheckDestroy, DestroyUserLock, UseDestroyed
  <2> QED BY <2>1, <2>2, TableLocksFacts DEF TableInv, IInv, LocksConsistent
<1>3. CASE DestroyLock
  <2>1. index \in UserLocks
    BY <1>3, CallerFacts, ValidIndices DEF DestroyLock, MayDestroy, TableInv
  <2>2. i = index /\ lockStatus[index] # "BUSY"
    BY <1>1, <1>3 DEF DestroyLock, DestroyUserLock
  <2>3. lockStatus[index] = "FREE"
    BY <2>1, <2>2, TableLocksFacts DEF TableInv, IInv, TypeOK
  <2> QED BY <2>1, <2>2, <2>3, TableLocksFacts DEF TableInv, IInv, LocksConsistent
<1>4. CASE LockTableStep /\ ~CheckDestroy /\ ~DestroyLock
  <2>1. UNCHANGED lockFreed
    BY <1>4 DEF LockTableStep, LockCallStep, BeginLockCall, LockTableKernel, CreateLock,
                CreateLockFails, CreateLockFaults, AcquireChecks, AcquireHalts, AcquireUserLock,
                ReleaseChecks, ReleaseUserLock, DestroyLockRefused, UseDestroyed,
                lockTableVars, tableVars
  <2> QED BY <1>1, <2>1
<1>5. CASE CondCallStep
  <2>1. UNCHANGED tableVars
    BY <1>5 DEF CondCallStep, CreateCondition, CreateConditionFails, CondChecks, WaitUserCond,
                WaitEnds, SignalUserCond, CheckSignalled, BroadcastUserCond, BroadcastGoesOn,
                CheckBroadcast, DestroyCondition, DestroyConditionRefused,
                UseDestroyedObject, UseDestroyed, lockTableVars
  <2> QED BY <1>1, <2>1
<1>6. CASE \E call \in CondCalls \cap SysCalls :
             \E j \in LockArguments(call), c \in CondArguments(call) : BeginCondCall(call, j, c)
  BY <1>1, <1>6 DEF BeginCondCall
<1>7. CASE CondTableStopped \/ UNCHANGED condTableAllVars
  BY <1>1, <1>7 DEF CondTableStopped, condTableAllVars, lockTableVars
<1> QED BY <1>2, <1>3, <1>4, <1>5, <1>6, <1>7 DEF CondTableNext

\* A condition is destroyed by the call that names it, and with waiters only
\* by Broadcast_sys.
LEMMA CondsDestroyedByTheirCalls ==
  ASSUME TableInv, [CondTableNext]_condTableAllVars,
         NEW c \in condFreed' \ condFreed
  PROVE  c = cond /\ (condQueue[c] = << >> \/ InCall("CheckBroadcast"))
<1>1. ~UNCHANGED condTableVars /\ ~UNCHANGED condFreed
  BY DEF condTableVars
<1>2. CASE CheckSignalled \/ CheckBroadcast \/ DestroyCondition
  BY <1>1, <1>2 DEF CheckSignalled, CheckBroadcast, DestroyCondition, DestroyUserCond,
                    UseDestroyedObject
<1>3. CASE CondCallStep /\ ~CheckSignalled /\ ~CheckBroadcast /\ ~DestroyCondition
  <2>1. UNCHANGED condFreed
    BY <1>3 DEF CondCallStep, CreateCondition, CreateConditionFails, CondChecks, WaitUserCond,
                WaitEnds, SignalUserCond, BroadcastUserCond, BroadcastGoesOn,
                DestroyConditionRefused, UseDestroyedObject, condTableVars
  <2> QED BY <1>1, <2>1
<1>4. CASE \/ LockTableStep \/ CondTableStopped \/ UNCHANGED condTableAllVars
           \/ \E call \in CondCalls \cap SysCalls :
                \E j \in LockArguments(call), d \in CondArguments(call) : BeginCondCall(call, j, d)
  BY <1>1, <1>4 DEF LockTableStep, CondTableStopped, condTableAllVars, BeginCondCall
<1> QED BY <1>2, <1>3, <1>4 DEF CondTableNext

\* Nothing is destroyed under its users: a lock only while it is free, a
\* condition with waiters only by Broadcast_sys, and it is the one of the call.
THEOREM NothingDestroyedUnderItsUsers == CondTableSpec => DestroyWaitsForUsers
<1>1. TableInv /\ [CondTableNext]_condTableAllVars
        => [\A i \in lockFreed' \ lockFreed :
              lockStatus[i] = "FREE" /\ lockQueue[i] = << >>]_lockTableAllVars
  BY LocksDestroyedWhenFree
<1>2. TableInv /\ [CondTableNext]_condTableAllVars
        => [\A c \in condFreed' \ condFreed :
              /\ c = cond
              /\ condQueue[c] = << >> \/ InCall("CheckBroadcast")]_condTableAllVars
  BY CondsDestroyedByTheirCalls
<1> QED BY <1>1, <1>2, TableInvariance, PTL
        DEF CondTableSpec, DestroyWaitsForUsers, DestroyedWhenFree

=============================================================================
