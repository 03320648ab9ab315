--------------------------- MODULE ProcessesProofs ---------------------------
(***************************************************************************)
(* PInv is an inductive invariant of Processes: who is in a system call    *)
(* holds kernelLock, the counters count, and, as long as no constructor of *)
(* AddrSpace ran out of pages, physical memory is shared out.  The lock    *)
(* and the dispatcher keep IInv by MonitorsProofs.                         *)
(***************************************************************************)
EXTENDS Processes, MonitorsProofs, FiniteSetTheorems, WellFoundedInduction

USE ProcessesAssumption

\* The places of a call that begin after kernelLock->Acquire(), where a thread
\* may still wait for the lock, and those it reaches only with the lock.
FirstPlaces == {"Launch", "Fork", "Exec", "Exit", "Yield", "Unlock"}
InnerPlaces == {"NewPageTable", "ForkThread", "AddrSpace", "ExecThread",
                "DeleteThread", "ExitUnlock"}

\* A thread in a call waits for kernelLock or owns it, and waits for no other
\* lock.
KernelIsGuarded ==
  \A t \in Threads :
    /\ lockOwner[kernelLock] = t => sys[t] \in FirstPlaces \cup InnerPlaces
    /\ sys[t] \in FirstPlaces =>
         (pc[t] = "run" /\ lockOwner[kernelLock] = t) \/ pc[t] = "Acquire"
    /\ sys[t] \in InnerPlaces => pc[t] = "run" /\ lockOwner[kernelLock] = t
    /\ pc[t] = "Acquire" => sys[t] \in FirstPlaces /\ argLock[t] = kernelLock
    /\ pc[t] = "finished" => sys[t] = "Finish"
    /\ pc[t] \notin {"Wait", "Broadcast"}

\* The pageTableLock of a space is taken and released under kernelLock.
SpaceLocksAreTheirs ==
  \A s \in Spaces, t \in Threads : lockOwner[s] = t =>
    \/ sys[t] \in {"NewPageTable", "DeleteThread"} /\ s = space[t]
    \/ sys[t] = "AddrSpace" /\ s = processCount + 1

\* The thread of a Fork in progress.
Newborn == {t \in Threads : status[t] = "JUST_CREATED" /\ space[t] # NoSpace}

\* A thread object is unused until it has a space, runs its first code when it
\* is switched to, and there is one newborn, of the Fork in progress.
ThreadsAreBorn ==
  /\ currentThread \in started
  /\ \A t \in Threads :
       /\ space[t] \in 0..processCount
       /\ space[t] = NoSpace => status[t] = "JUST_CREATED"
       /\ status[t] = "JUST_CREATED" => t \notin started
       /\ t \notin started => sys[t] = "begin"
  /\ \A t, u \in Newborn : t = u
  /\ \A t \in Newborn : \E u \in Threads :
       sys[u] \in {"NewPageTable", "ForkThread"} /\ space[u] = space[t]
  /\ \A u \in Threads : sys[u] \in {"NewPageTable", "ForkThread"}
       => \E t \in Newborn : space[t] = space[u]

\* The space that an Exec has made waits for its first thread.
NewSpaceIsEmpty ==
  \A u \in Threads : sys[u] = "ExecThread" =>
    /\ processCount \notin deletedSpaces
    /\ threadCount[processCount] = 1
    /\ \A t \in Threads : space[t] # processCount

\* The bounds of the model reserve what the calls in progress will use, and
\* runningProcessCount counts the spaces that live or are about to.
Takers == {"Fork", "Exec", "AddrSpace", "ExecThread"}

BoundsAreKept ==
  /\ Cardinality(Unused) >= InPlaces(Takers)
  /\ processCount + InPlaces({"Exec", "AddrSpace"}) <= MaxProcesses
  /\ runningProcessCount + InPlaces({"Exec"}) <= MaxProcessCount
  /\ Cardinality(live) + InPlaces({"AddrSpace"}) <= runningProcessCount + 1

\* A thread that lives has its stack, but for the newborn whose Fork is in
\* NewPageTable.
Leaving == {"ExitUnlock", "Finish"}

HasStack(t) ==
  /\ space[t] # NoSpace /\ sys[t] \notin Leaving
  /\ ~(t \in Newborn /\ \E u \in Threads : sys[u] = "NewPageTable")

MappedAt(s, first) ==
  \A i \in first + 1 .. first + StackPages : i \in DOMAIN pageTable[s] /\ pageTable[s][i] \in Pages

\* The stacks of the threads of a space are mapped and apart.
StacksAreMapped ==
  /\ \A t \in Threads : HasStack(t) => MappedAt(space[t], stackLocation[t])
  /\ \A t, u \in Threads : HasStack(t) /\ HasStack(u) /\ t # u /\ space[t] = space[u]
       => StackOf(t) \cap StackOf(u) = {}
  /\ \A u \in Threads : sys[u] = "ExecThread" => MappedAt(processCount, ProgramPages)

MemoryIsMapped == starved = {} => PagesBelongToOne /\ StacksAreMapped

\* From RestoreState to the end of its life a thread runs on its page table.
MachineSeesSpace ==
  Processing /\ sys[currentThread] \notin {"begin", "Launch", "Finish"}
    => machineTable = TableOf(currentThread)

ControlInv == ProcessTypeOK /\ KernelIsGuarded /\ SpaceLocksAreTheirs /\ ThreadsAreBorn
CountInv == NewSpaceIsEmpty /\ BoundsAreKept /\ CountsAgree

PInv == IInv /\ ControlInv /\ CountInv /\ MemoryIsMapped /\ MachineSeesSpace

----------------------------------------------------------------------------
(***************************************************************************)
(* Counting.                                                               *)
(***************************************************************************)
\* Two sets that differ in at most one element.
LEMMA OneElementChanges ==
  ASSUME NEW S, NEW T, NEW x, IsFiniteSet(S),
         \A y : y # x => (y \in S <=> y \in T)
  PROVE  /\ IsFiniteSet(T)
         /\ Cardinality(S) \in Nat /\ Cardinality(T) \in Nat
         /\ x \in S /\ x \notin T => Cardinality(T) = Cardinality(S) - 1
         /\ x \notin S /\ x \in T => Cardinality(T) = Cardinality(S) + 1
         /\ (x \in S <=> x \in T) => Cardinality(T) = Cardinality(S)
<1>1. CASE x \in T
  <2>1. T = S \cup {x}
    BY <1>1
  <2> QED BY <1>1, <2>1, FS_AddElement, FS_CardinalityType
<1>2. CASE x \notin T
  <2>1. T = S \ {x}
    BY <1>2
  <2> QED BY <1>2, <2>1, FS_RemoveElement, FS_CardinalityType
<1> QED BY <1>1, <1>2

\* A set with one member, and a set with one member at least.
LEMMA OneElement ==
  ASSUME NEW S, IsFiniteSet(S), NEW x \in S
  PROVE  /\ Cardinality(S) \in Nat /\ Cardinality(S) >= 1
         /\ Cardinality(S) = 1 => \A y \in S : y = x
<1>1. Cardinality(S) \in Nat /\ Cardinality(S) # 0
  BY FS_CardinalityType, FS_EmptySet
<1>2. ASSUME Cardinality(S) = 1 PROVE \A y \in S : y = x
  <2>1. PICK z : S = {z}
    BY <1>2, FS_Singleton
  <2> QED BY <2>1
<1> QED BY <1>1, <1>2

\* A thread moves from one place to another: the counts of both change.
LEMMA InPlacesMoves ==
  ASSUME NEW P, NEW cur \in Threads, NEW next \in ProcessPlaces,
         sys \in [Threads -> ProcessPlaces],
         sys' = [sys EXCEPT ![cur] = next]
  PROVE  /\ InPlaces(P) \in Nat /\ InPlaces(P)' \in Nat
         /\ sys[cur] \in P => InPlaces(P) >= 1
         /\ InPlaces(P)' <= InPlaces(P) + 1
         /\ sys[cur] \in P => InPlaces(P)' <= InPlaces(P)
         /\ sys[cur] \in P /\ next \notin P => InPlaces(P)' = InPlaces(P) - 1
         /\ sys[cur] \notin P /\ next \in P => InPlaces(P)' = InPlaces(P) + 1
         /\ (sys[cur] \in P <=> next \in P) => InPlaces(P)' = InPlaces(P)
<1> DEFINE S == {t \in Threads : sys[t] \in P}
           T == {t \in Threads : sys'[t] \in P}
<1>1. IsFiniteSet(S) /\ IsFiniteSet(T)
  BY FS_Subset
<1>2. \A t : t # cur => (t \in S <=> t \in T)
  OBVIOUS
<1>3. (cur \in S <=> sys[cur] \in P) /\ (cur \in T <=> next \in P)
  OBVIOUS
<1>4. InPlaces(P) = Cardinality(S) /\ InPlaces(P)' = Cardinality(T)
  BY DEF InPlaces
<1> HIDE DEF S, T
<1>5. cur \in S => Cardinality(S) >= 1
  BY <1>1, OneElement
<1> QED BY <1>1, <1>2, <1>3, <1>4, <1>5, OneElementChanges

----------------------------------------------------------------------------
(***************************************************************************)
(* BitMap::Find.                                                           *)
(***************************************************************************)
Below(m) == {q \in Pages \ bitmap : q < m}

\* The free pages are finitely many natural numbers.
LEMMA FreePagesAreFinite ==
  /\ IsFiniteSet(Pages \ bitmap) /\ Cardinality(Pages \ bitmap) \in Nat
  /\ Pages \ bitmap \subseteq Nat
<1>1. NumPhysPages - 1 \in Int /\ Pages = 0 .. NumPhysPages - 1
  BY DEF Pages
<1>2. IsFiniteSet(Pages) /\ Pages \subseteq Nat
  BY <1>1, FS_Interval
<1>3. IsFiniteSet(Pages \ bitmap)
  BY <1>2, FS_Subset
<1> QED BY <1>2, <1>3, FS_CardinalityType

\* Find number n, of as many as there are free pages, finds a page.
LEMMA NthFreeExists ==
  ASSUME NEW n \in Nat \ {0}, n <= Cardinality(Pages \ bitmap)
  PROVE  /\ NthFree(n) \in Pages \ bitmap
         /\ Cardinality(Below(NthFree(n))) = n - 1
<1> DEFINE F == Pages \ bitmap
           M == {m \in Nat : Cardinality(Below(m)) >= n}
<1>1. IsFiniteSet(F) /\ F \subseteq Nat /\ \A q \in F : q < NumPhysPages
  BY FreePagesAreFinite DEF Pages
<1>2. \A m \in Nat : IsFiniteSet(Below(m)) /\ Cardinality(Below(m)) \in Nat
  <2> SUFFICES ASSUME NEW m \in Nat
               PROVE  IsFiniteSet(Below(m)) /\ Cardinality(Below(m)) \in Nat
    OBVIOUS
  <2>1. Below(m) \in SUBSET F
    BY DEF Below
  <2> QED BY <1>1, <2>1, FS_Subset, FS_CardinalityType
<1>3. Below(0) = {} /\ Cardinality(Below(0)) = 0
  <2>1. Below(0) = {}
    BY <1>1 DEF Below
  <2> QED BY <2>1, FS_EmptySet
<1>4. Below(NumPhysPages) = F
  BY <1>1 DEF Below
<1>5. NumPhysPages \in M
  BY <1>4
<1>6. \E m \in M : \A k \in M : ~(<<k, m>> \in OpToRel(<, Nat))
  BY <1>5, WFMin, NatLessThanWellFounded, Zenon
<1>7. \A i, j \in Nat : j < i => <<j, i>> \in OpToRel(<, Nat)
  BY Zenon DEF OpToRel
<1>8. PICK m \in M : \A k \in M : ~(k < m)
  <2>1. M \subseteq Nat
    OBVIOUS
  <2> QED BY <1>6, <1>7, <2>1, Zenon
<1>9. m # 0
  BY <1>3, <1>8
<1>10. m - 1 \in Nat /\ Cardinality(Below(m - 1)) < n
  <2>1. m - 1 \in Nat /\ m - 1 < m
    BY <1>8, <1>9
  <2>2. m - 1 \notin M
    BY <1>8, <2>1
  <2> QED BY <1>2, <2>1, <2>2
<1>11. \A q : q # m - 1 => (q \in Below(m - 1) <=> q \in Below(m))
  BY <1>1, <1>8, <1>10 DEF Below
<1>12. m - 1 \notin Below(m - 1)
  BY <1>10 DEF Below
<1>13. IsFiniteSet(Below(m - 1)) /\ Cardinality(Below(m - 1)) \in Nat /\ Cardinality(Below(m)) >= n
  BY <1>2, <1>8, <1>10
<1>14. m - 1 \in Below(m) /\ Cardinality(Below(m)) = Cardinality(Below(m - 1)) + 1
  BY <1>10, <1>11, <1>12, <1>13, OneElementChanges
<1>15. m - 1 \in F /\ Cardinality(Below(m - 1)) = n - 1
  BY <1>10, <1>13, <1>14 DEF Below
<1>16. \E p \in F : Cardinality({q \in F : q < p}) = n - 1
  BY <1>15 DEF Below
<1> QED BY <1>16 DEF NthFree, Below

\* n calls of Find return n different free pages, or all there are.
LEMMA FoundPages ==
  ASSUME NEW n \in Nat
  PROVE  /\ Found(n) \in Seq(Pages \ bitmap)
         /\ Len(Found(n)) \in 0..n
         /\ \A i, j \in 1..Len(Found(n)) : Found(n)[i] = Found(n)[j] => i = j
<1> DEFINE free == Cardinality(Pages \ bitmap)
           len == IF n <= free THEN n ELSE free
<1>1. free \in Nat
  BY FreePagesAreFinite
<1>2. len \in Nat /\ len <= free /\ len <= n
  BY <1>1
<1>3. Found(n) = [i \in 1..len |-> NthFree(i)]
  BY DEF Found
<1> HIDE DEF len, free
<1>4. \A i \in 1..len : NthFree(i) \in Pages \ bitmap /\ Cardinality(Below(NthFree(i))) = i - 1
  <2> SUFFICES ASSUME NEW i \in 1..len
               PROVE  NthFree(i) \in Pages \ bitmap /\ Cardinality(Below(NthFree(i))) = i - 1
    OBVIOUS
  <2>1. i \in Nat \ {0} /\ i <= Cardinality(Pages \ bitmap)
    BY <1>1, <1>2 DEF free
  <2> QED BY <2>1, NthFreeExists
<1>5. Found(n) \in Seq(Pages \ bitmap) /\ Len(Found(n)) = len
  BY <1>2, <1>3, <1>4
<1>6. \A i, j \in 1..len : NthFree(i) = NthFree(j) => i = j
  <2> SUFFICES ASSUME NEW i \in 1..len, NEW j \in 1..len, NthFree(i) = NthFree(j)  PROVE i = j
    OBVIOUS
  <2>1. i - 1 = j - 1
    BY <1>4
  <2> QED BY <1>2, <2>1
<1> QED BY <1>2, <1>3, <1>5, <1>6

----------------------------------------------------------------------------
(***************************************************************************)
(* What the dispatcher does to threads that have not run yet: nothing but  *)
(* to run them.                                                            *)
(***************************************************************************)
BirthsKept ==
  /\ currentThread' \in started'
  /\ started \subseteq started'
  /\ \A t \in Threads : /\ status'[t] = "JUST_CREATED" <=> status[t] = "JUST_CREATED"
                        /\ status[t] = "JUST_CREATED" => t \notin started'

\* Run of a thread that is not new to the scheduler.
LEMMA RunKeepsBirths ==
  ASSUME ThreadsAreBorn, NEW next \in Threads, NEW rl, NEW carcass,
         NEW st \in [Threads -> ThreadStatus],
         \A t \in Threads : st[t] = "JUST_CREATED" <=> status[t] = "JUST_CREATED",
         status[next] # "JUST_CREATED", Run(next, rl, st, carcass)
  PROVE  BirthsKept
BY DEF Run, BirthsKept, ThreadsAreBorn

\* The first thread of the ready list is not new.
LEMMA FirstIsReady ==
  ASSUME IInv, readyList # << >>
  PROVE  Head(readyList) \in Threads /\ status[Head(readyList)] = "READY"
<1>1. readyList \in Seq(Threads) /\ ReadyListOK(readyList, status)
  BY DispatcherFacts DEF SchedTypeOK
<1>2. Head(readyList) \in Threads /\ Head(readyList) \in Range(readyList)
  BY <1>1, QueueRemove
<1> QED BY <1>1, <1>2 DEF ReadyListOK

\* A thread that sleeps.
LEMMA SleepKeepsBirths ==
  ASSUME IInv, ThreadsAreBorn, Processing, NEW carcass, Sleep(readyList, status, carcass)
  PROVE  BirthsKept
<1> DEFINE blocked == [status EXCEPT ![currentThread] = "BLOCKED"]
<1>1. currentThread \in Threads /\ status \in [Threads -> ThreadStatus]
      /\ status[currentThread] = "RUNNING"
  BY DispatcherFacts DEF SchedTypeOK, Processing
<1>2. blocked \in [Threads -> ThreadStatus]
      /\ \A t \in Threads : blocked[t] = "JUST_CREATED" <=> status[t] = "JUST_CREATED"
  BY <1>1 DEF ThreadStatus
<1>3. CASE readyList # << >> /\ Run(Head(readyList), Tail(readyList), blocked, carcass)
  <2>1. Head(readyList) \in Threads /\ status[Head(readyList)] # "JUST_CREATED"
    BY <1>3, FirstIsReady
  <2> HIDE DEF blocked
  <2> QED BY <1>2, <1>3, <2>1, RunKeepsBirths
<1>4. CASE status' = blocked /\ UNCHANGED <<currentThread, started>>
  BY <1>2, <1>4 DEF BirthsKept, ThreadsAreBorn
<1> QED BY <1>3, <1>4 DEF Sleep

\* A thread that yields.
LEMMA YieldKeepsBirths ==
  ASSUME IInv, ThreadsAreBorn, Processing, SchedYield
  PROVE  BirthsKept
<1> DEFINE st == [status EXCEPT ![currentThread] = "READY"]
<1>1. currentThread \in Threads /\ status \in [Threads -> ThreadStatus]
      /\ status[currentThread] = "RUNNING"
  BY DispatcherFacts DEF SchedTypeOK, Processing
<1>2. st \in [Threads -> ThreadStatus]
      /\ \A t \in Threads : st[t] = "JUST_CREATED" <=> status[t] = "JUST_CREATED"
  BY <1>1 DEF ThreadStatus
<1>3. Head(readyList) \in Threads /\ status[Head(readyList)] # "JUST_CREATED"
  BY FirstIsReady DEF SchedYield
<1>4. Run(Head(readyList), Append(Tail(readyList), currentThread), st, threadToBeDestroyed)
  BY DEF SchedYield
<1> HIDE DEF st
<1> QED BY <1>2, <1>3, <1>4, RunKeepsBirths

\* A step outside the dispatcher.
LEMMA SameKeepsBirths ==
  ASSUME ThreadsAreBorn, UNCHANGED <<currentThread, status, started>>
  PROVE  BirthsKept
BY DEF BirthsKept, ThreadsAreBorn

\* Lock::Acquire.
LEMMA AcquireKeepsBirths ==
  ASSUME IInv, ThreadsAreBorn, NEW l \in Locks, Acquire(l)
  PROVE  BirthsKept
<1>1. CASE UNCHANGED schedVars
  BY <1>1, SameKeepsBirths DEF schedVars
<1>2. CASE Sleep(readyList, status, threadToBeDestroyed)
  BY <1>2, SleepKeepsBirths DEF Acquire, At
<1> QED BY <1>1, <1>2 DEF Acquire, DoAcquire

\* The thread a lock is handed to has slept.
LEMMA ReleaseKeepsBirths ==
  ASSUME IInv, ThreadsAreBorn, NEW l \in Locks, Release(l)
  PROVE  BirthsKept
<1>1. status \in [Threads -> ThreadStatus] /\ lockQueue[l] \in Seq(Threads)
      /\ status' = ReleasedStatus(l) /\ UNCHANGED <<currentThread, started>>
  BY DEF IInv, TypeOK, SchedTypeOK, Release
<1>2. CASE HandsOver(l)
  <2> DEFINE h == Head(lockQueue[l])
  <2>1. h \in Range(lockQueue[l]) /\ h \in Threads
    BY <1>1, <1>2, QueueRemove DEF HandsOver
  <2>2. status[h] = "BLOCKED"
    BY <2>1 DEF IInv, EveryThreadInItsPlace, BlockedAt
  <2>3. status' = [status EXCEPT ![h] = "READY"]
    BY <1>1, <1>2 DEF ReleasedStatus
  <2> HIDE DEF h
  <2> QED BY <1>1, <2>1, <2>2, <2>3 DEF BirthsKept, ThreadsAreBorn
<1>3. CASE ~HandsOver(l)
  BY <1>1, <1>3, SameKeepsBirths DEF ReleasedStatus
<1> QED BY <1>2, <1>3

\* A step that creates no thread, and takes no thread into or out of the part
\* of Fork that has one newborn.
LEMMA BirthsStay ==
  ASSUME ThreadsAreBorn, BirthsKept, currentThread \in Threads, processCount \in Nat,
         processCount' \in Nat, processCount' >= processCount, space' = space,
         \A t \in Threads \ {currentThread} : sys'[t] = sys[t],
         \A t \in Threads : sys'[t] \in {"NewPageTable", "ForkThread"}
                              <=> sys[t] \in {"NewPageTable", "ForkThread"}
  PROVE  ThreadsAreBorn'
<1>1. Newborn' = Newborn
  BY DEF Newborn, BirthsKept
<1>2. \A t \in Threads :
        /\ space'[t] \in 0..processCount'
        /\ space'[t] = NoSpace => status'[t] = "JUST_CREATED"
        /\ status'[t] = "JUST_CREATED" => t \notin started'
        /\ t \notin started' => sys'[t] = "begin"
  BY DEF BirthsKept, ThreadsAreBorn
<1>3. \A t \in Newborn : \E u \in Threads :
        sys'[u] \in {"NewPageTable", "ForkThread"} /\ space'[u] = space'[t]
  BY DEF ThreadsAreBorn
<1>4. \A u \in Threads : sys'[u] \in {"NewPageTable", "ForkThread"}
        => \E t \in Newborn : space'[t] = space'[u]
  BY DEF ThreadsAreBorn
<1>5. \A t, u \in Newborn : t = u
  BY DEF ThreadsAreBorn
<1> QED BY <1>1, <1>2, <1>3, <1>4, <1>5 DEF ThreadsAreBorn, BirthsKept

----------------------------------------------------------------------------
(***************************************************************************)
(* kernelLock and the pageTableLocks.                                      *)
(***************************************************************************)
\* A thread in a call, when it executes, owns kernelLock, and no other thread
\* is past the beginning of a call.
LEMMA CallerOwnsKernel ==
  ASSUME IInv, ControlInv, NEW place \in FirstPlaces \cup InnerPlaces, InCall(place)
  PROVE  /\ Processing /\ currentThread \in Threads
         /\ pc[currentThread] = "run" /\ sys[currentThread] = place
         /\ lockOwner[kernelLock] = currentThread
         /\ \A t \in Threads \ {currentThread} :
              sys[t] \notin InnerPlaces /\ (sys[t] \in FirstPlaces => pc[t] = "Acquire")
         /\ space[currentThread] \in 1..processCount
         /\ space[currentThread] \in Spaces
<1>1. Processing /\ currentThread \in Threads /\ pc[currentThread] = "run"
      /\ sys[currentThread] = place /\ status[currentThread] = "RUNNING"
  BY DispatcherFacts DEF InCall, At, Processing
<1>2. lockOwner[kernelLock] = currentThread
  BY <1>1 DEF ControlInv, KernelIsGuarded
<1>3. \A t \in Threads \ {currentThread} :
        sys[t] \notin InnerPlaces /\ (sys[t] \in FirstPlaces => pc[t] = "Acquire")
  BY <1>2 DEF ControlInv, KernelIsGuarded
<1>4. space[currentThread] \in 0..processCount /\ space[currentThread] # NoSpace
  BY <1>1 DEF ControlInv, ThreadsAreBorn
<1>5. processCount \in 1..MaxProcesses
  BY DEF ControlInv, ProcessTypeOK, Spaces
<1> QED BY <1>1, <1>2, <1>3, <1>4, <1>5 DEF NoSpace, Spaces

\* kernelLock->Acquire(): the thread owns it, or waits.
LEMMA LockKernelControl ==
  ASSUME IInv, ControlInv, NEW place \in {"user", "begin", "YieldBack"}, NEW next \in FirstPlaces,
         LockKernel(place, next)
  PROVE  KernelIsGuarded' /\ SpaceLocksAreTheirs'
<1>1. Processing /\ currentThread \in Threads /\ sys[currentThread] = place
      /\ pc[currentThread] = "run" /\ DoAcquire(kernelLock)
      /\ sys \in [Threads -> ProcessPlaces] /\ space' = space /\ processCount' = processCount
  BY DispatcherFacts
     DEF LockKernel, InCall, At, Acquire, ControlInv, ProcessTypeOK, processVars
<1>2. /\ sys'[currentThread] = next
      /\ \A t \in Threads \ {currentThread} : sys'[t] = sys[t]
  BY <1>1 DEF LockKernel, SysGoto
<1>3. lockOwner[kernelLock] # currentThread
  BY <1>1 DEF ControlInv, KernelIsGuarded, FirstPlaces, InnerPlaces
<1>4. /\ \A t \in Threads \ {currentThread} : pc'[t] = pc[t] /\ argLock'[t] = argLock[t]
      /\ \A k \in Locks \ {kernelLock} : lockOwner'[k] = lockOwner[k]
      /\ \/ /\ pc'[currentThread] = "run"
            /\ lockOwner'[kernelLock] = currentThread
            /\ lockOwner[kernelLock] = NoThread
         \/ /\ pc'[currentThread] = "Acquire"
            /\ argLock'[currentThread] = kernelLock
            /\ lockOwner'[kernelLock] = lockOwner[kernelLock]
  BY <1>1, <1>3, AcquireMoves
<1>5. KernelIsGuarded'
  <2> SUFFICES ASSUME NEW t \in Threads
               PROVE
    /\ lockOwner'[kernelLock] = t => sys'[t] \in FirstPlaces \cup InnerPlaces
    /\ sys'[t] \in FirstPlaces =>
         (pc'[t] = "run" /\ lockOwner'[kernelLock] = t) \/ pc'[t] = "Acquire"
    /\ sys'[t] \in InnerPlaces => pc'[t] = "run" /\ lockOwner'[kernelLock] = t
    /\ pc'[t] = "Acquire" => sys'[t] \in FirstPlaces /\ argLock'[t] = kernelLock
    /\ pc'[t] = "finished" => sys'[t] = "Finish"
    /\ pc'[t] \notin {"Wait", "Broadcast"}
    BY DEF KernelIsGuarded
  <2>1. CASE t = currentThread
    BY <1>2, <1>4, <2>1 DEF FirstPlaces, InnerPlaces
  <2>2. CASE t # currentThread
    <3>1. lockOwner[kernelLock] = NoThread => sys[t] \notin InnerPlaces
      BY ThreadsAssumption DEF ControlInv, KernelIsGuarded
    <3> QED BY <1>2, <1>4, <2>2, <3>1, ThreadsAssumption DEF ControlInv, KernelIsGuarded
  <2> QED BY <2>1, <2>2
<1>6. SpaceLocksAreTheirs'
  <2>1. \A s \in Spaces : lockOwner'[s] = lockOwner[s]
    BY <1>4
  <2>2. \A s \in Spaces : lockOwner[s] # currentThread
    BY <1>1 DEF ControlInv, SpaceLocksAreTheirs
  <2> QED BY <1>1, <1>2, <2>1, <2>2 DEF ControlInv, SpaceLocksAreTheirs
<1> QED BY <1>5, <1>6

\* kernelLock->Release() at the end of a call: the lock is free, or belongs to
\* a thread that waits at the beginning of its call.
LEMMA UnlockKernelControl ==
  ASSUME IInv, ControlInv,
         NEW place \in {"Launch", "Exec", "Exit", "Yield", "Unlock", "ExitUnlock"},
         NEW next \in {"user", "Finish", "YieldCpu"},
         InCall(place), UnlockKernel(next), space' = space, processCount' = processCount
  PROVE  KernelIsGuarded' /\ SpaceLocksAreTheirs'
<1>0. place \in FirstPlaces \cup InnerPlaces
  BY DEF FirstPlaces, InnerPlaces
<1>1. /\ Processing /\ currentThread \in Threads
      /\ lockOwner[kernelLock] = currentThread
      /\ pc[currentThread] = "run" /\ sys[currentThread] = place
      /\ \A t \in Threads \ {currentThread} :
           sys[t] \notin InnerPlaces /\ (sys[t] \in FirstPlaces => pc[t] = "Acquire")
  BY <1>0, CallerOwnsKernel
<1>2. /\ DoRelease(kernelLock) /\ pc' = pc /\ argLock' = argLock
      /\ sys'[currentThread] = next
      /\ \A t \in Threads \ {currentThread} : sys'[t] = sys[t]
  BY <1>1 DEF UnlockKernel, Release, SysGoto, pcVars, ControlInv, ProcessTypeOK
<1>3. /\ \A k \in Locks \ {kernelLock} : lockOwner'[k] = lockOwner[k]
      /\ \A t \in Threads : lockOwner'[kernelLock] = t => t # currentThread /\ pc[t] = "Acquire"
  BY <1>1, <1>2, ReleaseMoves
<1>4. KernelIsGuarded'
  BY <1>1, <1>2, <1>3 DEF ControlInv, KernelIsGuarded, FirstPlaces, InnerPlaces
<1>5. SpaceLocksAreTheirs'
  <2>1. \A s \in Spaces : lockOwner'[s] = lockOwner[s] /\ lockOwner[s] # currentThread
    BY <1>1, <1>3 DEF ControlInv, SpaceLocksAreTheirs
  <2> QED BY <1>1, <1>2, <2>1 DEF ControlInv, SpaceLocksAreTheirs
<1> QED BY <1>4, <1>5

\* pageTableLock->Acquire() under kernelLock: the lock is free.
LEMMA LockSpaceControl ==
  ASSUME IInv, ControlInv, NEW place \in {"Fork", "Exec", "Exit"}, NEW l \in Spaces,
         NEW next \in {"NewPageTable", "AddrSpace", "DeleteThread"},
         InCall(place), Acquire(l), SysGoto(next),
         IF next = "AddrSpace" THEN l = processCount' + 1 ELSE l = space'[currentThread]
  PROVE  KernelIsGuarded' /\ SpaceLocksAreTheirs' /\ UNCHANGED schedVars
<1>0. place \in FirstPlaces
  BY DEF FirstPlaces
<1>1. /\ Processing /\ currentThread \in Threads /\ l \in Locks /\ l # kernelLock
      /\ lockOwner[kernelLock] = currentThread
      /\ pc[currentThread] = "run" /\ sys[currentThread] = place
      /\ \A t \in Threads \ {currentThread} :
           sys[t] \notin InnerPlaces /\ (sys[t] \in FirstPlaces => pc[t] = "Acquire")
  BY <1>0, CallerOwnsKernel
<1>2. \A s \in Spaces : lockOwner[s] = NoThread
  <2>1. \A s \in Spaces, t \in Threads : lockOwner[s] # t
    BY <1>1 DEF ControlInv, SpaceLocksAreTheirs, InnerPlaces
  <2> QED BY <2>1 DEF IInv, TypeOK
<1>3. lockStatus[l] = "FREE" /\ lockOwner[l] # currentThread
  BY <1>1, <1>2, ThreadsAssumption DEF IInv, LocksConsistent
<1>4. /\ Return /\ UNCHANGED schedVars
      /\ lockOwner' = [lockOwner EXCEPT ![l] = currentThread]
  BY <1>3 DEF Acquire, DoAcquire
<1>5. /\ pc'[currentThread] = "run" /\ lockOwner'[l] = currentThread
      /\ \A t \in Threads \ {currentThread} : pc'[t] = pc[t] /\ argLock'[t] = argLock[t]
      /\ \A k \in Locks \ {l} : lockOwner'[k] = lockOwner[k]
  BY <1>1, <1>4 DEF Return, Goto, IInv, TypeOK
<1>6. sys'[currentThread] = next /\ \A t \in Threads \ {currentThread} : sys'[t] = sys[t]
  BY <1>1 DEF SysGoto, ControlInv, ProcessTypeOK
<1>7. KernelIsGuarded'
  BY <1>1, <1>5, <1>6 DEF ControlInv, KernelIsGuarded, FirstPlaces, InnerPlaces
<1>8. SpaceLocksAreTheirs'
  <2>1. \A s \in Spaces, t \in Threads : lockOwner'[s] = t => s = l /\ t = currentThread
    BY <1>2, <1>5, ThreadsAssumption
  <2> QED BY <1>6, <2>1 DEF SpaceLocksAreTheirs
<1> QED BY <1>4, <1>7, <1>8

\* pageTableLock->Release() under kernelLock: the lock is free again.
LEMMA UnlockSpaceControl ==
  ASSUME IInv, ControlInv, NEW place \in {"NewPageTable", "AddrSpace", "DeleteThread"},
         NEW l \in Spaces, NEW next \in {"ForkThread", "ExecThread", "ExitUnlock"},
         InCall(place), Release(l), SysGoto(next),
         IF place = "AddrSpace" THEN l = processCount + 1 ELSE l = space[currentThread]
  PROVE  KernelIsGuarded' /\ SpaceLocksAreTheirs'
<1>0. place \in InnerPlaces
  BY DEF InnerPlaces
<1>1. /\ Processing /\ currentThread \in Threads /\ l \in Locks /\ l # kernelLock
      /\ lockOwner[kernelLock] = currentThread
      /\ pc[currentThread] = "run" /\ sys[currentThread] = place
      /\ \A t \in Threads \ {currentThread} :
           sys[t] \notin InnerPlaces /\ (sys[t] \in FirstPlaces => pc[t] = "Acquire")
  BY <1>0, CallerOwnsKernel
<1>2. /\ DoRelease(l) /\ pc' = pc /\ argLock' = argLock
      /\ sys'[currentThread] = next
      /\ \A t \in Threads \ {currentThread} : sys'[t] = sys[t]
  BY <1>1 DEF Release, SysGoto, pcVars, ControlInv, ProcessTypeOK
<1>3. /\ \A k \in Locks \ {l} : lockOwner'[k] = lockOwner[k]
      /\ lockOwner'[l] # currentThread
      /\ \A t \in Threads : lockOwner'[l] = t =>
           lockOwner[l] = t \/ (pc[t] = "Acquire" /\ argLock[t] = l)
  BY <1>1, <1>2, ReleaseMoves
<1>4. KernelIsGuarded'
  BY <1>1, <1>2, <1>3 DEF ControlInv, KernelIsGuarded, FirstPlaces, InnerPlaces
<1>5. SpaceLocksAreTheirs'
  <2>1. \A s \in Spaces, t \in Threads : lockOwner[s] = t => t = currentThread /\ s = l
    BY <1>1 DEF ControlInv, SpaceLocksAreTheirs, InnerPlaces
  <2>2. \A t \in Threads : pc[t] = "Acquire" => argLock[t] # l
    BY <1>1 DEF ControlInv, KernelIsGuarded
  <2>3. \A s \in Spaces, t \in Threads : lockOwner'[s] # t
    BY <1>1, <1>3, <2>1, <2>2
  <2> QED BY <2>3 DEF SpaceLocksAreTheirs
<1> QED BY <1>4, <1>5

----------------------------------------------------------------------------
(***************************************************************************)
(* What a call finds.                                                      *)
(***************************************************************************)
\* A thread in a place is counted there.
LEMMA SomebodyIsThere ==
  ASSUME NEW P, NEW t \in Threads, sys[t] \in P
  PROVE  InPlaces(P) \in Nat /\ InPlaces(P) >= 1
<1> DEFINE S == {u \in Threads : sys[u] \in P}
<1>1. IsFiniteSet(S) /\ t \in S
  BY FS_Subset
<1> HIDE DEF S
<1>2. Cardinality(S) \in Nat /\ Cardinality(S) >= 1
  BY <1>1, OneElement
<1> QED BY <1>2 DEF InPlaces, S

\* new Thread finds an object: no thread has used it.
LEMMA NewThreadIsUnused ==
  ASSUME IInv, ControlInv, BoundsAreKept, NEW place \in {"Fork", "ExecThread"}, InCall(place)
  PROVE  /\ newThread \in Threads /\ space[newThread] = NoSpace
         /\ status[newThread] = "JUST_CREATED" /\ newThread \notin started
         /\ sys[newThread] = "begin" /\ newThread # currentThread
         /\ \A t \in Threads : space[t] = NoSpace => sys[t] = "begin"
<1>1. currentThread \in Threads /\ sys[currentThread] \in Takers /\ currentThread \in started
  BY DispatcherFacts DEF InCall, Takers, ControlInv, ThreadsAreBorn
<1>2. IsFiniteSet(Unused)
  BY FS_Subset DEF Unused
<1>3. Cardinality(Unused) \in Nat /\ InPlaces(Takers) \in Nat /\ Cardinality(Unused) >= 1
  BY <1>1, <1>2, SomebodyIsThere, FS_CardinalityType DEF BoundsAreKept
<1>4. Unused # {}
  BY <1>3, FS_EmptySet
<1>5. newThread \in Unused
  BY <1>4 DEF newThread
<1> QED BY <1>1, <1>5 DEF Unused, ControlInv, ThreadsAreBorn

\* The thread the rest of Fork works on is the newborn.
LEMMA ChildIsNewborn ==
  ASSUME IInv, ControlInv, NEW place \in {"NewPageTable", "ForkThread"}, InCall(place)
  PROVE  /\ child \in Threads /\ space[child] = mySpace /\ Newborn = {child}
         /\ status[child] = "JUST_CREATED" /\ child \notin started
         /\ sys[child] = "begin" /\ child # currentThread
<1>1. currentThread \in Threads /\ sys[currentThread] = place
  BY DispatcherFacts DEF InCall
<1>2. \E t \in Newborn : space[t] = mySpace
  BY <1>1 DEF ControlInv, ThreadsAreBorn, mySpace
<1>3. \E t \in Threads : space[t] = mySpace /\ status[t] = "JUST_CREATED"
  BY <1>2 DEF Newborn
<1>4. child \in Threads /\ space[child] = mySpace /\ status[child] = "JUST_CREATED"
  BY <1>3 DEF child
<1>5. mySpace # NoSpace
  BY <1>2 DEF Newborn
<1>6. child \in Newborn /\ Newborn = {child}
  BY <1>4, <1>5 DEF Newborn, ControlInv, ThreadsAreBorn
<1> QED BY <1>1, <1>4, <1>6 DEF ControlInv, ThreadsAreBorn

\* The constructor of AddrSpace finds an object.
LEMMA RoomForSpace ==
  ASSUME IInv, ControlInv, BoundsAreKept, NEW place \in {"Exec", "AddrSpace"}, InCall(place)
  PROVE  processCount + 1 \in Spaces /\ processCount \in Nat
<1>1. currentThread \in Threads /\ sys[currentThread] \in {"Exec", "AddrSpace"}
  BY DispatcherFacts DEF InCall
<1>2. InPlaces({"Exec", "AddrSpace"}) \in Nat /\ InPlaces({"Exec", "AddrSpace"}) >= 1
  BY <1>1, SomebodyIsThere
<1>3. processCount \in 1..MaxProcesses
  BY DEF ControlInv, ProcessTypeOK, Spaces
<1> QED BY <1>2, <1>3 DEF BoundsAreKept, Spaces

\* No Fork is in progress while another call executes under kernelLock.
LEMMA NobodyIsNewborn ==
  ASSUME IInv, ControlInv, NEW place \in (FirstPlaces \cup InnerPlaces) \ {"NewPageTable", "ForkThread"},
         InCall(place)
  PROVE  Newborn = {}
<1>1. \A t \in Threads : sys[t] \notin {"NewPageTable", "ForkThread"}
  <2>1. /\ sys[currentThread] = place /\ currentThread \in Threads
        /\ \A t \in Threads \ {currentThread} : sys[t] \notin InnerPlaces
    BY CallerOwnsKernel
  <2> QED BY <2>1 DEF InnerPlaces
<1> QED BY <1>1 DEF ControlInv, ThreadsAreBorn, Newborn

\* A thread that was switched to has a space: the table SwitchSpace restores.
LEMMA SwitchSpaceType ==
  ASSUME ControlInv, BirthsKept, SwitchSpace, currentThread' \in Threads
  PROVE  machineTable' \in Spaces \X Nat
<1>1. CASE currentThread' \in started
  <2>1. space[currentThread'] \in Spaces
    <3>1. space[currentThread'] \in 0..processCount /\ space[currentThread'] # NoSpace
      BY <1>1 DEF ControlInv, ThreadsAreBorn
    <3>2. processCount \in 1..MaxProcesses
      BY DEF ControlInv, ProcessTypeOK, Spaces
    <3> QED BY <3>1, <3>2 DEF NoSpace, Spaces
  <2>2. pageTable[space[currentThread']] \in Seq(Entries)
    BY <2>1 DEF ControlInv, ProcessTypeOK
  <2> QED BY <2>1, <2>2 DEF SwitchSpace, TableOf, ControlInv, ProcessTypeOK
<1>2. CASE currentThread' \notin started
  BY <1>2 DEF SwitchSpace, ControlInv, ProcessTypeOK
<1> QED BY <1>1, <1>2

----------------------------------------------------------------------------
(***************************************************************************)
(* Each step keeps IInv and ControlInv.                                    *)
(***************************************************************************)
\* The steps that only acquire kernelLock.
LEMMA LockKernelKeeps ==
  ASSUME IInv, ControlInv, NEW place \in {"user", "begin", "YieldBack"}, NEW next \in FirstPlaces,
         LockKernel(place, next)
  PROVE  IInv' /\ ControlInv' /\ BirthsKept
<1>1. /\ Processing /\ currentThread \in Threads /\ sys[currentThread] = place
      /\ Acquire(kernelLock) /\ SwitchSpace /\ UNCHANGED processVars
      /\ sys \in [Threads -> ProcessPlaces]
  BY DispatcherFacts DEF LockKernel, InCall, At, ControlInv, ProcessTypeOK
<1>2. IInv'
  BY <1>1, AcquireKeepsIInv DEF Acquire, At
<1>3. BirthsKept
  BY <1>1, AcquireKeepsBirths DEF ControlInv
<1>4. sys' \in [Threads -> ProcessPlaces] /\ sys'[currentThread] = next
      /\ \A t \in Threads \ {currentThread} : sys'[t] = sys[t]
  BY <1>1 DEF LockKernel, SysGoto, FirstPlaces, ProcessPlaces
<1>5. machineTable' \in Spaces \X Nat
  <2>1. currentThread' \in Threads
    BY <1>2 DEF IInv, TypeOK, SchedTypeOK
  <2> QED BY <1>1, <1>3, <2>1, SwitchSpaceType
<1>6. ProcessTypeOK'
  BY <1>1, <1>2, <1>4, <1>5 DEF ControlInv, ProcessTypeOK, IInv, processVars, spaceVars
<1>7. ThreadsAreBorn'
  <2>1. processCount \in Nat
    BY DEF ControlInv, ProcessTypeOK, Spaces
  <2> QED BY <1>1, <1>3, <1>4, <2>1, BirthsStay DEF ControlInv, processVars, FirstPlaces
<1> QED BY <1>2, <1>3, <1>6, <1>7, LockKernelControl DEF ControlInv

\* The steps that only release kernelLock.
LEMMA UnlockKernelKeeps ==
  ASSUME IInv, ControlInv,
         NEW place \in {"Launch", "Exec", "Exit", "Yield", "Unlock", "ExitUnlock"},
         NEW next \in {"user", "Finish", "YieldCpu"},
         InCall(place), UnlockKernel(next), space' = space, processCount' = processCount
  PROVE  IInv' /\ KernelIsGuarded' /\ SpaceLocksAreTheirs' /\ ThreadsAreBorn' /\ BirthsKept
         /\ sys' \in [Threads -> ProcessPlaces]
<1>1. /\ currentThread \in Threads /\ sys[currentThread] = place
      /\ Release(kernelLock)
      /\ sys \in [Threads -> ProcessPlaces]
  BY DispatcherFacts DEF UnlockKernel, InCall, ControlInv, ProcessTypeOK
<1>2. IInv' /\ BirthsKept
  BY <1>1, ReleaseKeepsIInv, ReleaseKeepsBirths DEF ControlInv
<1>3. sys' \in [Threads -> ProcessPlaces] /\ sys'[currentThread] = next
      /\ \A t \in Threads \ {currentThread} : sys'[t] = sys[t]
  BY <1>1 DEF UnlockKernel, SysGoto, ProcessPlaces
<1>4. ThreadsAreBorn'
  <2>1. processCount \in Nat
    BY DEF ControlInv, ProcessTypeOK, Spaces
  <2> QED BY <1>1, <1>2, <1>3, <2>1, BirthsStay DEF ControlInv
<1> QED BY <1>2, <1>3, <1>4, UnlockKernelControl

\* The machine stops.
LEMMA StopKeepsAll ==
  ASSUME PInv, halted' = TRUE, UNCHANGED <<currentThread, status, readyList, threadToBeDestroyed,
           started, deleted, monitorVars, processVars, machineTable, sys>>
  PROVE  PInv'
<1>1. IInv'
  BY HaltKeepsIInv DEF PInv
<1>2. ControlInv'
  BY <1>1 DEF PInv, ControlInv, ProcessTypeOK, KernelIsGuarded, SpaceLocksAreTheirs, ThreadsAreBorn,
     Newborn, IInv, monitorVars, lockVars, pcVars, processVars, spaceVars
<1>3. CountInv'
  BY DEF PInv, CountInv, NewSpaceIsEmpty, BoundsAreKept, CountsAgree, Unused, InPlaces, live, LivesIn,
     processVars, spaceVars
<1>4. MemoryIsMapped'
  BY DEF PInv, MemoryIsMapped, PagesBelongToOne, StacksAreMapped, HasStack, MappedAt, StackOf, PagesOf,
     Newborn, live, processVars, spaceVars
<1>5. MachineSeesSpace'
  BY DEF MachineSeesSpace, Processing
<1> QED BY <1>1, <1>2, <1>3, <1>4, <1>5 DEF PInv

\* SC_Fork takes an object, counts it and goes on under pageTableLock.
LEMMA NewKernelThreadKeeps ==
  ASSUME IInv, ControlInv, BoundsAreKept, NewKernelThread
  PROVE  IInv' /\ ControlInv'
<1>1. InCall("Fork") /\ Acquire(mySpace) /\ SysGoto("NewPageTable")
  BY DEF NewKernelThread
<1>2. /\ Processing /\ currentThread \in Threads /\ sys[currentThread] = "Fork"
      /\ mySpace \in 1..processCount /\ mySpace \in Spaces
      /\ \A t \in Threads \ {currentThread} : sys[t] \notin InnerPlaces
  BY <1>1, CallerOwnsKernel DEF FirstPlaces, mySpace
<1>3. /\ newThread \in Threads /\ space[newThread] = NoSpace
      /\ status[newThread] = "JUST_CREATED" /\ newThread \notin started
      /\ sys[newThread] = "begin" /\ newThread # currentThread
  BY <1>1, NewThreadIsUnused
<1>4. /\ space' \in [Threads -> Spaces \cup {NoSpace}]
      /\ space'[newThread] = mySpace
      /\ \A t \in Threads \ {newThread} : space'[t] = space[t]
  BY <1>2, <1>3 DEF NewKernelThread, ControlInv, ProcessTypeOK
<1>5. KernelIsGuarded' /\ SpaceLocksAreTheirs' /\ UNCHANGED schedVars
  <2>1. mySpace = space'[currentThread]
    BY <1>2, <1>3, <1>4 DEF mySpace
  <2> QED BY <1>1, <1>2, <2>1, LockSpaceControl
<1>6. IInv'
  BY <1>1, <1>2, AcquireKeepsIInv DEF Acquire, At
<1>7. sys' \in [Threads -> ProcessPlaces] /\ sys'[currentThread] = "NewPageTable"
      /\ \A t \in Threads \ {currentThread} : sys'[t] = sys[t]
  BY <1>1, <1>2 DEF SysGoto, ProcessPlaces, ControlInv, ProcessTypeOK
<1>8. ProcessTypeOK'
  <2>1. threadCount' \in [Spaces -> Nat]
    BY <1>2 DEF NewKernelThread, ControlInv, ProcessTypeOK
  <2> QED BY <1>4, <1>6, <1>7, <2>1 DEF NewKernelThread, ControlInv, ProcessTypeOK, IInv
<1>9. ThreadsAreBorn'
  <2>1. Newborn = {}
    BY <1>1, NobodyIsNewborn DEF FirstPlaces
  <2>2. \A t \in Threads : sys'[t] \in {"NewPageTable", "ForkThread"} <=> t = currentThread
    BY <1>2, <1>7 DEF InnerPlaces
  <2>3. Newborn' = {newThread}
    BY <1>2, <1>3, <1>4, <1>5, <2>1 DEF Newborn, schedVars, NoSpace
  <2>4. space'[currentThread] = mySpace
    BY <1>2, <1>3, <1>4 DEF mySpace
  <2>5. \A t \in Threads :
          /\ space'[t] \in 0..processCount'
          /\ space'[t] = NoSpace => status'[t] = "JUST_CREATED"
          /\ status'[t] = "JUST_CREATED" => t \notin started'
          /\ t \notin started' => sys'[t] = "begin"
    BY <1>2, <1>3, <1>4, <1>5, <1>7
       DEF NewKernelThread, ControlInv, ThreadsAreBorn, schedVars, NoSpace
  <2>6. currentThread' \in started'
    BY <1>5 DEF ControlInv, ThreadsAreBorn, schedVars
  <2> QED BY <1>2, <1>3, <1>4, <2>2, <2>3, <2>4, <2>5, <2>6 DEF ThreadsAreBorn
<1> QED BY <1>5, <1>6, <1>8, <1>9 DEF ControlInv

\* NewPageTable: the pages of a stack are added to the table.
LEMMA NewPageTableKeeps ==
  ASSUME IInv, ControlInv, NewPageTable
  PROVE  IInv' /\ ControlInv'
<1> DEFINE found == Found(StackPages)
<1>1. InCall("NewPageTable") /\ Release(mySpace) /\ SysGoto("ForkThread")
  BY DEF NewPageTable
<1>2. /\ Processing /\ currentThread \in Threads /\ sys[currentThread] = "NewPageTable"
      /\ mySpace \in 1..processCount /\ mySpace \in Spaces /\ mySpace \in Locks
  BY <1>1, CallerOwnsKernel DEF InnerPlaces, mySpace
<1>3. IInv' /\ BirthsKept
  BY <1>1, <1>2, ReleaseKeepsIInv, ReleaseKeepsBirths DEF ControlInv
<1>4. KernelIsGuarded' /\ SpaceLocksAreTheirs'
  BY <1>1, <1>2, UnlockSpaceControl DEF mySpace
<1>5. sys' \in [Threads -> ProcessPlaces] /\ sys'[currentThread] = "ForkThread"
      /\ \A t \in Threads \ {currentThread} : sys'[t] = sys[t]
  BY <1>1, <1>2 DEF SysGoto, ProcessPlaces, ControlInv, ProcessTypeOK
<1>6. found \in Seq(Entries) /\ Range(found) \subseteq Pages
  <2>1. found \in Seq(Pages \ bitmap)
    BY FoundPages
  <2>2. Range(found) \subseteq Pages \ bitmap
    BY <2>1, QueueEmpty
  <2>3. Pages \ bitmap \subseteq Entries
    BY DEF Pages, Entries, NoPage
  <2> HIDE DEF found
  <2> QED BY <2>1, <2>2, <2>3
<1>7. pageTable[mySpace] \in Seq(Entries) /\ Len(pageTable[mySpace]) \in Nat
  BY <1>2 DEF ControlInv, ProcessTypeOK
<1>8. ProcessTypeOK'
  <2>1. pageTable' = [pageTable EXCEPT ![mySpace] = @ \o found]
    BY DEF NewPageTable
  <2>2. pageTable[mySpace] \o found \in Seq(Entries)
    BY <1>6, <1>7
  <2>3. pageTable' \in [Spaces -> Seq(Entries)]
    BY <2>1, <2>2 DEF ControlInv, ProcessTypeOK
  <2>4. stackLocation' \in [Threads -> Nat]
    BY <1>7 DEF NewPageTable, ControlInv, ProcessTypeOK
  <2>5. machineTable' \in Spaces \X Nat
    BY <1>2, <1>7 DEF NewPageTable
  <2>6. bitmap' \subseteq Pages
    BY <1>6 DEF NewPageTable, ControlInv, ProcessTypeOK
  <2> QED BY <1>3, <1>5, <2>3, <2>4, <2>5, <2>6 DEF NewPageTable, ControlInv, ProcessTypeOK, IInv
<1>9. ThreadsAreBorn'
  <2>1. processCount \in Nat
    BY DEF ControlInv, ProcessTypeOK, Spaces
  <2>2. space' = space /\ processCount' = processCount
    BY DEF NewPageTable
  <2> QED BY <1>2, <1>3, <1>5, <2>1, <2>2, BirthsStay DEF ControlInv
<1> QED BY <1>3, <1>4, <1>8, <1>9 DEF ControlInv

\* The newborn becomes ready.
LEMMA ForkThreadKeeps ==
  ASSUME IInv, ControlInv, ForkThread
  PROVE  IInv' /\ ControlInv'
<1>1. InCall("ForkThread") /\ SchedFork(child) /\ SysGoto("Unlock") /\ UNCHANGED monitorVars
      /\ UNCHANGED processVars
  BY DEF ForkThread
<1>2. /\ Processing /\ currentThread \in Threads /\ sys[currentThread] = "ForkThread"
      /\ pc[currentThread] = "run" /\ lockOwner[kernelLock] = currentThread
      /\ mySpace \in Spaces
      /\ \A t \in Threads \ {currentThread} : sys[t] \notin InnerPlaces
  BY <1>1, CallerOwnsKernel DEF InnerPlaces, mySpace
<1>3. /\ child \in Threads /\ Newborn = {child}
      /\ status[child] = "JUST_CREATED" /\ child # currentThread
  BY <1>1, ChildIsNewborn
<1>4. IInv'
  <2>1. Fork(child)
    BY <1>1 DEF Fork, InCall
  <2> QED BY <1>3, <2>1, ForkKeepsIInv
<1>5. /\ status'[child] = "READY" /\ UNCHANGED <<currentThread, started>>
      /\ \A t \in Threads \ {child} : status'[t] = status[t]
  BY <1>1, <1>3 DEF SchedFork, ReadyToRun, IInv, TypeOK, SchedTypeOK
<1>6. sys' \in [Threads -> ProcessPlaces] /\ sys'[currentThread] = "Unlock"
      /\ \A t \in Threads \ {currentThread} : sys'[t] = sys[t]
  BY <1>1, <1>2 DEF SysGoto, ProcessPlaces, ControlInv, ProcessTypeOK
<1>7. KernelIsGuarded' /\ SpaceLocksAreTheirs'
  <2>1. lockOwner' = lockOwner /\ pc' = pc /\ argLock' = argLock
        /\ space' = space /\ processCount' = processCount
    BY <1>1 DEF monitorVars, lockVars, pcVars, processVars
  <2>2. KernelIsGuarded'
    BY <1>2, <1>6, <2>1 DEF ControlInv, KernelIsGuarded, FirstPlaces, InnerPlaces
  <2>3. \A s \in Spaces, t \in Threads : lockOwner[s] = t => t # currentThread
    BY <1>2 DEF ControlInv, SpaceLocksAreTheirs
  <2> QED BY <1>6, <2>1, <2>2, <2>3 DEF ControlInv, SpaceLocksAreTheirs
<1>8. ProcessTypeOK'
  <2>1. machineTable' \in Spaces \X Nat
    BY <1>2 DEF ForkThread, RestoreState, TableOf, mySpace, ControlInv, ProcessTypeOK
  <2> QED BY <1>1, <1>4, <1>6, <2>1 DEF ControlInv, ProcessTypeOK, IInv, processVars, spaceVars
<1>9. ThreadsAreBorn'
  <2>1. Newborn' = {}
    BY <1>1, <1>3, <1>5 DEF Newborn, processVars
  <2>2. \A t \in Threads : sys'[t] \notin {"NewPageTable", "ForkThread"}
    BY <1>2, <1>6 DEF InnerPlaces
  <2>3. \A t \in Threads :
          /\ space'[t] \in 0..processCount'
          /\ space'[t] = NoSpace => status'[t] = "JUST_CREATED"
          /\ status'[t] = "JUST_CREATED" => t \notin started'
          /\ t \notin started' => sys'[t] = "begin"
    BY <1>1, <1>3, <1>5, <1>6 DEF Newborn, ControlInv, ThreadsAreBorn, processVars
  <2>4. currentThread' \in started'
    BY <1>5 DEF ControlInv, ThreadsAreBorn
  <2> QED BY <2>1, <2>2, <2>3, <2>4 DEF ThreadsAreBorn
<1> QED BY <1>4, <1>7, <1>8, <1>9 DEF ControlInv

\* SC_Exec opens the file: the new space has a number, and its lock is free.
LEMMA ExecOpensKeeps ==
  ASSUME IInv, ControlInv, BoundsAreKept, ExecOpens
  PROVE  IInv' /\ ControlInv'
<1>1. InCall("Exec") /\ Acquire(processCount + 1) /\ SysGoto("AddrSpace")
  BY DEF ExecOpens
<1>2. /\ Processing /\ currentThread \in Threads /\ sys[currentThread] = "Exec"
      /\ processCount + 1 \in Spaces /\ processCount + 1 \in Locks /\ processCount \in Nat
  BY <1>1, CallerOwnsKernel, RoomForSpace DEF FirstPlaces
<1>3. IInv'
  BY <1>1, <1>2, AcquireKeepsIInv DEF Acquire, At
<1>4. KernelIsGuarded' /\ SpaceLocksAreTheirs' /\ UNCHANGED schedVars
  <2>1. processCount' = processCount
    BY DEF ExecOpens
  <2> QED BY <1>1, <1>2, <2>1, LockSpaceControl
<1>5. sys' \in [Threads -> ProcessPlaces] /\ sys'[currentThread] = "AddrSpace"
      /\ \A t \in Threads \ {currentThread} : sys'[t] = sys[t]
  BY <1>1, <1>2 DEF SysGoto, ProcessPlaces, ControlInv, ProcessTypeOK
<1>6. ProcessTypeOK'
  <2>1. runningProcessCount + 1 \in 0..MaxProcessCount
    <3>1. InPlaces({"Exec"}) \in Nat /\ InPlaces({"Exec"}) >= 1
      BY <1>2, SomebodyIsThere
    <3> QED BY <3>1 DEF BoundsAreKept, ControlInv, ProcessTypeOK
  <2> QED BY <1>3, <1>5, <2>1 DEF ExecOpens, ControlInv, ProcessTypeOK, IInv, spaceVars
<1>7. ThreadsAreBorn'
  <2>1. space' = space /\ processCount' = processCount
    BY DEF ExecOpens
  <2>2. BirthsKept
    BY <1>4, SameKeepsBirths DEF ControlInv, schedVars
  <2> QED BY <1>2, <1>5, <2>1, <2>2, BirthsStay DEF ControlInv
<1> QED BY <1>3, <1>4, <1>6, <1>7 DEF ControlInv

\* SC_Exec that finds no file only counts a process.
LEMMA ExecFailsKeeps ==
  ASSUME IInv, ControlInv, BoundsAreKept, ExecFails
  PROVE  IInv' /\ ControlInv'
<1>1. InCall("Exec") /\ UnlockKernel("user") /\ space' = space /\ processCount' = processCount
  BY DEF ExecFails
<1>2. /\ IInv' /\ KernelIsGuarded' /\ SpaceLocksAreTheirs' /\ ThreadsAreBorn'
      /\ sys' \in [Threads -> ProcessPlaces]
  BY <1>1, UnlockKernelKeeps
<1>3. runningProcessCount + 1 \in 0..MaxProcessCount
  <2>1. currentThread \in Threads /\ sys[currentThread] = "Exec"
    BY <1>1, DispatcherFacts DEF InCall
  <2>2. InPlaces({"Exec"}) \in Nat /\ InPlaces({"Exec"}) >= 1
    BY <2>1, SomebodyIsThere
  <2> QED BY <2>2 DEF BoundsAreKept, ControlInv, ProcessTypeOK
<1> QED BY <1>2, <1>3 DEF ExecFails, ControlInv, ProcessTypeOK, IInv, spaceVars

\* The entries of a table that found pages and what the memory held before.
LEMMA TableOfEntries ==
  ASSUME NEW n \in Nat, NEW rest \in [1..n - Len(Found(n)) -> Entries]
  PROVE  /\ Range(Found(n)) \subseteq Pages \ bitmap
         /\ Found(n) \o rest \in Seq(Entries)
         /\ Len(Found(n) \o rest) = n
         /\ Len(Found(n)) = n => Found(n) \o rest = Found(n)
<1> DEFINE found == Found(n)
<1>1. found \in Seq(Pages \ bitmap) /\ Len(found) \in 0..n
  BY FoundPages
<1>2. Range(found) \subseteq Pages \ bitmap
  BY <1>1, QueueEmpty
<1>3. Pages \ bitmap \subseteq Entries
  BY DEF Pages, Entries, NoPage
<1> HIDE DEF found
<1>4. n - Len(found) \in Nat /\ rest \in [1..n - Len(found) -> Entries]
  BY <1>1 DEF found
<1>5. rest \in Seq(Entries) /\ Len(rest) = n - Len(found)
  BY <1>4
<1>6. found \o rest \in Seq(Entries) /\ Len(found \o rest) = n
  BY <1>1, <1>3, <1>5
<1>7. Len(found) = n => found \o rest = found
  <2> SUFFICES ASSUME Len(found) = n PROVE found \o rest = found
    OBVIOUS
  <2>1. rest = << >>
    BY <1>5, EmptySeq
  <2> QED BY <1>1, <2>1
<1> QED BY <1>2, <1>6, <1>7 DEF found

\* The rest of the constructor: the space has a table.
LEMMA AddrSpaceKeeps ==
  ASSUME IInv, ControlInv, BoundsAreKept, AddrSpace
  PROVE  IInv' /\ ControlInv'
<1> DEFINE s == processCount + 1
           n == ProgramPages + StackPages
<1>1. InCall("AddrSpace") /\ Release(s) /\ SysGoto("ExecThread") /\ processCount' = s
  BY DEF AddrSpace
<1>2. /\ Processing /\ currentThread \in Threads /\ sys[currentThread] = "AddrSpace"
      /\ s \in Spaces /\ s \in Locks /\ processCount \in Nat /\ n \in Nat
      /\ \A t \in Threads \ {currentThread} : sys[t] \notin InnerPlaces
  BY <1>1, CallerOwnsKernel, RoomForSpace DEF InnerPlaces
<1>3. IInv' /\ BirthsKept
  BY <1>1, <1>2, ReleaseKeepsIInv, ReleaseKeepsBirths DEF ControlInv
<1>4. KernelIsGuarded' /\ SpaceLocksAreTheirs'
  BY <1>1, <1>2, UnlockSpaceControl
<1>5. sys' \in [Threads -> ProcessPlaces] /\ sys'[currentThread] = "ExecThread"
      /\ \A t \in Threads \ {currentThread} : sys'[t] = sys[t]
  BY <1>1, <1>2 DEF SysGoto, ProcessPlaces, ControlInv, ProcessTypeOK
<1>6. ProcessTypeOK'
  <2>1. PICK rest \in [1..n - Len(Found(n)) -> Entries] :
          pageTable' = [pageTable EXCEPT ![s] = Found(n) \o rest]
    BY DEF AddrSpace
  <2>2. Range(Found(n)) \subseteq Pages /\ Found(n) \o rest \in Seq(Entries)
    BY <1>2, TableOfEntries
  <2>3. pageTable' \in [Spaces -> Seq(Entries)]
    BY <2>1, <2>2 DEF ControlInv, ProcessTypeOK
  <2>4. bitmap' \subseteq Pages
    BY <2>2 DEF AddrSpace, ControlInv, ProcessTypeOK
  <2>5. threadCount' \in [Spaces -> Nat]
    BY DEF AddrSpace, ControlInv, ProcessTypeOK
  <2>6. starved' \subseteq 1..processCount'
    <3>1. starved \subseteq 1..processCount /\ starved' \subseteq starved \cup {s}
      BY DEF AddrSpace, ControlInv, ProcessTypeOK
    <3> QED BY <1>1, <1>2, <3>1
  <2>7. deletedSpaces' \subseteq 1..processCount'
    <3>1. deletedSpaces \subseteq 1..processCount /\ deletedSpaces' = deletedSpaces
      BY DEF AddrSpace, ControlInv, ProcessTypeOK
    <3> QED BY <1>1, <1>2, <3>1
  <2> QED BY <1>1, <1>2, <1>3, <1>5, <2>3, <2>4, <2>5, <2>6, <2>7
             DEF AddrSpace, ControlInv, ProcessTypeOK, IInv
<1>7. ThreadsAreBorn'
  <2>1. space' = space /\ processCount' \in Nat /\ processCount' >= processCount
    BY <1>1, <1>2 DEF AddrSpace
  <2> QED BY <1>2, <1>3, <1>5, <2>1, BirthsStay DEF ControlInv
<1> QED BY <1>3, <1>4, <1>6, <1>7 DEF ControlInv

\* The first thread of the new space becomes ready.
LEMMA ExecThreadKeeps ==
  ASSUME IInv, ControlInv, BoundsAreKept, ExecThread
  PROVE  IInv' /\ ControlInv'
<1>1. InCall("ExecThread") /\ SchedFork(newThread) /\ SysGoto("Unlock") /\ UNCHANGED monitorVars
      /\ UNCHANGED <<processCount, runningProcessCount, spaceVars, machineTable>>
  BY DEF ExecThread
<1>2. /\ Processing /\ currentThread \in Threads /\ sys[currentThread] = "ExecThread"
      /\ pc[currentThread] = "run" /\ lockOwner[kernelLock] = currentThread
      /\ \A t \in Threads \ {currentThread} : sys[t] \notin InnerPlaces
  BY <1>1, CallerOwnsKernel DEF InnerPlaces
<1>3. /\ newThread \in Threads /\ space[newThread] = NoSpace
      /\ sys[newThread] = "begin" /\ newThread # currentThread
  BY <1>1, NewThreadIsUnused
<1>4. IInv'
  <2>1. Fork(newThread)
    BY <1>1 DEF Fork, InCall
  <2> QED BY <1>3, <2>1, ForkKeepsIInv
<1>5. /\ status'[newThread] = "READY" /\ UNCHANGED <<currentThread, started>>
      /\ \A t \in Threads \ {newThread} : status'[t] = status[t]
  BY <1>1, <1>3 DEF SchedFork, ReadyToRun, IInv, TypeOK, SchedTypeOK
<1>6. sys' \in [Threads -> ProcessPlaces] /\ sys'[currentThread] = "Unlock"
      /\ \A t \in Threads \ {currentThread} : sys'[t] = sys[t]
  BY <1>1, <1>2 DEF SysGoto, ProcessPlaces, ControlInv, ProcessTypeOK
<1>7. /\ space' \in [Threads -> Spaces \cup {NoSpace}]
      /\ space'[newThread] = processCount /\ processCount \in Nat \ {0}
      /\ \A t \in Threads \ {newThread} : space'[t] = space[t]
  BY <1>3 DEF ExecThread, ControlInv, ProcessTypeOK, Spaces
<1>8. KernelIsGuarded' /\ SpaceLocksAreTheirs'
  <2>1. lockOwner' = lockOwner /\ pc' = pc /\ argLock' = argLock /\ processCount' = processCount
    BY <1>1 DEF monitorVars, lockVars, pcVars
  <2>2. KernelIsGuarded'
    BY <1>2, <1>6, <2>1 DEF ControlInv, KernelIsGuarded, FirstPlaces, InnerPlaces
  <2>3. \A s \in Spaces, t \in Threads : lockOwner[s] = t => t # currentThread /\ t # newThread
    BY <1>2, <1>3 DEF ControlInv, SpaceLocksAreTheirs
  <2> QED BY <1>6, <1>7, <2>1, <2>2, <2>3 DEF ControlInv, SpaceLocksAreTheirs
<1>9. ProcessTypeOK'
  <2>1. stackLocation' \in [Threads -> Nat]
    BY DEF ExecThread, ControlInv, ProcessTypeOK
  <2> QED BY <1>1, <1>4, <1>6, <1>7, <2>1 DEF ControlInv, ProcessTypeOK, IInv, spaceVars
<1>10. ThreadsAreBorn'
  <2>1. Newborn = {}
    BY <1>1, NobodyIsNewborn DEF InnerPlaces
  <2>2. Newborn' = {}
    BY <1>5, <1>7, <2>1 DEF Newborn
  <2>3. \A t \in Threads : sys'[t] \notin {"NewPageTable", "ForkThread"}
    BY <1>2, <1>6 DEF InnerPlaces
  <2>4. \A t \in Threads :
          /\ space'[t] \in 0..processCount'
          /\ space'[t] = NoSpace => status'[t] = "JUST_CREATED"
          /\ status'[t] = "JUST_CREATED" => t \notin started'
          /\ t \notin started' => sys'[t] = "begin"
    BY <1>1, <1>2, <1>3, <1>5, <1>6, <1>7 DEF ControlInv, ThreadsAreBorn, NoSpace
  <2>5. currentThread' \in started'
    BY <1>5 DEF ControlInv, ThreadsAreBorn
  <2> QED BY <2>2, <2>3, <2>4, <2>5 DEF ThreadsAreBorn
<1> QED BY <1>4, <1>8, <1>9, <1>10 DEF ControlInv

\* Launch, Unlock, YieldUnlock and ExitUnlock: the end of a call.
LEMMA EndOfCallKeeps ==
  ASSUME IInv, ControlInv, Launch \/ Unlock \/ YieldUnlock \/ ExitUnlock
  PROVE  IInv' /\ ControlInv' /\ BirthsKept
<1>1. PICK place \in {"Launch", "Unlock", "Yield", "ExitUnlock"},
           next \in {"user", "Finish", "YieldCpu"} :
             InCall(place) /\ UnlockKernel(next) /\ UNCHANGED processVars
  BY DEF Launch, Unlock, YieldUnlock, ExitUnlock
<1>2. /\ IInv' /\ KernelIsGuarded' /\ SpaceLocksAreTheirs' /\ ThreadsAreBorn' /\ BirthsKept
      /\ sys' \in [Threads -> ProcessPlaces]
  BY <1>1, UnlockKernelKeeps DEF processVars
<1>3. space[currentThread] \in Spaces
  BY <1>1, CallerOwnsKernel DEF FirstPlaces, InnerPlaces
<1>4. machineTable' \in Spaces \X Nat
  BY <1>3 DEF Launch, Unlock, YieldUnlock, ExitUnlock, RestoreState, TableOf, ControlInv, ProcessTypeOK
<1> QED BY <1>1, <1>2, <1>4 DEF ControlInv, ProcessTypeOK, IInv, processVars, spaceVars

\* The last thread of a space deletes it, or the machine stops.
LEMMA ExitProcessKeeps ==
  ASSUME IInv, ControlInv, ExitProcess, ~Stop
  PROVE  IInv' /\ ControlInv'
<1>1. InCall("Exit") /\ UnlockKernel("Finish") /\ ~isLastProcess
      /\ UNCHANGED <<space, stackLocation, processCount, threadCount, starved, machineTable>>
  BY DEF ExitProcess
<1>2. /\ IInv' /\ KernelIsGuarded' /\ SpaceLocksAreTheirs' /\ ThreadsAreBorn'
      /\ sys' \in [Threads -> ProcessPlaces]
  BY <1>1, UnlockKernelKeeps
<1>3. mySpace \in 1..processCount /\ mySpace \in Spaces
  BY <1>1, CallerOwnsKernel DEF FirstPlaces, mySpace
<1>6. /\ bitmap' = bitmap \ (Range(pageTable[mySpace]) \ {NoPage})
      /\ deletedSpaces' = deletedSpaces \cup {mySpace}
      /\ pageTable' = [pageTable EXCEPT ![mySpace] = << >>]
      /\ runningProcessCount' = runningProcessCount - 1
  BY DEF ExitProcess
<1>4. /\ bitmap' \subseteq Pages
      /\ deletedSpaces' \subseteq 1..processCount'
      /\ runningProcessCount' \in 0..MaxProcessCount
  BY <1>1, <1>3, <1>6 DEF isLastProcess, ControlInv, ProcessTypeOK
<1>5. pageTable' \in [Spaces -> Seq(Entries)]
  BY <1>3, <1>6 DEF ControlInv, ProcessTypeOK
<1> QED BY <1>1, <1>2, <1>4, <1>5 DEF ControlInv, ProcessTypeOK, IInv

\* SC_Exit goes on under pageTableLock.
LEMMA ExitThreadKeeps ==
  ASSUME IInv, ControlInv, ExitThread
  PROVE  IInv' /\ ControlInv' /\ BirthsKept
<1>1. InCall("Exit") /\ Acquire(mySpace) /\ SysGoto("DeleteThread")
      /\ UNCHANGED <<processVars, machineTable>>
  BY DEF ExitThread
<1>2. /\ Processing /\ currentThread \in Threads /\ sys[currentThread] = "Exit"
      /\ mySpace \in Spaces /\ mySpace \in Locks
  BY <1>1, CallerOwnsKernel DEF FirstPlaces, mySpace
<1>3. IInv'
  BY <1>1, <1>2, AcquireKeepsIInv DEF Acquire, At
<1>4. KernelIsGuarded' /\ SpaceLocksAreTheirs' /\ UNCHANGED schedVars
  <2>1. mySpace = space'[currentThread]
    BY <1>1 DEF mySpace, processVars
  <2> QED BY <1>1, <1>2, <2>1, LockSpaceControl
<1>5. sys' \in [Threads -> ProcessPlaces] /\ sys'[currentThread] = "DeleteThread"
      /\ \A t \in Threads \ {currentThread} : sys'[t] = sys[t]
  BY <1>1, <1>2 DEF SysGoto, ProcessPlaces, ControlInv, ProcessTypeOK
<1>6. BirthsKept
  BY <1>4, SameKeepsBirths DEF ControlInv, schedVars
<1>7. ThreadsAreBorn'
  <2>1. processCount \in Nat /\ space' = space /\ processCount' = processCount
    BY <1>1 DEF ControlInv, ProcessTypeOK, Spaces, processVars
  <2> QED BY <1>2, <1>5, <1>6, <2>1, BirthsStay DEF ControlInv
<1> QED BY <1>1, <1>3, <1>4, <1>5, <1>6, <1>7
           DEF ControlInv, ProcessTypeOK, IInv, processVars, spaceVars

\* DeleteCurrentThread: the entries of a stack are emptied.
LEMMA DeleteCurrentThreadKeeps ==
  ASSUME IInv, ControlInv, CountsAgree, DeleteCurrentThread, ~Stop
  PROVE  IInv' /\ ControlInv'
<1>1. InCall("DeleteThread") /\ Release(mySpace) /\ SysGoto("ExitUnlock")
      /\ UNCHANGED <<space, stackLocation, processCount, runningProcessCount, deletedSpaces,
                     starved, machineTable>>
  BY DEF DeleteCurrentThread
<1>2. /\ Processing /\ currentThread \in Threads /\ sys[currentThread] = "DeleteThread"
      /\ mySpace \in 1..processCount /\ mySpace \in Spaces /\ mySpace \in Locks
      /\ \A t \in Threads \ {currentThread} : sys[t] \notin InnerPlaces
  BY <1>1, CallerOwnsKernel DEF InnerPlaces, mySpace
<1>3. IInv' /\ BirthsKept
  BY <1>1, <1>2, ReleaseKeepsIInv, ReleaseKeepsBirths DEF ControlInv
<1>4. KernelIsGuarded' /\ SpaceLocksAreTheirs'
  BY <1>1, <1>2, UnlockSpaceControl DEF mySpace
<1>5. sys' \in [Threads -> ProcessPlaces] /\ sys'[currentThread] = "ExitUnlock"
      /\ \A t \in Threads \ {currentThread} : sys'[t] = sys[t]
  BY <1>1, <1>2 DEF SysGoto, ProcessPlaces, ControlInv, ProcessTypeOK
<1>6. threadCount' \in [Spaces -> Nat]
  <2>1. threadCount[mySpace] \in Nat /\ threadCount[mySpace] >= 1
    <3> DEFINE R == {t \in Threads : LivesIn(t, mySpace)}
    <3>1. currentThread \in R /\ IsFiniteSet(R)
      BY <1>2, FS_Subset DEF LivesIn, mySpace
    <3>2. \A t \in Threads : sys[t] # "ExecThread"
      BY <1>2 DEF InnerPlaces
    <3>3. IF mySpace \in deletedSpaces THEN Cardinality(R) = 0 ELSE threadCount[mySpace] = Cardinality(R)
      BY <1>2, <3>2 DEF CountsAgree
    <3> HIDE DEF R
    <3>4. Cardinality(R) \in Nat /\ Cardinality(R) >= 1
      BY <3>1, OneElement
    <3> QED BY <3>3, <3>4
  <2>2. threadCount' = [threadCount EXCEPT ![mySpace] = @ - 1]
    BY DEF DeleteCurrentThread
  <2>3. threadCount[mySpace] - 1 \in Nat
    BY <2>1
  <2> QED BY <2>2, <2>3 DEF ControlInv, ProcessTypeOK
<1>7. pageTable' \in [Spaces -> Seq(Entries)]
  <2>1. pageTable[mySpace] \in Seq(Entries)
    BY <1>2 DEF ControlInv, ProcessTypeOK
  <2> DEFINE new == [i \in DOMAIN pageTable[mySpace] |->
                       IF i \in StackOf(currentThread) THEN NoPage ELSE pageTable[mySpace][i]]
  <2>2. NoPage \in Entries
    BY DEF Entries, NoPage
  <2>3. DOMAIN pageTable[mySpace] = 1..Len(pageTable[mySpace]) /\ Len(pageTable[mySpace]) \in Nat
    BY <2>1
  <2>4. \A i \in 1..Len(pageTable[mySpace]) : pageTable[mySpace][i] \in Entries
    BY <2>1
  <2>5. new \in [1..Len(pageTable[mySpace]) -> Entries]
    BY <2>2, <2>3, <2>4
  <2>6. pageTable' = [pageTable EXCEPT ![mySpace] = new]
    BY DEF DeleteCurrentThread
  <2> HIDE DEF new
  <2>7. new \in Seq(Entries)
    BY <2>3, <2>5
  <2> QED BY <1>2, <2>6, <2>7 DEF ControlInv, ProcessTypeOK
<1>8. ProcessTypeOK'
  BY <1>1, <1>3, <1>5, <1>6, <1>7 DEF DeleteCurrentThread, ControlInv, ProcessTypeOK, IInv
<1>9. ThreadsAreBorn'
  <2>1. processCount \in Nat
    BY DEF ControlInv, ProcessTypeOK, Spaces
  <2> QED BY <1>1, <1>2, <1>3, <1>5, <2>1, BirthsStay DEF ControlInv
<1> QED BY <1>3, <1>4, <1>8, <1>9 DEF ControlInv

\* Finish, Thread::Yield and a time slice: the processor changes hands.
LEMMA SwitchKeeps ==
  ASSUME IInv, ControlInv, FinishThread \/ YieldCpu \/ Preempt
  PROVE  IInv' /\ ControlInv' /\ BirthsKept
<1>1. Processing /\ currentThread \in Threads /\ SwitchSpace /\ UNCHANGED processVars
      /\ UNCHANGED lockVars
  BY DispatcherFacts DEF FinishThread, YieldCpu, Preempt, InCall, At, Finish, Yield, monitorVars
<1>2. BirthsKept
  <2>1. CASE FinishThread
    BY <1>1, <2>1, SleepKeepsBirths DEF FinishThread, Finish, SchedFinish, ControlInv
  <2>2. CASE YieldCpu
    BY <1>1, <2>2, YieldKeepsBirths, SameKeepsBirths DEF YieldCpu, ControlInv, schedVars
  <2>3. CASE Preempt
    BY <1>1, <2>3, YieldKeepsBirths DEF Preempt, Yield, ControlInv
  <2> QED BY <2>1, <2>2, <2>3
<1>3. IInv'
  <2>1. CASE FinishThread
    BY <2>1, FinishKeepsIInv DEF FinishThread
  <2>2. CASE YieldCpu
    <3>1. CASE Yield
      BY <3>1, YieldKeepsIInv
    <3>2. CASE UNCHANGED vars
      BY <3>2, StutterKeepsIInv
    <3> QED BY <2>2, <3>1, <3>2 DEF YieldCpu, Yield, InCall, vars
  <2>3. CASE Preempt
    BY <2>3, YieldKeepsIInv DEF Preempt
  <2> QED BY <2>1, <2>2, <2>3
<1>4. /\ sys' \in [Threads -> ProcessPlaces]
      /\ \A t \in Threads \ {currentThread} : sys'[t] = sys[t]
      /\ sys'[currentThread] # sys[currentThread]
           => sys[currentThread] = "YieldCpu" /\ sys'[currentThread] = "YieldBack"
  BY <1>1 DEF FinishThread, YieldCpu, Preempt, SysGoto, InCall, ProcessPlaces, ControlInv, ProcessTypeOK
<1>5. machineTable' \in Spaces \X Nat
  <2>1. currentThread' \in Threads
    BY <1>3 DEF IInv, TypeOK, SchedTypeOK
  <2> QED BY <1>1, <1>2, <2>1, SwitchSpaceType
<1>6. ProcessTypeOK'
  BY <1>1, <1>3, <1>4, <1>5 DEF ControlInv, ProcessTypeOK, IInv, processVars, spaceVars
<1>7. /\ \A t \in Threads \ {currentThread} : pc'[t] = pc[t] /\ argLock'[t] = argLock[t]
      /\ \/ pc'[currentThread] = pc[currentThread] /\ argLock'[currentThread] = argLock[currentThread]
         \/ pc'[currentThread] = "finished" /\ sys[currentThread] = "Finish"
  BY <1>1 DEF FinishThread, YieldCpu, Preempt, Finish, Yield, InCall, Goto, monitorVars, pcVars,
              IInv, TypeOK
<1>8. KernelIsGuarded'
  BY <1>1, <1>4, <1>7 DEF ControlInv, KernelIsGuarded, FirstPlaces, InnerPlaces, lockVars
<1>9. SpaceLocksAreTheirs'
  BY <1>1, <1>4 DEF ControlInv, SpaceLocksAreTheirs, lockVars, processVars
<1>10. ThreadsAreBorn'
  <2>1. processCount \in Nat /\ space' = space /\ processCount' = processCount
    BY <1>1 DEF ControlInv, ProcessTypeOK, Spaces, processVars
  <2> QED BY <1>1, <1>2, <1>4, <2>1, BirthsStay DEF ControlInv
<1> QED BY <1>2, <1>3, <1>6, <1>8, <1>9, <1>10 DEF ControlInv

\* The rest of Lock::Acquire: the thread was handed kernelLock.
LEMMA ResumeKeeps ==
  ASSUME IInv, ControlInv, Resume
  PROVE  IInv' /\ ControlInv' /\ BirthsKept
<1>1. /\ Processing /\ pc[currentThread] = "Acquire" /\ Goto("run", NoLock, NoCond)
      /\ UNCHANGED <<schedVars, lockVars, condVars>> /\ UNCHANGED <<processVars, machineTable, sys>>
      /\ currentThread \in Threads /\ status[currentThread] = "RUNNING"
  BY DispatcherFacts DEF Resume, AcquireReturn, At, Return, Processing
<1>2. IInv'
  BY <1>1, MoveKeepsIInv
<1>3. lockOwner[kernelLock] = currentThread
  <2>1. lockOwner[argLock[currentThread]] = currentThread
    BY <1>1 DEF IInv, LocksConsistent
  <2> QED BY <1>1, <2>1 DEF ControlInv, KernelIsGuarded
<1>4. /\ pc'[currentThread] = "run"
      /\ \A t \in Threads \ {currentThread} : pc'[t] = pc[t] /\ argLock'[t] = argLock[t]
  BY <1>1 DEF Goto, IInv, TypeOK
<1>5. BirthsKept
  BY <1>1, SameKeepsBirths DEF ControlInv, schedVars
<1>6. KernelIsGuarded'
  BY <1>1, <1>3, <1>4 DEF ControlInv, KernelIsGuarded, lockVars
<1>7. SpaceLocksAreTheirs'
  BY <1>1 DEF ControlInv, SpaceLocksAreTheirs, lockVars, processVars
<1>8. ThreadsAreBorn'
  <2>1. processCount \in Nat /\ space' = space /\ processCount' = processCount
    BY <1>1 DEF ControlInv, ProcessTypeOK, Spaces, processVars
  <2> QED BY <1>1, <1>5, <2>1, BirthsStay DEF ControlInv
<1> QED BY <1>1, <1>2, <1>5, <1>6, <1>7, <1>8
           DEF ControlInv, ProcessTypeOK, IInv, processVars, spaceVars

----------------------------------------------------------------------------
(***************************************************************************)
(* The steps that change neither memory nor a counter, but for the places  *)
(* of the threads.                                                         *)
(***************************************************************************)
\* The current thread goes on to a place; calls that will use a thread object,
\* a space or a count begin only while there is one left.
MovesTo(next) ==
  /\ sys' = [sys EXCEPT ![currentThread] = next]
  /\ next # sys[currentThread] =>
       /\ sys[currentThread] \notin Takers
       /\ next \notin {"AddrSpace", "ExecThread"}
       /\ sys[currentThread] \in Leaving <=> next \in Leaving
       /\ next \in {"Fork", "Exec"} => ThreadIsLeft
       /\ next = "Exec" => /\ processCount + InPlaces({"Exec", "AddrSpace"}) < MaxProcesses
                           /\ runningProcessCount + InPlaces({"Exec"}) < MaxProcessCount

QuietMove ==
  /\ UNCHANGED processVars
  /\ \E next \in ProcessPlaces :
       MovesTo(next) /\ (next = "NewPageTable" <=> sys[currentThread] = "NewPageTable")
  /\ \A t \in Threads : sys[t] = "NewPageTable" => Newborn' = Newborn

QuietStep ==
  \/ BeginFork \/ BeginExec \/ Begin \/ BeginExit \/ BeginYield \/ YieldLock
  \/ Launch \/ Unlock \/ YieldUnlock \/ ExitUnlock
  \/ ForkThread \/ ExitThread \/ FinishThread \/ YieldCpu \/ Preempt \/ Resume

\* kernelLock->Acquire() at the beginning of the calls.
LEMMA LockingIsQuiet ==
  ASSUME IInv, ControlInv,
         BeginFork \/ BeginExec \/ Begin \/ BeginExit \/ BeginYield \/ YieldLock
  PROVE  IInv' /\ ControlInv' /\ QuietMove
<1>1. PICK place \in {"user", "begin", "YieldBack"}, next \in FirstPlaces :
        /\ LockKernel(place, next)
        /\ next \in {"Fork", "Exec"} => ThreadIsLeft
        /\ next = "Exec" => /\ processCount + InPlaces({"Exec", "AddrSpace"}) < MaxProcesses
                            /\ runningProcessCount + InPlaces({"Exec"}) < MaxProcessCount
  BY DEF BeginFork, BeginExec, Begin, BeginExit, BeginYield, YieldLock, FirstPlaces
<1>2. IInv' /\ ControlInv' /\ BirthsKept
  BY <1>1, LockKernelKeeps
<1>3. UNCHANGED processVars /\ Newborn' = Newborn
  BY <1>1, <1>2 DEF LockKernel, BirthsKept, Newborn, processVars
<1>4. MovesTo(next) /\ next \in ProcessPlaces /\ next # "NewPageTable"
  BY <1>1 DEF LockKernel, InCall, SysGoto, MovesTo, Takers, Leaving, FirstPlaces, ProcessPlaces
<1>6. sys[currentThread] # "NewPageTable"
  BY <1>1 DEF LockKernel, InCall
<1>5. QuietMove
  BY <1>3, <1>4, <1>6 DEF QuietMove
<1> QED BY <1>2, <1>5

\* The ends of the calls, of a thread and of a time slice.
LEMMA OthersAreQuiet ==
  ASSUME IInv, ControlInv,
         \/ Launch \/ Unlock \/ YieldUnlock \/ ExitUnlock
         \/ ExitThread \/ FinishThread \/ YieldCpu \/ Preempt \/ Resume
  PROVE  IInv' /\ ControlInv' /\ QuietMove
<1>1. IInv' /\ ControlInv' /\ BirthsKept
  BY EndOfCallKeeps, ExitThreadKeeps, SwitchKeeps, ResumeKeeps
<1>2. UNCHANGED processVars
  BY DEF Launch, Unlock, YieldUnlock, ExitUnlock, ExitThread, FinishThread, YieldCpu, Preempt, Resume
<1>3. Newborn' = Newborn
  BY <1>1, <1>2 DEF BirthsKept, Newborn, processVars
<1>4. currentThread \in Threads /\ sys \in [Threads -> ProcessPlaces]
  BY DispatcherFacts DEF ControlInv, ProcessTypeOK
<1>5. ASSUME Launch \/ Unlock \/ YieldUnlock \/ ExitUnlock \/ ExitThread \/ YieldCpu
      PROVE  QuietMove
  <2>1. \E next \in {"user", "YieldCpu", "Finish", "DeleteThread", "YieldBack"} : MovesTo(next)
    BY <1>5 DEF Launch, Unlock, YieldUnlock, ExitUnlock, ExitThread, YieldCpu, UnlockKernel,
                InCall, SysGoto, MovesTo, Takers, Leaving
  <2>2. \E next \in ProcessPlaces : MovesTo(next) /\ next # "NewPageTable"
    BY <2>1 DEF ProcessPlaces
  <2>3. sys[currentThread] # "NewPageTable"
    BY <1>5 DEF Launch, Unlock, YieldUnlock, ExitUnlock, ExitThread, YieldCpu, InCall
  <2> QED BY <1>2, <1>3, <2>2, <2>3 DEF QuietMove
<1>6. ASSUME FinishThread \/ Preempt \/ Resume
      PROVE  QuietMove
  <2>1. sys' = sys
    BY <1>6 DEF FinishThread, Preempt, Resume
  <2>2. sys' = [sys EXCEPT ![currentThread] = sys[currentThread]]
    BY <1>4, <2>1
  <2>3. MovesTo(sys[currentThread]) /\ sys[currentThread] \in ProcessPlaces
    BY <1>4, <2>2 DEF MovesTo
  <2> QED BY <1>2, <1>3, <2>3 DEF QuietMove
<1> QED BY <1>1, <1>5, <1>6

\* The newborn becomes ready.
LEMMA ForkThreadIsQuiet ==
  ASSUME IInv, ControlInv, ForkThread
  PROVE  IInv' /\ ControlInv' /\ QuietMove
<1>1. InCall("ForkThread") /\ SysGoto("Unlock") /\ UNCHANGED processVars
  BY DEF ForkThread
<1>2. \A t \in Threads : sys[t] # "NewPageTable"
  BY <1>1, CallerOwnsKernel DEF InnerPlaces
<1>3. MovesTo("Unlock") /\ "Unlock" \in ProcessPlaces /\ "Unlock" # "NewPageTable"
  BY <1>1 DEF InCall, SysGoto, MovesTo, Takers, Leaving, ProcessPlaces
<1>4. QuietMove
  BY <1>1, <1>2, <1>3 DEF InCall, QuietMove
<1> QED BY <1>4, ForkThreadKeeps

\* All of them.
LEMMA QuietSteps ==
  ASSUME IInv, ControlInv, QuietStep
  PROVE  IInv' /\ ControlInv' /\ QuietMove
BY LockingIsQuiet, OthersAreQuiet, ForkThreadIsQuiet DEF QuietStep

----------------------------------------------------------------------------
(***************************************************************************)
(* The counters.                                                           *)
(***************************************************************************)
\* A step that changes no counter.
LEMMA MoveKeepsCounts ==
  ASSUME ControlInv, CountInv, currentThread \in Threads,
         UNCHANGED <<space, processCount, runningProcessCount, deletedSpaces, threadCount>>,
         NEW next \in ProcessPlaces, MovesTo(next)
  PROVE  CountInv'
<1> DEFINE here == sys[currentThread]
<1>1. sys \in [Threads -> ProcessPlaces] /\ sys' = [sys EXCEPT ![currentThread] = next]
      /\ processCount \in Nat /\ runningProcessCount \in Nat
  BY DEF ControlInv, ProcessTypeOK, MovesTo, Spaces
<1>2. /\ sys'[currentThread] = next
      /\ \A t \in Threads \ {currentThread} : sys'[t] = sys[t]
  BY <1>1
<1>3. PICK cur \in Threads : cur = currentThread
  OBVIOUS
<1>4. sys' = [sys EXCEPT ![cur] = next]
  BY <1>1, <1>3
<1>5. NewSpaceIsEmpty'
  BY <1>2 DEF MovesTo, CountInv, NewSpaceIsEmpty
<1>6. BoundsAreKept'
  <2>1. Unused' = Unused /\ live' = live
    BY DEF Unused, live
  <2>2. Cardinality(Unused) \in Nat /\ Cardinality(live) \in Nat
    <3>1. IsFiniteSet(Unused)
      BY FS_Subset DEF Unused
    <3>2. IsFiniteSet(1..processCount)
      BY <1>1, FS_Interval
    <3>3. IsFiniteSet(live)
      BY <3>2, FS_Subset DEF live
    <3> QED BY <3>1, <3>3, FS_CardinalityType
  <2>3. CASE next = here
    <3>1. \A t \in Threads : sys'[t] = sys[t]
      BY <1>2, <2>3
    <3> QED BY <2>1, <3>1 DEF CountInv, BoundsAreKept, InPlaces
  <2>4. CASE next # here
    <3>1. /\ here \notin Takers /\ next \notin {"AddrSpace", "ExecThread"}
          /\ next \in {"Fork", "Exec"} => Cardinality(Unused) > InPlaces(Takers)
          /\ next = "Exec" => /\ processCount + InPlaces({"Exec", "AddrSpace"}) < MaxProcesses
                              /\ runningProcessCount + InPlaces({"Exec"}) < MaxProcessCount
      BY <2>4 DEF MovesTo, ThreadIsLeft, Takers
    <3>2. sys[cur] \notin Takers
      BY <1>3, <3>1
    <3>3. /\ InPlaces(Takers) \in Nat
          /\ InPlaces(Takers)' = IF next \in {"Fork", "Exec"} THEN InPlaces(Takers) + 1 ELSE InPlaces(Takers)
      BY <1>1, <1>4, <3>1, <3>2, InPlacesMoves DEF Takers
    <3>4. /\ InPlaces({"Exec", "AddrSpace"}) \in Nat
          /\ InPlaces({"Exec", "AddrSpace"})' = IF next = "Exec" THEN InPlaces({"Exec", "AddrSpace"}) + 1
                                                ELSE InPlaces({"Exec", "AddrSpace"})
      BY <1>1, <1>4, <3>1, <3>2, InPlacesMoves DEF Takers
    <3>5. /\ InPlaces({"Exec"}) \in Nat
          /\ InPlaces({"Exec"})' = IF next = "Exec" THEN InPlaces({"Exec"}) + 1 ELSE InPlaces({"Exec"})
      BY <1>1, <1>4, <3>1, <3>2, InPlacesMoves DEF Takers
    <3>6. InPlaces({"AddrSpace"}) \in Nat /\ InPlaces({"AddrSpace"})' = InPlaces({"AddrSpace"})
      BY <1>1, <1>4, <3>1, <3>2, InPlacesMoves DEF Takers
    <3>7. Cardinality(Unused)' >= InPlaces(Takers)'
      BY <2>1, <2>2, <3>1, <3>3 DEF CountInv, BoundsAreKept
    <3>8. processCount' + InPlaces({"Exec", "AddrSpace"})' <= MaxProcesses
      BY <1>1, <3>1, <3>4 DEF CountInv, BoundsAreKept
    <3>9. runningProcessCount' + InPlaces({"Exec"})' <= MaxProcessCount
      BY <1>1, <3>1, <3>5 DEF CountInv, BoundsAreKept
    <3>10. Cardinality(live)' + InPlaces({"AddrSpace"})' <= runningProcessCount' + 1
      BY <2>1, <3>6 DEF CountInv, BoundsAreKept
    <3> QED BY <3>7, <3>8, <3>9, <3>10 DEF BoundsAreKept
  <2> QED BY <2>3, <2>4
<1>7. CountsAgree'
  <2>1. \A t \in Threads : sys'[t] \in Leaving <=> sys[t] \in Leaving
    BY <1>2 DEF MovesTo
  <2>2. \A t \in Threads, s \in 1..processCount : LivesIn(t, s)' <=> LivesIn(t, s)
    BY <2>1 DEF LivesIn, Leaving
  <2>3. \A s \in 1..processCount :
          {t \in Threads : LivesIn(t, s)'} = {t \in Threads : LivesIn(t, s)}
    BY <2>2
  <2>4. \A t \in Threads : sys[t] = "ExecThread" => sys'[t] = "ExecThread"
    BY <1>2 DEF MovesTo, Takers
  <2>5. live' = live
    BY DEF live
  <2> QED BY <2>3, <2>4, <2>5 DEF CountInv, CountsAgree
<1> QED BY <1>5, <1>6, <1>7 DEF CountInv

\* The sets that are counted are finite.
LEMMA CountedSetsAreFinite ==
  ASSUME processCount \in Nat
  PROVE  /\ IsFiniteSet(Unused) /\ Cardinality(Unused) \in Nat
         /\ IsFiniteSet(live) /\ Cardinality(live) \in Nat
         /\ \A s : IsFiniteSet({t \in Threads : LivesIn(t, s)})
<1>1. IsFiniteSet(Unused)
  BY FS_Subset DEF Unused
<1>2. IsFiniteSet(1..processCount)
  BY FS_Interval
<1>3. IsFiniteSet(live)
  BY <1>2, FS_Subset DEF live
<1>4. \A s : IsFiniteSet({t \in Threads : LivesIn(t, s)})
  BY FS_Subset
<1> QED BY <1>1, <1>3, <1>4, FS_CardinalityType

\* What a call under kernelLock knows of the counters of its own space: it
\* lives, and threadCount counts the caller.
LEMMA CallerIsCounted ==
  ASSUME IInv, ControlInv, CountInv,
         NEW place \in (FirstPlaces \cup InnerPlaces) \ {"ExecThread", "ExitUnlock"}, InCall(place)
  PROVE  /\ mySpace \in live
         /\ \A t \in Threads : sys[t] # "ExecThread"
         /\ \A s \in live : threadCount[s] = Cardinality({t \in Threads : LivesIn(t, s)})
         /\ threadCount[mySpace] \in Nat /\ threadCount[mySpace] >= 1
         /\ threadCount[mySpace] = 1 => \A t \in Threads : LivesIn(t, mySpace) => t = currentThread
<1> DEFINE R(s) == {t \in Threads : LivesIn(t, s)}
<1>1. /\ currentThread \in Threads /\ sys[currentThread] = place
      /\ mySpace \in 1..processCount /\ mySpace \in Spaces
      /\ \A t \in Threads \ {currentThread} : sys[t] \notin InnerPlaces
  BY CallerOwnsKernel DEF mySpace
<1>2. \A t \in Threads : sys[t] # "ExecThread"
  BY <1>1 DEF InnerPlaces
<1>3. LivesIn(currentThread, mySpace)
  BY <1>1 DEF LivesIn, mySpace, FirstPlaces, InnerPlaces
<1>4. \A s \in 1..processCount :
        IF s \in deletedSpaces THEN Cardinality(R(s)) = 0 ELSE threadCount[s] = Cardinality(R(s))
  BY <1>2 DEF CountInv, CountsAgree
<1>5. currentThread \in R(mySpace) /\ IsFiniteSet(R(mySpace))
  BY <1>1, <1>3, FS_Subset
<1>6. \A t \in Threads : LivesIn(t, mySpace) => t \in R(mySpace)
  OBVIOUS
<1>7. /\ Cardinality(R(mySpace)) \in Nat /\ Cardinality(R(mySpace)) >= 1
      /\ Cardinality(R(mySpace)) = 1 => \A y \in R(mySpace) : y = currentThread
  <2> HIDE DEF R
  <2> QED BY <1>5, OneElement
<1>8. mySpace \notin deletedSpaces /\ threadCount[mySpace] = Cardinality(R(mySpace))
  BY <1>1, <1>4, <1>7
<1>9. mySpace \in live
  BY <1>1, <1>8 DEF live
<1>10. \A s \in live : threadCount[s] = Cardinality(R(s))
  BY <1>4 DEF live
<1> QED BY <1>2, <1>6, <1>7, <1>8, <1>9, <1>10

\* A new thread joins the space of its parent.
LEMMA NewKernelThreadCounts ==
  ASSUME IInv, ControlInv, CountInv, NewKernelThread
  PROVE  CountInv'
<1>1. InCall("Fork") /\ SysGoto("NewPageTable")
      /\ UNCHANGED <<processCount, runningProcessCount, deletedSpaces>>
  BY DEF NewKernelThread
<1>2. PICK cur \in Threads : cur = currentThread
  BY DispatcherFacts
<1>3. PICK new \in Threads : new = newThread
  BY <1>1, NewThreadIsUnused DEF CountInv
<1>4. space[new] = NoSpace /\ sys[new] = "begin" /\ new # cur
  BY <1>1, <1>2, <1>3, NewThreadIsUnused DEF CountInv
<1>5. PICK s \in live : s = mySpace
  BY <1>1, CallerIsCounted DEF FirstPlaces
<1>6. /\ \A t \in Threads : sys[t] # "ExecThread"
      /\ \A r \in live : threadCount[r] = Cardinality({t \in Threads : LivesIn(t, r)})
  BY <1>1, CallerIsCounted DEF FirstPlaces
<1>7. /\ space' = [space EXCEPT ![new] = s] /\ threadCount' = [threadCount EXCEPT ![s] = @ + 1]
      /\ sys' = [sys EXCEPT ![cur] = "NewPageTable"]
  BY <1>1, <1>2, <1>3, <1>5 DEF NewKernelThread, SysGoto
<1>8. /\ sys \in [Threads -> ProcessPlaces] /\ sys[cur] = "Fork" /\ processCount \in Nat
      /\ space \in [Threads -> Spaces \cup {NoSpace}] /\ threadCount \in [Spaces -> Nat]
      /\ s \in Spaces /\ "NewPageTable" \in ProcessPlaces /\ live \subseteq Spaces
  <2>1. /\ sys \in [Threads -> ProcessPlaces] /\ processCount \in Spaces
        /\ space \in [Threads -> Spaces \cup {NoSpace}] /\ threadCount \in [Spaces -> Nat]
    BY DEF ControlInv, ProcessTypeOK
  <2>2. sys[cur] = "Fork"
    BY <1>1, <1>2 DEF InCall
  <2>3. processCount \in Nat /\ live \subseteq Spaces
    BY <2>1, ProcessesAssumption DEF live, Spaces
  <2>4. "NewPageTable" \in ProcessPlaces
    BY DEF ProcessPlaces
  <2> QED BY <2>1, <2>2, <2>3, <2>4
<1>9. /\ space'[new] = s /\ \A t \in Threads \ {new} : space'[t] = space[t]
      /\ threadCount'[s] = threadCount[s] + 1
      /\ \A r \in Spaces \ {s} : threadCount'[r] = threadCount[r]
      /\ sys'[cur] = "NewPageTable" /\ \A t \in Threads \ {cur} : sys'[t] = sys[t]
  BY <1>4, <1>7, <1>8
<1>10. NewSpaceIsEmpty'
  BY <1>6, <1>9 DEF NewSpaceIsEmpty
<1>11. BoundsAreKept'
  <2>1. Cardinality(Unused') = Cardinality(Unused) - 1 /\ Cardinality(Unused) \in Nat
    <3>1. \A t : t # new => (t \in Unused <=> t \in Unused')
      BY <1>9 DEF Unused
    <3>2. new \in Unused /\ new \notin Unused'
      BY <1>4, <1>8, <1>9 DEF Unused, NoSpace, Spaces
    <3>3. IsFiniteSet(Unused)
      BY <1>8, CountedSetsAreFinite
    <3> QED BY <3>1, <3>2, <3>3, OneElementChanges
  <2>2. InPlaces(Takers) \in Nat /\ InPlaces(Takers)' = InPlaces(Takers) - 1
    BY <1>7, <1>8, InPlacesMoves DEF Takers
  <2>3. InPlaces({"Exec", "AddrSpace"})' = InPlaces({"Exec", "AddrSpace"})
    BY <1>7, <1>8, InPlacesMoves
  <2>4. InPlaces({"Exec"})' = InPlaces({"Exec"})
    BY <1>7, <1>8, InPlacesMoves
  <2>5. InPlaces({"AddrSpace"})' = InPlaces({"AddrSpace"})
    BY <1>7, <1>8, InPlacesMoves
  <2>6. live' = live
    BY <1>1 DEF live
  <2>7. Cardinality(Unused)' >= InPlaces(Takers)'
    BY <2>1, <2>2 DEF CountInv, BoundsAreKept
  <2> QED BY <1>1, <2>3, <2>4, <2>5, <2>6, <2>7 DEF CountInv, BoundsAreKept
<1>12. CountsAgree'
  <2>1. \A t \in Threads, r \in 1..processCount :
          LivesIn(t, r)' <=> LivesIn(t, r) \/ (t = new /\ r = s)
    <3> SUFFICES ASSUME NEW t \in Threads, NEW r \in 1..processCount
                 PROVE  LivesIn(t, r)' <=> LivesIn(t, r) \/ (t = new /\ r = s)
      OBVIOUS
    <3>1. CASE t = new
      BY <1>4, <1>8, <1>9, <3>1 DEF LivesIn, NoSpace
    <3>2. CASE t = cur
      BY <1>4, <1>8, <1>9, <3>2 DEF LivesIn
    <3>3. CASE t # new /\ t # cur
      BY <1>9, <3>3 DEF LivesIn
    <3> QED BY <3>1, <3>2, <3>3
  <2>2. ~LivesIn(new, s)
    BY <1>4, <1>8 DEF LivesIn, NoSpace, Spaces
  <2>3. ASSUME NEW r \in 1..processCount, r # s
        PROVE  {t \in Threads : LivesIn(t, r)'} = {t \in Threads : LivesIn(t, r)}
    BY <2>1, <2>3
  <2>4. Cardinality({t \in Threads : LivesIn(t, s)'}) = Cardinality({t \in Threads : LivesIn(t, s)}) + 1
    <3> DEFINE R == {t \in Threads : LivesIn(t, s)}
               S == {t \in Threads : LivesIn(t, s)'}
    <3>1. \A t : t # new => (t \in R <=> t \in S)
      BY <1>5, <2>1 DEF live
    <3>2. new \notin R /\ new \in S
      BY <1>5, <2>1, <2>2 DEF live
    <3>3. IsFiniteSet(R)
      BY <1>8, CountedSetsAreFinite
    <3> HIDE DEF R, S
    <3>4. Cardinality(S) = Cardinality(R) + 1
      BY <3>1, <3>2, <3>3, OneElementChanges
    <3> QED BY <3>4 DEF R, S
  <2>5. live' = live
    BY <1>1 DEF live
  <2>6. ASSUME NEW r \in 1..processCount
        PROVE  IF r \in deletedSpaces THEN Cardinality({t \in Threads : LivesIn(t, r)'}) = 0
               ELSE threadCount'[r] = Cardinality({t \in Threads : LivesIn(t, r)'})
    <3>1. CASE r = s
      BY <1>5, <1>6, <1>9, <2>4, <3>1 DEF live
    <3>2. CASE r # s
      <4>1. r \in deletedSpaces => Cardinality({t \in Threads : LivesIn(t, r)}) = 0
        BY DEF CountInv, CountsAgree
      <4>2. r \notin deletedSpaces => r \in live /\ r \in Spaces \ {s}
        BY <1>8, <3>2 DEF live
      <4> QED BY <1>6, <1>9, <2>3, <3>2, <4>1, <4>2
    <3> QED BY <3>1, <3>2
  <2> QED BY <1>1, <2>5, <2>6 DEF CountInv, CountsAgree
<1> QED BY <1>10, <1>11, <1>12 DEF CountInv

\* The stack of a thread that has been counted.
LEMMA NewPageTableCounts ==
  ASSUME IInv, ControlInv, CountInv, NewPageTable
  PROVE  CountInv'
<1>1. InCall("NewPageTable") /\ SysGoto("ForkThread")
      /\ UNCHANGED <<space, processCount, runningProcessCount, deletedSpaces, threadCount>>
  BY DEF NewPageTable
<1>2. currentThread \in Threads /\ MovesTo("ForkThread") /\ "ForkThread" \in ProcessPlaces
  BY <1>1, DispatcherFacts DEF InCall, SysGoto, MovesTo, Takers, Leaving, ProcessPlaces
<1> QED BY <1>1, <1>2, MoveKeepsCounts

\* A process is counted before it has a space.
LEMMA ExecCounts ==
  ASSUME IInv, ControlInv, CountInv, ExecOpens \/ ExecFails
  PROVE  CountInv'
<1>1. InCall("Exec") /\ runningProcessCount' = runningProcessCount + 1
      /\ UNCHANGED <<space, processCount, deletedSpaces, threadCount>>
  BY DEF ExecOpens, ExecFails, spaceVars
<1>2. PICK cur \in Threads : cur = currentThread
  BY DispatcherFacts
<1>3. PICK next \in {"AddrSpace", "user"} : sys' = [sys EXCEPT ![cur] = next]
  BY <1>2 DEF ExecOpens, ExecFails, UnlockKernel, SysGoto
<1>4. /\ sys \in [Threads -> ProcessPlaces] /\ sys[cur] = "Exec" /\ next \in ProcessPlaces
      /\ runningProcessCount \in Nat /\ processCount \in Nat
  BY <1>1, <1>2 DEF InCall, ControlInv, ProcessTypeOK, Spaces, ProcessPlaces
<1>5. sys'[cur] = next /\ \A t \in Threads \ {cur} : sys'[t] = sys[t]
  BY <1>3, <1>4
<1>6. \A t \in Threads : sys[t] # "ExecThread" /\ sys'[t] # "ExecThread"
  BY <1>1, <1>5, CallerIsCounted DEF FirstPlaces
<1>7. live' = live /\ Unused' = Unused /\ Cardinality(live) \in Nat
  BY <1>1, <1>4, CountedSetsAreFinite DEF live, Unused
<1>8. BoundsAreKept'
  <2>1. InPlaces(Takers) \in Nat /\ InPlaces(Takers)' \in Nat /\ InPlaces(Takers)' <= InPlaces(Takers)
    BY <1>3, <1>4, InPlacesMoves DEF Takers
  <2>2. /\ InPlaces({"Exec", "AddrSpace"}) \in Nat /\ InPlaces({"Exec", "AddrSpace"})' \in Nat
        /\ InPlaces({"Exec", "AddrSpace"})' <= InPlaces({"Exec", "AddrSpace"})
    BY <1>3, <1>4, InPlacesMoves
  <2>3. InPlaces({"Exec"}) \in Nat /\ InPlaces({"Exec"})' = InPlaces({"Exec"}) - 1
    BY <1>3, <1>4, InPlacesMoves
  <2>4. /\ InPlaces({"AddrSpace"}) \in Nat /\ InPlaces({"AddrSpace"})' \in Nat
        /\ InPlaces({"AddrSpace"})' <= InPlaces({"AddrSpace"}) + 1
    BY <1>3, <1>4, InPlacesMoves
  <2>5. Cardinality(Unused) \in Nat /\ Cardinality(Unused)' >= InPlaces(Takers)'
    BY <1>4, <1>7, <2>1, CountedSetsAreFinite DEF CountInv, BoundsAreKept
  <2>6. processCount' + InPlaces({"Exec", "AddrSpace"})' <= MaxProcesses
    BY <1>1, <1>4, <2>2 DEF CountInv, BoundsAreKept
  <2>7. runningProcessCount' + InPlaces({"Exec"})' <= MaxProcessCount
    BY <1>1, <1>4, <2>3 DEF CountInv, BoundsAreKept
  <2>8. Cardinality(live)' + InPlaces({"AddrSpace"})' <= runningProcessCount' + 1
    BY <1>1, <1>4, <1>7, <2>4 DEF CountInv, BoundsAreKept
  <2> QED BY <2>5, <2>6, <2>7, <2>8 DEF BoundsAreKept
<1>9. CountsAgree'
  <2>1. \A t \in Threads, s \in 1..processCount : LivesIn(t, s)' <=> LivesIn(t, s)
    BY <1>1, <1>4, <1>5 DEF LivesIn
  <2>2. \A s \in 1..processCount :
          {t \in Threads : LivesIn(t, s)'} = {t \in Threads : LivesIn(t, s)}
    BY <2>1
  <2>3. Cardinality(live)' <= runningProcessCount' + 1
    BY <1>1, <1>4, <1>7 DEF CountInv, CountsAgree
  <2> QED BY <1>1, <1>6, <2>2, <2>3 DEF CountInv, CountsAgree
<1> QED BY <1>6, <1>8, <1>9 DEF CountInv, NewSpaceIsEmpty

\* The new space lives, and waits for its thread.
LEMMA AddrSpaceCounts ==
  ASSUME IInv, ControlInv, CountInv, AddrSpace
  PROVE  CountInv'
<1>1. InCall("AddrSpace") /\ SysGoto("ExecThread") /\ processCount' = processCount + 1
      /\ UNCHANGED <<space, runningProcessCount, deletedSpaces>>
      /\ threadCount' = [threadCount EXCEPT ![processCount + 1] = 1]
  BY DEF AddrSpace
<1>2. PICK cur \in Threads : cur = currentThread
  BY DispatcherFacts
<1>3. PICK s \in Spaces : s = processCount + 1
  BY <1>1, RoomForSpace DEF CountInv
<1>4. /\ sys \in [Threads -> ProcessPlaces] /\ sys[cur] = "AddrSpace" /\ processCount \in Nat
      /\ sys' = [sys EXCEPT ![cur] = "ExecThread"] /\ "ExecThread" \in ProcessPlaces
      /\ runningProcessCount \in Nat /\ deletedSpaces \subseteq 1..processCount
      /\ threadCount \in [Spaces -> Nat]
  BY <1>1, <1>2 DEF InCall, SysGoto, ControlInv, ProcessTypeOK, Spaces, ProcessPlaces
<1>5. /\ sys'[cur] = "ExecThread" /\ \A t \in Threads \ {cur} : sys'[t] = sys[t]
      /\ threadCount'[s] = 1 /\ \A r \in Spaces \ {s} : threadCount'[r] = threadCount[r]
  BY <1>1, <1>3, <1>4
<1>6. /\ \A t \in Threads : sys[t] # "ExecThread"
      /\ \A r \in live : threadCount[r] = Cardinality({t \in Threads : LivesIn(t, r)})
  BY <1>1, CallerIsCounted DEF InnerPlaces
<1>7. \A t \in Threads : space'[t] = space[t] /\ space[t] # s
  BY <1>1, <1>3, <1>4 DEF ControlInv, ThreadsAreBorn
<1>8. s \notin deletedSpaces' /\ s \notin live /\ live' = live \cup {s}
  BY <1>1, <1>3, <1>4 DEF live
<1>9. NewSpaceIsEmpty'
  BY <1>1, <1>3, <1>5, <1>7, <1>8 DEF NewSpaceIsEmpty
<1>10. Cardinality(live') = Cardinality(live) + 1 /\ Cardinality(live) \in Nat
  BY <1>4, <1>8, CountedSetsAreFinite, OneElementChanges
<1>11. BoundsAreKept'
  <2>1. InPlaces(Takers)' = InPlaces(Takers)
    BY <1>4, InPlacesMoves DEF Takers
  <2>2. InPlaces({"Exec", "AddrSpace"}) \in Nat
        /\ InPlaces({"Exec", "AddrSpace"})' = InPlaces({"Exec", "AddrSpace"}) - 1
    BY <1>4, InPlacesMoves
  <2>3. InPlaces({"Exec"})' = InPlaces({"Exec"})
    BY <1>4, InPlacesMoves
  <2>4. InPlaces({"AddrSpace"}) \in Nat /\ InPlaces({"AddrSpace"})' = InPlaces({"AddrSpace"}) - 1
    BY <1>4, InPlacesMoves
  <2>5. Cardinality(Unused)' >= InPlaces(Takers)'
    BY <1>1, <2>1 DEF CountInv, BoundsAreKept, Unused
  <2>6. processCount' + InPlaces({"Exec", "AddrSpace"})' <= MaxProcesses
    BY <1>1, <1>4, <2>2 DEF CountInv, BoundsAreKept
  <2>7. runningProcessCount' + InPlaces({"Exec"})' <= MaxProcessCount
    BY <1>1, <2>3 DEF CountInv, BoundsAreKept
  <2>8. Cardinality(live)' + InPlaces({"AddrSpace"})' <= runningProcessCount' + 1
    BY <1>1, <1>4, <1>10, <2>4 DEF CountInv, BoundsAreKept
  <2> QED BY <2>5, <2>6, <2>7, <2>8 DEF BoundsAreKept
<1>12. CountsAgree'
  <2>1. \A t \in Threads, r \in 1..processCount' : LivesIn(t, r)' <=> LivesIn(t, r)
    BY <1>4, <1>5, <1>7 DEF LivesIn
  <2>2. \A r \in 1..processCount' :
          {t \in Threads : LivesIn(t, r)'} = {t \in Threads : LivesIn(t, r)}
    BY <2>1
  <2>3. ASSUME NEW r \in 1..processCount', r # s
        PROVE  IF r \in deletedSpaces' THEN Cardinality({t \in Threads : LivesIn(t, r)'}) = 0
               ELSE threadCount'[r] = Cardinality({t \in Threads : LivesIn(t, r)'})
    <3>1. r \in 1..processCount /\ r \in Spaces
      BY <1>1, <1>3, <1>4, <2>3 DEF Spaces
    <3>2. r \in deletedSpaces => Cardinality({t \in Threads : LivesIn(t, r)}) = 0
      BY <3>1 DEF CountInv, CountsAgree
    <3>3. r \notin deletedSpaces => r \in live
      BY <3>1 DEF live
    <3> QED BY <1>1, <1>5, <1>6, <2>2, <2>3, <3>1, <3>2, <3>3
  <2>4. Cardinality({t \in Threads : LivesIn(t, s)'}) = 0
    <3>1. {t \in Threads : LivesIn(t, s)'} = {}
      BY <1>7 DEF LivesIn
    <3> QED BY <3>1, FS_EmptySet
  <2>5. Cardinality(live') <= runningProcessCount' + 1
    <3>1. InPlaces({"AddrSpace"}) \in Nat /\ InPlaces({"AddrSpace"}) >= 1
      BY <1>4, SomebodyIsThere
    <3> QED BY <1>1, <1>4, <1>10, <3>1 DEF CountInv, BoundsAreKept
  <2> QED BY <1>1, <1>2, <1>3, <1>5, <1>8, <2>3, <2>4, <2>5 DEF CountsAgree
<1> QED BY <1>9, <1>11, <1>12 DEF CountInv

\* The first thread of the new space.
LEMMA ExecThreadCounts ==
  ASSUME IInv, ControlInv, CountInv, ExecThread
  PROVE  CountInv'
<1>1. InCall("ExecThread") /\ SysGoto("Unlock")
      /\ UNCHANGED <<processCount, runningProcessCount, deletedSpaces, threadCount>>
  BY DEF ExecThread, spaceVars
<1>2. PICK cur \in Threads : cur = currentThread
  BY DispatcherFacts
<1>3. PICK new \in Threads : new = newThread
  BY <1>1, NewThreadIsUnused DEF CountInv
<1>4. space[new] = NoSpace /\ sys[new] = "begin" /\ new # cur
  BY <1>1, <1>2, <1>3, NewThreadIsUnused DEF CountInv
<1>5. /\ sys \in [Threads -> ProcessPlaces] /\ sys[cur] = "ExecThread" /\ "Unlock" \in ProcessPlaces
      /\ space \in [Threads -> Spaces \cup {NoSpace}]
      /\ processCount \in Spaces /\ processCount \in Nat /\ processCount >= 1
  BY <1>1, <1>2 DEF InCall, ControlInv, ProcessTypeOK, Spaces, ProcessPlaces
<1>6. PICK s \in Spaces : s = processCount
  BY <1>5
<1>7. /\ space' = [space EXCEPT ![new] = s]
      /\ sys' = [sys EXCEPT ![cur] = "Unlock"]
  BY <1>1, <1>2, <1>3, <1>6 DEF ExecThread, SysGoto
<1>8. /\ space'[new] = s /\ \A t \in Threads \ {new} : space'[t] = space[t]
      /\ sys'[cur] = "Unlock" /\ \A t \in Threads \ {cur} : sys'[t] = sys[t]
  BY <1>4, <1>5, <1>7
<1>9. /\ s \notin deletedSpaces /\ threadCount[s] = 1 /\ \A t \in Threads : space[t] # s
  BY <1>2, <1>5, <1>6 DEF CountInv, NewSpaceIsEmpty
<1>10. \A t \in Threads : sys'[t] # "ExecThread"
  <2>1. \A t \in Threads \ {currentThread} : sys[t] \notin InnerPlaces
    BY <1>1, CallerOwnsKernel DEF InnerPlaces
  <2> QED BY <1>2, <1>8, <2>1 DEF InnerPlaces
<1>11. BoundsAreKept'
  <2>1. Cardinality(Unused') = Cardinality(Unused) - 1 /\ Cardinality(Unused) \in Nat
    <3>1. \A t : t # new => (t \in Unused <=> t \in Unused')
      BY <1>8 DEF Unused
    <3>2. new \in Unused /\ new \notin Unused'
      BY <1>4, <1>5, <1>6, <1>8 DEF Unused, NoSpace
    <3>3. IsFiniteSet(Unused)
      BY <1>5, CountedSetsAreFinite
    <3> QED BY <3>1, <3>2, <3>3, OneElementChanges
  <2>2. InPlaces(Takers) \in Nat /\ InPlaces(Takers)' = InPlaces(Takers) - 1
    BY <1>5, <1>7, InPlacesMoves DEF Takers
  <2>3. InPlaces({"Exec", "AddrSpace"})' = InPlaces({"Exec", "AddrSpace"})
    BY <1>5, <1>7, InPlacesMoves
  <2>4. InPlaces({"Exec"})' = InPlaces({"Exec"})
    BY <1>5, <1>7, InPlacesMoves
  <2>5. InPlaces({"AddrSpace"})' = InPlaces({"AddrSpace"})
    BY <1>5, <1>7, InPlacesMoves
  <2>6. live' = live
    BY <1>1 DEF live
  <2>7. Cardinality(Unused)' >= InPlaces(Takers)'
    BY <2>1, <2>2 DEF CountInv, BoundsAreKept
  <2> QED BY <1>1, <2>3, <2>4, <2>5, <2>6, <2>7 DEF CountInv, BoundsAreKept
<1>12. CountsAgree'
  <2>1. \A t \in Threads, r \in 1..processCount :
          LivesIn(t, r)' <=> LivesIn(t, r) \/ (t = new /\ r = s)
    <3> SUFFICES ASSUME NEW t \in Threads, NEW r \in 1..processCount
                 PROVE  LivesIn(t, r)' <=> LivesIn(t, r) \/ (t = new /\ r = s)
      OBVIOUS
    <3>1. CASE t = new
      BY <1>4, <1>5, <1>8, <3>1 DEF LivesIn, NoSpace
    <3>2. CASE t = cur
      BY <1>4, <1>5, <1>8, <3>2 DEF LivesIn
    <3>3. CASE t # new /\ t # cur
      BY <1>8, <3>3 DEF LivesIn
    <3> QED BY <3>1, <3>2, <3>3
  <2>2. ASSUME NEW r \in 1..processCount, r # s
        PROVE  {t \in Threads : LivesIn(t, r)'} = {t \in Threads : LivesIn(t, r)}
    BY <2>1, <2>2
  <2>3. Cardinality({t \in Threads : LivesIn(t, s)'}) = 1
    <3>1. {t \in Threads : LivesIn(t, s)'} = {new}
      BY <1>5, <1>6, <1>9, <2>1 DEF LivesIn
    <3> QED BY <3>1, FS_Singleton
  <2>4. live' = live
    BY <1>1 DEF live
  <2>5. ASSUME NEW r \in 1..processCount
        PROVE  IF r \in deletedSpaces THEN Cardinality({t \in Threads : LivesIn(t, r)'}) = 0
               ELSE threadCount[r] = Cardinality({t \in Threads : LivesIn(t, r)'})
    <3>1. CASE r = s
      BY <1>9, <2>3, <3>1
    <3>2. CASE r # s
      <4>1. IF r \in deletedSpaces THEN Cardinality({t \in Threads : LivesIn(t, r)}) = 0
            ELSE threadCount[r] = Cardinality({t \in Threads : LivesIn(t, r)})
        BY <1>6, <3>2 DEF CountInv, CountsAgree
      <4> QED BY <2>2, <3>2, <4>1
    <3> QED BY <3>1, <3>2
  <2> QED BY <1>1, <2>4, <2>5 DEF CountInv, CountsAgree
<1> QED BY <1>10, <1>11, <1>12 DEF CountInv, NewSpaceIsEmpty

\* The space goes with its last thread, and one process less is counted.
LEMMA ExitProcessCounts ==
  ASSUME IInv, ControlInv, CountInv, ExitProcess, ~Stop
  PROVE  CountInv'
<1>1. InCall("Exit") /\ SysGoto("Finish") /\ ~isLastProcess /\ isLastExecutingThread
      /\ deletedSpaces' = deletedSpaces \cup {mySpace}
      /\ runningProcessCount' = runningProcessCount - 1
      /\ UNCHANGED <<space, processCount, threadCount>>
  BY DEF ExitProcess, UnlockKernel
<1>2. PICK cur \in Threads : cur = currentThread
  BY DispatcherFacts
<1>3. PICK s \in live : s = mySpace
  BY <1>1, CallerIsCounted DEF FirstPlaces
<1>4. /\ \A t \in Threads : sys[t] # "ExecThread"
      /\ \A r \in live : threadCount[r] = Cardinality({t \in Threads : LivesIn(t, r)})
      /\ \A t \in Threads : LivesIn(t, s) => t = cur
  BY <1>1, <1>2, <1>3, CallerIsCounted DEF FirstPlaces, isLastExecutingThread
<1>5. /\ sys \in [Threads -> ProcessPlaces] /\ sys[cur] = "Exit" /\ processCount \in Nat
      /\ sys' = [sys EXCEPT ![cur] = "Finish"] /\ "Finish" \in ProcessPlaces
      /\ runningProcessCount \in Nat \ {0}
  BY <1>1, <1>2 DEF InCall, SysGoto, ControlInv, ProcessTypeOK, Spaces, ProcessPlaces, isLastProcess
<1>6. sys'[cur] = "Finish" /\ \A t \in Threads \ {cur} : sys'[t] = sys[t]
  BY <1>5
<1>7. Cardinality(live') = Cardinality(live) - 1 /\ Cardinality(live) \in Nat
  <2>1. live' = live \ {s}
    BY <1>1, <1>3 DEF live
  <2>2. IsFiniteSet(live)
    BY <1>5, CountedSetsAreFinite
  <2> QED BY <1>3, <2>1, <2>2, OneElementChanges
<1>8. BoundsAreKept'
  <2>1. InPlaces(Takers)' = InPlaces(Takers)
    BY <1>5, InPlacesMoves DEF Takers
  <2>2. InPlaces({"Exec", "AddrSpace"})' = InPlaces({"Exec", "AddrSpace"})
    BY <1>5, InPlacesMoves
  <2>3. InPlaces({"Exec"})' = InPlaces({"Exec"}) /\ InPlaces({"Exec"}) \in Nat
    BY <1>5, InPlacesMoves
  <2>4. InPlaces({"AddrSpace"})' = InPlaces({"AddrSpace"}) /\ InPlaces({"AddrSpace"}) \in Nat
    BY <1>5, InPlacesMoves
  <2>5. Unused' = Unused
    BY <1>1 DEF Unused
  <2>6. runningProcessCount' + InPlaces({"Exec"})' <= MaxProcessCount
    BY <1>1, <1>5, <2>3 DEF CountInv, BoundsAreKept
  <2>7. Cardinality(live)' + InPlaces({"AddrSpace"})' <= runningProcessCount' + 1
    BY <1>1, <1>5, <1>7, <2>4 DEF CountInv, BoundsAreKept
  <2> QED BY <1>1, <2>1, <2>2, <2>5, <2>6, <2>7 DEF CountInv, BoundsAreKept
<1>9. CountsAgree'
  <2>1. \A t \in Threads, r \in 1..processCount : LivesIn(t, r)' <=> LivesIn(t, r) /\ t # cur
    BY <1>1, <1>6 DEF LivesIn
  <2>2. ASSUME NEW r \in 1..processCount, r # s
        PROVE  {t \in Threads : LivesIn(t, r)'} = {t \in Threads : LivesIn(t, r)}
    <3>1. ~LivesIn(cur, r)
      BY <1>2, <1>3, <2>2 DEF LivesIn, mySpace
    <3> QED BY <2>1, <3>1
  <2>3. Cardinality({t \in Threads : LivesIn(t, s)'}) = 0
    <3>1. {t \in Threads : LivesIn(t, s)'} = {}
      BY <1>3, <1>4, <2>1 DEF live
    <3> QED BY <3>1, FS_EmptySet
  <2>4. ASSUME NEW r \in 1..processCount
        PROVE  IF r \in deletedSpaces' THEN Cardinality({t \in Threads : LivesIn(t, r)'}) = 0
               ELSE threadCount[r] = Cardinality({t \in Threads : LivesIn(t, r)'})
    <3>1. CASE r = s
      BY <1>1, <1>3, <2>3, <3>1
    <3>2. CASE r # s
      <4>1. r \in deletedSpaces => Cardinality({t \in Threads : LivesIn(t, r)}) = 0
        BY DEF CountInv, CountsAgree
      <4>2. r \notin deletedSpaces => r \in live
        BY DEF live
      <4>3. r \in deletedSpaces' <=> r \in deletedSpaces
        BY <1>1, <1>3, <3>2
      <4> QED BY <1>4, <2>2, <3>2, <4>1, <4>2, <4>3
    <3> QED BY <3>1, <3>2
  <2>5. Cardinality(live') <= runningProcessCount' + 1
    BY <1>1, <1>5, <1>7 DEF CountInv, CountsAgree
  <2> QED BY <1>1, <2>4, <2>5 DEF CountsAgree
<1> QED BY <1>4, <1>6, <1>8, <1>9 DEF CountInv, NewSpaceIsEmpty

\* A thread that is not the last leaves its space.
LEMMA DeleteCurrentThreadCounts ==
  ASSUME IInv, ControlInv, CountInv, DeleteCurrentThread, ~Stop
  PROVE  CountInv'
<1>1. InCall("DeleteThread") /\ SysGoto("ExitUnlock")
      /\ threadCount' = [threadCount EXCEPT ![mySpace] = @ - 1]
      /\ UNCHANGED <<space, processCount, runningProcessCount, deletedSpaces>>
  BY DEF DeleteCurrentThread
<1>2. PICK cur \in Threads : cur = currentThread
  BY DispatcherFacts
<1>3. PICK s \in live : s = mySpace
  BY <1>1, CallerIsCounted DEF InnerPlaces
<1>4. /\ \A t \in Threads : sys[t] # "ExecThread"
      /\ \A r \in live : threadCount[r] = Cardinality({t \in Threads : LivesIn(t, r)})
  BY <1>1, CallerIsCounted DEF InnerPlaces
<1>5. /\ sys \in [Threads -> ProcessPlaces] /\ sys[cur] = "DeleteThread" /\ processCount \in Nat
      /\ sys' = [sys EXCEPT ![cur] = "ExitUnlock"] /\ "ExitUnlock" \in ProcessPlaces
      /\ threadCount \in [Spaces -> Nat] /\ live \subseteq Spaces
  BY <1>1, <1>2 DEF InCall, SysGoto, ControlInv, ProcessTypeOK, Spaces, ProcessPlaces, live
<1>6. /\ sys'[cur] = "ExitUnlock" /\ \A t \in Threads \ {cur} : sys'[t] = sys[t]
      /\ threadCount'[s] = threadCount[s] - 1
      /\ \A r \in Spaces \ {s} : threadCount'[r] = threadCount[r]
  BY <1>1, <1>3, <1>5
<1>7. BoundsAreKept'
  <2>1. InPlaces(Takers)' = InPlaces(Takers)
    BY <1>5, InPlacesMoves DEF Takers
  <2>2. InPlaces({"Exec", "AddrSpace"})' = InPlaces({"Exec", "AddrSpace"})
    BY <1>5, InPlacesMoves
  <2>3. InPlaces({"Exec"})' = InPlaces({"Exec"})
    BY <1>5, InPlacesMoves
  <2>4. InPlaces({"AddrSpace"})' = InPlaces({"AddrSpace"})
    BY <1>5, InPlacesMoves
  <2>5. Unused' = Unused /\ live' = live
    BY <1>1 DEF Unused, live
  <2> QED BY <1>1, <2>1, <2>2, <2>3, <2>4, <2>5 DEF CountInv, BoundsAreKept
<1>8. CountsAgree'
  <2>1. \A t \in Threads, r \in 1..processCount : LivesIn(t, r)' <=> LivesIn(t, r) /\ t # cur
    BY <1>1, <1>6 DEF LivesIn
  <2>2. ASSUME NEW r \in 1..processCount, r # s
        PROVE  {t \in Threads : LivesIn(t, r)'} = {t \in Threads : LivesIn(t, r)}
    <3>1. ~LivesIn(cur, r)
      BY <1>2, <1>3, <2>2 DEF LivesIn, mySpace
    <3> QED BY <2>1, <3>1
  <2>3. Cardinality({t \in Threads : LivesIn(t, s)'}) = Cardinality({t \in Threads : LivesIn(t, s)}) - 1
    <3> DEFINE R == {t \in Threads : LivesIn(t, s)}
               S == {t \in Threads : LivesIn(t, s)'}
    <3>1. \A t : t # cur => (t \in R <=> t \in S)
      BY <1>3, <2>1 DEF live
    <3>2. cur \in R /\ cur \notin S
      BY <1>2, <1>3, <1>5, <2>1 DEF LivesIn, mySpace, live
    <3>3. IsFiniteSet(R)
      BY <1>5, CountedSetsAreFinite
    <3> HIDE DEF R, S
    <3>4. Cardinality(S) = Cardinality(R) - 1
      BY <3>1, <3>2, <3>3, OneElementChanges
    <3> QED BY <3>4 DEF R, S
  <2>4. ASSUME NEW r \in 1..processCount
        PROVE  IF r \in deletedSpaces THEN Cardinality({t \in Threads : LivesIn(t, r)'}) = 0
               ELSE threadCount'[r] = Cardinality({t \in Threads : LivesIn(t, r)'})
    <3>1. CASE r = s
      BY <1>3, <1>4, <1>6, <2>3, <3>1 DEF live
    <3>2. CASE r # s
      <4>1. r \in deletedSpaces => Cardinality({t \in Threads : LivesIn(t, r)}) = 0
        BY DEF CountInv, CountsAgree
      <4>2. r \notin deletedSpaces => r \in live /\ r \in Spaces \ {s}
        BY <1>5, <3>2 DEF live
      <4> QED BY <1>4, <1>6, <2>2, <3>2, <4>1, <4>2
    <3> QED BY <3>1, <3>2
  <2>5. live' = live
    BY <1>1 DEF live
  <2> QED BY <1>1, <2>4, <2>5 DEF CountInv, CountsAgree
<1> QED BY <1>4, <1>6, <1>7, <1>8 DEF CountInv, NewSpaceIsEmpty

----------------------------------------------------------------------------
(***************************************************************************)
(* Physical memory.                                                        *)
(***************************************************************************)
\* A step that changes no table, page or stack.
LEMMA MoveKeepsMemory ==
  ASSUME MemoryIsMapped,
         UNCHANGED <<space, stackLocation, processCount, deletedSpaces, pageTable, starved, bitmap>>,
         \A t \in Threads : /\ sys'[t] \in Leaving <=> sys[t] \in Leaving
                            /\ sys'[t] = "NewPageTable" <=> sys[t] = "NewPageTable"
                            /\ sys'[t] = "ExecThread" => sys[t] = "ExecThread"
                            /\ sys[t] = "NewPageTable" => Newborn' = Newborn
  PROVE  MemoryIsMapped'
<1>1. PagesBelongToOne' <=> PagesBelongToOne
  BY DEF PagesBelongToOne, PagesOf, live
<1>2. \A t \in Threads : HasStack(t)' <=> HasStack(t)
  BY DEF HasStack
<1>3. \A s, n : MappedAt(s, n)' <=> MappedAt(s, n)
  BY DEF MappedAt
<1>4. \A t \in Threads : StackOf(t)' = StackOf(t)
  BY DEF StackOf
<1>5. StacksAreMapped => StacksAreMapped'
  BY <1>2, <1>3, <1>4 DEF StacksAreMapped
<1> QED BY <1>1, <1>5 DEF MemoryIsMapped

\* So do the quiet steps.
LEMMA QuietKeepsMemory ==
  ASSUME ControlInv, MemoryIsMapped, currentThread \in Threads, QuietMove
  PROVE  MemoryIsMapped'
<1>1. PICK next \in ProcessPlaces :
        MovesTo(next) /\ (next = "NewPageTable" <=> sys[currentThread] = "NewPageTable")
  BY DEF QuietMove
<1>2. sys'[currentThread] = next /\ \A t \in Threads \ {currentThread} : sys'[t] = sys[t]
  BY <1>1 DEF MovesTo, ControlInv, ProcessTypeOK
<1>3. \A t \in Threads : /\ sys'[t] \in Leaving <=> sys[t] \in Leaving
                         /\ sys'[t] = "NewPageTable" <=> sys[t] = "NewPageTable"
                         /\ sys'[t] = "ExecThread" => sys[t] = "ExecThread"
                         /\ sys[t] = "NewPageTable" => Newborn' = Newborn
  BY <1>1, <1>2 DEF MovesTo, QuietMove
<1>4. UNCHANGED <<space, stackLocation, processCount, deletedSpaces, pageTable, starved, bitmap>>
  BY DEF QuietMove, processVars, spaceVars
<1> QED BY <1>3, <1>4, MoveKeepsMemory

\* So does the beginning of Exec.
LEMMA ExecMemory ==
  ASSUME IInv, ControlInv, MemoryIsMapped, ExecOpens \/ ExecFails
  PROVE  MemoryIsMapped'
<1>1. InCall("Exec")
      /\ UNCHANGED <<space, stackLocation, processCount, deletedSpaces, pageTable, starved, bitmap>>
  BY DEF ExecOpens, ExecFails, spaceVars
<1>2. /\ currentThread \in Threads /\ sys[currentThread] = "Exec"
      /\ \A t \in Threads \ {currentThread} : sys[t] \notin InnerPlaces
  BY <1>1, CallerOwnsKernel DEF FirstPlaces
<1>3. sys'[currentThread] \in {"AddrSpace", "user"} /\ \A t \in Threads \ {currentThread} : sys'[t] = sys[t]
  BY <1>2 DEF ExecOpens, ExecFails, UnlockKernel, SysGoto, ControlInv, ProcessTypeOK
<1> QED BY <1>1, <1>2, <1>3, MoveKeepsMemory DEF Leaving, InnerPlaces

\* The newborn has no stack yet.
LEMMA NewKernelThreadMemory ==
  ASSUME IInv, ControlInv, CountInv, MemoryIsMapped, NewKernelThread
  PROVE  MemoryIsMapped'
<1>1. InCall("Fork") /\ SysGoto("NewPageTable") /\ Acquire(mySpace)
      /\ UNCHANGED <<stackLocation, processCount, deletedSpaces, pageTable, starved, bitmap>>
  BY DEF NewKernelThread
<1>2. /\ currentThread \in Threads /\ sys[currentThread] = "Fork"
      /\ mySpace \in Spaces /\ space[currentThread] = mySpace
      /\ \A t \in Threads \ {currentThread} : sys[t] \notin InnerPlaces
  BY <1>1, CallerOwnsKernel DEF FirstPlaces, mySpace
<1> PICK new \in Threads : new = newThread
  BY <1>1, NewThreadIsUnused DEF CountInv
<1>3. new # currentThread /\ status[new] = "JUST_CREATED" /\ sys[new] = "begin"
  BY <1>1, NewThreadIsUnused DEF CountInv
<1>4. /\ sys'[currentThread] = "NewPageTable" /\ \A t \in Threads \ {currentThread} : sys'[t] = sys[t]
      /\ space'[new] = mySpace /\ \A t \in Threads \ {new} : space'[t] = space[t]
  BY <1>1, <1>2, <1>3 DEF NewKernelThread, SysGoto, ControlInv, ProcessTypeOK
<1>5. status' = status
  <2>1. mySpace = space'[currentThread]
    BY <1>2, <1>3, <1>4
  <2> QED BY <1>1, <1>2, <2>1, LockSpaceControl DEF schedVars
<1>6. Newborn = {}
  BY <1>1, NobodyIsNewborn DEF FirstPlaces
<1>7. ~HasStack(new)'
  BY <1>2, <1>3, <1>4, <1>5 DEF HasStack, Newborn, NoSpace, Spaces
<1>8. \A t \in Threads : HasStack(t)' => HasStack(t) /\ space'[t] = space[t]
  <2> SUFFICES ASSUME NEW t \in Threads, HasStack(t)'
               PROVE  HasStack(t) /\ space'[t] = space[t]
    OBVIOUS
  <2>1. t # new
    BY <1>7
  <2>2. space'[t] = space[t]
    BY <1>4, <2>1
  <2>3. sys[t] \notin Leaving
    BY <1>2, <1>4 DEF HasStack, Leaving
  <2> QED BY <1>6, <2>2, <2>3 DEF HasStack
<1>9. PagesBelongToOne' <=> PagesBelongToOne
  BY <1>1 DEF PagesBelongToOne, PagesOf, live
<1>10. \A s, n : MappedAt(s, n)' <=> MappedAt(s, n)
  BY <1>1 DEF MappedAt
<1>11. \A t \in Threads : StackOf(t)' = StackOf(t)
  BY <1>1 DEF StackOf
<1>12. \A t \in Threads : sys'[t] # "ExecThread"
  BY <1>2, <1>4 DEF InnerPlaces
<1>13. StacksAreMapped => StacksAreMapped'
  BY <1>1, <1>8, <1>10, <1>11, <1>12 DEF StacksAreMapped
<1> QED BY <1>1, <1>9, <1>13 DEF MemoryIsMapped

\* New entries hold free pages: no page has two entries afterwards.
LEMMA NewEntries ==
  ASSUME ControlInv, PagesBelongToOne, NEW s \in Spaces, s \in live', live \subseteq Spaces,
         live' = live \cup {s}, NEW old \in Nat, NEW table \in Seq(Entries), NEW found,
         pageTable' = [pageTable EXCEPT ![s] = table],
         bitmap' = bitmap \cup Range(found),
         found \in Seq(Pages \ bitmap), Len(table) = old + Len(found),
         \A i, j \in 1..Len(found) : found[i] = found[j] => i = j,
         \A i \in 1..Len(found) : table[old + i] = found[i],
         IF s \in live THEN old = Len(pageTable[s]) /\ \A i \in 1..old : table[i] = pageTable[s][i]
         ELSE old = 0
  PROVE  PagesBelongToOne'
<1> DEFINE IsOld(r, i) == /\ r \in live /\ i \in DOMAIN pageTable[r]
                          /\ pageTable'[r][i] = pageTable[r][i]
           IsNew(r, i) == /\ r = s /\ i \in old + 1 .. old + Len(found)
                          /\ pageTable'[r][i] = found[i - old]
<1>1. /\ pageTable'[s] = table /\ \A r \in Spaces \ {s} : pageTable'[r] = pageTable[r]
      /\ \A r \in Spaces : pageTable[r] \in Seq(Entries)
  BY DEF ControlInv, ProcessTypeOK
<1>2. Len(found) \in Nat /\ DOMAIN found = 1..Len(found) /\ DOMAIN table = 1..(old + Len(found))
      /\ \A i \in 1..Len(found) : found[i] \in Pages \ bitmap
  OBVIOUS
<1>3. \A r \in Spaces : DOMAIN pageTable[r] = 1..Len(pageTable[r]) /\ Len(pageTable[r]) \in Nat
  BY <1>1
<1>4. ASSUME NEW r \in live', NEW i \in DOMAIN pageTable'[r]  PROVE IsOld(r, i) \/ IsNew(r, i)
  <2>1. CASE r # s
    BY <1>1, <2>1
  <2>2. CASE r = s
    <3>1. i \in 1..(old + Len(found))
      BY <1>1, <1>2, <2>2
    <3>2. CASE i <= old
      <4>1. i \in 1..old /\ s \in live
        BY <3>1, <3>2
      <4> QED BY <1>1, <1>3, <2>2, <4>1
    <3>3. CASE i > old
      <4>1. i - old \in 1..Len(found) /\ old + (i - old) = i
        BY <1>2, <3>1, <3>3
      <4>2. table[i] = found[i - old]
        BY <4>1
      <4> QED BY <1>1, <1>2, <2>2, <3>1, <3>3, <4>2
    <3> QED BY <3>1, <3>2, <3>3
  <2> QED BY <2>1, <2>2
<1>5. ASSUME NEW r, NEW i, IsOld(r, i), pageTable[r][i] # NoPage
      PROVE  pageTable'[r][i] \in bitmap
  BY <1>5 DEF PagesBelongToOne, PagesOf, Range
<1>6. ASSUME NEW r, NEW i, IsNew(r, i)
      PROVE  i - old \in 1..Len(found) /\ pageTable'[r][i] \in Pages \ bitmap
  BY <1>2, <1>6
<1>7. ASSUME NEW r \in live, NEW i \in DOMAIN pageTable[r]
      PROVE  i \in DOMAIN pageTable'[r] /\ pageTable'[r][i] = pageTable[r][i]
  <2>1. CASE r # s
    BY <1>1, <2>1
  <2>2. CASE r = s
    BY <1>1, <1>2, <1>3, <2>2
  <2> QED BY <2>1, <2>2
<1>8. bitmap' = UNION {PagesOf(r)' : r \in live'}
  <2>1. ASSUME NEW p \in bitmap'  PROVE \E r \in live' : p \in PagesOf(r)'
    <3>1. CASE p \in bitmap
      <4>1. PICK r \in live : p \in PagesOf(r)
        BY <3>1 DEF PagesBelongToOne
      <4>2. PICK i \in DOMAIN pageTable[r] : p = pageTable[r][i] /\ p # NoPage
        BY <4>1 DEF PagesOf, Range
      <4>3. p \in Range(pageTable'[r]) \ {NoPage}
        BY <1>7, <4>2 DEF Range
      <4> QED BY <4>1, <4>3 DEF PagesOf
    <3>2. CASE p \in Range(found)
      <4>1. PICK i \in 1..Len(found) : p = found[i]
        BY <1>2, <3>2 DEF Range
      <4>2. old + i \in DOMAIN pageTable'[s] /\ p = pageTable'[s][old + i]
        BY <1>1, <1>2, <4>1
      <4>3. p # NoPage
        BY <1>2, <4>1 DEF Pages, NoPage
      <4>4. p \in Range(pageTable'[s]) \ {NoPage}
        BY <4>2, <4>3 DEF Range
      <4> QED BY <4>4 DEF PagesOf
    <3> QED BY <3>1, <3>2
  <2>2. ASSUME NEW r \in live', NEW p \in PagesOf(r)'  PROVE p \in bitmap'
    <3>1. PICK i \in DOMAIN pageTable'[r] : p = pageTable'[r][i] /\ p # NoPage
      BY DEF PagesOf, Range
    <3>2. CASE IsOld(r, i)
      <4>1. p \in bitmap
        BY <1>5, <3>1, <3>2
      <4> QED BY <4>1
    <3>3. CASE IsNew(r, i)
      <4>1. i - old \in DOMAIN found /\ p = found[i - old]
        BY <1>2, <1>6, <3>1, <3>3
      <4>2. p \in Range(found)
        BY <4>1 DEF Range
      <4> QED BY <4>2
    <3> QED BY <1>4, <3>2, <3>3
  <2> QED BY <2>1, <2>2
<1>9. ASSUME NEW r1 \in live', NEW r2 \in live',
             NEW i \in DOMAIN pageTable'[r1], NEW j \in DOMAIN pageTable'[r2],
             pageTable'[r1][i] = pageTable'[r2][j], pageTable'[r1][i] # NoPage
      PROVE  r1 = r2 /\ i = j
  <2>1. CASE IsOld(r1, i) /\ IsOld(r2, j)
    BY <1>9, <2>1 DEF PagesBelongToOne
  <2>2. CASE IsNew(r1, i) /\ IsNew(r2, j)
    <3>1. i - old \in 1..Len(found) /\ j - old \in 1..Len(found) /\ found[i - old] = found[j - old]
      BY <1>6, <1>9, <2>2
    <3>2. i - old = j - old
      BY <3>1
    <3> QED BY <1>2, <2>2, <3>2
  <2>3. CASE IsOld(r1, i) /\ IsNew(r2, j)
    BY <1>5, <1>6, <1>9, <2>3
  <2>4. CASE IsNew(r1, i) /\ IsOld(r2, j)
    BY <1>5, <1>6, <1>9, <2>4
  <2> QED BY <1>4, <2>1, <2>2, <2>3, <2>4
<1> QED BY <1>8, <1>9 DEF PagesBelongToOne

\* The newborn gets its stack: free pages, behind the entries of the table.
LEMMA NewPageTableMemory ==
  ASSUME IInv, ControlInv, CountInv, MemoryIsMapped, NewPageTable
  PROVE  MemoryIsMapped'
<1> SUFFICES ASSUME starved' = {}  PROVE PagesBelongToOne' /\ StacksAreMapped'
  BY DEF MemoryIsMapped
<1> DEFINE found == Found(StackPages)
<1>1. /\ InCall("NewPageTable") /\ SysGoto("ForkThread") /\ Release(mySpace)
      /\ Len(found) = StackPages /\ bitmap' = bitmap \cup Range(found)
      /\ pageTable' = [pageTable EXCEPT ![mySpace] = @ \o found]
      /\ stackLocation' = [stackLocation EXCEPT ![child] = Len(pageTable[mySpace])]
      /\ UNCHANGED <<space, processCount, deletedSpaces, starved>>
  BY DEF NewPageTable
<1>2. PagesBelongToOne /\ StacksAreMapped
  BY <1>1 DEF MemoryIsMapped
<1>3. PICK cur \in Threads : cur = currentThread
  BY DispatcherFacts
<1>4. PICK new \in Threads : new = child
  BY <1>1, ChildIsNewborn
<1>5. PICK s \in live : s = mySpace
  BY <1>1, CallerIsCounted DEF InnerPlaces
<1>6. /\ space[new] = s /\ Newborn = {new} /\ new # cur /\ sys[new] = "begin"
  BY <1>1, <1>3, <1>4, <1>5, ChildIsNewborn
<1>7. /\ live \subseteq Spaces /\ live' = live /\ s \in Spaces
      /\ pageTable[s] \in Seq(Entries) /\ Len(pageTable[s]) \in Nat
      /\ stackLocation \in [Threads -> Nat] /\ sys \in [Threads -> ProcessPlaces]
      /\ pageTable \in [Spaces -> Seq(Entries)]
  BY <1>1 DEF live, ControlInv, ProcessTypeOK, Spaces
<1> DEFINE old == Len(pageTable[s])
           table == pageTable[s] \o found
<1>8. /\ found \in Seq(Pages \ bitmap)
      /\ \A i, j \in 1..Len(found) : found[i] = found[j] => i = j
  BY FoundPages
<1>9. found \in Seq(Entries)
  <2>1. Pages \ bitmap \subseteq Entries
    BY DEF Pages, Entries, NoPage
  <2> HIDE DEF found
  <2> QED BY <1>8, <2>1
<1> HIDE DEF found
<1>10. /\ table \in Seq(Entries) /\ Len(table) = old + Len(found)
       /\ \A i \in 1..old : table[i] = pageTable[s][i]
       /\ \A i \in 1..Len(found) : table[old + i] = found[i]
       /\ DOMAIN table = 1..(old + StackPages)
  <2> DEFINE mine == pageTable[s]
  <2>1. mine \in Seq(Entries)
    BY <1>7
  <2> HIDE DEF mine
  <2>2. /\ mine \o found \in Seq(Entries) /\ Len(mine \o found) = Len(mine) + Len(found)
        /\ DOMAIN (mine \o found) = 1..Len(mine) + Len(found)
        /\ \A i \in 1..Len(mine) : (mine \o found)[i] = mine[i]
        /\ \A i \in 1..Len(found) : (mine \o found)[Len(mine) + i] = found[i]
    BY <1>9, <2>1
  <2> QED BY <1>1, <2>2 DEF mine
<1>11. pageTable' = [pageTable EXCEPT ![s] = table]
  BY <1>1, <1>5
<1> HIDE DEF table
<1>12. PagesBelongToOne'
  <2>1. s \in live' /\ live' = live \cup {s}
    BY <1>7
  <2> QED BY <1>1, <1>2, <1>7, <1>8, <1>10, <1>11, <2>1, NewEntries
<1>13. /\ pageTable'[s] = table /\ \A r \in Spaces \ {s} : pageTable'[r] = pageTable[r]
       /\ stackLocation'[new] = old
       /\ \A t \in Threads \ {new} : stackLocation'[t] = stackLocation[t]
  BY <1>1, <1>4, <1>5, <1>7, <1>11
<1>14. /\ sys'[cur] = "ForkThread" /\ \A t \in Threads \ {cur} : sys'[t] = sys[t]
       /\ sys[cur] = "NewPageTable" /\ \A t \in Threads \ {cur} : sys[t] \notin InnerPlaces
  <2>1. \A t \in Threads \ {cur} : sys[t] \notin InnerPlaces
    BY <1>1, <1>3, CallerOwnsKernel DEF InnerPlaces
  <2> QED BY <1>1, <1>3, <1>7, <2>1 DEF InCall, SysGoto
<1>15. \A t \in Threads \ {new} : HasStack(t)' => HasStack(t)
  <2> SUFFICES ASSUME NEW t \in Threads \ {new}, HasStack(t)'  PROVE HasStack(t)
    OBVIOUS
  <2>1. t \notin Newborn
    BY <1>6
  <2>2. space[t] # NoSpace /\ sys[t] \notin Leaving
    BY <1>1, <1>14 DEF HasStack, Leaving
  <2> QED BY <2>1, <2>2 DEF HasStack
<1>16. \A t \in Threads : HasStack(t)' => space[t] \in Spaces
  BY <1>1 DEF HasStack, ControlInv, ProcessTypeOK
<1>17. ASSUME NEW t \in Threads, HasStack(t)'
       PROVE  MappedAt(space[t], stackLocation[t])'
  <2>1. CASE t = new
    <3>1. \A i \in old + 1 .. old + StackPages : i \in DOMAIN table /\ table[i] \in Pages
      <4> SUFFICES ASSUME NEW i \in old + 1 .. old + StackPages
                   PROVE  i \in DOMAIN table /\ table[i] \in Pages
        OBVIOUS
      <4>1. i - old \in 1..Len(found) /\ old + (i - old) = i /\ i \in 1..(old + StackPages)
        BY <1>1, <1>7
      <4>2. table[i] = found[i - old]
        BY <1>10, <4>1
      <4>3. found[i - old] \in Pages
        BY <1>8, <4>1
      <4> QED BY <1>10, <4>1, <4>2, <4>3
    <3> QED BY <1>1, <1>6, <1>13, <2>1, <3>1 DEF MappedAt
  <2>2. CASE t # new
    <3>1. MappedAt(space[t], stackLocation[t])
      BY <1>2, <1>15, <1>17, <2>2 DEF StacksAreMapped
    <3>2. CASE space[t] = s
      <4>1. DOMAIN pageTable[s] = 1..old
        BY <1>7
      <4>2. /\ space'[t] = s /\ stackLocation'[t] = stackLocation[t] /\ pageTable'[s] = table
        BY <1>1, <1>13, <2>2, <3>2
      <4>3. \A i \in 1..old : i \in DOMAIN table /\ table[i] = pageTable[s][i]
        <5>1. Len(pageTable[s]) \in Nat /\ Len(found) \in Nat
          BY <1>7, <1>8
        <5> QED BY <1>10, <5>1
      <4>4. \A i \in stackLocation[t] + 1 .. stackLocation[t] + StackPages :
              i \in 1..old /\ pageTable[s][i] \in Pages
        BY <3>1, <3>2, <4>1 DEF MappedAt
      <4>5. \A i \in stackLocation[t] + 1 .. stackLocation[t] + StackPages :
              i \in DOMAIN table /\ table[i] \in Pages
        BY <4>3, <4>4
      <4> QED BY <4>2, <4>5 DEF MappedAt
    <3>3. CASE space[t] # s
      BY <1>1, <1>13, <1>16, <1>17, <2>2, <3>1, <3>3 DEF MappedAt
    <3> QED BY <3>2, <3>3
  <2> QED BY <2>1, <2>2
<1>18. ASSUME NEW t \in Threads \ {new}, HasStack(t)', space[t] = s
       PROVE  StackOf(t)' = StackOf(t) /\ StackOf(t)' \cap StackOf(new)' = {}
  <2>1. MappedAt(s, stackLocation[t])
    BY <1>2, <1>15, <1>18 DEF StacksAreMapped
  <2>2. \A i \in StackOf(t) : i \in 1..old
    BY <1>7, <2>1 DEF MappedAt, StackOf
  <2>3. StackOf(t)' = StackOf(t)
    BY <1>13 DEF StackOf
  <2>4. \A i \in StackOf(new)' : i > old
    BY <1>7, <1>13 DEF StackOf
  <2>5. \A i \in 1..old : i <= old
    BY <1>7
  <2>6. \A i \in StackOf(t) : i <= old /\ i \in Nat
    BY <1>7, <2>2
  <2>7. ASSUME NEW i, i \in StackOf(t), i \in StackOf(new)'  PROVE FALSE
    BY <1>7, <2>4, <2>6, <2>7
  <2> QED BY <2>3, <2>7
<1>19. ASSUME NEW t \in Threads, NEW u \in Threads, HasStack(t)', HasStack(u)', t # u,
              space'[t] = space'[u]
       PROVE  StackOf(t)' \cap StackOf(u)' = {}
  <2>1. CASE t = new
    BY <1>1, <1>6, <1>18, <1>19, <2>1
  <2>2. CASE u = new
    BY <1>1, <1>6, <1>18, <1>19, <2>2
  <2>3. CASE t # new /\ u # new
    <3>1. StackOf(t)' = StackOf(t) /\ StackOf(u)' = StackOf(u)
      BY <1>13, <2>3 DEF StackOf
    <3> QED BY <1>1, <1>2, <1>15, <1>19, <2>3, <3>1 DEF StacksAreMapped
  <2> QED BY <2>1, <2>2, <2>3
<1>20. \A u \in Threads : sys'[u] # "ExecThread"
  BY <1>14 DEF InnerPlaces
<1>21. StacksAreMapped'
  BY <1>17, <1>19, <1>20 DEF StacksAreMapped
<1> QED BY <1>12, <1>21

\* A complete constructor fills the new table with free pages.
LEMMA AddrSpaceMemory ==
  ASSUME IInv, ControlInv, CountInv, MemoryIsMapped, AddrSpace
  PROVE  MemoryIsMapped'
<1> SUFFICES ASSUME starved' = {}  PROVE PagesBelongToOne' /\ StacksAreMapped'
  BY DEF MemoryIsMapped
<1> DEFINE n == ProgramPages + StackPages
           found == Found(n)
<1>1. /\ InCall("AddrSpace") /\ SysGoto("ExecThread") /\ Release(processCount + 1)
      /\ processCount' = processCount + 1
      /\ bitmap' = bitmap \cup Range(found)
      /\ UNCHANGED <<space, stackLocation, deletedSpaces>>
      /\ starved' = IF Len(found) < n THEN starved \cup {processCount + 1} ELSE starved
  BY DEF AddrSpace
<1>2. n \in Nat /\ found \in Seq(Pages \ bitmap) /\ Len(found) \in 0..n
      /\ \A i, j \in 1..Len(found) : found[i] = found[j] => i = j
  BY FoundPages
<1>3. Len(found) = n /\ starved = {}
  <2> HIDE DEF found, n
  <2>1. ~(Len(found) < n)
    BY <1>1, Zenon
  <2> QED BY <1>1, <1>2, <2>1
<1>4. PagesBelongToOne /\ StacksAreMapped
  BY <1>3 DEF MemoryIsMapped
<1>5. PICK rest \in [1..n - Len(found) -> Entries] :
        pageTable' = [pageTable EXCEPT ![processCount + 1] = found \o rest]
  BY DEF AddrSpace
<1>6. found \o rest = found /\ found \in Seq(Entries)
  BY <1>2, <1>3, TableOfEntries
<1> HIDE DEF found, n
<1>7. PICK s \in Spaces : s = processCount + 1
  BY <1>1, RoomForSpace DEF CountInv
<1>8. /\ s \notin live /\ live' = live \cup {s} /\ live \subseteq Spaces /\ processCount \in Nat
      /\ pageTable \in [Spaces -> Seq(Entries)]
  <2>1. /\ processCount \in Nat /\ processCount <= MaxProcesses /\ deletedSpaces \subseteq 1..processCount
        /\ pageTable \in [Spaces -> Seq(Entries)]
    BY DEF ControlInv, ProcessTypeOK, Spaces
  <2>2. s \notin 1..processCount /\ 1..processCount + 1 = 1..processCount \cup {s}
    BY <1>7, <2>1
  <2>3. live \subseteq 1..processCount /\ 1..processCount \subseteq Spaces
    BY <2>1 DEF live, Spaces
  <2> QED BY <1>1, <2>1, <2>2, <2>3 DEF live
<1>9. pageTable' = [pageTable EXCEPT ![s] = found]
  BY <1>5, <1>6, <1>7
<1>10. PagesBelongToOne'
  <2>1. /\ 0 \in Nat /\ Len(found) = 0 + Len(found)
        /\ \A i \in 1..Len(found) : found[0 + i] = found[i]
    BY <1>2
  <2>2. s \in live'
    BY <1>8
  <2> QED BY <1>1, <1>2, <1>4, <1>6, <1>8, <1>9, <2>1, <2>2, NewEntries
<1>11. pageTable'[s] = found /\ \A r \in Spaces \ {s} : pageTable'[r] = pageTable[r]
  BY <1>8, <1>9
<1>12. \A t \in Threads : space'[t] = space[t] /\ space[t] # s
  BY <1>1, <1>7, <1>8 DEF ControlInv, ThreadsAreBorn
<1>13. PICK cur \in Threads : cur = currentThread
  BY DispatcherFacts
<1>14. /\ sys'[cur] = "ExecThread" /\ \A t \in Threads \ {cur} : sys'[t] = sys[t]
       /\ sys[cur] = "AddrSpace" /\ \A t \in Threads \ {cur} : sys[t] \notin InnerPlaces
  <2>1. \A t \in Threads \ {cur} : sys[t] \notin InnerPlaces
    BY <1>1, <1>13, CallerOwnsKernel DEF InnerPlaces
  <2> QED BY <1>1, <1>13, <2>1 DEF InCall, SysGoto, ControlInv, ProcessTypeOK
<1>15. \A t \in Threads : HasStack(t)' => HasStack(t) /\ space[t] \in Spaces
  <2> SUFFICES ASSUME NEW t \in Threads, HasStack(t)'  PROVE HasStack(t) /\ space[t] \in Spaces
    OBVIOUS
  <2>1. \A u \in Threads : sys[u] # "NewPageTable"
    BY <1>14 DEF InnerPlaces
  <2> QED BY <1>12, <1>14, <2>1 DEF HasStack, Leaving, ControlInv, ProcessTypeOK
<1>16. \A t \in Threads : HasStack(t)' => MappedAt(space[t], stackLocation[t])'
  BY <1>1, <1>4, <1>11, <1>12, <1>15 DEF StacksAreMapped, MappedAt
<1>17. \A t \in Threads : StackOf(t)' = StackOf(t)
  BY <1>1 DEF StackOf
<1>18. MappedAt(processCount, ProgramPages)'
  <2>1. DOMAIN found = 1..n /\ \A i \in 1..n : found[i] \in Pages
    BY <1>2, <1>3
  <2>2. \A i \in ProgramPages + 1 .. ProgramPages + StackPages : i \in 1..n
    BY DEF n
  <2> QED BY <1>1, <1>7, <1>11, <2>1, <2>2 DEF MappedAt
<1>19. StacksAreMapped'
  BY <1>1, <1>4, <1>15, <1>16, <1>17, <1>18 DEF StacksAreMapped
<1> QED BY <1>10, <1>19

\* The first thread has the stack behind the program.
LEMMA ExecThreadMemory ==
  ASSUME IInv, ControlInv, CountInv, MemoryIsMapped, ExecThread
  PROVE  MemoryIsMapped'
<1>1. /\ InCall("ExecThread") /\ SysGoto("Unlock")
      /\ space' = [space EXCEPT ![newThread] = processCount]
      /\ stackLocation' = [stackLocation EXCEPT ![newThread] = ProgramPages]
      /\ UNCHANGED <<processCount, deletedSpaces, pageTable, starved, bitmap>>
  BY DEF ExecThread, spaceVars
<1>2. PICK cur \in Threads : cur = currentThread
  BY DispatcherFacts
<1>3. PICK new \in Threads : new = newThread
  BY <1>1, NewThreadIsUnused DEF CountInv
<1>4. /\ sys'[cur] = "Unlock" /\ \A t \in Threads \ {cur} : sys'[t] = sys[t]
      /\ sys[cur] = "ExecThread" /\ \A t \in Threads \ {cur} : sys[t] \notin InnerPlaces
  <2>1. \A t \in Threads \ {cur} : sys[t] \notin InnerPlaces
    BY <1>1, <1>2, CallerOwnsKernel DEF InnerPlaces
  <2> QED BY <1>1, <1>2, <2>1 DEF InCall, SysGoto, ControlInv, ProcessTypeOK
<1>5. /\ space'[new] = processCount /\ \A t \in Threads \ {new} : space'[t] = space[t]
      /\ stackLocation'[new] = ProgramPages
      /\ \A t \in Threads \ {new} : stackLocation'[t] = stackLocation[t]
  BY <1>1, <1>3 DEF ControlInv, ProcessTypeOK
<1>6. \A t \in Threads : space[t] # processCount
  BY <1>2, <1>4 DEF CountInv, NewSpaceIsEmpty
<1>7. \A t \in Threads \ {new} : HasStack(t)' => HasStack(t)
  <2>1. \A u \in Threads : sys[u] # "NewPageTable"
    BY <1>4 DEF InnerPlaces
  <2> QED BY <1>4, <1>5, <2>1 DEF HasStack, Leaving
<1>8. PagesBelongToOne' <=> PagesBelongToOne
  BY <1>1 DEF PagesBelongToOne, PagesOf, live
<1>9. \A s, n : MappedAt(s, n)' <=> MappedAt(s, n)
  BY <1>1 DEF MappedAt
<1>10. \A t \in Threads \ {new} : StackOf(t)' = StackOf(t)
  BY <1>5 DEF StackOf
<1>11. \A t \in Threads : sys'[t] # "ExecThread"
  BY <1>4 DEF InnerPlaces
<1>12. ASSUME StacksAreMapped  PROVE StacksAreMapped'
  <2>1. MappedAt(processCount, ProgramPages)
    BY <1>2, <1>4, <1>12 DEF StacksAreMapped
  <2>2. ASSUME NEW t \in Threads, HasStack(t)'
        PROVE  MappedAt(space[t], stackLocation[t])'
    <3>1. CASE t = new
      BY <1>5, <1>9, <2>1, <3>1
    <3>2. CASE t # new
      BY <1>5, <1>7, <1>9, <1>12, <2>2, <3>2 DEF StacksAreMapped
    <3> QED BY <3>1, <3>2
  <2>3. ASSUME NEW t \in Threads, NEW u \in Threads, HasStack(t)', HasStack(u)', t # u,
               space'[t] = space'[u]
        PROVE  StackOf(t)' \cap StackOf(u)' = {}
    <3>1. t # new /\ u # new
      BY <1>5, <1>6, <2>3
    <3> QED BY <1>5, <1>7, <1>10, <1>12, <2>3, <3>1 DEF StacksAreMapped
  <2> QED BY <1>11, <2>2, <2>3 DEF StacksAreMapped
<1> QED BY <1>1, <1>8, <1>12 DEF MemoryIsMapped

\* The last thread frees the pages of its space, and nobody has a stack there.
LEMMA ExitProcessMemory ==
  ASSUME IInv, ControlInv, CountInv, MemoryIsMapped, ExitProcess, ~Stop
  PROVE  MemoryIsMapped'
<1> SUFFICES ASSUME starved = {}  PROVE PagesBelongToOne' /\ StacksAreMapped'
  BY DEF MemoryIsMapped, ExitProcess
<1>1. /\ InCall("Exit") /\ SysGoto("Finish") /\ isLastExecutingThread
      /\ deletedSpaces' = deletedSpaces \cup {mySpace}
      /\ bitmap' = bitmap \ PagesOf(mySpace)
      /\ pageTable' = [pageTable EXCEPT ![mySpace] = << >>]
      /\ UNCHANGED <<space, stackLocation, processCount>>
  BY DEF ExitProcess, UnlockKernel, PagesOf
<1>2. PICK cur \in Threads : cur = currentThread
  BY DispatcherFacts
<1>3. PICK s \in live : s = mySpace
  BY <1>1, CallerIsCounted DEF FirstPlaces
<1>4. /\ \A t \in Threads \ {cur} : sys[t] \notin InnerPlaces
      /\ \A t \in Threads : LivesIn(t, s) => t = cur
      /\ sys[cur] = "Exit"
  <2>1. \A t \in Threads : LivesIn(t, s) => t = cur
    BY <1>1, <1>2, <1>3, CallerIsCounted DEF FirstPlaces, isLastExecutingThread
  <2>2. sys[cur] = "Exit" /\ \A t \in Threads \ {cur} : sys[t] \notin InnerPlaces
    BY <1>1, <1>2, CallerOwnsKernel DEF FirstPlaces
  <2> QED BY <2>1, <2>2
<1>5. sys'[cur] = "Finish" /\ \A t \in Threads \ {cur} : sys'[t] = sys[t]
  BY <1>1, <1>2 DEF SysGoto, ControlInv, ProcessTypeOK
<1>6. PagesBelongToOne /\ StacksAreMapped
  BY DEF MemoryIsMapped
<1>7. live' = live \ {s} /\ live \subseteq Spaces
  BY <1>1, <1>3 DEF live, ControlInv, ProcessTypeOK, Spaces
<1>8. \A r \in Spaces \ {s} : pageTable'[r] = pageTable[r]
  BY <1>1, <1>3 DEF ControlInv, ProcessTypeOK
<1>9. \A r \in live' : PagesOf(r)' = PagesOf(r)
  BY <1>7, <1>8 DEF PagesOf
<1>10. \A r \in live' : PagesOf(r) \cap PagesOf(s) = {}
  <2> SUFFICES ASSUME NEW r \in live', NEW p \in PagesOf(r), p \in PagesOf(s)
               PROVE  FALSE
    OBVIOUS
  <2>1. PICK i \in DOMAIN pageTable[r] : p = pageTable[r][i]
    BY DEF PagesOf, Range
  <2>2. PICK j \in DOMAIN pageTable[s] : p = pageTable[s][j] /\ p # NoPage
    BY DEF PagesOf, Range
  <2>3. r = s
    BY <1>6, <1>7, <2>1, <2>2 DEF PagesBelongToOne
  <2> QED BY <1>7, <2>3
<1>11. PagesBelongToOne'
  <2>1. bitmap' = UNION {PagesOf(r)' : r \in live'}
    <3>1. bitmap = UNION {PagesOf(r) : r \in live}
      BY <1>6 DEF PagesBelongToOne
    <3>2. bitmap' = UNION {PagesOf(r) : r \in live'}
      BY <1>1, <1>3, <1>7, <1>10, <3>1
    <3> QED BY <1>9, <3>2
  <2>2. \A r \in live' : r \in live /\ pageTable'[r] = pageTable[r]
    BY <1>7, <1>8
  <2> QED BY <1>6, <2>1, <2>2 DEF PagesBelongToOne
<1>12. \A t \in Threads : HasStack(t)' => HasStack(t) /\ space[t] \in Spaces \ {s}
  <2> SUFFICES ASSUME NEW t \in Threads, HasStack(t)'
               PROVE  HasStack(t) /\ space[t] \in Spaces \ {s}
    OBVIOUS
  <2>1. t # cur /\ space[t] # NoSpace /\ sys[t] \notin Leaving
    BY <1>1, <1>5 DEF HasStack, Leaving
  <2>2. space[t] # s
    BY <1>4, <2>1 DEF LivesIn, Leaving
  <2>3. \A u \in Threads : sys[u] # "NewPageTable"
    BY <1>4 DEF InnerPlaces
  <2> QED BY <2>1, <2>2, <2>3 DEF HasStack, ControlInv, ProcessTypeOK
<1>13. \A t \in Threads : HasStack(t)' => MappedAt(space[t], stackLocation[t])'
  BY <1>1, <1>6, <1>8, <1>12 DEF StacksAreMapped, MappedAt
<1>14. \A t \in Threads : StackOf(t)' = StackOf(t)
  BY <1>1 DEF StackOf
<1>15. \A u \in Threads : sys'[u] # "ExecThread"
  BY <1>4, <1>5 DEF InnerPlaces
<1>16. StacksAreMapped'
  BY <1>1, <1>6, <1>12, <1>13, <1>14, <1>15 DEF StacksAreMapped
<1> QED BY <1>11, <1>16

\* A thread that is not the last frees the pages of its own stack, and empties
\* their entries: the other stacks are apart from it.
LEMMA DeleteCurrentThreadMemory ==
  ASSUME IInv, ControlInv, CountInv, MemoryIsMapped, DeleteCurrentThread, ~Stop
  PROVE  MemoryIsMapped'
<1> SUFFICES ASSUME starved = {}  PROVE PagesBelongToOne' /\ StacksAreMapped'
  BY DEF MemoryIsMapped, DeleteCurrentThread
<1>2. PICK cur \in Threads : cur = currentThread
  BY DispatcherFacts
<1>1. /\ InCall("DeleteThread") /\ SysGoto("ExitUnlock")
      /\ bitmap' = bitmap \ {pageTable[mySpace][i] : i \in StackOf(cur)}
      /\ pageTable' = [pageTable EXCEPT ![mySpace] =
                         [i \in DOMAIN @ |-> IF i \in StackOf(cur) THEN NoPage ELSE @[i]]]
      /\ UNCHANGED <<space, stackLocation, processCount, deletedSpaces>>
  BY <1>2 DEF DeleteCurrentThread
<1>3. PICK s \in live : s = mySpace
  BY <1>1, CallerIsCounted DEF InnerPlaces
<1>4. sys[cur] = "DeleteThread" /\ \A t \in Threads \ {cur} : sys[t] \notin InnerPlaces
  BY <1>1, <1>2, CallerOwnsKernel DEF InnerPlaces
<1>5. sys'[cur] = "ExitUnlock" /\ \A t \in Threads \ {cur} : sys'[t] = sys[t]
  BY <1>1, <1>2 DEF SysGoto, ControlInv, ProcessTypeOK
<1>6. PagesBelongToOne /\ StacksAreMapped
  BY DEF MemoryIsMapped
<1>7. live' = live /\ live \subseteq Spaces /\ pageTable \in [Spaces -> Seq(Entries)]
  <2>1. live' = live
    BY <1>1, Zenon DEF live
  <2>2. processCount \in Spaces /\ pageTable \in [Spaces -> Seq(Entries)]
    BY Zenon DEF ControlInv, ProcessTypeOK
  <2>3. live \subseteq Spaces
    BY <2>2, ProcessesAssumption DEF live, Spaces
  <2> QED BY <2>1, <2>2, <2>3, Zenon
<1> DEFINE stack == {pageTable[s][i] : i \in StackOf(cur)}
<1>8. /\ \A r \in Spaces \ {s} : pageTable'[r] = pageTable[r]
      /\ DOMAIN pageTable'[s] = DOMAIN pageTable[s]
      /\ \A i \in DOMAIN pageTable[s] :
           pageTable'[s][i] = IF i \in StackOf(cur) THEN NoPage ELSE pageTable[s][i]
  BY <1>1, <1>3, <1>7
<1>9. HasStack(cur) /\ space[cur] = s
  <2>1. space[cur] = s /\ s # NoSpace
    BY <1>2, <1>3, <1>7 DEF mySpace, Spaces, NoSpace
  <2>2. \A u \in Threads : sys[u] # "NewPageTable"
    BY <1>4 DEF InnerPlaces
  <2> QED BY <1>4, <2>1, <2>2 DEF HasStack, Leaving
<1>10. \A i \in StackOf(cur) : i \in DOMAIN pageTable[s] /\ pageTable[s][i] \in Pages
  BY <1>6, <1>9 DEF StacksAreMapped, MappedAt, StackOf
<1>11. \A r \in live : PagesOf(r)' = PagesOf(r) \ stack
  <2>1. ASSUME NEW r \in live, r # s  PROVE PagesOf(r)' = PagesOf(r) \ stack
    <3>1. PagesOf(r)' = PagesOf(r)
      BY <1>7, <1>8, <2>1 DEF PagesOf
    <3>2. ASSUME NEW p \in PagesOf(r)  PROVE p \notin stack
      <4> SUFFICES ASSUME NEW i \in StackOf(cur), p = pageTable[s][i]  PROVE FALSE
        OBVIOUS
      <4>1. PICK j \in DOMAIN pageTable[r] : p = pageTable[r][j] /\ p # NoPage
        BY DEF PagesOf, Range
      <4>2. i \in DOMAIN pageTable[s]
        BY <1>10
      <4> QED BY <1>6, <2>1, <4>1, <4>2 DEF PagesBelongToOne
    <3> QED BY <3>1, <3>2
  <2>2. PagesOf(s)' = PagesOf(s) \ stack
    <3>1. ASSUME NEW p \in PagesOf(s)'  PROVE p \in PagesOf(s) \ stack
      <4>1. PICK j \in DOMAIN pageTable[s] : p = pageTable'[s][j] /\ p # NoPage
        BY <1>8 DEF PagesOf, Range
      <4>2. j \notin StackOf(cur) /\ p = pageTable[s][j]
        BY <1>8, <4>1
      <4>3. p \notin stack
        <5> SUFFICES ASSUME NEW i \in StackOf(cur), p = pageTable[s][i]  PROVE FALSE
          OBVIOUS
        <5>1. i \in DOMAIN pageTable[s] /\ i # j
          BY <1>10, <4>2
        <5>2. \A k, l \in DOMAIN pageTable[s] :
                pageTable[s][k] = pageTable[s][l] /\ pageTable[s][k] # NoPage => k = l
          BY <1>6 DEF PagesBelongToOne
        <5> QED BY <4>1, <4>2, <5>1, <5>2
      <4>4. p \in Range(pageTable[s])
        BY <4>2 DEF Range
      <4> QED BY <4>1, <4>3, <4>4 DEF PagesOf
    <3>2. ASSUME NEW p \in PagesOf(s) \ stack  PROVE p \in PagesOf(s)'
      <4>1. PICK j \in DOMAIN pageTable[s] : p = pageTable[s][j] /\ p # NoPage
        BY DEF PagesOf, Range
      <4>2. j \notin StackOf(cur)
        BY <4>1
      <4>3. j \in DOMAIN pageTable'[s] /\ p = pageTable'[s][j]
        BY <1>8, <4>1, <4>2
      <4> QED BY <4>1, <4>3 DEF PagesOf, Range
    <3> QED BY <3>1, <3>2
  <2> QED BY <2>1, <2>2
<1>12. bitmap' = bitmap \ stack
  BY <1>1, <1>3
<1> HIDE DEF stack
<1>13. bitmap' = UNION {PagesOf(r)' : r \in live'}
  <2>1. bitmap = UNION {PagesOf(r) : r \in live}
    BY <1>6 DEF PagesBelongToOne
  <2>2. bitmap' = UNION {PagesOf(r) \ stack : r \in live}
    BY <1>12, <2>1
  <2> QED BY <1>7, <1>11, <2>2
<1>14. \A r \in live : /\ DOMAIN pageTable'[r] = DOMAIN pageTable[r]
                       /\ \A i \in DOMAIN pageTable[r] :
                            pageTable'[r][i] # NoPage => pageTable'[r][i] = pageTable[r][i]
  BY <1>7, <1>8
<1>15. PagesBelongToOne'
  <2>1. ASSUME NEW r1 \in live', NEW r2 \in live',
               NEW i \in DOMAIN pageTable'[r1], NEW j \in DOMAIN pageTable'[r2],
               pageTable'[r1][i] = pageTable'[r2][j], pageTable'[r1][i] # NoPage
        PROVE  r1 = r2 /\ i = j
    <3>1. /\ i \in DOMAIN pageTable[r1] /\ j \in DOMAIN pageTable[r2]
          /\ pageTable[r1][i] = pageTable[r2][j] /\ pageTable[r1][i] # NoPage
      BY <1>7, <1>14, <2>1
    <3> QED BY <1>6, <1>7, <3>1 DEF PagesBelongToOne
  <2> QED BY <1>13, <2>1 DEF PagesBelongToOne
<1>16. \A t \in Threads : HasStack(t)' => HasStack(t) /\ t # cur /\ space[t] \in Spaces
  <2> SUFFICES ASSUME NEW t \in Threads, HasStack(t)'
               PROVE  HasStack(t) /\ t # cur /\ space[t] \in Spaces
    OBVIOUS
  <2>1. t # cur /\ space[t] # NoSpace /\ sys[t] \notin Leaving
    BY <1>1, <1>5 DEF HasStack, Leaving
  <2>2. \A u \in Threads : sys[u] # "NewPageTable"
    BY <1>4 DEF InnerPlaces
  <2> QED BY <2>1, <2>2 DEF HasStack, ControlInv, ProcessTypeOK
<1>17. ASSUME NEW t \in Threads, HasStack(t)'
       PROVE  MappedAt(space[t], stackLocation[t])'
  <2>1. HasStack(t) /\ t # cur /\ space[t] \in Spaces
    BY <1>16, <1>17
  <2>2. MappedAt(space[t], stackLocation[t])
    BY <1>6, <2>1 DEF StacksAreMapped
  <2>3. CASE space[t] = s
    <3>1. StackOf(t) \cap StackOf(cur) = {}
      BY <1>6, <1>9, <2>1, <2>3 DEF StacksAreMapped
    <3>2. \A i \in stackLocation[t] + 1 .. stackLocation[t] + StackPages : i \notin StackOf(cur)
      BY <3>1 DEF StackOf
    <3> QED BY <1>1, <1>8, <2>2, <2>3, <3>2 DEF MappedAt
  <2>4. CASE space[t] # s
    BY <1>1, <1>8, <2>1, <2>2, <2>4 DEF MappedAt
  <2> QED BY <2>3, <2>4
<1>18. \A t \in Threads : StackOf(t)' = StackOf(t)
  BY <1>1 DEF StackOf
<1>19. \A u \in Threads : sys'[u] # "ExecThread"
  BY <1>4, <1>5 DEF InnerPlaces
<1>20. StacksAreMapped'
  BY <1>1, <1>6, <1>16, <1>17, <1>18, <1>19 DEF StacksAreMapped
<1> QED BY <1>15, <1>20

----------------------------------------------------------------------------
(***************************************************************************)
(* The page table of the machine.                                          *)
(***************************************************************************)
\* The places at which a thread has not restored its space, or has let it go.
OffTable == {"begin", "Launch", "Finish"}

\* A step of a thread that keeps the processor.
LEMMA OwnStepSees ==
  ASSUME MachineSeesSpace, Processing, currentThread' = currentThread,
         \/ sys'[currentThread] \in OffTable
         \/ machineTable' = TableOf(currentThread)'
         \/ /\ sys[currentThread] \notin OffTable
            /\ machineTable' = machineTable /\ TableOf(currentThread)' = TableOf(currentThread)
  PROVE  MachineSeesSpace'
<1>1. CASE sys'[currentThread] \in OffTable
  BY <1>1 DEF MachineSeesSpace, OffTable
<1>2. CASE machineTable' = TableOf(currentThread)'
  BY <1>2 DEF MachineSeesSpace
<1>3. CASE /\ sys[currentThread] \notin OffTable
           /\ machineTable' = machineTable /\ TableOf(currentThread)' = TableOf(currentThread)
  <2>1. machineTable = TableOf(currentThread)
    BY <1>3 DEF MachineSeesSpace, OffTable
  <2> QED BY <1>3, <2>1 DEF MachineSeesSpace
<1> QED BY <1>1, <1>2, <1>3

\* A step that may give the processor away.
LEMMA SwitchSees ==
  ASSUME MachineSeesSpace, Processing, ControlInv, SwitchSpace, UNCHANGED processVars,
         currentThread' \in Threads,
         \A t \in Threads \ {currentThread} : sys'[t] = sys[t],
         sys[currentThread] \in OffTable => sys'[currentThread] \in OffTable
  PROVE  MachineSeesSpace'
<1>1. space' = space /\ pageTable' = pageTable
  BY DEF processVars, spaceVars
<1>2. CASE currentThread' = currentThread
  <2>1. machineTable' = machineTable /\ TableOf(currentThread)' = TableOf(currentThread)
    BY <1>1, <1>2 DEF SwitchSpace, TableOf
  <2> QED BY <1>2, <2>1, OwnStepSees
<1>3. CASE currentThread' # currentThread /\ currentThread' \in started
  BY <1>1, <1>3 DEF SwitchSpace, TableOf, MachineSeesSpace
<1>4. CASE currentThread' # currentThread /\ currentThread' \notin started
  <2>1. sys[currentThread'] = "begin"
    BY <1>4 DEF ControlInv, ThreadsAreBorn
  <2>2. sys'[currentThread'] = "begin"
    BY <1>4, <2>1
  <2> QED BY <2>2 DEF MachineSeesSpace
<1> QED BY <1>2, <1>3, <1>4

\* The calls that begin, the time slices, and the ends of threads.
LEMMA SwitchesSee ==
  ASSUME PInv, currentThread' \in Threads,
         \/ BeginFork \/ BeginExec \/ Begin \/ BeginExit \/ BeginYield \/ YieldLock
         \/ FinishThread \/ YieldCpu \/ Preempt
  PROVE  MachineSeesSpace'
<1>1. /\ MachineSeesSpace /\ ControlInv /\ currentThread \in Threads
      /\ sys \in [Threads -> ProcessPlaces]
  BY DispatcherFacts DEF PInv, ControlInv, ProcessTypeOK
<1>2. ASSUME NEW place \in {"user", "begin", "YieldBack"}, NEW next \in FirstPlaces,
             LockKernel(place, next), place = "begin" => next = "Launch"
      PROVE  MachineSeesSpace'
  <2>1. /\ Processing /\ SwitchSpace /\ UNCHANGED processVars
        /\ sys[currentThread] = place /\ sys'[currentThread] = next
        /\ \A t \in Threads \ {currentThread} : sys'[t] = sys[t]
    BY <1>1, <1>2 DEF LockKernel, InCall, At, SysGoto
  <2> QED BY <1>1, <1>2, <2>1, SwitchSees DEF OffTable
<1>3. ASSUME FinishThread \/ YieldCpu \/ Preempt
      PROVE  MachineSeesSpace'
  <2>1. /\ Processing /\ SwitchSpace /\ UNCHANGED processVars
        /\ \A t \in Threads \ {currentThread} : sys'[t] = sys[t]
        /\ sys'[currentThread] = sys[currentThread] \/ sys[currentThread] = "YieldCpu"
    BY <1>1, <1>3 DEF FinishThread, YieldCpu, Preempt, InCall, At, Finish, Yield, SysGoto
  <2> QED BY <1>1, <2>1, SwitchSees DEF OffTable
<1> QED BY <1>2, <1>3 DEF BeginFork, BeginExec, Begin, BeginExit, BeginYield, YieldLock, FirstPlaces

\* The operations under kernelLock.
LEMMA OwnersSee ==
  ASSUME PInv,
         \/ NewKernelThread \/ NewPageTable \/ ForkThread \/ ExecOpens \/ ExecFails
         \/ AddrSpace \/ ExecThread \/ Launch \/ Unlock \/ YieldUnlock \/ ExitUnlock
         \/ (ExitProcess /\ ~Stop) \/ ExitThread \/ (DeleteCurrentThread /\ ~Stop) \/ Resume
  PROVE  MachineSeesSpace'
<1>1. /\ IInv /\ ControlInv /\ CountInv /\ MachineSeesSpace /\ currentThread \in Threads
      /\ sys \in [Threads -> ProcessPlaces] /\ space \in [Threads -> Spaces \cup {NoSpace}]
      /\ pageTable \in [Spaces -> Seq(Entries)] /\ processCount \in Nat
  <2>1. IInv /\ ControlInv /\ CountInv /\ MachineSeesSpace
    BY DEF PInv
  <2>2. processCount \in Nat
    BY <2>1 DEF ControlInv, ProcessTypeOK, Spaces
  <2> QED BY <2>1, <2>2, DispatcherFacts DEF ControlInv, ProcessTypeOK
<1>2. ASSUME Launch \/ Unlock \/ YieldUnlock \/ ExitUnlock \/ ForkThread
      PROVE  MachineSeesSpace'
  <2>1. /\ Processing /\ currentThread' = currentThread /\ UNCHANGED processVars
        /\ \/ machineTable' = TableOf(currentThread)
           \/ sys[currentThread] \in {"Unlock", "Yield"} /\ machineTable' = machineTable
           \/ sys'[currentThread] = "Finish"
    BY <1>1, <1>2 DEF Launch, Unlock, YieldUnlock, ExitUnlock, ForkThread, InCall, At, UnlockKernel,
       Release, SchedFork, ReadyToRun, RestoreState, SysGoto
  <2>2. TableOf(currentThread)' = TableOf(currentThread)
    BY <2>1 DEF TableOf, processVars, spaceVars
  <2> QED BY <1>1, <2>1, <2>2, OwnStepSees DEF OffTable
<1>3. ASSUME NewKernelThread \/ ExecThread
      PROVE  MachineSeesSpace'
  <2>1. PICK place \in {"Fork", "ExecThread"} :
          InCall(place) /\ pageTable' = pageTable /\ machineTable' = machineTable
    BY <1>3 DEF NewKernelThread, ExecThread, spaceVars
  <2>2. Processing /\ sys[currentThread] = place
    BY <2>1 DEF InCall, At
  <2>3. PICK new \in Threads : new = newThread /\ new # currentThread
    BY <1>1, <2>1, NewThreadIsUnused DEF CountInv
  <2>4. space'[currentThread] = space[currentThread]
    BY <1>1, <1>3, <2>3 DEF NewKernelThread, ExecThread
  <2>5. currentThread' = currentThread
    <3>1. CASE NewKernelThread
      <4>1. mySpace \in Spaces /\ mySpace = space'[currentThread]
        BY <1>1, <2>1, <2>4, CallerOwnsKernel DEF mySpace, FirstPlaces, InnerPlaces
      <4>2. InCall("Fork") /\ Acquire(mySpace) /\ SysGoto("NewPageTable")
        BY <3>1 DEF NewKernelThread
      <4> QED BY <1>1, <4>1, <4>2, LockSpaceControl DEF schedVars
    <3>2. CASE ExecThread
      BY <3>2 DEF ExecThread, SchedFork, ReadyToRun
    <3> QED BY <1>3, <3>1, <3>2
  <2>6. TableOf(currentThread)' = TableOf(currentThread)
    BY <2>1, <2>4, <2>5 DEF TableOf
  <2> QED BY <1>1, <2>1, <2>2, <2>5, <2>6, OwnStepSees DEF OffTable
<1>4. ASSUME ExecOpens \/ ExecFails \/ ExitThread \/ Resume
      PROVE  MachineSeesSpace'
  <2>1. Processing /\ UNCHANGED <<space, pageTable, machineTable>>
    BY <1>4 DEF ExecOpens, ExecFails, ExitThread, Resume, AcquireReturn, InCall, At,
                processVars, spaceVars
  <2>2. currentThread' = currentThread
    <3>1. CASE ExecOpens
      <4>1. InCall("Exec") /\ Acquire(processCount + 1) /\ SysGoto("AddrSpace")
        BY <3>1 DEF ExecOpens
      <4>2. processCount + 1 \in Spaces
        BY <1>1, <4>1, RoomForSpace DEF CountInv
      <4>3. processCount' = processCount
        BY <3>1 DEF ExecOpens
      <4> QED BY <1>1, <4>1, <4>2, <4>3, LockSpaceControl DEF schedVars
    <3>2. CASE ExitThread
      <4>1. InCall("Exit") /\ Acquire(mySpace) /\ SysGoto("DeleteThread")
        BY <3>2 DEF ExitThread
      <4>2. mySpace \in Spaces /\ mySpace = space'[currentThread]
        BY <1>1, <2>1, <4>1, CallerOwnsKernel DEF mySpace, FirstPlaces
      <4> QED BY <1>1, <4>1, <4>2, LockSpaceControl DEF schedVars
    <3>3. CASE ExecFails \/ Resume
      BY <3>3 DEF ExecFails, UnlockKernel, Release, Resume, AcquireReturn, schedVars
    <3> QED BY <1>4, <3>1, <3>2, <3>3
  <2>3. TableOf(currentThread)' = TableOf(currentThread)
    BY <2>1, <2>2 DEF TableOf
  <2>4. sys[currentThread] \notin OffTable \/ sys'[currentThread] \in OffTable
    <3>1. CASE Resume
      BY <3>1 DEF Resume
    <3>2. CASE ExecOpens \/ ExecFails \/ ExitThread
      BY <3>2 DEF ExecOpens, ExecFails, ExitThread, InCall, OffTable
    <3> QED BY <1>4, <3>1, <3>2
  <2> QED BY <1>1, <2>1, <2>2, <2>3, <2>4, OwnStepSees
<1>5. ASSUME NewPageTable
      PROVE  MachineSeesSpace'
  <2> DEFINE found == Found(StackPages)
  <2>1. /\ InCall("NewPageTable") /\ Len(found) = StackPages
        /\ pageTable' = [pageTable EXCEPT ![mySpace] = @ \o found]
        /\ machineTable' = <<mySpace, Len(pageTable[mySpace]) + StackPages>>
        /\ currentThread' = currentThread /\ space' = space
    BY <1>5 DEF NewPageTable, Release
  <2>2. mySpace \in Spaces /\ pageTable[mySpace] \in Seq(Entries)
    BY <1>1, <2>1, CallerOwnsKernel DEF InnerPlaces, mySpace
  <2>3. found \in Seq(Pages \ bitmap)
    BY FoundPages
  <2>4. found \in Seq(Entries)
    <3>1. Pages \ bitmap \subseteq Entries
      BY DEF Pages, Entries, NoPage
    <3> HIDE DEF found
    <3> QED BY <2>3, <3>1
  <2> HIDE DEF found
  <2>5. pageTable'[mySpace] = pageTable[mySpace] \o found
    BY <1>1, <2>1, <2>2
  <2>6. Len(pageTable[mySpace] \o found) = Len(pageTable[mySpace]) + StackPages
    <3> DEFINE mine == pageTable[mySpace]
    <3>1. mine \in Seq(Entries)
      BY <2>2
    <3> HIDE DEF mine
    <3>2. Len(mine \o found) = Len(mine) + Len(found)
      BY <2>4, <3>1
    <3> QED BY <2>1, <3>2 DEF mine
  <2>7. machineTable' = TableOf(currentThread)'
    BY <2>1, <2>5, <2>6 DEF TableOf, mySpace
  <2>8. Processing
    BY <2>1 DEF InCall, At
  <2> QED BY <1>1, <2>1, <2>7, <2>8, OwnStepSees
<1>6. ASSUME AddrSpace
      PROVE  MachineSeesSpace'
  <2>1. /\ InCall("AddrSpace") /\ currentThread' = currentThread
        /\ space' = space /\ machineTable' = machineTable
    BY <1>6 DEF AddrSpace, Release
  <2>2. PICK table : pageTable' = [pageTable EXCEPT ![processCount + 1] = table]
    BY <1>6 DEF AddrSpace
  <2>3. space[currentThread] \in Spaces /\ space[currentThread] # processCount + 1
    BY <1>1, <2>1, CallerOwnsKernel DEF InnerPlaces
  <2>4. pageTable'[space[currentThread]] = pageTable[space[currentThread]]
    BY <1>1, <2>2, <2>3
  <2>5. TableOf(currentThread)' = TableOf(currentThread)
    BY <2>1, <2>4 DEF TableOf
  <2> QED BY <1>1, <2>1, <2>5, OwnStepSees DEF InCall, At, OffTable
<1>7. ASSUME ExitProcess, ~Stop
      PROVE  MachineSeesSpace'
  <2>1. InCall("Exit") /\ UnlockKernel("Finish")
    BY <1>7 DEF ExitProcess
  <2>2. Processing /\ currentThread' = currentThread /\ sys'[currentThread] = "Finish"
    BY <1>1, <2>1 DEF InCall, At, UnlockKernel, Release, SysGoto
  <2> QED BY <1>1, <2>2, OwnStepSees DEF OffTable
<1>8. ASSUME DeleteCurrentThread, ~Stop
      PROVE  MachineSeesSpace'
  <2>1. /\ InCall("DeleteThread") /\ currentThread' = currentThread
        /\ space' = space /\ machineTable' = machineTable
    BY <1>8 DEF DeleteCurrentThread, Release
  <2>2. mySpace \in Spaces /\ pageTable[mySpace] \in Seq(Entries)
    BY <1>1, <2>1, CallerOwnsKernel DEF InnerPlaces, mySpace
  <2> DEFINE emptied == [i \in DOMAIN pageTable[mySpace] |->
                 IF i \in StackOf(currentThread) THEN NoPage ELSE pageTable[mySpace][i]]
  <2>3. pageTable' = [pageTable EXCEPT ![mySpace] = emptied]
    BY <1>8 DEF DeleteCurrentThread
  <2>4. DOMAIN emptied = 1..Len(pageTable[mySpace]) /\ Len(pageTable[mySpace]) \in Nat
    BY <2>2
  <2>5. pageTable' \in [Spaces -> Seq(Entries)]
    BY <1>1, <1>8, DeleteCurrentThreadKeeps DEF CountInv, ControlInv, ProcessTypeOK
  <2> HIDE DEF emptied
  <2>6. pageTable'[mySpace] = emptied /\ emptied \in Seq(Entries)
    BY <1>1, <2>2, <2>3, <2>5
  <2>7. DOMAIN emptied = 1..Len(emptied) /\ Len(emptied) \in Nat
    BY <2>6
  <2>8. Len(emptied) = Len(pageTable[mySpace])
    BY <2>4, <2>7
  <2>9. TableOf(currentThread)' = TableOf(currentThread)
    BY <2>1, <2>6, <2>8 DEF TableOf, mySpace
  <2> QED BY <1>1, <2>1, <2>9, OwnStepSees DEF InCall, At, OffTable
<1> QED BY <1>2, <1>3, <1>4, <1>5, <1>6, <1>7, <1>8

----------------------------------------------------------------------------
(***************************************************************************)
(* The invariant.                                                          *)
(***************************************************************************)
\* StartProcess has made the first space, with the first pages.
LEMMA InitPInv == ProcessInit => PInv
<1> SUFFICES ASSUME ProcessInit  PROVE PInv
  OBVIOUS
<1> USE DEF ProcessInit, NoSpace
<1> DEFINE n == ProgramPages + StackPages
<1>1. IInv
  BY InitIInv
<1>2. /\ currentThread = Main /\ Main \in Threads /\ started = {Main}
      /\ status = [t \in Threads |-> IF t = Main THEN "RUNNING" ELSE "JUST_CREATED"]
      /\ lockOwner = [l \in Locks |-> NoThread] /\ pc = [t \in Threads |-> "run"]
  BY ThreadsAssumption DEF MonitorInit, SchedInit
<1>3. n \in Nat /\ n >= 1 /\ n <= NumPhysPages /\ 1 \in Spaces
  BY DEF Spaces
<1>4. pageTable[1] = [i \in 1..n |-> i - 1] /\ bitmap = 0..n - 1
  BY <1>3
<1>5. \A i \in 1..n : i - 1 \in Pages
  BY <1>3 DEF Pages
<1>6. pageTable[1] \in Seq(Entries) /\ Len(pageTable[1]) = n /\ DOMAIN pageTable[1] = 1..n
      /\ \A i \in 1..n : pageTable[1][i] = i - 1
  <2>1. \A i \in 1..n : i - 1 \in Entries
    BY <1>3 DEF Entries, NoPage
  <2>2. [i \in 1..n |-> i - 1] \in [1..n -> Entries]
    BY <2>1
  <2> QED BY <1>3, <1>4, <2>2
<1> HIDE DEF n
<1>7. ProcessTypeOK
  <2>1. TypeOK
    BY <1>1 DEF IInv
  <2>2. pageTable \in [Spaces -> Seq(Entries)]
    <3>1. << >> \in Seq(Entries)
      OBVIOUS
    <3>2. \A s \in Spaces : pageTable[s] \in Seq(Entries)
      BY <1>6, <3>1
    <3> QED BY <3>2
  <2>3. bitmap \subseteq Pages
    BY <1>3, <1>4 DEF Pages
  <2>4. machineTable \in Spaces \X Nat
    BY <1>3 DEF n
  <2>5. sys \in [Threads -> ProcessPlaces]
    BY DEF ProcessPlaces
  <2>6. /\ space \in [Threads -> Spaces \cup {NoSpace}] /\ stackLocation \in [Threads -> Nat]
        /\ threadCount \in [Spaces -> Nat]
    BY <1>3
  <2> QED BY <1>3, <2>1, <2>2, <2>3, <2>4, <2>5, <2>6 DEF ProcessTypeOK
<1>8. KernelIsGuarded /\ SpaceLocksAreTheirs
  BY <1>2, ThreadsAssumption DEF KernelIsGuarded, SpaceLocksAreTheirs, FirstPlaces, InnerPlaces
<1>9. \A t \in Threads : sys[t] \in {"user", "begin"}
  OBVIOUS
<1>10. ThreadsAreBorn
  BY <1>2, <1>9 DEF ThreadsAreBorn, Newborn
<1>11. \A P : P \cap {"user", "begin"} = {} => InPlaces(P) = 0
  <2> SUFFICES ASSUME NEW P, P \cap {"user", "begin"} = {}  PROVE InPlaces(P) = 0
    OBVIOUS
  <2>1. {t \in Threads : sys[t] \in P} = {}
    BY <1>9
  <2> QED BY <2>1, FS_EmptySet DEF InPlaces
<1>12. live = {1}
  BY DEF live
<1>13. Cardinality(live) = 1 /\ Cardinality(Unused) \in Nat
  BY <1>12, FS_Singleton, CountedSetsAreFinite
<1>14. BoundsAreKept
  <2>1. /\ InPlaces(Takers) = 0 /\ InPlaces({"Exec", "AddrSpace"}) = 0
        /\ InPlaces({"Exec"}) = 0 /\ InPlaces({"AddrSpace"}) = 0
    BY <1>11 DEF Takers
  <2> QED BY <1>13, <2>1 DEF BoundsAreKept
<1>15. CountsAgree
  <2>1. {t \in Threads : LivesIn(t, 1)} = {Main}
    BY <1>2 DEF LivesIn
  <2>2. Cardinality({t \in Threads : LivesIn(t, 1)}) = 1
    BY <2>1, FS_Singleton
  <2>3. threadCount[1] = 1
    BY <1>3
  <2>4. \A s \in 1..processCount : s = 1 /\ s \notin deletedSpaces
    OBVIOUS
  <2> QED BY <1>13, <2>2, <2>3, <2>4 DEF CountsAgree
<1>16. NewSpaceIsEmpty
  BY <1>9 DEF NewSpaceIsEmpty
<1>17. PagesBelongToOne
  <2> HIDE DEF ProcessInit
  <2>1. PagesOf(1) = bitmap
    <3>1. ASSUME NEW p \in PagesOf(1)  PROVE p \in bitmap
      <4>1. PICK i \in 1..n : p = i - 1
        BY <1>6 DEF PagesOf, Range
      <4> QED BY <1>3, <1>4, <4>1
    <3>2. ASSUME NEW p \in bitmap  PROVE p \in PagesOf(1)
      <4>1. p + 1 \in 1..n /\ (p + 1) - 1 = p /\ p # NoPage
        BY <1>3, <1>4 DEF NoPage
      <4>2. p \in Range(pageTable[1])
        BY <1>6, <4>1 DEF Range
      <4> QED BY <4>1, <4>2 DEF PagesOf
    <3> QED BY <3>1, <3>2
  <2>2. \A i, j \in 1..n : i - 1 = j - 1 => i = j
    BY <1>3
  <2>3. \A s \in live : s = 1
    BY <1>12
  <2>4. bitmap = UNION {PagesOf(s) : s \in live}
    BY <1>12, <2>1
  <2>5. \A i, j \in DOMAIN pageTable[1] : pageTable[1][i] = pageTable[1][j] => i = j
    BY <1>6, <2>2
  <2> QED BY <2>3, <2>4, <2>5 DEF PagesBelongToOne
<1>18. StacksAreMapped
  <2>1. \A t \in Threads : HasStack(t) => t = Main
    BY DEF HasStack
  <2>2. MappedAt(1, ProgramPages)
    <3> HIDE DEF ProcessInit
    <3>1. \A i \in ProgramPages + 1 .. ProgramPages + StackPages : i \in 1..n
      BY DEF n
    <3> QED BY <1>5, <1>6, <3>1 DEF MappedAt
  <2>3. space[Main] = 1 /\ stackLocation[Main] = ProgramPages
    BY <1>2
  <2> QED BY <1>9, <2>1, <2>2, <2>3 DEF StacksAreMapped
<1>19. MachineSeesSpace
  <2>1. space[Main] = 1 /\ machineTable = <<1, n>>
    BY <1>2 DEF n
  <2> QED BY <1>2, <1>6, <2>1 DEF MachineSeesSpace, TableOf
<1> QED BY <1>1, <1>7, <1>8, <1>10, <1>14, <1>15, <1>16, <1>17, <1>18, <1>19
           DEF PInv, ControlInv, CountInv, MemoryIsMapped

\* A step outside kernelLock, or one that leaves memory and counters alone.
LEMMA QuietKeepsPInv ==
  ASSUME PInv, QuietStep
  PROVE  PInv'
<1>1. IInv' /\ ControlInv' /\ QuietMove /\ currentThread \in Threads
  BY QuietSteps, DispatcherFacts DEF PInv
<1>2. CountInv'
  <2>1. PICK next \in ProcessPlaces : MovesTo(next)
    BY <1>1 DEF QuietMove
  <2>2. UNCHANGED <<space, processCount, runningProcessCount, deletedSpaces, threadCount>>
    BY <1>1 DEF QuietMove, processVars, spaceVars
  <2> QED BY <1>1, <2>1, <2>2, MoveKeepsCounts DEF PInv
<1>3. MemoryIsMapped'
  BY <1>1, QuietKeepsMemory DEF PInv
<1>4. currentThread' \in Threads
  BY <1>1 DEF IInv, TypeOK, SchedTypeOK
<1>5. MachineSeesSpace'
  <2>1. CASE \/ BeginFork \/ BeginExec \/ Begin \/ BeginExit \/ BeginYield \/ YieldLock
             \/ FinishThread \/ YieldCpu \/ Preempt
    BY <1>4, <2>1, SwitchesSee
  <2>2. CASE \/ Launch \/ Unlock \/ YieldUnlock \/ ExitUnlock \/ ForkThread \/ ExitThread \/ Resume
    BY <2>2, OwnersSee
  <2> QED BY <2>1, <2>2 DEF QuietStep
<1> QED BY <1>1, <1>2, <1>3, <1>5 DEF PInv

\* A step of Fork, Exec or Exit that changes memory or a counter.
LEMMA OwnerKeepsPInv ==
  ASSUME PInv,
         \/ NewKernelThread \/ NewPageTable \/ ExecOpens \/ ExecFails
         \/ AddrSpace \/ ExecThread
         \/ (ExitProcess /\ ~Stop) \/ (DeleteCurrentThread /\ ~Stop)
  PROVE  PInv'
<1>1. IInv /\ ControlInv /\ CountInv /\ MemoryIsMapped
  BY DEF PInv
<1>2. BoundsAreKept /\ CountsAgree
  BY <1>1 DEF CountInv
<1>3. IInv' /\ ControlInv'
  BY <1>1, <1>2, NewKernelThreadKeeps, NewPageTableKeeps, ExecOpensKeeps, ExecFailsKeeps,
     AddrSpaceKeeps, ExecThreadKeeps, ExitProcessKeeps, DeleteCurrentThreadKeeps
<1>4. CountInv'
  BY <1>1, NewKernelThreadCounts, NewPageTableCounts, ExecCounts, AddrSpaceCounts, ExecThreadCounts,
     ExitProcessCounts, DeleteCurrentThreadCounts
<1>5. MemoryIsMapped'
  BY <1>1, NewKernelThreadMemory, NewPageTableMemory, ExecMemory, AddrSpaceMemory, ExecThreadMemory,
     ExitProcessMemory, DeleteCurrentThreadMemory
<1>6. MachineSeesSpace'
  BY OwnersSee
<1> QED BY <1>3, <1>4, <1>5, <1>6 DEF PInv

\* Every step keeps the invariant.
LEMMA NextKeepsPInv ==
  ASSUME PInv, [ProcessNext]_processAllVars
  PROVE  PInv'
<1>1. CASE QuietStep
  BY <1>1, QuietKeepsPInv
<1>2. CASE \/ NewKernelThread \/ NewPageTable \/ ExecOpens \/ ExecFails
           \/ AddrSpace \/ ExecThread
           \/ (ExitProcess /\ ~Stop) \/ (DeleteCurrentThread /\ ~Stop)
  BY <1>2, OwnerKeepsPInv
<1>3. CASE Stop
  BY <1>3, StopKeepsAll DEF Stop
<1>4. CASE IdleHalts
  BY <1>4, StopKeepsAll DEF IdleHalts, Idle, SchedIdle
<1>5. CASE UNCHANGED processAllVars
  <2>1. UNCHANGED <<vars, space, stackLocation, processCount, runningProcessCount, deletedSpaces,
                    threadCount, pageTable, starved, bitmap, machineTable, sys>>
    BY <1>5 DEF processAllVars, processVars, spaceVars
  <2>2. UNCHANGED <<currentThread, status, started, halted, pc, argLock, lockOwner>>
    BY <2>1 DEF vars, schedVars, monitorVars, lockVars, pcVars
  <2>3. IInv'
    BY <2>1, StutterKeepsIInv DEF PInv
  <2>4. ControlInv'
    BY <2>1, <2>2, <2>3 DEF PInv, ControlInv, ProcessTypeOK, KernelIsGuarded, SpaceLocksAreTheirs,
       ThreadsAreBorn, Newborn, IInv
  <2>5. CountInv'
    BY <2>1 DEF PInv, CountInv, NewSpaceIsEmpty, BoundsAreKept, CountsAgree, Unused, InPlaces, live,
       LivesIn
  <2>6. MemoryIsMapped'
    BY <2>1, <2>2 DEF PInv, MemoryIsMapped, PagesBelongToOne, StacksAreMapped, HasStack, MappedAt,
       StackOf, PagesOf, Newborn, live
  <2>7. MachineSeesSpace'
    BY <2>1, <2>2 DEF PInv, MachineSeesSpace, Processing, TableOf
  <2> QED BY <2>3, <2>4, <2>5, <2>6, <2>7 DEF PInv
<1> QED BY <1>1, <1>2, <1>3, <1>4, <1>5 DEF ProcessNext, QuietStep, NewPageTableHalts, ExitHalts,
           Halt, ProcessesStopped

\* The invariant the results below follow from.
THEOREM ProcessesInvariance == ProcessSpec => []PInv
<1>1. ProcessInit => PInv
  BY InitPInv
<1>2. PInv /\ [ProcessNext]_processAllVars => PInv'
  BY NextKeepsPInv
<1> QED BY <1>1, <1>2, PTL DEF ProcessSpec

\* As long as every constructor got its pages, no page has two entries, and
\* the bitmap marks the pages that have one.
THEOREM PhysicalMemoryIsShared == ProcessSpec => []MemoryIsShared
<1>1. PInv => MemoryIsShared
  BY DEF PInv, ControlInv, MemoryIsMapped, MemoryIsShared
<1> QED BY <1>1, ProcessesInvariance, PTL

\* threadCount and runningProcessCount count.
THEOREM CountersCount == ProcessSpec => []CountsAgree
<1>1. PInv => CountsAgree
  BY DEF PInv, CountInv
<1> QED BY <1>1, ProcessesInvariance, PTL

\* A thread in its program is in a space that lives, on the page table of that
\* space, with a stack of its own.
THEOREM UserProgramsSeeTheirSpace == ProcessSpec => []UserSeesItsSpace
<1>1. ASSUME PInv  PROVE UserSeesItsSpace
  <2> SUFFICES ASSUME starved = {}, NEW t \in Threads, sys[t] = "user"
      PROVE  /\ space[t] \in live
             /\ t = currentThread /\ Processing => machineTable = TableOf(t)
             /\ \A i \in StackOf(t) : pageTable[space[t]][i] \in Pages
             /\ \A u \in Threads \ {t} : sys[u] = "user" /\ space[t] = space[u]
                  => StackOf(t) \cap StackOf(u) = {}
    BY DEF UserSeesItsSpace
  <2>1. /\ IInv /\ ControlInv /\ CountInv /\ MachineSeesSpace /\ StacksAreMapped
    BY <1>1 DEF PInv, MemoryIsMapped
  <2>2. ASSUME NEW u \in Threads, sys[u] = "user"  PROVE HasStack(u)
    <3>1. u \in started /\ space[u] # NoSpace /\ u \notin Newborn
      BY <2>1, <2>2 DEF ControlInv, ThreadsAreBorn, Newborn
    <3> QED BY <2>2, <3>1 DEF HasStack, Leaving
  <2>3. space[t] \in live
    <3> DEFINE R == {u \in Threads : LivesIn(u, space[t])}
    <3>1. t \in R /\ IsFiniteSet(R)
      BY FS_Subset DEF LivesIn
    <3>2. space[t] \in 1..processCount
      <4>1. space[t] \in 0..processCount /\ space[t] # NoSpace /\ processCount \in Nat
        BY <2>1, <2>2 DEF ControlInv, ThreadsAreBorn, HasStack, ProcessTypeOK, Spaces
      <4> QED BY <4>1 DEF NoSpace
    <3>3. space[t] \in deletedSpaces => Cardinality(R) = 0
      BY <2>1, <3>2 DEF CountInv, CountsAgree
    <3> HIDE DEF R
    <3>4. Cardinality(R) \in Nat /\ Cardinality(R) >= 1
      BY <3>1, OneElement
    <3> QED BY <3>2, <3>3, <3>4 DEF live
  <2>4. t = currentThread /\ Processing => machineTable = TableOf(t)
    BY <2>1 DEF MachineSeesSpace
  <2>5. \A i \in StackOf(t) : pageTable[space[t]][i] \in Pages
    BY <2>1, <2>2 DEF StacksAreMapped, MappedAt, StackOf
  <2>6. \A u \in Threads \ {t} : sys[u] = "user" /\ space[t] = space[u]
                  => StackOf(t) \cap StackOf(u) = {}
    BY <2>1, <2>2 DEF StacksAreMapped
  <2> QED BY <2>3, <2>4, <2>5, <2>6
<1> QED BY <1>1, ProcessesInvariance, PTL

\* A thread that has not been switched to, or that is not ready, is blocked.
LEMMA NotReadyIsBlocked ==
  ASSUME PInv, status[currentThread] # "RUNNING", readyList = << >>, NEW t \in Threads
  PROVE  status[t] \in {"BLOCKED", "JUST_CREATED"}
<1>1. IInv
  BY DEF PInv
<1>2. status[t] \in ThreadStatus /\ status[t] # "RUNNING"
  BY <1>1 DEF IInv, TypeOK, SchedTypeOK, EveryThreadInItsPlace
<1>3. t \notin Range(readyList)
  BY Zenon, QueueInit
<1>4. status[t] # "READY"
  BY <1>1, <1>3 DEF IInv, EveryThreadInItsPlace
<1> QED BY <1>2, <1>4 DEF ThreadStatus

\* The machine runs dry only when every thread has finished.
LEMMA DryMeansFinished == PInv => NobodyIsStuck
<1> SUFFICES ASSUME PInv, status[currentThread] # "RUNNING", readyList = << >>,
                    NEW t \in Threads, space[t] # NoSpace
             PROVE  pc[t] = "finished"
  BY DEF NobodyIsStuck
<1>1. IInv /\ ControlInv
  BY DEF PInv
\* Nobody is past the beginning of a call: such a thread would be able to run.
<1>2. \A u \in Threads : sys[u] \notin InnerPlaces
  <2> SUFFICES ASSUME NEW u \in Threads, sys[u] \in InnerPlaces  PROVE FALSE
    OBVIOUS
  <2>1. pc[u] = "run" /\ sys[u] # "begin"
    BY <1>1 DEF ControlInv, KernelIsGuarded, InnerPlaces
  <2>2. status[u] # "BLOCKED"
    BY <1>1, <2>1 DEF IInv, EveryThreadInItsPlace
  <2>3. status[u] # "JUST_CREATED"
    BY <1>1, <2>1 DEF ControlInv, ThreadsAreBorn
  <2> QED BY <2>2, <2>3, NotReadyIsBlocked
<1>3. status[t] = "BLOCKED"
  <2>1. t \notin Newborn
    BY <1>1, <1>2 DEF ControlInv, ThreadsAreBorn, InnerPlaces
  <2> QED BY <2>1, NotReadyIsBlocked DEF Newborn
\* Nobody waits for kernelLock: its owner would be able to run.
<1>4. \A u \in Threads : ~(status[u] = "BLOCKED" /\ pc[u] = "Acquire")
  <2> SUFFICES ASSUME NEW u \in Threads, status[u] = "BLOCKED", pc[u] = "Acquire"  PROVE FALSE
    OBVIOUS
  <2>1. argLock[u] = kernelLock
    BY <1>1 DEF ControlInv, KernelIsGuarded
  <2>2. u \in Range(lockQueue[kernelLock])
    BY <1>1, <2>1 DEF IInv, EveryThreadInItsPlace, BlockedAt
  <2>3. lockQueue[kernelLock] # << >>
    BY <2>2, QueueInit, Zenon
  <2>4. lockOwner[kernelLock] \in Threads
    BY <1>1, <2>3 DEF IInv, LocksConsistent, TypeOK
  <2>5. PICK o \in Threads : o = lockOwner[kernelLock]
    BY <2>4
  <2>6. sys[o] \in FirstPlaces
    BY <1>1, <1>2, <2>5 DEF ControlInv, KernelIsGuarded
  <2>7. status[o] # "JUST_CREATED"
    BY <1>1, <2>6 DEF ControlInv, ThreadsAreBorn, FirstPlaces
  <2>8. status[o] = "BLOCKED"
    BY <2>7, NotReadyIsBlocked
  <2>9. pc[o] = "Acquire" /\ argLock[o] = kernelLock
    BY <1>1, <2>6, <2>8 DEF ControlInv, KernelIsGuarded, IInv, EveryThreadInItsPlace
  <2>10. o \in Range(lockQueue[kernelLock])
    BY <1>1, <2>8, <2>9 DEF IInv, EveryThreadInItsPlace, BlockedAt
  <2> QED BY <1>1, <2>5, <2>10 DEF IInv, LocksConsistent
<1> QED BY <1>1, <1>3, <1>4 DEF IInv, EveryThreadInItsPlace, ControlInv, KernelIsGuarded

\* Every way through a call gives the locks up: the machine does not run dry
\* with a thread asleep.
THEOREM NobodySleepsForever == ProcessSpec => []NobodyIsStuck
BY DryMeansFinished, ProcessesInvariance, PTL

\* The last thread of the last process is the only one that has work to do.
LEMMA LastOneIsAlone ==
  ASSUME IInv, ControlInv, CountInv, InCall("Exit"), isLastProcess, isLastExecutingThread,
         NEW t \in Threads \ {currentThread}, space[t] # NoSpace
  PROVE  sys[t] = "Finish"
<1>1. PICK s \in live : s = mySpace
  BY CallerIsCounted DEF FirstPlaces
<1>2. \A u \in Threads : LivesIn(u, s) => u = currentThread
  BY <1>1, CallerIsCounted DEF FirstPlaces, isLastExecutingThread
<1>3. processCount \in Nat /\ IsFiniteSet(live) /\ Cardinality(live) <= 1
  <2>1. processCount \in Nat
    BY DEF ControlInv, ProcessTypeOK, Spaces
  <2> QED BY <2>1, CountedSetsAreFinite DEF isLastProcess, CountInv, CountsAgree
<1>4. \A r \in live : r = s
  <2>1. /\ Cardinality(live) \in Nat /\ Cardinality(live) >= 1
        /\ Cardinality(live) = 1 => \A r \in live : r = s
    BY <1>3, OneElement
  <2> QED BY <1>3, <2>1
<1>5. sys[t] \notin InnerPlaces
  BY CallerOwnsKernel DEF FirstPlaces
<1>6. CASE LivesIn(t, space[t])
  <2> DEFINE R == {u \in Threads : LivesIn(u, space[t])}
  <2>1. t \in R /\ IsFiniteSet(R)
    BY <1>6, FS_Subset
  <2>2. space[t] \in 1..processCount
    BY <1>3 DEF ControlInv, ThreadsAreBorn, NoSpace
  <2>3. space[t] \in deletedSpaces => Cardinality(R) = 0
    BY <2>2 DEF CountInv, CountsAgree
  <2> HIDE DEF R
  <2>4. Cardinality(R) \in Nat /\ Cardinality(R) >= 1
    BY <2>1, OneElement
  <2>5. space[t] \in live
    BY <2>2, <2>3, <2>4 DEF live
  <2> QED BY <1>2, <1>4, <1>6, <2>5
<1>7. CASE ~LivesIn(t, space[t])
  BY <1>5, <1>7 DEF LivesIn, InnerPlaces
<1> QED BY <1>6, <1>7

\* Exit stops the machine only if no thread is left that has work to do.
THEOREM TheLastExitHalts == ProcessSpec => HaltsWhenAllAreGone
<1> DEFINE AllGone == halted' /\ ~halted /\ starved = {} /\ sys[currentThread] = "Exit"
              => \A t \in Threads \ {currentThread} : space[t] = NoSpace \/ sys[t] = "Finish"
<1>1. ASSUME PInv, ProcessNext  PROVE AllGone
  <2> SUFFICES ASSUME halted', ~halted, starved = {}, sys[currentThread] = "Exit",
                      NEW t \in Threads \ {currentThread}, space[t] # NoSpace
               PROVE  sys[t] = "Finish"
    OBVIOUS
  <2>1. IInv /\ ControlInv /\ CountInv /\ PagesBelongToOne
    BY <1>1 DEF PInv, MemoryIsMapped
  <2>2. ExitHalts \/ ExitProcess \/ ExitThread \/ Resume \/ Preempt \/ IdleHalts
    BY <1>1 DEF ProcessNext, BeginFork, NewKernelThread, NewPageTable, NewPageTableHalts, ForkThread,
       BeginExec, ExecOpens, ExecFails, AddrSpace, ExecThread, Begin, Launch, Unlock, BeginExit,
       DeleteCurrentThread, ExitUnlock, FinishThread, BeginYield, YieldUnlock, YieldCpu, YieldLock,
       Halt, ProcessesStopped, LockKernel, InCall
  <2>3. CASE ExitHalts
    BY <2>1, <2>3, LastOneIsAlone DEF ExitHalts
  <2>4. CASE ExitProcess
    <3>1. CASE ~Stop
      <4>1. halted' = halted
        BY <2>4, <3>1 DEF ExitProcess, UnlockKernel, Release
      <4> QED BY <4>1
    <3>2. CASE Stop
      <4>1. InCall("Exit") /\ isLastExecutingThread
        BY <2>4 DEF ExitProcess
      <4>2. mySpace \in live
        BY <2>1, <4>1, CallerIsCounted DEF FirstPlaces
      <4>3. PagesOf(mySpace) \subseteq Pages
        BY <2>1, <4>2 DEF PagesBelongToOne, ControlInv, ProcessTypeOK
      <4>4. UnlockKernel("Finish")
        BY <2>4, <4>3 DEF ExitProcess, PagesOf
      <4>5. halted' = halted
        BY <4>4 DEF UnlockKernel, Release
      <4> QED BY <4>5
    <3> QED BY <3>1, <3>2
  <2>5. CASE ExitThread
    <3>1. InCall("Exit") /\ Acquire(mySpace) /\ SysGoto("DeleteThread") /\ space' = space
      BY <2>5 DEF ExitThread, processVars
    <3>2. mySpace \in Spaces
      BY <2>1, <3>1, CallerOwnsKernel DEF FirstPlaces, mySpace
    <3>3. mySpace = space'[currentThread]
      BY <3>1 DEF mySpace
    <3>4. UNCHANGED schedVars
      BY <2>1, <3>1, <3>2, <3>3, LockSpaceControl
    <3> QED BY <3>4 DEF schedVars
  <2>6. CASE Resume \/ Preempt
    BY <2>6 DEF Resume, AcquireReturn, schedVars, Preempt, Yield, SchedYield, Run
  <2>7. CASE IdleHalts
    <3>1. status[currentThread] # "RUNNING" /\ readyList = << >>
      BY <2>7 DEF IdleHalts, Idle, SchedIdle, Idling
    <3>2. pc[t] = "finished"
      BY <1>1, <3>1, DryMeansFinished DEF NobodyIsStuck
    <3> QED BY <2>1, <3>2 DEF ControlInv, KernelIsGuarded
  <2> QED BY <2>2, <2>3, <2>4, <2>5, <2>6, <2>7
<1>2. PInv /\ [ProcessNext]_processAllVars => [AllGone]_processAllVars
  BY <1>1
<1>3. HaltsWhenAllAreGone <=> [][AllGone]_processAllVars
  BY DEF HaltsWhenAllAreGone
<1> QED BY <1>2, <1>3, ProcessesInvariance, PTL DEF ProcessSpec

=============================================================================
