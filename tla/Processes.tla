----------------------------- MODULE Processes -----------------------------
(***************************************************************************)
(* Processes and their memory: the system calls Fork, Exec, Exit, Yield    *)
(* and Halt of userprog/exception.cc, AddrSpace of userprog/addrspace.cc   *)
(* and the page bitmap.                                                    *)
(*                                                                         *)
(* kernelLock protects all of it.  A step ends where interrupts are        *)
(* enabled again, so that the timer may preempt the thread: after each     *)
(* operation on kernelLock or on the pageTableLock of a space, and after   *)
(* Thread::Fork.  The model begins when StartProcess has started the first *)
(* program.                                                                *)
(***************************************************************************)
EXTENDS Monitors, Integers, FiniteSets

CONSTANTS
  kernelLock,       \* the lock of the process system calls
  MaxProcesses,     \* bound: the address spaces that are ever constructed
  MaxProcessCount,  \* bound: runningProcessCount, which failing Execs increase
  NumPhysPages,     \* the pages of physical memory
  ProgramPages,     \* the pages of code and data of every program
  StackPages        \* divRoundUp(UserStackSize, PageSize)

Spaces == 1 .. MaxProcesses
Pages == 0 .. NumPhysPages - 1
NoPage == -1        \* the physicalPage of a stack that has been freed
NoSpace == 0        \* the NULL space of a thread that has not been created

\* The pageTableLock of a space is the lock of Monitors with its number.
ASSUME ProcessesAssumption ==
  /\ IsFiniteSet(Threads)
  /\ MaxProcesses \in Nat \ {0}
  /\ MaxProcessCount \in Nat
  /\ NumPhysPages \in Nat
  /\ ProgramPages \in Nat
  /\ StackPages \in Nat \ {0}
  /\ ProgramPages + StackPages <= NumPhysPages
  /\ kernelLock \in Locks
  /\ Spaces \subseteq Locks \ {kernelLock}

VARIABLES
  space,                \* Thread::space
  stackLocation,        \* ProcessEntry::stackLocations of the thread's id
  processCount,         \* the spaces constructed so far
  runningProcessCount,  \* ProcessTable::runningProcessCount
  deletedSpaces,        \* the spaces whose destructor has run
  threadCount,          \* AddrSpace::threadCount
  pageTable,            \* physicalPage of the entries of AddrSpace::pageTable
  starved,              \* the spaces whose constructor ran out of pages
  bitmap,               \* the pages marked in use
  machineTable,         \* Machine::pageTable: <<space, pageTableSize>>
  sys                   \* the place of each thread in a system call

spaceVars == <<deletedSpaces, threadCount, pageTable, starved, bitmap>>
processVars == <<space, stackLocation, processCount, runningProcessCount, spaceVars>>
processAllVars == <<vars, processVars, machineTable, sys>>

\* Every call but "user" begins with kernelLock.  "begin" is a thread that has
\* been forked, "Unlock" the end of a call under kernelLock, "Finish" the end
\* of Exit after it.
ProcessPlaces == {"user", "begin", "Launch", "Fork", "NewPageTable", "ForkThread",
                  "Exec", "AddrSpace", "ExecThread", "Exit", "DeleteThread",
                  "ExitUnlock", "Finish", "Yield", "YieldCpu", "YieldBack", "Unlock"}

\* A page table entry that the constructor did not fill holds what its memory
\* held before.
Entries == NoPage .. NumPhysPages

ProcessTypeOK ==
  /\ TypeOK
  /\ space \in [Threads -> Spaces \cup {NoSpace}]
  /\ stackLocation \in [Threads -> Nat]
  /\ processCount \in Spaces
  /\ runningProcessCount \in 0..MaxProcessCount
  /\ deletedSpaces \subseteq 1..processCount
  /\ threadCount \in [Spaces -> Nat]
  /\ pageTable \in [Spaces -> Seq(Entries)]
  /\ starved \subseteq 1..processCount
  /\ bitmap \subseteq Pages
  /\ machineTable \in Spaces \X Nat
  /\ sys \in [Threads -> ProcessPlaces]

\* The first program, in the first pages.
ProcessInit ==
  /\ MonitorInit
  /\ space = [t \in Threads |-> IF t = Main THEN 1 ELSE NoSpace]
  /\ stackLocation = [t \in Threads |-> IF t = Main THEN ProgramPages ELSE 0]
  /\ processCount = 1
  /\ runningProcessCount = 0
  /\ deletedSpaces = {}
  /\ threadCount = [s \in Spaces |-> IF s = 1 THEN 1 ELSE 0]
  /\ pageTable = [s \in Spaces |->
                    IF s = 1 THEN [i \in 1..ProgramPages + StackPages |-> i - 1] ELSE << >>]
  /\ starved = {}
  /\ bitmap = 0..ProgramPages + StackPages - 1
  /\ machineTable = <<1, ProgramPages + StackPages>>
  /\ sys = [t \in Threads |-> IF t = Main THEN "user" ELSE "begin"]

----------------------------------------------------------------------------
InCall(place) == At("run") /\ sys[currentThread] = place
SysGoto(place) == sys' = [sys EXCEPT ![currentThread] = place]

mySpace == space[currentThread]

TableOf(t) == <<space[t], Len(pageTable[space[t]])>>

\* AddrSpace::RestoreState by the current thread.
RestoreState == machineTable' = TableOf(currentThread)

\* Scheduler::Run restores the space of the thread it comes back to; a thread
\* that runs for the first time begins in ThreadRoot, which does not.
SwitchSpace ==
  machineTable' = IF currentThread' # currentThread /\ currentThread' \in started
                    THEN TableOf(currentThread') ELSE machineTable

\* interrupt->Halt(), or an assertion that fails: the machine stops.
Stop ==
  /\ halted' = TRUE
  /\ UNCHANGED <<currentThread, status, readyList, threadToBeDestroyed, started,
                 deleted, monitorVars, processVars, machineTable, sys>>

\* kernelLock->Acquire() at one place, after which the call is at the next.
LockKernel(place, next) ==
  /\ InCall(place)
  /\ Acquire(kernelLock)
  /\ SwitchSpace
  /\ SysGoto(next)
  /\ UNCHANGED processVars

UnlockKernel(next) ==
  /\ Release(kernelLock)
  /\ SysGoto(next)

\* new Thread: the objects that are left.
Unused == {t \in Threads : space[t] = NoSpace}
newThread == CHOOSE t \in Unused : TRUE

\* Bound: the calls in progress find a thread object.
InPlaces(places) == Cardinality({t \in Threads : sys[t] \in places})
ThreadIsLeft == Cardinality(Unused) > InPlaces({"Fork", "Exec", "AddrSpace", "ExecThread"})

\* The thread a Fork in progress has created and not yet put on the ready list.
child == CHOOSE t \in Threads : space[t] = mySpace /\ status[t] = "JUST_CREATED"

\* BitMap::Find finds the first page that is not in use; the n-th of such calls:
NthFree(n) ==
  CHOOSE p \in Pages \ bitmap : Cardinality({q \in Pages \ bitmap : q < p}) = n - 1

\* The pages that n calls of Find return while there are pages.
Found(n) ==
  LET free == Cardinality(Pages \ bitmap)
  IN  [i \in 1..(IF n <= free THEN n ELSE free) |-> NthFree(i)]

----------------------------------------------------------------------------
(***************************************************************************)
(* SC_Fork.                                                                *)
(***************************************************************************)
BeginFork ==
  /\ ThreadIsLeft
  /\ LockKernel("user", "Fork")

\* The thread object, its space, ++threadCount, pageTableLock->Acquire().
NewKernelThread ==
  /\ InCall("Fork")
  /\ space' = [space EXCEPT ![newThread] = mySpace]
  /\ threadCount' = [threadCount EXCEPT ![mySpace] = @ + 1]
  /\ Acquire(mySpace)
  /\ SysGoto("NewPageTable")
  /\ UNCHANGED <<stackLocation, processCount, runningProcessCount, deletedSpaces,
                 pageTable, starved, bitmap, machineTable>>

\* The rest of NewPageTable.  It returns the place of the new stack, which the
\* caller stores before the thread exists for the scheduler.
NewPageTable ==
  /\ InCall("NewPageTable")
  /\ Len(Found(StackPages)) = StackPages
  /\ bitmap' = bitmap \cup Range(Found(StackPages))
  /\ pageTable' = [pageTable EXCEPT ![mySpace] = @ \o Found(StackPages)]
  /\ stackLocation' = [stackLocation EXCEPT ![child] = Len(pageTable[mySpace])]
  /\ machineTable' = <<mySpace, Len(pageTable[mySpace]) + StackPages>>
  /\ Release(mySpace)
  /\ SysGoto("ForkThread")
  /\ UNCHANGED <<space, processCount, runningProcessCount, deletedSpaces,
                 threadCount, starved>>

NewPageTableHalts ==
  /\ InCall("NewPageTable")
  /\ Len(Found(StackPages)) < StackPages
  /\ Stop

ForkThread ==
  /\ InCall("ForkThread")
  /\ RestoreState
  /\ SchedFork(child)
  /\ SysGoto("Unlock")
  /\ UNCHANGED <<monitorVars, processVars>>

----------------------------------------------------------------------------
(***************************************************************************)
(* SC_Exec.                                                                *)
(***************************************************************************)
BeginExec ==
  /\ ThreadIsLeft
  /\ processCount + InPlaces({"Exec", "AddrSpace"}) < MaxProcesses
  /\ runningProcessCount + InPlaces({"Exec"}) < MaxProcessCount
  /\ LockKernel("user", "Exec")

\* The file is there: the constructor begins with the pageTableLock.
ExecOpens ==
  /\ InCall("Exec")
  /\ runningProcessCount' = runningProcessCount + 1
  /\ Acquire(processCount + 1)
  /\ SysGoto("AddrSpace")
  /\ UNCHANGED <<space, stackLocation, processCount, spaceVars, machineTable>>

ExecFails ==
  /\ InCall("Exec")
  /\ runningProcessCount' = runningProcessCount + 1
  /\ UnlockKernel("user")
  /\ UNCHANGED <<space, stackLocation, processCount, spaceVars, machineTable>>

\* The rest of the constructor.  Out of pages, it leaves the other entries as
\* it found them, and goes on.
AddrSpace ==
  LET s == processCount + 1
      n == ProgramPages + StackPages
      found == Found(n)
  IN  /\ InCall("AddrSpace")
      /\ processCount' = s
      /\ threadCount' = [threadCount EXCEPT ![s] = 1]
      /\ bitmap' = bitmap \cup Range(found)
      /\ \E rest \in [1..n - Len(found) -> Entries] :
           pageTable' = [pageTable EXCEPT ![s] = found \o rest]
      /\ starved' = IF Len(found) < n THEN starved \cup {s} ELSE starved
      /\ Release(s)
      /\ SysGoto("ExecThread")
      /\ UNCHANGED <<space, stackLocation, runningProcessCount, deletedSpaces, machineTable>>

\* StackTopForMain is the first page after the program.
ExecThread ==
  /\ InCall("ExecThread")
  /\ space' = [space EXCEPT ![newThread] = processCount]
  /\ stackLocation' = [stackLocation EXCEPT ![newThread] = ProgramPages]
  /\ SchedFork(newThread)
  /\ SysGoto("Unlock")
  /\ UNCHANGED <<monitorVars, processCount, runningProcessCount, spaceVars, machineTable>>

----------------------------------------------------------------------------
\* kernel_thread and exec_thread, the first code of a forked thread.
Begin == LockKernel("begin", "Launch")

\* Mutant of Launch: the thread starts without restoring its space.
LaunchKeepsTable ==
  /\ InCall("Launch")
  /\ UnlockKernel("user")
  /\ UNCHANGED <<processVars, machineTable>>

Launch ==
  /\ InCall("Launch")
  /\ RestoreState
  /\ UnlockKernel("user")
  /\ UNCHANGED processVars

Unlock ==
  /\ InCall("Unlock")
  /\ UnlockKernel("user")
  /\ UNCHANGED <<processVars, machineTable>>

----------------------------------------------------------------------------
(***************************************************************************)
(* SC_Exit.                                                                *)
(***************************************************************************)
BeginExit == LockKernel("user", "Exit")

\* Mutants of isLastProcess: it never is, or one too early.
NeverLastProcess == FALSE
LastProcessTooEarly == runningProcessCount <= 1

isLastProcess == runningProcessCount = 0

\* Mutant of isLastExecutingThread: another one is left.
LastThreadTooEarly == threadCount[mySpace] <= 2

isLastExecutingThread == threadCount[mySpace] = 1

ExitHalts ==
  /\ InCall("Exit")
  /\ isLastProcess /\ isLastExecutingThread
  /\ Stop

\* delete currentThread->space; BitMap::Clear accepts pages only.
ExitProcess ==
  LET mapped == Range(pageTable[mySpace]) \ {NoPage}
  IN  /\ InCall("Exit")
      /\ ~isLastProcess /\ isLastExecutingThread
      /\ \/ ~(mapped \subseteq Pages) /\ Stop
         \/ /\ mapped \subseteq Pages
            /\ bitmap' = bitmap \ mapped
            /\ deletedSpaces' = deletedSpaces \cup {mySpace}
            /\ pageTable' = [pageTable EXCEPT ![mySpace] = << >>]
            /\ runningProcessCount' = runningProcessCount - 1
            /\ UnlockKernel("Finish")
            /\ UNCHANGED <<space, stackLocation, processCount, threadCount, starved,
                           machineTable>>

\* DeleteCurrentThread: pageTableLock->Acquire().
ExitThread ==
  /\ InCall("Exit")
  /\ ~isLastExecutingThread
  /\ Acquire(mySpace)
  /\ SysGoto("DeleteThread")
  /\ UNCHANGED <<processVars, machineTable>>

\* The entries of the stack of thread t.
StackOf(t) == stackLocation[t] + 1 .. stackLocation[t] + StackPages

\* Mutant of DeleteCurrentThread: the entries keep the pages they had.
DeleteKeepsEntries ==
  /\ InCall("DeleteThread")
  /\ threadCount' = [threadCount EXCEPT ![mySpace] = @ - 1]
  /\ bitmap' = bitmap \ {pageTable[mySpace][i] : i \in StackOf(currentThread)}
  /\ Release(mySpace)
  /\ SysGoto("ExitUnlock")
  /\ UNCHANGED <<space, stackLocation, processCount, runningProcessCount,
                 deletedSpaces, pageTable, starved, machineTable>>

DeleteCurrentThread ==
  LET stack == {pageTable[mySpace][i] : i \in StackOf(currentThread)}
  IN  /\ InCall("DeleteThread")
      /\ \/ ~(stack \subseteq Pages) /\ Stop
         \/ /\ stack \subseteq Pages
            /\ threadCount' = [threadCount EXCEPT ![mySpace] = @ - 1]
            /\ bitmap' = bitmap \ stack
            /\ pageTable' = [pageTable EXCEPT ![mySpace] =
                 [i \in DOMAIN @ |-> IF i \in StackOf(currentThread) THEN NoPage ELSE @[i]]]
            /\ Release(mySpace)
            /\ SysGoto("ExitUnlock")
            /\ UNCHANGED <<space, stackLocation, processCount, runningProcessCount,
                           deletedSpaces, starved, machineTable>>

\* Mutant of ExitUnlock: the thread finishes with kernelLock.
ExitKeepsLock ==
  /\ InCall("ExitUnlock")
  /\ SysGoto("Finish")
  /\ UNCHANGED <<vars, processVars, machineTable>>

ExitUnlock ==
  /\ InCall("ExitUnlock")
  /\ UnlockKernel("Finish")
  /\ UNCHANGED <<processVars, machineTable>>

FinishThread ==
  /\ InCall("Finish")
  /\ Finish
  /\ SwitchSpace
  /\ UNCHANGED <<processVars, sys>>

----------------------------------------------------------------------------
(***************************************************************************)
(* SC_Yield: kernelLock for the counts of awake threads, which nothing     *)
(* reads and the model leaves out, Thread::Yield, and kernelLock again.    *)
(***************************************************************************)
BeginYield == LockKernel("user", "Yield")

YieldUnlock ==
  /\ InCall("Yield")
  /\ UnlockKernel("YieldCpu")
  /\ UNCHANGED <<processVars, machineTable>>

YieldCpu ==
  /\ InCall("YieldCpu")
  /\ \/ readyList = << >> /\ UNCHANGED schedVars
     \/ SchedYield
  /\ SwitchSpace
  /\ SysGoto("YieldBack")
  /\ UNCHANGED <<monitorVars, processVars>>

YieldLock == LockKernel("YieldBack", "Unlock")

\* SC_Halt, or a fault: of the program itself, or of copyin in Exec.
Halt ==
  /\ InCall("user") \/ InCall("Exec")
  /\ Stop

----------------------------------------------------------------------------
\* The rest of Lock::Acquire, a time slice, and a machine with nothing to run.
Resume ==
  /\ AcquireReturn
  /\ UNCHANGED <<processVars, machineTable, sys>>

Preempt ==
  /\ Yield
  /\ SwitchSpace
  /\ UNCHANGED <<processVars, sys>>

IdleHalts ==
  /\ Idle
  /\ UNCHANGED <<processVars, machineTable, sys>>

ProcessesStopped == halted /\ UNCHANGED processAllVars

ProcessNext ==
  \/ BeginFork \/ NewKernelThread \/ NewPageTable \/ NewPageTableHalts \/ ForkThread
  \/ BeginExec \/ ExecOpens \/ ExecFails \/ AddrSpace \/ ExecThread
  \/ Begin \/ Launch \/ Unlock
  \/ BeginExit \/ ExitHalts \/ ExitProcess \/ ExitThread
  \/ DeleteCurrentThread \/ ExitUnlock \/ FinishThread
  \/ BeginYield \/ YieldUnlock \/ YieldCpu \/ YieldLock
  \/ Halt
  \/ Resume \/ Preempt \/ IdleHalts
  \/ ProcessesStopped

ProcessSpec == ProcessInit /\ [][ProcessNext]_processAllVars

----------------------------------------------------------------------------
live == 1..processCount \ deletedSpaces

\* A thread that executes its program or a call, up to where Exit lets go of
\* its space.
LivesIn(t, s) == space[t] = s /\ sys[t] \notin {"ExitUnlock", "Finish"}

PagesOf(s) == Range(pageTable[s]) \ {NoPage}

\* Physical memory is shared out: no page has two entries, in one space or in
\* two, and the bitmap marks the pages that have one.
PagesBelongToOne ==
  /\ bitmap = UNION {PagesOf(s) : s \in live}
  /\ \A s1, s2 \in live :
       \A i \in DOMAIN pageTable[s1], j \in DOMAIN pageTable[s2] :
         pageTable[s1][i] = pageTable[s2][j] /\ pageTable[s1][i] # NoPage
           => s1 = s2 /\ i = j

\* As long as every constructor got its pages, no exit, of a thread or of a
\* process, frees a page of somebody else or forgets one of its own.
MemoryIsShared == ProcessTypeOK /\ (starved = {} => PagesBelongToOne)

\* A thread that executes its program does so with the page table of its space
\* as it is now, whatever thread replaced or deleted a table since it last ran,
\* and its stack is mapped.
UserSeesItsSpace ==
  starved = {} => \A t \in Threads :
    /\ sys[t] = "user" =>
         /\ space[t] \in live
         /\ t = currentThread /\ Processing => machineTable = TableOf(t)
         /\ \A i \in StackOf(t) : pageTable[space[t]][i] \in Pages
    /\ \A u \in Threads \ {t} :
         sys[t] = "user" /\ sys[u] = "user" /\ space[t] = space[u]
           => StackOf(t) \cap StackOf(u) = {}

\* threadCount counts the threads that live in a space, a thread that is being
\* forked included; a space lives as long as they do; and no process is missing
\* in runningProcessCount, which counts the processes after the first.
CountsAgree ==
  /\ \A s \in 1..processCount :
       LET residents == Cardinality({t \in Threads : LivesIn(t, s)}) IN
       IF s \in deletedSpaces THEN residents = 0
       ELSE \/ threadCount[s] = residents
            \/ \E t \in Threads : sys[t] = "ExecThread" /\ s = processCount /\ residents = 0
  /\ Cardinality(live) <= runningProcessCount + 1

\* Exit stops the machine only if no thread is left that has work to do.
HaltsWhenAllAreGone ==
  [][halted' /\ ~halted /\ starved = {} /\ sys[currentThread] = "Exit"
       => \A t \in Threads \ {currentThread} : space[t] = NoSpace \/ sys[t] = "Finish"
    ]_processAllVars

\* "Incompletely constructed address spaces have the member constructed set to
\* false" (addrspace.cc:117), so that nobody runs them: what a constructor did
\* without does not cost a complete space its pages.
CompleteSpacesKeepTheirPages ==
  \A s \in live \ starved : PagesOf(s) \subseteq bitmap

\* The machine never runs dry with a thread asleep: each way through a call
\* gives kernelLock and pageTableLock up.
NobodyIsStuck ==
  status[currentThread] # "RUNNING" /\ readyList = << >>
    => \A t \in Threads : space[t] # NoSpace => pc[t] = "finished"

=============================================================================
