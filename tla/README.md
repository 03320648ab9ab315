# A TLA+ development of the CS350 Nachos

This directory specifies the Nachos of `src/nachos-csci402/code` (paths below
are relative to that directory): the kernel from its dispatcher to its system
calls, its devices, network and file system, the simulated MIPS processor, the
tools that make and load object files, the kernel's own test suite and the
passport office, the application that the course builds on it. TLC checks the
modules on small instances; TLAPS proves, for any number of threads and
objects, the invariants of locks, conditions, semaphores, synchronized lists, of
the tables of user locks, conditions and open files, of processes and their
memory, of the devices, the disk's times and the network, and of the passport
office in its three versions, and that locks and conditions implement what
`synch.h` promises.

## 1. The system

Nachos is an operating system that runs, with a simulated MIPS machine and
simulated devices, in one host process.

| component | state | operations | interacts with |
|---|---|---|---|
| threads and scheduler (`threads/thread.cc`, `scheduler.cc`) | `currentThread`, status, ready list, `threadToBeDestroyed` | Fork, Yield, Finish, Sleep, ReadyToRun, Run | everything that blocks calls Sleep and ReadyToRun |
| interrupts and clock (`machine/interrupt.cc`, `timer.cc`) | level, pending interrupts, `yieldOnReturn`, ticks | SetLevel, OneTick, CheckIfDue, Idle, Halt | calls device handlers; the timer's handler asks for a Yield |
| locks, conditions (`threads/synch.cc`) | status, owner, queue; `waitingLock`, queue | Acquire, Release; Wait, Signal, Broadcast | scheduler |
| semaphores (`threads/synch.cc`) | value, queue | P, V | scheduler; V is called by handlers |
| list (`threads/list.cc`) | `first`, `last`, `next` pointers | Append, Prepend, Remove, Mapcar, SortedInsert, SortedRemove | every queue of the kernel |
| synchronized list (`threads/synchlist.cc`) | list, lock, condition | Append, Remove, Mapcar | locks, conditions |
| user lock and condition calls (`userprog/lock_syscalls.cc`, `condition_syscalls.cc`) | one table of locks and one of conditions per address space, each with a kernel lock | nine system calls | locks, conditions |
| processes (`userprog/exception.cc`, `progtest.cc`, `table.h`) | process table, process and thread counts, `kernelLock` | Fork, Exec, Exit, Yield, Halt | address spaces, scheduler |
| address spaces, physical pages (`addrspace.cc`, `bitmap.cc`) | page tables, page bitmap | constructor, destructor, NewPageTable, DeleteCurrentThread, RestoreState | processes, Scheduler::Run |
| file descriptors (`addrspace.cc` Table, `exception.cc`) | slots, bitmap, lock | Put, Get, Remove under the file calls | file system |
| SynchDisk and disk, SynchConsole and console (`filesys/synchdisk.cc`, `machine/disk.cc`, `userprog/synchconsole.cc`, `machine/console.cc`) | a lock and a semaphore around a device; head, rotation, track buffer | read, write, the interrupt handlers | semaphores, interrupts |
| post office, network (`network/post.cc`, `nettest.cc`, `machine/network.cc`) | mail boxes, send lock, packet buffer | Send, Receive, PostalDelivery, handlers | semaphores, lists |
| file system (`filesys/`) | free map, directory, file headers on disk | format, Create, Open, Remove, read, write; the commands of `main` | SynchDisk |
| MIPS simulator (`machine/mipssim.cc`, `translate.cc`, `machine.cc`) | registers, delayed load, memory, page table | an instruction, a switch, a system call | address spaces |
| object files (`bin/`) | sections, NOFF header, memory | coff2noff, coff2flat, load_program, execute.c | AddrSpace |
| passport office (`test/passportoffice.c`, `threads/threadtest.cc`, `properTestfile.cc`) | lines, clerk states, money | customers, senators, clerks, manager | system calls, or kernel threads |
| thread test suite (`threads/threadtest.cc`, `properTestfile.cc`) | five tests | | locks, conditions, semaphores |

**What is hard.** The machine has one processor, but a thread can lose it at
many points: in Sleep, Yield and Finish, and, when the timer runs (`-rs`),
wherever interrupts are enabled again; a user program, between any two
instructions. Kernel code between two such points is atomic, and much of the
code relies on it without saying so. Device handlers run at the same points,
and while the machine idles. System calls check under one lock and act under
another. The disk outlives a nachos that is stopped between two sector writes;
the network loses packets; machines start and halt at different times.
`PROJECT.json` lists, under "hazards", the places where this bites, each with
the property that watches it or a note.

**What makes each part correct.** Dispatcher: no thread is lost, none is in two
queues, only dead threads are freed. Locks: one owner, in order of arrival.
Conditions: giving up the lock and waiting is one step; Signal wakes one waiter,
Broadcast all, and both come back. Semaphores: units are conserved and no
wakeup is lost. Lists: the pointers form the sequence of the calls. SynchLists:
operations exclude each other, Remove returns an item. User tables: every path
releases the table's lock, a destroy that is put off happens, at a moment when
nobody uses the object. Processes: the last exit halts the machine, no page is
lost or used twice. File descriptors: an id stands for its file until it is
closed. Devices: one request at a time, lines do not mix, the interrupt comes
when the sector has passed. Network: mail in order, up to losses. File system:
a file reads back what was written, and the free map agrees with the headers; what
a crash leaves is limited to the entry that was being made or removed. Simulator: a thread computes what an R2000 of its own would.
Object files: each loader brings every byte to its address. Office: nobody is
counted twice, no payment is either, everybody who lacks something is served.

## 2. The modules

**The atomicity rule.** A step of every module is what the code does between
two points where a thread can lose the processor: the end of an outermost
section with interrupts disabled (`SetLevel` from off to on calls `OneTick`,
which yields when the timer asked for it), and `Sleep`, `Yield`, `Finish`.
Modules above the monitors (`PostOffice`, `PassportOffice`, `KernelOffice`,
`FileTable`) use locks, semaphores and lists by what the modules below show of
them, and say in their heads where their steps end.

| module | models | extends |
|---|---|---|
| `Scheduler` | the dispatcher: Run, Sleep, ReadyToRun, Fork, Yield, Finish, Idle, as operators that the other modules use inside their actions | |
| `Monitors` | Lock and Condition, called with any argument at any time, NULL included | Scheduler |
| `MonitorClients` | threads that use locks and conditions as `synch.h` asks; the refinement mapping | Monitors |
| `AbstractMonitor` | what `synch.h` promises: no queues, no dispatcher, Wait and Broadcast in one step | |
| `Semaphores` | Semaphore; V by threads and by handlers, the idle machine included | Scheduler |
| `Lists`, `AbstractList` | the linked list, its heap and pointers; the sequence it implements | |
| `SynchLists` | SynchList | Monitors |
| `LockTable`, `CondTable` | the lock system calls of one address space; the condition calls, composed with them | Monitors |
| `Processes` | Fork, Exec, Exit, Yield and Halt with AddrSpace and the page bitmap, under `kernelLock` | Monitors |
| `FileTable` | Put, Get and Remove under Open, Read, Write and Close of the threads of a process | |
| `Devices` | the clock, the timer, SynchDisk, SynchConsole and the interrupts of both, in ticks | |
| `Disk` | how long a request takes, against a disk that turns | |
| `PostOffice` | machines with a network, a postal worker and clients; MailTest | |
| `FileSystem` | the disk, sector by sector, and the commands of `main` on it, with crashes | |
| `Words`, `Isa` | words of a scaled width; the R2000's user-level instructions in arithmetic | |
| `Machine` | the simulator with translation, system calls and switches; shown to implement `Isa` | Words |
| `Execute` | the interpreter of `bin/execute.c`; compared with `Isa` too | Words |
| `ObjectFiles` | coff2noff, coff2flat, load_program and the constructor of AddrSpace | |
| `TestSuite`, `TestThreads` | the five tests of `threads/threadtest.cc` and of Part 1 of `properTestfile.cc` | Monitors, Semaphores |
| `PassportOffice` | clerks, customers and the manager of `test/passportoffice.c` | |
| `KernelOffice` | the versions for kernel threads, as their differences from it; the senator | PassportOffice |
| `ContextSwitch` | SWITCH, ThreadRoot and StackAllocate on the four machines of `threads/switch.s` | |
| `MonitorsProofs`, `MonitorClientsProofs`, `SynchronizationProofs`, `CondTableProofs`, `ProcessesProofs`, `FilesProofs`, `DevicesProofs`, `OfficeProofs` | the proofs | |
| `MC...` | the instances TLC checks | |

Four MC modules (`MCSynchronization`, `MCMachine`, `MCDevices` and
`MCPassportOffice`) put components that do not touch each other side by side.
`part` says which one runs; the others stay in their initial state, so the state space is the sum of the parts and not their
product.

### Kernel state

`status`, `readyList`, `currentThread` and `threadToBeDestroyed` are the
variables of the same name; `started` and `deleted` record which threads have
been switched to (a new thread enters `ThreadRoot` and skips the end of `Run`)
and which were freed. `lockStatus`, `lockOwner`, `lockQueue`, `waitingLock` and
`condQueue` are the fields of Lock and Condition; `pc`, `argLock` and `argCond`
are the place of a thread in the operation it has not returned from. In the
tables `lockCount`, `lockDeleteFlag`, `lockIsDeleted` (and their `cond`
counterparts) are the fields of the address space, `sys` and the indices are the
place in the system call, `lockFreed` and `condFreed` the objects whose
destructor has run. A list is a sequence everywhere but in `Lists`, where
`ListIsASequence`, checked and proved, says that this is right. No guard reads a history variable
(`posted`, `taken`, `removed`, `saved`, `dangling`, `corrupt`, `sold`, `left`, `wire`,
`got` and others marked so), except to bound it.

In `Processes`, `kernelLock` and the `pageTableLock` of each space are locks of
`Monitors`, so that a call that waits for one sleeps in its queue. `pageTable`
is the sequence of the physical pages of a space (-1 for a stack that was
freed), `bitmap` the set of pages in use, and `machineTable` what `RestoreState`
and `NewPageTable` wrote to the machine. `processCount` and `deletedSpaces`
number the spaces that were constructed and those whose destructor ran,
`starved` those that were constructed without enough pages.

In `FileTable` a thread is between two uses of the table's lock (`at`); Put
takes a slot under the lock and stores the file after it, so that a slot can be
taken and hold garbage. `KeepsIds` restricts programs to ids that Open returned;
without it a call may reach such a slot, and `undefined` says so.

`ContextSwitch` executes `threads/switch.s` an instruction at a time on registers,
thread objects (by byte offset, as `switch.h` has them) and stacks; SWITCH as a
whole is one step, since interrupts are off. `StackAllocate` writes to
`machineState`, which begins one word into the object: that the two countings
agree is part of `ThreadsResume`. What compiled code does between switches is
what the calling convention lets it do (`Compute`, `Returned`); the SPARC's
register windows are a window that may be on the stack. The comment that "eax
points to startup function" (`switch.s:291`) is out of date: `switch.h` has ecx.

### Devices, network, files

`Devices` has the clock itself: `mode` goes from a thread's step through
`OneTick`, the handlers that are due, and the dispatch. Time is counted in ticks of one
(`SystemTick` is 10 in the code); `pending` holds the ticks left until each
interrupt. Which ready thread comes next is left open. `Disk` computes what
`Disk::ComputeLatency` does at the request, turns the disk tick by tick, and
compares: the interrupt may not come before the sector has passed under the
head. The truncation of tick counts to `int` is not modelled, nor is ConsoleTest.

`PostOffice` gives each machine one socket, a buffer for one packet, and a
worker. The host's sockets are queues; a packet is lost when it is sent (by the
given probability), or when nobody has opened the socket. `power` says which
machines run: they start in any order, and halt when their program ends, so that
a late packet finds nobody.

`FileSystem` computes, at each operation, the sector writes that the code does in
order, and every write is a step: a crash comes between any two. A crash during
format, and files longer than a header holds, are left out. The file system is
used by one thread (its documentation says so); what several threads could lose
is therefore no question here. The bytes of user files are members of a small
set.

Commands may name anything, what a crash has left included. Create writes the header,
the directory and the map in that order (`filesys.cc:205-207`), so that a nachos that is
stopped between the last two leaves an entry in use whose sectors the map calls free, and
so does Remove between its two (282-283): `dangling` records such entries. Another Create may take the sectors. Then Open finds the
other file's header or its bytes (`OpenGarbage`), and Remove frees what is listed there:
sectors of nobody, which fails the assertion of `FileHeader::Deallocate` (the stage
`aborted`), or sectors of the other file, for the next Create to write over. From that
Remove on `corrupt` is true and nothing is claimed. Bytes of a file that are taken for a
header may name any sectors; `RemoveGarbage` ends there, in the stage `undefined`.

### Machine and object files

`ByteBits` scales the machine: 2 in the runs, so words have 8 bits and overflow,
carry and sign-extend where 32-bit words do. `Machine` decodes by the tables
`OpTable` and `SpecialTable` of the code and keeps the delayed load in registers
of its own; `Isa` computes by arithmetic, on a processor without delayed loads or
switches. `RunsAsIfAlone` says that each thread, whatever the switches between
instructions and in system calls, sees a run of `Isa` in its own space;
`ExecutesTheIsa` says the same of `bin/execute.c`. `Isa` asks of a program that
the instruction after a load does not use its target. `copyin` and `copyout`
are a byte at a time through the translation of the running thread; where the
code has "-1 on error" a fault stops the machine instead (`CopyFaults`). Text is
not written by programs; `lastUsed`, the TLB (not configured), BREAK,
coprocessors, negative buffer lengths, and input longer than the buffer are left
out. Read reads the console here; files are in `FileTable`.

The run `machine` excludes by name the instructions in which the code is known not to
be an R2000. `KnownNachos`: OR (see `or`), SRL and SRLV of negative words (they
shift in the sign), the quotient of the least integer by -1 (it traps the host),
LWL, LWR, SWL and SWR on unaligned addresses (they abort). `KnownExecute`: no
overflow traps; ANDI, ORI and XORI extend the sign; the carries of MULT; shifts
by more than a word; LWL and LWR; no SWL and SWR. LWL and LWR are those of a
big-endian machine.

`ObjectFiles` takes the layouts of the two linker scripts of `test/` (`IsLinked`): any
sections, one after the other from address 0 on, no two of a name, and those without
data behind the others. AddrSpace reads a flat image of its size from
byte 40 on; `load_program` passes the end of the file silently (`getc`);
coff2noff's test that `.bss` and `.sbss` adjoin is the inverse of what its
comment says, which those scripts do not reveal.

### Passport office

A step of `PassportOffice` is a critical section, or one access to data that its
lock does not protect. A customer pays a bribe under `clerkLineLock` and a cashier
charges under its `clerkLock`, so `money -=` and `clerkMoney +=` are each a step that
reads (into `register`) and a step that stores; `sold` and `left` are what the payments
come to. The queue of a lock
is left out (any waiter may be next), as are printed text and the lock around
the office's door; the sum of all lines is read at once, `wakeUpClerks` is one step.
Senators are no part of the user program (their number is 0; line 361 has the
arguments of Wait swapped). `KernelOffice` has what the kernel-thread versions do
otherwise: a thread is switched out at the end of a lock or condition operation
and in Yield only, so that `+=` and `-=` are one step; the manager counts money
(`printMoney`); `properTestfile.cc` has a senator, here one at a time. When it leaves, its
loop of signals to the clerks (1232-1246), inside which a thread may be switched out, is
one step (`SenatorLeaves`). A second
senator (`properTestfile.cc` 1146-1166, 1249-1257) is not modelled. Part 2 lets
one choose a test, that is, the numbers of clerks of each type, of customers and of
senators: `KernelOffices` is a set of such choices, of which `ProgramsInit` takes one,
and `ProgramsSpec` has the three programs side by side. Any numbers of clerks and
customers are allowed, but the later program has its one senator, as in Test 7. The
runs of Tests 1 to 6 are those in which the senator never comes, except that the
manager then waits for it. `TestThreads` and `TestSuite` map to the two copies of Part 1,
which differ only in what they print. `TestSuite` runs the five tests on `Monitors` and
`Semaphores`; `SuiteComesOut` has the outcomes that the comments promise. The
call of `TestSuite()` in `ThreadTest` is commented out (`threads/threadtest.cc:1146`);
Part 1 of `properTestfile.cc` is the same suite.

**Undefined behaviour.** When pages run out, the constructor of `AddrSpace`
leaves the rest of its page table as `new` returned it: `Processes` chooses any
value for these entries, from -1 to one beyond memory; `BitMap::Clear` of a value
that is no page fails its assertion, which stops the machine. Memory frames hold
what earlier programs left there (`ObjectFiles`). A call on a Lock or Condition
that was deleted is undefined: `LockTable` and `CondTable` record it in
`undefined` and stop there, and `NoUseAfterDestroy` says whether it is reached
(it is, see section 5).

**Left out of the kernel modules.** Names, messages and debugging output; the
stack and its overflow check; statistics; the counts of awake and sleeping
threads that `updateProcessThreadCounts` keeps, since nothing reads them (the
acquisitions of `kernelLock` around them are kept); the value Exec returns, a
`spaceId` that no constructor sets; the halt in copyin when the name of a condition is not
mapped (a lock's has it, `CreateLockFaults`); the DEBUG line that asks a deleted lock for
its name (`lock_syscalls.cc:132`). A null argument of `Condition::Wait` is
modelled, an uninitialised pointer is not.

## 3. The runs

| run | question | bounds |
|---|---|---|
| `monitors` | do the invariants of dispatcher, locks and conditions hold for callers without any discipline, and is a lock handed over in order? | 4 threads, 2 locks, 2 conditions |
| `monitor_clients` | do disciplined clients see `AbstractMonitor`; does Broadcast come back, does a sleeper in Acquire get the lock? | 4 threads, 1 lock, 1 condition |
| `synchronization` | are units conserved, is no wakeup lost, are sleepers served? Do list operations exclude each other, is no item forgotten, do they come back? | 3 threads; 2 semaphores, one V by a thread, 2 interrupts; 3 items |
| `cond_table` | for all nine calls, from empty tables: are both tables protected, do put-off destroys happen, only on objects nobody uses? | 3 threads, 1 slot in each table |
| `lock_table_use` | is a lock that a call has checked still there when it is used? (no) | 3 threads, 1 lock |
| `processes` | is memory shared out without overlap or loss, does a program run on its own page table, do the counts agree with the threads, does Exit halt the machine only at the end, does nobody sleep for ever? | 4 threads, 2 spaces, 5 pages, `runningProcessCount` at most 1 |
| `machine` | do the simulator and `execute.c` compute what the R2000 computes, for threads switched anywhere? Do object files reach memory? Do files survive other commands and crashes, and print as written, until a Remove frees them for an entry that a crash left? Do threads resume as they left, on each of the four machines? Do ids keep their files? Does the test suite come out? | two programs of about ten instructions, or one instruction on chosen operands; see below for the other parts |
| `or` | is OR the OR of two registers? (no) | the same |
| `bss` | is uninitialised data zero? (no) | the same |
| `devices` | one request at a time, whole lines, interrupts on time, halt at the end; mail in order, programs end; lists are sequences | 3 threads, 40 ticks; 3 tracks of 3 sectors; 2 machines, 4 clients, 1 loss; 3 list elements, 2 items |
| `passport_office` | are the line counts exact, is no payment counted twice and, on kernel threads, none lost, is the office open while a customer lacks something, does a clerk come back from its break, is the senator first? | 2 customers; 2 clerks of one type, or one of each of two types |
| `passport_counter` | does the counter of a clerk back from its break keep going? (no) | 1 cashier, 2 customers |

The parts of `machine` are "nachos", "execute", "object", "disk", "table", "suite"
and "switch"; those of `devices` are "devices", "disk", "network" and "list"; those of
`synchronization` are "semaphores" and "list"; `passport_office` has four parts of
the user program (`Opening`, `Pictures`, `Passports`, `Desk`) and three of the
kernel's (`KernelParts`).

The largest state spaces are those of `processes` (about 3.5 million states) and
`cond_table` (1.5 million); `devices` has about 363 000, `machine` about 576 000
and `passport_office` about 341 000. Each run takes less than three minutes with
two workers.

**Why the bounds are enough to be interesting.** Three threads give an owner, a
first waiter and one that could overtake; the fourth makes two waiters and a
newcomer, or a signaller, an owner and two waiters. Two locks and two
conditions let a caller mix them up. A table of one slot is full after one
creation, so that valid, destroyed, never created and exhausted slots all
occur; an index that was not created yet stands in `cond_table` for every
invalid one, since the code compares with the count only.

In `processes` a program has one page of its own and one per stack. Five pages
hold two programs and a second thread in one of them; the page after that is
missed by a Fork, which asserts, or by an Exec, which goes on, and pages are
freed and given out again. Each Exec, failed or not, adds one to
`runningProcessCount`; bounded by 1 there is one Exec that works or one that
fails, and the exits of the last process and of one that is not the last both
occur.

In `machine`, programs use two pages of text and one or two of data, in frames
that are neither in order nor adjacent; buffers of two bytes cross a page and the
end of the space; the operands are 0, 1, 3, the shift limit, both sides of the
sign and all ones. Object files have every relation of a section to a page of
four bytes, with the last byte of the data missing or not, on every set of free
frames. The disk has ten sectors of four bytes, three names and two directory
entries, so that both fill up, and transfers of three bytes that straddle
sectors, with one crash. The table of open files has two slots beside the
console for three threads. The suite has two waiters where the code has five,
which are enough for a Signal to leave one and for Broadcast to loop, and three
time slices at any call (`MaxSlices`). Two threads switch, with one value each for
a register and two depths of stack; the second finishes and is forked again in
the same memory.

In `devices`, `MaxTicks` is 40, enough for three threads to finish their calls
with a timer that may go off every tick; two senders compete for one box while a
client of the other machine answers. Two machines, one lost packet: MailTest sends
to the other machine and waits for its mail and its acknowledgement. In
`passport_office`, `LongLines` is 1 (2 in the program) for two customers, so that the
manager finds a line long; `MaxMessUps` is 1; a customer comes with 600, enough
for one bribe.

`MaxItems`, `MaxV`, `MaxInterrupts`, `MaxProcesses`, `MaxProcessCount`,
`MaxTicks`, `MaxLost`, `MaxCrashes`, `MaxSlices` and `MaxMessUps` are the only
bounds on counters; they sit in the guards of the steps they bound. Where a .cfg
says SYMMETRY, the threads other than `main` are symmetric; no run with liveness
does. Where a .cfg says `CHECK_DEADLOCK FALSE` the system stops: a program ends,
a machine halts, an office closes.

**Mutants.** Each checked property comes with a mutated definition that breaks
it: a hand-over that leaves the head in the queue, a V that wakes nobody unless
the value was 0, an Append that signals for the first item only, an Append that leaves
`last` where it was, a header whose sector is not marked in the free map, a
switch that leaves Hi and Lo in the machine, a request that does not wait for its
interrupt, a senator that goes on after the first confirmation, and so on.
They are next to what they mutate and named in `PROJECT.json`.

**Fairness.** Without `-rs` the kernel preempts nobody, and a thread that spins
spins for ever; every liveness property assumes the timer. Then `Yield` is taken
again and again (strong fairness, since it needs another ready thread), and
because the period is random a thread inside an operation is not preempted at
the same point for ever: each step of an operation is strongly fair for the
thread that is in it. `monitor_clients` also asks of the clients that a thread
that holds a lock releases it; nothing is assumed of threads outside the
operations, in no run. Pending device interrupts come (`Handler`).

* `Devices` (`DevFairness`): the clock goes on, typing goes on, a thread that has
  the processor does its next step, and each ready thread is dispatched again and
  again; the random period is long enough again and again (`LongPeriod`): if
  every period were the shortest one, the machine would do nothing but yield.
* `PostOffice` (`POFairness`): machines are started, pending interrupts and the
  poll come, the worker goes on; clients are strongly fair, since they compete
  for the send lock. Nothing is assumed of the network: `ProgramsEnd` says that
  programs end or a packet was lost or a machine off.
* `PassportOffice` (`OfficeFairness`): the manager is weakly fair; clerks and
  customers strongly, since they compete for locks. The kernel versions are
  checked for safety only; their clerks have numbers of their own (10 to 13), so
  that `ClerksComeBack` speaks of the user program.
* In a run with parts, a fairness condition joins the conditions of several
  parts: only one part ever runs, so the others' actions are disabled for ever.

Deadlock of the machine is a state the code handles: with no ready thread and no
interrupt `Idle` halts. The kernel modules model it as `halted`, with a
stuttering step, so that TLC's deadlock check stays on.

## 4. What is proved

Everything below is proved from the assumptions of the constants only (`Main` is
a thread, the null values are not in the sets, and so on), for every set of
threads, locks, conditions, semaphores, files and slots; where a cardinality
matters the set of threads is assumed finite.

**Locks and conditions.** `MonitorsProofs` proves `Invariance`, `Spec => []IInv`,
and from it `TypeCorrect`, `ThreadsInTheirPlaces`, `MonitorsStayConsistent` (with
`LocksStayConsistent` and `ConditionsStayConsistent`),
`OnlyFinishedThreadsAreFreed`, and the action property `LocksGoToTheFirstWaiter`.
`IInv` is the conjunction of the five invariants. None is inductive alone: that
`waitingLock` agrees with the waiters needs that a waiter is in one queue only
(`EveryThreadInItsPlace`); that the next owner is asleep in Acquire needs the
same; that a hand-over does not name a freed thread needs
`CarcassesAreFinished`; and that a woken waiter does not already own its lock
needs `LocksConsistent`. The first part of `MonitorsProofs` holds what a context switch does to
the ready list, whoever asks for it (Run, Sleep, Yield, Fork, Idle), and what
appending to and taking from a queue does to its range and to its being free of
duplicates. `AcquireMoves`, `ReleaseMoves` and `HaltKeepsIInv` say what the
modules above the monitors need of a step of them.

**They implement `synch.h`.** `MonitorClientsProofs` proves
`MonitorsImplemented`, `ClientSpec => ImplementsMonitor`: for clients that hold
the lock they pass, every step of the locks and conditions is a step of
`AbstractMonitor` or invisible to it. The run checks this for one lock and one
condition; the theorem covers several of each, nested locks included. The
mapping turns on two facts. A lock that Release hands over has an owner who has
not returned from Acquire: the abstract thread enters at `AcquireReturn`, not in
Release (`ReleaseLeaves`, `HolderLeaves`). And Broadcast wakes its waiters one by
one with interrupts enabled, while the abstract one wakes them in one step, when
the loop begins: that is sound because the thread in the loop owns the lock of
the condition, so that nobody joins the queue (`NobodyBroadcasts`). The second
fact is the part of the invariant that `ClientDiscipline` adds to `IInv`.

**Semaphores.** `SynchronizationProofs` proves `NoUnitIsLost` and `NoWakeupIsLost`.
The invariant `SemInv` says where each thread is (ready list, queue of its
semaphore, running) and that a semaphore with a sleeper has no more units than
threads woken from it that have not looked again: V raises the value and
wakes one, and a newcomer that takes the unit first leaves the woken one to sleep
again, with both numbers down by one. Context switches are taken from
the first part of `MonitorsProofs`.

**SynchLists.** `SynchronizationProofs` proves `ListForgetsNothing`: only the owner of
the lock works on the list, and while a remover sleeps the list has no more items
than removers awake. A step of the list is a step of `Monitors`
(`ListStepIsMonitorStep`), so `IInv` comes for free; what is added is that a
thread in Acquire or Wait is there with the list's own lock and condition
(`PlacesAgree`). Signal then finds the head of the queue with the lock it was
given (`SleeperFacts`): with every item that comes while somebody sleeps comes a
remover (`AppendKeepsListInv`), and with every item that goes goes one
(`TakeKeepsListInv`), even when it is not the one that was woken.

**Open files.** `FilesProofs` proves `IdsKeepTheirFiles`: when programs pass
only ids they have opened and not closed (`KeepsIds`), no id ever stands for another
file, no file is in two slots or lost, and no thread touches a deleted file. The
invariant `FileInv` has the console's slots, what each slot and each thread between
two uses of the lock may hold, and that a file is in one slot or carried by one
thread.

**Object files.** `FilesProofs` proves `LinkedProgramsAreLoaded`, for files of any number
and size of sections (assumed: they are linked as `IsLinked` says), any page size and
memory, and any set of free frames. The three ways need different parts of `ObjectInv`.
What coff2noff and coff2flat write is the image of memory up to its end
(`ImageIsWritten`): as long as only sections with data have been met, the file ends
where the next section begins, so appending it puts it at its address. The sizes in the
header add up to that image (`SegmentsAddUp`): this is why AddrSpace, which reads the
image page by page and ignores the segments' addresses, asks for enough pages, and why
a proper program is not refused for its size. The frames of a space are distinct, so
that reading a page leaves those before it alone (`PagesAreLoaded`). load_program goes
by name, not by address: a section that is read in later does not touch an earlier one,
as of two sections one ends before the other begins (`LaterIsBehind`).

**User locks and conditions.** `CondTableProofs` proves `TableInvariance`,
`CondTableSpec => []TableInv`, for tables of any size and programs that make any
of the nine calls with any index, and from it `TablesAreProtected`,
`DestroysAreRemembered` and the action property `NothingDestroyedUnderItsUsers`.
A step of a call is a step of `Monitors` on the table's own lock or on a user's,
so `IInv` comes for free. What `TableInv` adds: a thread owns a table's lock, or
sleeps in its Acquire, exactly in the places of a call that come behind the
Acquire (`Guarded`), which every early return must undo; behind the checks an
index names an object that was created (`IndicesAreValid`); a thread inside Wait
or Broadcast is there from such a call (`OperationsAgree`). That a destroy which
was put off is not forgotten is inductive only with all of these: whoever frees a
marked object is in a place from which it looks at the mark again, and the locks
of the tables keep others from the slot until it has. The theorem says nothing of
a call that uses a destroyed object: the model stops there (section 5).

**Processes and memory.** `ProcessesProofs` proves `ProcessesInvariance`,
`ProcessSpec => []PInv`, for any finite set of threads and any number of processes
and pages, and from it `PhysicalMemoryIsShared`, `CountersCount`,
`UserProgramsSeeTheirSpace`, `NobodySleepsForever` and the action property
`TheLastExitHalts`. `PInv` has five layers over `IInv`. Control: a thread in a call
owns `kernelLock` or waits for it and nothing else (`KernelIsGuarded`), the lock
of a page table is held only under `kernelLock` (`SpaceLocksAreTheirs`), and only
the Fork in progress has a thread object that is not started yet
(`ThreadsAreBorn`). Counting: `threadCount` is the number of threads in a space
that have not begun to leave, and `runningProcessCount` is at least the number of
living spaces, because a failed Exec does not take its count back (`CountsAgree`,
`BoundsAreKept`); the space that an Exec makes has a count of one and no thread
yet (`NewSpaceIsEmpty`). Memory: each page in use has one entry, and every
thread that lives has a stack of its own in the table of its space
(`MemoryIsMapped`); this layer is assumed only while no constructor ran out of
pages, as the code asks for no more. The page that Find returns is a free one
(`NthFreeExists`), and the pages a call takes are as many as it finds. The machine:
between RestoreState and the end of a thread the machine is on the table of its
space (`MachineSeesSpace`). `NobodySleepsForever` follows without more: if the
machine ran dry, a sleeper would wait for `kernelLock`, whose owner sleeps too, in
Acquire of a lock it owns.

**Devices and the clock.** `DevicesProofs` proves `DevicesInvariance`,
`DevSpec => []DevInv`, for any number of threads and programs, any period of the
timer and the console, any times of the disk and any input, and from it
`OneRequestAtATimeAlways`, `LinesStayWhole` and `HaltsAtTheEnd`. Of the programs
`DevicesAssumption` asks one thing only: without a console nobody calls one. `DevInv`
has, beside the types: a thread behind the Acquire of a call owns the lock of the
device, and only such threads do (`LocksAreOwned`); for each device the owner that
sleeps in P has its one interrupt on the list or the one unit that the interrupt
left, and otherwise there is neither (`RequestsAreAnswered`); the console's buffer
of one character has its unit from the poll that filled it until a reader takes
the unit, and stays full until GetChar (`BufferIsAnnounced`). The list of interrupts
stays sorted (`PlaceExists`, `InsertFacts`, `ScheduleKeeps`), and between a tick and
the next nothing but the timer is due (`ClockIsRight`). That the lines do not mix
needs to know who goes on with the last line of the screen, the owner of
`outputMutex` with as many characters left (`LinesGoOn`), and that a read which
goes on belongs to the owner of `inputMutex` (`ReadersTakeTurns`).
`HaltsAtTheEnd` is a safety property with a liveness argument inside: when Idle
finds nothing but the timer, a sleeper in P would have its interrupt on the list, or
the console's next poll, so that no thread sleeps in P; hence no device has an owner,
and nobody sleeps in Acquire (`NobodyWaitsForTheTimer`).

**Post office and network.** `DevicesProofs` also proves `PostOfficeInvariance`,
`POSpec => []POInv`, for any machines, boxes, clients and programs and any number of
lost packets, and from it `NoMailIsLost`. Of the programs `PostOfficeAssumption`
asks that one replies only after it has received something, as `MailTest` does.
The argument: a client between Acquire and Release of `sendLock` owns it, and while
it waits in P its machine has its one interrupt, or the unit that the interrupt
left, and otherwise neither (`SendersTakeTurns`); the buffer for one packet is full
exactly while its unit is there or the postal worker has taken the unit and not yet
the packet, so that the worker never finds it empty and the network never writes
over it (`BufferHasItsMessage`); what is on its way through a machine is for that
machine (`MailIsAtItsMachine`). Then what was taken from a box, lies in it or is on
its way to it is what entered the socket for it, in order (`MailIsInOrder`): each
step moves one packet from the front of one part to the end of the one before. Mail is
selected by machine and box on the way; `ForBox` is written as a recursive function
for that reason, and its lemmas (`ForBoxFront` and those before it) say what one
packet at either end does to it. A machine that halts drops its socket, so nothing
is said of its mail from then on.

**Disk times.** `DiskInvariance`, `DiskSpec => []DiskInv`, and from it
`TransfersAreReal`, hold for any number of sectors and tracks and any times of
rotation and seek. `DiskInv` numbers the sector times, the intervals in which one
sector passes under the head: each that began after the head reached its track and
has ended is in `passed` (`SectorsPass`), and for the active request there is one
of its sector that ends by the time of its interrupt, exactly at it when the
request writes (`RequestIsTimed`). That `ComputeLatency` finds such a one is
`LatencyIsEnough`, over `ModuloDiff` (`DiffCounts`) and the rounding of the seek
to the next sector time (`NextBoundary`); a read out of the track buffer needs that
the buffer begins with a sector time on this track (`BufferBegins`). The rest is
division with remainder (`Division`, `DivisionIsUnique`).

**Lists.** `ListInvariance`, `ListsSpec => []ListInv`, and `ListsAreSequences`,
`ListsSpec => ListIsASequence`, hold for any finite set of addresses, any items and
any integer keys: `Lists` implements `AbstractList`, a step of the code being a step
of the sequence or one of Mapcar, which leaves it alone (`ListStepIs`). `ListInv`
says that there is a sequence c of elements, no two alike, through which the pointers
lead from `first` to `last`, that its elements are exactly those `allocated`, and
where in it Mapcar is. `Chain` follows the pointers by a recursive function; that it
returns c is `ChainIs`, by exhibiting the walk (it is there) and looking at the least
place where another would differ (there is no other: `WalkIs`). The three ways to
insert are one, a new element in some place of c (`LinkedIn`, `With`), and the place
of `SortedInsert`, behind every key that is not larger, is the one the abstract
sequence chooses (`SortedInsertLinks`). Remove frees the first element; that no
pointer to it is left, so that `new` may return it again, is what "no two alike" is
for (`RemoveIs`).

**Passport offices.** `OfficeProofs` proves `OfficesInvariance`,
`ProgramsSpec => []ProgramsInv`, for any number of customers, any clerks of the four
types (at least one on kernel threads), any money of the customers and any number
of mistakes, and from it `LinesAreCounted`, `NoPaymentCountsTwice`,
`TheOfficeClosesLast` and `TheSenatorIsFirst`. The clerks of a part of an office are
a finite set with types; those on kernel threads are numbered as `createClerkThreads`
numbers them (`OfficeAssumption`, `KernelOfficeAssumption`). `ProgramsInv` is `UserInv`
for the user program and `KernelInv` for the other two.

*Lines.* A line's count is the number of customers that are in it, asleep or woken
and not yet out (`CountsAreExact`). A customer joins or leaves one line in a step
(`OneJoins`, `OneLeaves`), and it leaves the line it joined because what it knows,
`myLine` and `bribe`, does not change while it is there (`LinesAreReal`).

*Money.* A sum over clerks or customers is a fold, whose definition chooses the next
element. That the order does not matter is proved without an induction theorem: a
number without the property would be a least one (`LeastNumber`, from the
well-foundedness of the naturals), and a smallest set without it is refuted by its
smaller subsets (`SmallestSet`, then `SumsExist`, `SumRemove`). `SumSame`, `SumGrows`,
`SumOfZeros` and `TotalExcept` follow. On kernel threads the sums of the clerks and of
the customers change by opposite amounts (`SalesAreExact` is inductive); the manager's
four counts cover the clerks of the four types, because their numbers are consecutive
intervals that add up (`ClerksAreInOrder`, `ManagerIsRight`). In the user program no
sum is an invariant: a thread that stores what it made of an old value undoes what
another stored, in `clerkMoney` and in a customer's money alike. What is inductive are
bounds (`SalesAreKept`): neither `clerkMoney` nor a value read from it exceeds what was
paid at the counter (`sold`), and neither a customer's money nor a value read from it is
less than what its payments leave (`left`). The values in registers are part of it,
since they are what is stored next.

*The end.* No step takes a stage from a customer (`OfficeReachesMore`), so that the
manager's count, taken without a lock, is still right when it acts on it
(`PassportsAreOut`).

*The senator.* Three phases. Before it comes no clerk is in the branch for it
(`SenatorIsOut`). While it asks the clerks in turn, those before the one it waits for
are asleep for it, and it holds the lock of every other one (`SenatorAsks`): a clerk
that has not looked at `senatorLineCount` yet may still serve a customer, but when the
last has confirmed all of them sleep. From then on at most one clerk has been called,
the last one that can do something for the senator (`SenatorIsServed`); the others come
back to their queue, whatever customers that were at a counter before the senator do.

**File system.** `FilesProofs` proves `SavedFilesStayIntact` and `NoSectorIsLost`, for any
names, sources, sizes of the disk, of a sector, a transfer and the directory (which may
straddle its two sectors at any entry), and any number of crashes. (A header is as long as
its file needs: files that need more than `NumDirect` sectors are not the code's.) An operation reads the
disk, decides what to write, and writes sector by sector; most of what is true of the disk
before and after is not true in between. `FsInv` says that the file system is `Healthy`, or
else `corrupt`, which takes a crash (`CorruptedByACrash`). `Healthy` is about two disks:
`disk`, which a crash leaves, and `Soon`, the disk when the pending writes are done, which
no sector write changes (`OneIsWritten`). A disk is `Sound` when each file has an entry, a
header and sectors of its own, all marked, and there are no other entries but those that a
crash left half done. `Soon` is sound, has no other sector marked as long as nothing crashed
(`MarkedHaveOwners`), and has the bytes of the saved files (`BytesAreSaved`). Of both disks:
a file that the command does not name has the same entry on each, its sectors are marked on
each, and none of them is waiting to be written (`OthersAreThere`). So it makes no difference
to it how many of the writes are done. For the command's own file the order of the writes
matters (`WritesAreInOrder`): Create writes the map last and Remove writes it first, so that
while the map on the disk does not have the file, its entry there is either not in use or
in use with a header's sector that is not marked (`Pending`, `HalfDone`). Hence at every moment
`disk` is sound but for such entries (`DiskIsSound`), and a crash turns it into the new
`Soon` with these added to `dangling` (`CrashInv`). Remove of a dangling entry either fails
its assertion or leads out of `Healthy`, and of any other entry it frees the sectors of that
file alone. One detail of the code matters: a removed entry keeps its name, and a directory
that was written by half may bring its flag back. So no entry before a file's own may bear
its name, in use or not (`IsAt`); that holds because Add takes the first free entry
(`DirAdded`).
What `Find` returns is stated by counting: its nth answer is the clear sector with n - 1 clear
ones below it (`ClearBelow`, `NthClearExists`).

**Only model-checked:** the context switch, the test suite,
the simulator, and all liveness (the prover does not reach liveness under
fairness, nor ENABLED). `Words` uses the bitwise operators of the community modules,
which exclude proofs about `Machine`, `Isa` and `Execute`. `TestSuite` and `ContextSwitch` are fixed programs,
whose proof would follow whole executions, as TLC does.

## 5. What the code does not keep

Shown by a run:

* **Use of a destroyed user lock** (`lock_table_use`, `userprog/lock_syscalls.cc:79`,
  the same for Release_sys at 103). The checks and the use are under different
  locks, and the thread can be preempted between them.
* **A clerk back from its break** (`passport_counter`, `test/passportoffice.c:392`).
  It sets its state without the lines' lock; a customer can then be at the counter
  before it, signal nobody and go to sleep, and so does the clerk.
* **OR drops its second register** (`or`, `machine/mipssim.cc:375`).
* **Uninitialised data is not zero** (`bss`, `userprog/addrspace.cc:191`).

Stated in the modules (the property in parentheses), without a run:

* A finished thread that is never freed (`FinishedThreadsAreFreed`,
  `threads/thread.cc:153`). `Finish` overwrites `threadToBeDestroyed`; a thread
  that runs for the first time does not pass the end of `Run`, so when it
  finishes at once the thread before it is forgotten. Memory is lost, nothing else
  goes wrong (`CarcassesAreFinished` is proved).
* A condition destroyed under its waiters (`NoWaiterStranded`,
  `userprog/condition_syscalls.cc:159`): Broadcast_sys does not look at the queue.
* A Broadcast that never comes back (`BroadcastComesBack`, `threads/synch.cc:265`),
  when a program uses two locks with one condition.
* A space without its pages that runs (`CompleteSpacesKeepTheirPages`,
  `userprog/addrspace.cc:167`): the constructor gives up when pages run out, Exec
  does not notice, and its Exit frees whatever pages its uninitialised entries
  name. `MemoryIsShared` and `UserSeesItsSpace` hold as long as no constructor
  ran out of pages.
* Sales that are lost in the user program (`SalesAreExact`), although "Total sales
  never suffers from a race condition" (`test/passportoffice.c:310`): customers
  add bribes and the cashier fees under different locks (:747 and :630), and a customer
  that bribes while a cashier charges it again pays only one of the two (:746 and :625).
  `SalesAddUp` is what remains: no clerk shows more than was paid at its counter, no
  customer is left with less than its payments leave it.
* A file that is overwritten after a crash (`SavedBytesStay`, without the `corrupt` of
  `SavedFilesAreIntact`): a copy of g is stopped between `filesys/filesys.cc:206` and 207,
  a copy of h takes the same sectors, the removal of g frees them, and the next copy writes
  over h. The comment at `filesys/filesys.cc:38-40` says as much.
* A performance test that does not read back what it wrote
  (`PerformanceTestReadsBack`): FileWrite of `filesys/fstest.cc` creates its file
  with size 0, and files do not grow.
* Calls with ids the program did not open (`NoUndefinedUse`): Get may see a slot
  between its allocation and its store, and Close of 0 or 1 frees a slot of the console.

Visible in the models, stated nowhere: an Exec that fails leaves
`runningProcessCount` one too high (`userprog/exception.cc:434`), so that the
last Exit takes the way of a process that is not the last one and the machine
halts through `Idle`; `Scheduler::Run` restores a deleted space when a thread
that is about to finish after Exit gets the processor again
(`threads/scheduler.cc:130`), but no program runs on it; Acquire_sys halts the
whole machine when a program acquires a lock it has destroyed
(`userprog/lock_syscalls.cc:61`); `Condition::Wait` gives a lock up without looking
at its delete mark, so that a marked lock may be free for as long as its waiters
sleep. In the offices on kernel threads: the last customer of a line shorter than
the manager's limit is never called in `threads/threadtest.cc`; a customer can
signal the counter before the clerk waits there, and both sleep; a customer that
goes out after the senator's Broadcast stays outside; one that reached a
clerk before the senator may wake the senator early, and the clerk
answers it twice. A cashier can charge a customer again, one that bribes meanwhile included. In `test/condtest.c` the
signal is lost when t2 gets the lock before t1.

## 6. Not modelled

* User test programs, and four earlier versions of the thread tests
  (`threads/threadtest2.cc`, `threadtestNew.cc`, `threadtestHUNG.cc`,
  `threadtestBeforeHungStayedUp.cc`), which no Makefile builds and
  `threads/threadtest.cc` replaces; `addrspaceForAss3.cc`, a copy that is not built.
  The programs were read for what they expect of the system.
* The host interface (`machine/sysdep.cc`), disassemblers,
  statistics, debugging output, and operations that print only (`List`, `Print`).
* The options of `main` other than the file system's; the prompts of
  Part 2; several senators.

What could come next: the second senator; `Devices` under the
ready list of `Scheduler`, and `FileSystem` over `SynchDisk`, in one composition.
