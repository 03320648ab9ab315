------------------------------ MODULE Devices ------------------------------
(***************************************************************************)
(* The simulated hardware clock of machine/interrupt.cc with the devices   *)
(* that hang on it: the timer, the disk under SynchDisk and the console    *)
(* under SynchConsole, used by several threads.                            *)
(*                                                                         *)
(* Time passes in two places only: OneTick, at the end of each section     *)
(* with interrupts off, and Idle.  Kernel code between two ticks is one    *)
(* step.  Which of the threads that can run is dispatched next is left     *)
(* open here (Scheduler has the ready list); locks and semaphores do what  *)
(* Monitors and Semaphores show of them.                                   *)
(*                                                                         *)
(* mode: "run"       the current thread executes, interrupts enabled       *)
(*       "tick"      interrupts are about to be enabled again              *)
(*       "handlers"  OneTick is calling the handlers that are due          *)
(*       "dispatch"  Sleep or Yield is looking for the next thread         *)
(*       "idle"      Idle is calling handlers                              *)
(*       "halted"                                                          *)
(***************************************************************************)
EXTENDS Integers, Sequences, FiniteSets, SequencesExt

CONSTANTS
  Threads, NoThread,
  Scenarios,     \* programs for the threads, and whether there is a console
  Input,         \* the characters typed, in order
  EOF,           \* of an empty input buffer
  Newline,
  TimerTicks, ConsoleTime,  \* in units of SystemTick
  DiskTimes      \* what Disk::ComputeLatency may return

\* Calls: a sector is read or written; a line is written; a line is read.
Devs == {"disk", "out", "in"}
Calls == [dev : Devs, size : Nat]
DiskCall == [dev |-> "disk", size |-> 1]
WriteLine(line) == [dev |-> "out", size |-> Len(line)]
ReadLine(size) == [dev |-> "in", size |-> size]

\* Without a console, nobody calls one.
ASSUME DevicesAssumption ==
  /\ NoThread \notin Threads
  /\ TimerTicks \in Nat \ {0} /\ ConsoleTime \in Nat \ {0}
  /\ DiskTimes \subseteq Nat \ {0}
  /\ Input \in Seq(Range(Input)) /\ EOF \notin Range(Input)
  /\ \A s \in Scenarios :
       /\ s.program \in [Threads -> Seq(Calls)]
       /\ s.console \in BOOLEAN
       /\ s.console \/ \A t \in Threads : \A c \in Range(s.program[t]) : c.dev = "disk"

VARIABLES
  mode,          \* see above
  currentThread,
  yieldOnReturn, \* Interrupt::yieldOnReturn
  pending,       \* Interrupt::pending, with the ticks left until each is due
  program,       \* the calls each thread still has to make
  place,         \* where each thread is in its call
  left,          \* the characters or requests left in that call
  owner,         \* of SynchDisk::lock, outputMutex, inputMutex
  units,         \* of SynchDisk::semaphore, outputDone, inputAvailable
  busy,          \* Disk::active, Console::putBusy
  incoming,      \* Console::incoming
  keyboard,      \* characters typed and not yet read by the console
  toType,        \* characters to come
  screen,        \* history: characters put out, with their line
  readBy,        \* history: characters taken by ReadLine, with their reader
  served         \* history: the request each device interrupt answered last

clockVars == <<mode, currentThread, yieldOnReturn, pending>>
threadVars == <<program, place, left>>
syncVars == <<owner, units>>
consoleVars == <<incoming, keyboard, toType>>
historyVars == <<screen, readBy, served>>
devVars == <<clockVars, threadVars, syncVars, busy, consoleVars, historyVars>>

\* List::SortedInsert: before the first interrupt that is due later.
PlaceOf(list, int) ==
  CHOOSE p \in 1 .. Len(list) + 1 :
    /\ \A i \in 1 .. p - 1 : list[i].due <= int.due
    /\ p <= Len(list) => list[p].due > int.due
Insert(list, int) == InsertAt(list, PlaceOf(list, int), int)

Schedule(list, type, fromNow) == Insert(list, [type |-> type, due |-> fromNow])

\* Timer::TimeOfNextInterrupt, with -rs.
TimerDelays == 1 .. 2 * TimerTicks

DevInit ==
  /\ mode = "dispatch"
  /\ currentThread = NoThread
  /\ yieldOnReturn = FALSE
  /\ \E s \in Scenarios, d \in TimerDelays :
       LET timer == Schedule(<< >>, "TimerInt", d)
       IN /\ program = s.program
          /\ pending = IF s.console THEN Schedule(timer, "ConsoleReadInt", ConsoleTime)
                                   ELSE timer
  /\ place = [t \in Threads |-> "ready"]
  /\ left = [t \in Threads |-> 0]
  /\ owner = [d \in Devs |-> NoThread]
  /\ units = [d \in Devs |-> 0]
  /\ busy = [d \in {"disk", "out"} |-> NoThread]
  /\ incoming = EOF
  /\ keyboard = << >>
  /\ toType = Input
  /\ screen = << >>
  /\ readBy = << >>
  /\ served = [d \in {"disk", "out"} |-> NoThread]

----------------------------------------------------------------------------
\* The calls.  A thread's places: "ready" between two calls, "lock" asleep in
\* Acquire, "held" with the lock, "P" asleep in P, "read" when P of ReadLine
\* has returned, "served" when P of a request has.
Running(t, p) == mode = "run" /\ currentThread = t /\ place[t] = p
Call(t) == Head(program[t])
Dev(t) == Call(t).dev
Goes(t, p) == place' = [place EXCEPT ![t] = p]

\* lock->Acquire(): the thread ticks on with the lock, or sleeps.
AcquireDev(t) ==
  /\ Running(t, "ready")
  /\ program[t] # << >>
  /\ left' = [left EXCEPT ![t] = Call(t).size]
  /\ \/ /\ owner[Dev(t)] = NoThread
        /\ owner' = [owner EXCEPT ![Dev(t)] = t]
        /\ Goes(t, "held")
        /\ mode' = "tick"
     \/ /\ owner[Dev(t)] # NoThread
        /\ Goes(t, "lock")
        /\ mode' = "dispatch"
        /\ UNCHANGED owner
  /\ UNCHANGED <<currentThread, yieldOnReturn, pending, program, units, busy, consoleVars, historyVars>>

\* Mutant of PDev: a request does not wait for its interrupt.
PDevNot(t, after) ==
  /\ Goes(t, after)
  /\ mode' = "tick"
  /\ UNCHANGED units

\* Semaphore::P of the device: take a unit and tick, or sleep.
PDev(t, after) ==
  \/ /\ units[Dev(t)] > 0
     /\ units' = [units EXCEPT ![Dev(t)] = @ - 1]
     /\ Goes(t, after)
     /\ mode' = "tick"
  \/ /\ units[Dev(t)] = 0
     /\ Goes(t, "P")
     /\ mode' = "dispatch"
     /\ UNCHANGED units

\* Disk::ReadRequest or WriteRequest, Console::PutChar, and the P that follows.
Request(t) ==
  /\ Running(t, "held")
  /\ left[t] > 0
  /\ Dev(t) \in {"disk", "out"}
  /\ busy' = [busy EXCEPT ![Dev(t)] = t]
  /\ IF Dev(t) = "disk"
       THEN /\ \E ticks \in DiskTimes : pending' = Schedule(pending, "DiskInt", ticks)
            /\ UNCHANGED screen
       ELSE /\ pending' = Schedule(pending, "ConsoleWriteInt", ConsoleTime)
            /\ screen' = Append(screen, [thread |-> t, rest |-> left[t] - 1])
  /\ PDev(t, "served")
  /\ UNCHANGED <<currentThread, yieldOnReturn, program, left, owner, consoleVars, readBy, served>>

\* The request is done: the next character, or the end of the call.
Served(t) ==
  /\ Running(t, "served")
  /\ left' = [left EXCEPT ![t] = @ - 1]
  /\ Goes(t, "held")
  /\ UNCHANGED <<clockVars, program, syncVars, busy, consoleVars, historyVars>>

\* ReadLine: inputAvailable->P().
WaitForChar(t) ==
  /\ Running(t, "held")
  /\ left[t] > 0
  /\ Dev(t) = "in"
  /\ PDev(t, "read")
  /\ UNCHANGED <<currentThread, yieldOnReturn, pending, program, left, owner, busy, consoleVars, historyVars>>

\* Console::GetChar: the buffer is empty again.  A newline ends the line.
GetChar(t) ==
  /\ Running(t, "read")
  /\ incoming' = EOF
  /\ readBy' = Append(readBy, [char |-> incoming, thread |-> t, call |-> Len(program[t])])
  /\ left' = [left EXCEPT ![t] = IF incoming = Newline THEN 0 ELSE @ - 1]
  /\ Goes(t, "held")
  /\ UNCHANGED <<clockVars, program, syncVars, busy, keyboard, toType, screen, served>>

\* Mutant of ReleaseDev: the call returns with the lock.
ReleaseDevNot(t) ==
  /\ Running(t, "held")
  /\ left[t] = 0
  /\ program' = [program EXCEPT ![t] = Tail(@)]
  /\ Goes(t, "ready")
  /\ mode' = "tick"
  /\ UNCHANGED <<currentThread, yieldOnReturn, pending, left, owner, units, busy, consoleVars, historyVars>>

\* lock->Release(): the call returns.
ReleaseDev(t) ==
  /\ Running(t, "held")
  /\ left[t] = 0
  /\ owner' = [owner EXCEPT ![Dev(t)] = NoThread]
  /\ program' = [program EXCEPT ![t] = Tail(@)]
  /\ Goes(t, "ready")
  /\ mode' = "tick"
  /\ UNCHANGED <<currentThread, yieldOnReturn, pending, left, units, busy, consoleVars, historyVars>>

\* Thread::Finish.
FinishDev(t) ==
  /\ Running(t, "ready")
  /\ program[t] = << >>
  /\ Goes(t, "done")
  /\ mode' = "dispatch"
  /\ UNCHANGED <<currentThread, yieldOnReturn, pending, program, left, syncVars, busy, consoleVars, historyVars>>

----------------------------------------------------------------------------
\* A thread that could be on the ready list.
Runnable(t) ==
  CASE place[t] = "lock" -> owner[Dev(t)] = NoThread
    [] place[t] = "P" -> units[Dev(t)] > 0
    [] place[t] = "done" -> FALSE
    [] OTHER -> TRUE

\* Scheduler::Run of the next thread, which goes on in Acquire, in P, in
\* Yield or in ThreadRoot, and ticks when it restores its interrupt level.
Dispatch(t) ==
  /\ mode = "dispatch"
  /\ Runnable(t)
  /\ currentThread' = t
  /\ mode' = "tick"
  /\ CASE place[t] = "lock" -> /\ owner' = [owner EXCEPT ![Dev(t)] = t]
                               /\ Goes(t, "held")
                               /\ UNCHANGED units
       [] place[t] = "P" -> /\ units' = [units EXCEPT ![Dev(t)] = @ - 1]
                            /\ Goes(t, IF Dev(t) = "in" THEN "read" ELSE "served")
                            /\ UNCHANGED owner
       [] OTHER -> UNCHANGED <<owner, units, place>>
  /\ UNCHANGED <<yieldOnReturn, pending, program, left, busy, consoleVars, historyVars>>

\* Time passes for all pending interrupts.
Later(list, ticks) == [i \in DOMAIN list |-> [list[i] EXCEPT !.due = @ - ticks]]

\* Interrupt::OneTick begins: simulated time advances.
OneTick ==
  /\ mode = "tick"
  /\ pending' = Later(pending, 1)
  /\ mode' = "handlers"
  /\ UNCHANGED <<currentThread, yieldOnReturn, threadVars, syncVars, busy, consoleVars, historyVars>>

\* Mutant of Due: an interrupt that falls due now is left for later.
DueStrictly == pending # << >> /\ Head(pending).due < 0

Due == pending # << >> /\ Head(pending).due <= 0

\* Mutant of OnlyTimer: it is not asked whether anything else is pending.
TimerFirst == pending = << >> \/ Head(pending).type = "TimerInt"

\* Interrupt::CheckIfDue does not call the timer when an idle machine has
\* nothing else pending.
OnlyTimer == \A i \in DOMAIN pending : pending[i].type = "TimerInt"
Fires == /\ Due
         /\ \/ mode = "handlers"
            \/ mode = "idle" /\ ~OnlyTimer

\* What the handlers do to the semaphores.
V(d) == units' = [units EXCEPT ![d] = @ + 1]

\* Timer::TimerExpired and TimerInterruptHandler.
TimerExpired ==
  /\ Fires
  /\ Head(pending).type = "TimerInt"
  /\ \E d \in TimerDelays : pending' = Schedule(Tail(pending), "TimerInt", d)
  /\ yieldOnReturn' = TRUE
  /\ UNCHANGED <<mode, currentThread, threadVars, syncVars, busy, consoleVars, historyVars>>

\* Disk::HandleInterrupt and RequestDone; Console::WriteDone and its V.
RequestDone(type, d) ==
  /\ Fires
  /\ Head(pending).type = type
  /\ pending' = Tail(pending)
  /\ busy' = [busy EXCEPT ![d] = NoThread]
  /\ served' = [served EXCEPT ![d] = busy[d]]
  /\ V(d)
  /\ UNCHANGED <<mode, currentThread, yieldOnReturn, threadVars, owner, consoleVars, screen, readBy>>

DiskDone == RequestDone("DiskInt", "disk")
ConsoleWriteDone == RequestDone("ConsoleWriteInt", "out")

\* Mutant of CheckCharAvail: a character that was not fetched is overwritten.
CheckCharOverwrites ==
  /\ Fires
  /\ Head(pending).type = "ConsoleReadInt"
  /\ pending' = Schedule(Tail(pending), "ConsoleReadInt", ConsoleTime)
  /\ IF keyboard # << >>
       THEN /\ incoming' = Head(keyboard)
            /\ keyboard' = Tail(keyboard)
            /\ V("in")
       ELSE UNCHANGED <<incoming, keyboard, units>>
  /\ UNCHANGED <<mode, currentThread, yieldOnReturn, threadVars, owner, busy, toType, historyVars>>

\* Console::CheckCharAvail: poll again later; take a character over only when
\* the one before it was fetched.
CheckCharAvail ==
  /\ Fires
  /\ Head(pending).type = "ConsoleReadInt"
  /\ pending' = Schedule(Tail(pending), "ConsoleReadInt", ConsoleTime)
  /\ IF incoming = EOF /\ keyboard # << >>
       THEN /\ incoming' = Head(keyboard)
            /\ keyboard' = Tail(keyboard)
            /\ V("in")
       ELSE UNCHANGED <<incoming, keyboard, units>>
  /\ UNCHANGED <<mode, currentThread, yieldOnReturn, threadVars, owner, busy, toType, historyVars>>

\* OneTick ends: back to the thread, or into Yield, which ticks again even
\* when there is no other thread.
EndTick ==
  /\ mode = "handlers"
  /\ ~Due
  /\ yieldOnReturn' = FALSE
  /\ mode' = IF yieldOnReturn THEN "dispatch" ELSE "run"
  /\ UNCHANGED <<currentThread, pending, threadVars, syncVars, busy, consoleVars, historyVars>>

\* Mutant of Idle: the clock jumps to the last pending interrupt.
IdleTooFar ==
  /\ mode = "dispatch"
  /\ \A t \in Threads : ~Runnable(t)
  /\ ~OnlyTimer
  /\ pending' = Later(pending, Last(pending).due)
  /\ mode' = "idle"
  /\ UNCHANGED <<currentThread, yieldOnReturn, threadVars, syncVars, busy, consoleVars, historyVars>>

\* Interrupt::Idle: the clock jumps to the next pending interrupt, if it is
\* not due already; its handler is called first, then all that are due.
Idle ==
  /\ mode = "dispatch"
  /\ \A t \in Threads : ~Runnable(t)
  /\ ~OnlyTimer
  /\ pending' = IF Head(pending).due > 0 THEN Later(pending, Head(pending).due) ELSE pending
  /\ mode' = "idle"
  /\ UNCHANGED <<currentThread, yieldOnReturn, threadVars, syncVars, busy, consoleVars, historyVars>>

EndIdle ==
  /\ mode = "idle"
  /\ ~Fires
  /\ yieldOnReturn' = FALSE
  /\ mode' = "dispatch"
  /\ UNCHANGED <<currentThread, pending, threadVars, syncVars, busy, consoleVars, historyVars>>

\* Somebody types the next character.
Type ==
  /\ toType # << >>
  /\ keyboard' = Append(keyboard, Head(toType))
  /\ toType' = Tail(toType)
  /\ UNCHANGED <<clockVars, threadVars, syncVars, busy, incoming, historyVars>>

\* "Assuming the program completed": Idle calls Halt.
Halt ==
  /\ mode = "dispatch"
  /\ \A t \in Threads : ~Runnable(t)
  /\ OnlyTimer
  /\ mode' = "halted"
  /\ UNCHANGED <<currentThread, yieldOnReturn, pending, threadVars, syncVars, busy, consoleVars, historyVars>>

DevStopped == mode = "halted" /\ UNCHANGED devVars

ThreadStep(t) ==
  \/ AcquireDev(t)
  \/ Request(t)
  \/ Served(t)
  \/ WaitForChar(t)
  \/ GetChar(t)
  \/ ReleaseDev(t)
  \/ FinishDev(t)

ClockStep ==
  \/ OneTick
  \/ TimerExpired
  \/ DiskDone
  \/ ConsoleWriteDone
  \/ CheckCharAvail
  \/ EndTick
  \/ Idle
  \/ EndIdle
  \/ Halt

DevNext ==
  \/ \E t \in Threads : ThreadStep(t)
  \/ \E t \in Threads : Dispatch(t)
  \/ ClockStep
  \/ Type
  \/ DevStopped

DevSpec == DevInit /\ [][DevNext]_devVars

\* The random period of the timer comes out long.
LongPeriod == TimerExpired /\ [type |-> "TimerInt", due |-> 2 * TimerTicks] \in Range(pending')

\* Fairness: the machine goes on and its clock with it; the period of the timer
\* is random, so that it is not short for ever; a thread that can run is
\* dispatched; what is to be typed is typed.
DevFairness ==
  /\ SF_devVars(LongPeriod)
  /\ WF_devVars(ClockStep)
  /\ WF_devVars(Type)
  /\ \A t \in Threads : SF_devVars(Dispatch(t)) /\ WF_devVars(ThreadStep(t))

FairDevSpec == DevSpec /\ DevFairness

----------------------------------------------------------------------------
Types == {"TimerInt", "DiskInt", "ConsoleWriteInt", "ConsoleReadInt"}
Places == {"ready", "lock", "held", "P", "served", "read", "done"}

DevTypeOK ==
  /\ mode \in {"run", "tick", "handlers", "dispatch", "idle", "halted"}
  /\ currentThread \in Threads \cup {NoThread}
  /\ yieldOnReturn \in BOOLEAN
  /\ \A i \in DOMAIN pending : pending[i] \in [type : Types, due : Int]
  /\ place \in [Threads -> Places]
  /\ left \in [Threads -> Nat]
  /\ owner \in [Devs -> Threads \cup {NoThread}]
  /\ units \in [Devs -> Nat]
  /\ incoming \in Range(Input) \cup {EOF}

\* The threads inside a call on device d, at the given place.
In(d, p) == {t \in Threads : program[t] # << >> /\ Dev(t) = d /\ place[t] = p}
Pending(type) == Cardinality({i \in DOMAIN pending : pending[i].type = type})
IntOf(d) == IF d = "disk" THEN "DiskInt" ELSE "ConsoleWriteInt"

\* "only one request at a time" (disk.cc:121) and the assertion of PutChar: a
\* thread that is about to start a request finds the device idle.  The one
\* interrupt to come, or the unit it left, is for the thread that waits, so
\* that "return only after the data has been read" (synchdisk.cc:65): a thread
\* goes on after the interrupt of its own request.
OneRequestAtATime ==
  /\ DevTypeOK
  /\ \A d \in {"disk", "out"} :
       /\ \A t \in In(d, "held") : left[t] > 0 => busy[d] = NoThread
       /\ \A t \in In(d, "served") : served[d] = t
       /\ Pending(IntOf(d)) + units[d] = Cardinality(In(d, "P"))
       /\ busy[d] # NoThread <=> Pending(IntOf(d)) = 1

\* The characters of a line follow each other on the screen.
ScreenHasLines ==
  \A i \in 1 .. Len(screen) - 1 :
    screen[i].rest > 0 => screen[i + 1] = [screen[i] EXCEPT !.rest = @ - 1]

\* What is typed is read once, and in order.
InputInOrder ==
  LET fetched == [i \in DOMAIN readBy |-> readBy[i].char]
      buffer == IF incoming = EOF THEN << >> ELSE <<incoming>>
  IN fetched \o buffer \o keyboard \o toType = Input

\* What a call reads is not interrupted by another.
LinesHaveOneReader ==
  \A i \in 1 .. Len(readBy) - 1 : \A j \in i + 1 .. Len(readBy) :
    LET same(k) == readBy[k].thread = readBy[i].thread /\ readBy[k].call = readBy[i].call
    IN same(j) => same(i + 1)

\* The lines of several writers do not mix, and what is typed is read once and
\* in order, each line by one reader: outputMutex and inputMutex, the buffer of
\* one character, and its semaphore (synchconsole.cc).
LinesAreWhole == ScreenHasLines /\ InputInOrder /\ LinesHaveOneReader

\* No interrupt is handled early (Fires) or late: the list is sorted, OneTick
\* leaves nothing that is due, and nothing waits past its time, but for the
\* timer, which an idle machine leaves alone.
HandledOnTime ==
  /\ \A i \in 1 .. Len(pending) - 1 : pending[i].due <= pending[i + 1].due
  /\ mode = "run" => ~Due
  /\ \A i \in DOMAIN pending : pending[i].type # "TimerInt" => pending[i].due >= 0

\* All that, and the machine stops by itself only when every thread has
\* finished ("No threads ready or runnable, and no pending interrupts",
\* interrupt.cc:241), and never while it has a console.
HaltsWhenDone ==
  /\ HandledOnTime
  /\ mode = "halted" => \A t \in Threads : place[t] = "done" /\ program[t] = << >>

\* Every call returns, in whatever order interrupts, time slices and keys come.
CallsReturn == <>(\A t \in Threads : place[t] = "done")

=============================================================================
