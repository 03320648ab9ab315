--------------------------- MODULE ContextSwitch ---------------------------
(***************************************************************************)
(* SWITCH and ThreadRoot of threads/switch.s on the four machines they are *)
(* written for, with the thread objects that StackAllocate prepares.       *)
(* Scheduler says who runs next; here is how it comes to run: by moves     *)
(* between registers, the saved state in the thread objects and the        *)
(* threads' stacks.  Interrupts are off in SWITCH, so it is one step.      *)
(*                                                                         *)
(* What the compiled code between two switches does is what the calling    *)
(* conventions let it do: a function may use the registers it must save    *)
(* for its caller (Saved) as it likes and finds them, and its stack        *)
(* pointer, unchanged when a call returns; all others are lost in calls.   *)
(*                                                                         *)
(* A value is a triple: whose it is, what, and a number.                   *)
(***************************************************************************)
EXTENDS Naturals, Sequences, SequencesExt, TLC

CONSTANTS
  Threads, Main, NoThread,
  Args,          \* what threads are forked with
  MaxValue       \* how many values a program has for a register

VARIABLES
  arch,          \* HOST_MIPS, HOST_SPARC, HOST_SNAKE or HOST_i386
  machine,       \* registers, thread objects and stacks: see Machines
  running,       \* the thread that executes
  at,            \* where each thread is
  calls,         \* history: the functions ThreadRoot has called for each thread
  forkedWith,    \* the argument of Fork
  expects,       \* what each thread has in its registers, as far as it knows
  atCall         \* the same when ThreadRoot called the function it is in

switchVars == <<arch, machine, running, at, calls, forkedWith, expects, atCall>>

Archs == {"mips", "sparc", "snake", "i386"}
Value(t, what, n) == <<t, what, n>>
Code(name) == Value(NoThread, name, 0)
Junk == Code("junk")
Pointer(t) == Value(t, "object", 0)

----------------------------------------------------------------------------
\* Where SWITCH keeps a register in the object of a thread, in bytes.
Offset ==
  [ mips |-> [SP |-> 0, S0 |-> 4, S1 |-> 8, S2 |-> 12, S3 |-> 16, S4 |-> 20, S5 |-> 24, S6 |-> 28,
              S7 |-> 32, FP |-> 36, PC |-> 40],
    sparc |-> [SP |-> 0, I0 |-> 4, I1 |-> 8, I2 |-> 12, I3 |-> 16, I4 |-> 20, I5 |-> 24, I6 |-> 28,
               I7 |-> 32],
    snake |-> [SP |-> 0, S0 |-> 4, S1 |-> 8, S2 |-> 12, S3 |-> 16, S4 |-> 20, S5 |-> 24, S6 |-> 28,
               S7 |-> 32, S8 |-> 36, S9 |-> 40, S10 |-> 44, S11 |-> 48, S12 |-> 52, S13 |-> 56,
               S14 |-> 60, S15 |-> 64, PC |-> 68],
    i386 |-> [ESP |-> 0, EAX |-> 4, EBX |-> 8, ECX |-> 12, EDX |-> 16, EBP |-> 20, ESI |-> 24,
              EDI |-> 28, PC |-> 32] ]

\* Where a new thread's values are put, and the registers ThreadRoot finds them in.
State ==
  [ mips |-> [PC |-> "PC", InitialPC |-> "S0", InitialArg |-> "S1", WhenDonePC |-> "S2", StartupPC |-> "S3"],
    sparc |-> [PC |-> "I7", InitialPC |-> "I0", InitialArg |-> "I1", WhenDonePC |-> "I2", StartupPC |-> "I3"],
    snake |-> [PC |-> "PC", InitialPC |-> "S0", InitialArg |-> "S1", WhenDonePC |-> "S2", StartupPC |-> "S3"],
    i386 |-> [PC |-> "PC", InitialPC |-> "ESI", InitialArg |-> "EDX", WhenDonePC |-> "EDI", StartupPC |-> "ECX"] ]

\* Mutant of MachineState: the registers come first in the object.
MachineStateFirst(i) == 4 * i

\* class Thread: stackTop comes first and machineState after it, in words.
StateIndex(field) == Offset[arch][State[arch][field]] \div 4 - 1
MachineState(i) == 4 + 4 * i
Fields == {Offset[arch][s] : s \in DOMAIN Offset[arch]}

\* The registers that a function must leave as it found them, the stack
\* pointer, and the rest of those that are used here.
Saved ==
  [ mips |-> {"s0", "s1", "s2", "s3", "s4", "s5", "s6", "s7", "fp"},
    sparc |-> {"l0", "l1", "l2", "i0", "i1", "i2", "i3", "i4", "i5", "i6", "i7"},
    snake |-> {"r3", "r4", "r5", "r6", "r7", "r8", "r9", "r10", "r11", "r12", "r13", "r14", "r15",
               "r16", "r17", "r18"},
    i386 |-> {"ebx", "esi", "edi", "ebp"} ]
Sp == [mips |-> "sp", sparc |-> "o6", snake |-> "sp", i386 |-> "esp"]
Lost ==
  [ mips |-> {"a0", "a1", "ra"},
    sparc |-> {"o0", "o1", "o2", "o3", "o4", "o5", "o7"},
    snake |-> {"arg0", "arg1", "rp"},
    i386 |-> {"eax", "ecx", "edx", "eax_save"} ]
Kept == Saved[arch] \cup {Sp[arch]}
Registers == Kept \cup Lost[arch]

----------------------------------------------------------------------------
\* Instructions.  Operands are a register, a word of the object that a register
\* points to, and a word above the stack pointer.
Reg(r) == [in |-> "register", name |-> r]
Of(p, slot) == [in |-> "object", pointer |-> p, slot |-> slot]
Stack(n) == [in |-> "stack", words |-> n]
Move(from, to) == [op |-> "move", from |-> from, to |-> to]
Push(from) == [op |-> "push", from |-> from]
Clear(r) == [op |-> "clear", register |-> r]

\* The stacks of words 0 .. TopWord grow down, where it matters.
TopWord == 8
StackAt(t, n) == Value(t, "stack", n)
Above(p, n) == StackAt(p[1], p[3] + n)
Below(p, n) == StackAt(p[1], p[3] - n)
StackPointer(m) == m.regs[Sp[arch]]

Get(m, x) ==
  CASE x.in = "register" -> m.regs[x.name]
    [] x.in = "object" -> m.object[m.regs[x.pointer][1]][Offset[arch][x.slot]]
    [] x.in = "stack" -> m.stack[Above(StackPointer(m), x.words)]

Put(m, x, v) ==
  CASE x.in = "register" -> [m EXCEPT !.regs[x.name] = v]
    [] x.in = "object" -> [m EXCEPT !.object[m.regs[x.pointer][1]][Offset[arch][x.slot]] = v]
    [] x.in = "stack" -> [m EXCEPT !.stack[Above(StackPointer(m), x.words)] = v]

PushValue(m, v) ==
  LET top == Below(StackPointer(m), 1)
  IN [m EXCEPT !.stack[top] = v, !.regs[Sp[arch]] = top]

\* The SPARC's register windows: a function sees its caller's out registers as
\* its in registers; the locals and ins of the caller are in another window, or,
\* once that is flushed, on the caller's stack.
OutOf == [i0 |-> "o0", i1 |-> "o1", i2 |-> "o2", i3 |-> "o3", i4 |-> "o4", i5 |-> "o5", i6 |-> "o6", i7 |-> "o7"]
Window(m) == [r \in Saved["sparc"] |-> m.regs[r]]
SaveWindow(m) ==
  [m EXCEPT !.window = Window(m), !.flushed = FALSE,
            !.regs = [r \in Registers |-> IF r \in DOMAIN OutOf THEN m.regs[OutOf[r]] ELSE m.regs[r]]]
FlushWindows(m) == [m EXCEPT !.frame[m.regs["i6"]] = m.window, !.flushed = TRUE]
InOf(r) == CHOOSE i \in DOMAIN OutOf : OutOf[i] = r
RestoreWindow(m) ==
  LET back == IF m.flushed THEN m.frame[m.regs["i6"]] ELSE m.window
  IN [m EXCEPT !.regs = [r \in Registers |-> IF r \in DOMAIN back THEN back[r] ELSE m.regs[InOf(r)]]]

Do(m, i) ==
  CASE i.op = "move" -> Put(m, i.to, Get(m, i.from))
    [] i.op = "push" -> PushValue(m, Get(m, i.from))
    [] i.op = "clear" -> [m EXCEPT !.regs[i.register] = Code("0")]
    [] i.op = "save" -> SaveWindow(m)
    [] i.op = "flush" -> FlushWindows(m)
    [] i.op = "restore" -> RestoreWindow(m)
Execute(m, code) == FoldLeft(Do, m, code)

----------------------------------------------------------------------------
\* SWITCH.  Pairs of a register and its slot: saved for oldThread, in this
\* order, and then loaded for newThread.
Saves(pairs, old) == [i \in DOMAIN pairs |-> Move(Reg(pairs[i][1]), Of(old, pairs[i][2]))]
Loads(pairs, new) == [i \in DOMAIN pairs |-> Move(Of(new, pairs[i][2]), Reg(pairs[i][1]))]

MipsPairs ==
  << <<"sp", "SP">>, <<"s0", "S0">>, <<"s1", "S1">>, <<"s2", "S2">>, <<"s3", "S3">>, <<"s4", "S4">>,
     <<"s5", "S5">>, <<"s6", "S6">>, <<"s7", "S7">>, <<"fp", "FP">>, <<"ra", "PC">> >>
SwitchMips == Saves(MipsPairs, "a0") \o Loads(MipsPairs, "a1")

SnakePairs ==
  << <<"sp", "SP">>, <<"r3", "S0">>, <<"r4", "S1">>, <<"r5", "S2">>, <<"r6", "S3">>, <<"r7", "S4">>,
     <<"r8", "S5">>, <<"r9", "S6">>, <<"r10", "S7">>, <<"r11", "S8">>, <<"r12", "S9">>, <<"r13", "S10">>,
     <<"r14", "S11">>, <<"r15", "S12">>, <<"r16", "S13">>, <<"r17", "S14">>, <<"r18", "S15">>, <<"rp", "PC">> >>
SwitchSnake == Saves(SnakePairs, "arg0") \o Loads(SnakePairs, "arg1")

\* The pointer to oldThread is stored among its registers before i0 is loaded.
SparcPairs ==
  << <<"i0", "I0">>, <<"i1", "I1">>, <<"i2", "I2">>, <<"i3", "I3">>, <<"i4", "I4">>, <<"i5", "I5">>, <<"i7", "I7">> >>
SwitchSparc ==
  << [op |-> "save"], Move(Reg("i6"), Of("i0", "SP")) >> \o Saves(SparcPairs, "i0")
  \o << [op |-> "flush"], Move(Reg("i1"), Reg("l0")) >> \o Loads(SparcPairs, "l0")
  \o << Move(Of("l0", "SP"), Reg("i6")), [op |-> "restore"] >>

\* eax points to oldThread, then to newThread; eax and the return address go
\* through ebx, the return address to the word under the first.
I386Pairs ==
  << <<"ebx", "EBX">>, <<"ecx", "ECX">>, <<"edx", "EDX">>, <<"esi", "ESI">>, <<"edi", "EDI">>,
     <<"ebp", "EBP">>, <<"esp", "ESP">> >>
SwitchI386 ==
  << Move(Reg("eax"), Reg("eax_save")), Move(Stack(1), Reg("eax")) >> \o Saves(I386Pairs, "eax")
  \o << Move(Reg("eax_save"), Reg("ebx")), Move(Reg("ebx"), Of("eax", "EAX")),
        Move(Stack(0), Reg("ebx")), Move(Reg("ebx"), Of("eax", "PC")),
        Move(Stack(2), Reg("eax")), Move(Of("eax", "EAX"), Reg("ebx")), Move(Reg("ebx"), Reg("eax_save")) >>
  \o Loads(I386Pairs, "eax")
  \o << Move(Of("eax", "PC"), Reg("eax")), Move(Reg("eax"), Stack(1)), Move(Reg("eax_save"), Reg("eax")) >>

SwitchCode == [mips |-> SwitchMips, sparc |-> SwitchSparc, snake |-> SwitchSnake, i386 |-> SwitchI386]

\* The address SWITCH goes to at its end: a register's, or popped by ret.
Target(m) ==
  CASE arch = "mips" -> m.regs["ra"]
    [] arch = "snake" -> m.regs["rp"]
    [] arch = "sparc" -> m.regs["o7"]
    [] arch = "i386" -> m.stack[StackPointer(m)]
Pop(m, n) == [m EXCEPT !.regs[Sp[arch]] = Above(@, n)]

\* ThreadRoot: moves, StartupPC(), moves, InitialPC(InitialArg), WhenDonePC().
\* The arguments are where the calling convention has them.
RootMips ==
  [enter |-> << Clear("fp") >>, startup |-> "s3",
   then |-> << Move(Reg("s1"), Reg("a0")) >>, initial |-> "s0", arg |-> Reg("a0"), whenDone |-> "s2"]
RootSparc ==
  [enter |-> << Clear("i6"), Move(Reg("o0"), Reg("l0")), Move(Reg("o1"), Reg("l1")),
                Move(Reg("o2"), Reg("l2")) >>, startup |-> "o3",
   then |-> << Move(Reg("l1"), Reg("o0")) >>, initial |-> "l0", arg |-> Reg("o0"), whenDone |-> "l2"]
RootSnake ==
  [enter |-> << >>, startup |-> "r6",
   then |-> << Move(Reg("r4"), Reg("arg0")) >>, initial |-> "r3", arg |-> Reg("arg0"), whenDone |-> "r5"]
RootI386 ==
  [enter |-> << Push(Reg("ebp")), Move(Reg("esp"), Reg("ebp")), Push(Reg("edx")) >>, startup |-> "ecx",
   then |-> << >>, initial |-> "esi", arg |-> Stack(0), whenDone |-> "edi"]
Root == [mips |-> RootMips, sparc |-> RootSparc, snake |-> RootSnake, i386 |-> RootI386][arch]

----------------------------------------------------------------------------
\* What is in memory that nobody has written is not known.
StackWords == {StackAt(t, n) : t \in Threads, n \in 0 .. TopWord}
NoWindow == [r \in Saved["sparc"] |-> Junk]
FirstWork == 4

\* The first thread runs on the stack Nachos was started with.
SwitchInit ==
  /\ arch \in Archs
  /\ machine =
       [ regs |-> [r \in Registers |-> IF r = Sp[arch] THEN StackAt(Main, FirstWork) ELSE Junk],
         object |-> [t \in Threads |-> [f \in Fields |-> Junk]],
         stack |-> [p \in StackWords |-> Junk],
         window |-> NoWindow, flushed |-> TRUE, frame |-> [p \in StackWords |-> NoWindow] ]
  /\ running = Main
  /\ at = [t \in Threads |-> IF t = Main THEN "initial" ELSE "none"]
  /\ calls = [t \in Threads |-> << >>]
  /\ forkedWith = [t \in Threads |-> Junk]
  /\ expects = [t \in Threads |-> [r \in Kept |-> machine.regs[r]]]
  /\ atCall = expects

\* Compiled code, where interrupts may be enabled: the functions ThreadRoot calls.
InFunction(t) == at[t] \in {"startup", "initial", "whenDone"}
Goes(t, place) == at' = [at EXCEPT ![t] = place]

\* Thread::StackAllocate: a stack that starts at its top, on the 386 with the
\* address SWITCH returns to, and the values for ThreadRoot.
StackAllocate(m, t, arg) ==
  LET top == IF arch = "i386" THEN TopWord - 1 ELSE TopWord
      given == [PC |-> Code("ThreadRoot"), StartupPC |-> Code("InterruptEnable"),
                InitialPC |-> Code("func"), InitialArg |-> arg, WhenDonePC |-> Code("ThreadFinish")]
      Field(f) == MachineState(StateIndex(f))
      put == [o \in {Field(f) : f \in DOMAIN given} |-> given[CHOOSE f \in DOMAIN given : Field(f) = o]]
  IN [m EXCEPT !.object[t] = [put @@ @ EXCEPT ![0] = StackAt(t, top)],
               !.stack[StackAt(t, top)] = IF arch = "i386" THEN Code("ThreadRoot") ELSE @]

\* Thread::Fork, of a new object or one in the memory of a finished thread.
Fork(t, n) ==
  /\ at[running] = "initial"
  /\ t # running /\ at[t] \in {"none", "whenDone"}
  /\ machine' = StackAllocate(machine, t, Value(NoThread, "arg", n))
  /\ forkedWith' = [forkedWith EXCEPT ![t] = Value(NoThread, "arg", n)]
  /\ calls' = [calls EXCEPT ![t] = << >>]
  /\ Goes(t, "allocated")
  /\ UNCHANGED <<arch, running, expects, atCall>>

\* A function at work: it has its own values in the registers, and a frame.
Compute(n, depth) ==
  /\ at[running] = "initial"
  /\ LET own == [r \in Kept |-> IF r = Sp[arch] THEN StackAt(machine.regs[r][1], depth)
                                ELSE Value(running, r, n)]
     IN /\ machine' = [machine EXCEPT !.regs = own @@ [r \in Lost[arch] |-> Junk]]
        /\ expects' = [expects EXCEPT ![running] = own]
  /\ UNCHANGED <<arch, running, at, calls, forkedWith, atCall>>

\* The call of SWITCH(oldThread, newThread) in Scheduler::Run.
CallSwitch(m, old, new) ==
  CASE arch = "mips" -> [m EXCEPT !.regs["a0"] = Pointer(old), !.regs["a1"] = Pointer(new), !.regs["ra"] = Code("Run")]
    [] arch = "sparc" -> [m EXCEPT !.regs["o0"] = Pointer(old), !.regs["o1"] = Pointer(new), !.regs["o7"] = Code("Run")]
    [] arch = "snake" -> [m EXCEPT !.regs["arg0"] = Pointer(old), !.regs["arg1"] = Pointer(new), !.regs["rp"] = Code("Run")]
    [] arch = "i386" -> PushValue(PushValue(PushValue(m, Pointer(new)), Pointer(old)), Code("Run"))

\* SWITCH ends in Run of the new thread, which takes its arguments off the
\* stack, or in ThreadRoot, or goes astray.
SWITCH(new) ==
  /\ InFunction(running)
  /\ new # running
  /\ at[new] = "allocated" \/ at[new] \in {"startup", "initial"}
  /\ LET m == Execute(CallSwitch(machine, running, new), SwitchCode[arch])
         to == Target(m)
         back == IF arch = "i386" THEN Pop(m, IF to = Code("Run") THEN 3 ELSE 1) ELSE m
     IN /\ machine' = back
        /\ Goes(new, CASE to = Code("Run") -> IF at[new] = "allocated" THEN "astray" ELSE at[new]
                       [] to = Code("ThreadRoot") -> IF at[new] = "allocated" THEN "root" ELSE "astray"
                       [] OTHER -> "astray")
  /\ running' = new
  /\ UNCHANGED <<arch, calls, forkedWith, expects, atCall>>

----------------------------------------------------------------------------
\* ThreadRoot calls what is in a register; the function finds its arguments,
\* may use every register but keeps what it must, and works below the frame.
CallFrom(m, f, arg, place) ==
  LET entry == [m EXCEPT !.regs = [r \in Registers |->
                  IF r = Sp[arch] THEN Below(m.regs[r], 2) ELSE IF r \in Lost[arch] THEN Junk ELSE m.regs[r]]]
      kept(n) == [r \in Kept |-> n.regs[r]]
  IN /\ calls' = [calls EXCEPT ![running] = Append(@, <<m.regs[f], arg>>)]
     /\ atCall' = [atCall EXCEPT ![running] = kept(m)]
     /\ expects' = [expects EXCEPT ![running] = kept(entry)]
     /\ machine' = entry
     /\ Goes(running, place)
     /\ UNCHANGED <<arch, running, forkedWith>>

\* The function returns.
Returned == [machine EXCEPT !.regs = atCall[running] @@ [r \in Lost[arch] |-> Junk]]

CallStartup ==
  at[running] = "root" /\ CallFrom(Execute(machine, Root.enter), Root.startup, Junk, "startup")

CallInitial ==
  /\ at[running] = "startup"
  /\ LET m == Execute(Returned, Root.then) IN CallFrom(m, Root.initial, Get(m, Root.arg), "initial")

CallWhenDone ==
  /\ at[running] = "initial" /\ running # Main
  /\ CallFrom(Returned, Root.whenDone, Junk, "whenDone")

SwitchNext ==
  \/ \E t \in Threads, n \in Args : Fork(t, n)
  \/ \E n \in 1 .. MaxValue, depth \in {FirstWork, FirstWork - 1} : Compute(n, depth)
  \/ \E t \in Threads : SWITCH(t)
  \/ CallStartup
  \/ CallInitial
  \/ CallWhenDone

SwitchSpec == SwitchInit /\ [][SwitchNext]_switchVars

----------------------------------------------------------------------------
\* A thread that comes back from SWITCH finds its registers and its stack as it
\* left them, although others have run; a new one "enables interrupts, calls
\* (*func)(arg), calls Thread::Finish" (thread.cc:244), with the registers of
\* the machine it runs on, whatever was in its memory before.
ThreadsResume ==
  /\ at[running] # "astray"
  /\ InFunction(running) => \A r \in Kept : machine.regs[r] = expects[running][r]
  /\ \A t \in Threads :
       IsPrefix(calls[t], << <<Code("InterruptEnable"), Junk>>, <<Code("func"), forkedWith[t]>>,
                             <<Code("ThreadFinish"), Junk>> >>)

=============================================================================
