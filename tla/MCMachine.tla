----------------------------- MODULE MCMachine -----------------------------
(* Programs, in parts that do not touch each other.                        *)
(* "nachos": two threads with programs of loops, loads, calls and faults,  *)
(* or one instruction on chosen operands; "execute": the same instructions *)
(* in bin/execute.c.  Words have 8 bits.  The run leaves out the cases     *)
(* where the code is known not to be an R2000 (KnownNachos, KnownExecute). *)
(* "object": the object files that the two linker scripts make, of         *)
(* segments with every relation to a page of four bytes, the last byte of  *)
(* the data missing or not, on every set of free frames.                   *)
(* "disk": three names, two directory entries, five sectors for files, so  *)
(* that the directory and the disk both fill up.  Sectors of four bytes    *)
(* are written and read three bytes at a time.                             *)
(* "table": the table of open files of a process with three threads, two   *)
(* slots beside the console.                                               *)
(* "suite": the test suite, with two waiters.                              *)
(* "switch": two threads that switch, on each of the four machines.        *)
EXTENDS Machine, Execute, ObjectFiles, FileSystem, FileTable, TestThreads, TLC

CONSTANTS
  t1, t2, t3,
  Excused(_, _, _)    \* the instructions and operands that the run leaves out

VARIABLE part

\* The major and the minor field of every instruction, from the R2000's manual.
Major ==
  [J |-> 2, JAL |-> 3, BEQ |-> 4, BNE |-> 5, BLEZ |-> 6, BGTZ |-> 7, ADDI |-> 8, ADDIU |-> 9,
   SLTI |-> 10, SLTIU |-> 11, ANDI |-> 12, ORI |-> 13, XORI |-> 14, LUI |-> 15, LB |-> 32, LH |-> 33,
   LWL |-> 34, LW |-> 35, LBU |-> 36, LHU |-> 37, LWR |-> 38, SB |-> 40, SH |-> 41, SWL |-> 42,
   SW |-> 43, SWR |-> 46, BLTZ |-> 1, BGEZ |-> 1, BLTZAL |-> 1, BGEZAL |-> 1, UNIMP |-> 17, RES |-> 24]
Minor ==
  [SLL |-> 0, SRL |-> 2, SRA |-> 3, SLLV |-> 4, SRLV |-> 6, SRAV |-> 7, JR |-> 8, JALR |-> 9,
   SYSCALL |-> 12, MFHI |-> 16, MTHI |-> 17, MFLO |-> 18, MTLO |-> 19, MULT |-> 24, MULTU |-> 25,
   DIV |-> 26, DIVU |-> 27, ADD |-> 32, ADDU |-> 33, SUB |-> 34, SUBU |-> 35, AND |-> 36, OR |-> 37,
   XOR |-> 38, NOR |-> 39, SLT |-> 42, SLTU |-> 43, BLTZ |-> 0, BGEZ |-> 1, BLTZAL |-> 16, BGEZAL |-> 17]
Field(fields, op) == IF op \in DOMAIN fields THEN fields[op] ELSE 0
I(op, d, s, t, x) ==
  [op |-> op, code |-> Field(Major, op), low |-> Field(Minor, op), rd |-> d, rs |-> s, rt |-> t, extra |-> x]
R3(op, d, s, t) == I(op, d, s, t, 0)
Im(op, t, s, x) == I(op, "r0", s, t, x)
Nop == R3("SLL", "r0", "r0", "r0")
Exiting == << Im("ADDIU", "r2", "r0", 1), R3("SYSCALL", "r0", "r0", "r0") >>

\* Adds up the words from r4 on while they are not 0, stores the sum after them.
Adder == << Im("LW", "r1", "r4", 0), Im("ADDIU", "r4", "r4", 4), R3("ADDU", "r3", "r3", "r1"),
            Im("BGTZ", "r0", "r1", 12), R3("MTLO", "r0", "r3", "r0"),
            R3("MFLO", "r1", "r0", "r0"), Im("SW", "r1", "r4", 0) >> \o Exiting

\* Calls the kernel, multiplies what it answers, stores by halves and bytes.
Caller == << Im("ADDIU", "r2", "r0", 2), I("SYSCALL", "r0", "r0", "r0", 0), R3("MULT", "r0", "r2", "r4"),
             I("JAL", "r0", "r0", "r0", 8), R3("MFLO", "r1", "r0", "r0") >> \o Exiting
          \o << Nop, Im("SB", "r1", "r4", 0), R3("JR", "r0", "r31", "r0"), Im("SH", "r1", "r4", 2) >>

\* Loads, and stores where its space ends.
Faulty == << Im("LW", "r1", "r4", 0), Im("LWL", "r1", "r4", 0), Nop, Im("SW", "r1", "r1", 0) >> \o Exiting

P(text_, data_, frames_, args_) == [text |-> text_, data |-> data_, frames |-> frames_, args |-> args_]

\* Reads what is typed, passes it on with the call in r3, then a buffer that
\* ends outside its space with the call in r31.
Talker == << Im("ADDIU", "r2", "r0", 6), R3("SYSCALL", "r0", "r0", "r0"),
             R3("ADDU", "r2", "r3", "r0"), R3("SYSCALL", "r0", "r0", "r0"),
             R3("ADDU", "r4", "r4", "r1"), R3("ADDU", "r2", "r31", "r0"),
             R3("SYSCALL", "r0", "r0", "r0"), Nop >>
Talk(first, last, pages) ==
  P(Talker, << >>, pages, "r4" :> 47 @@ "r5" :> 2 @@ "r1" :> 16 @@ "r3" :> first @@ "r31" :> last)

\* Prints its argument.
Teller == << Im("ADDIU", "r2", "r0", 7), R3("SYSCALL", "r0", "r0", "r0"), R3("ADDU", "r4", "r2", "r0"),
             Im("ADDIU", "r2", "r0", 5), R3("SYSCALL", "r0", "r0", "r0") >> \o Exiting
SystemCalls == [Exit |-> 1, PrintString |-> 3, Create |-> 4, PrintNum |-> 5, Read |-> 6, GetThreadArgs |-> 7]
Given == t1 :> 9 @@ t2 :> 77

Words4(n) == << n, 0, 0, 0 >>

Pairs ==
  { t1 :> P(Adder, Words4(3) \o << 1, 2, 0, 0 >> \o Words4(0) \o Words4(0), <<2, 0, 5, 7>>, "r4" :> 48)
      @@ t2 :> P(Caller, Words4(1) \o Words4(0), <<6, 1, 3, 4>>, "r4" :> 48),
    t1 :> P(Adder, Words4(0) \o Words4(0), <<2, 0, 5, 7>>, "r4" :> 48)
      @@ t2 :> P(Faulty, << 0, 0, 0, 1 >>, <<6, 1, 4>>, "r4" :> 32),
    t1 :> Talk(3, 6, <<2, 0, 5, 3>>) @@ t2 :> P(Teller, << >>, <<6, 1>>, "r4" :> 0),
    t1 :> P(Teller, << >>, <<2, 0>>, "r4" :> 0) @@ t2 :> Talk(4, 3, <<6, 1, 5, 3>>) }

----------------------------------------------------------------------------
\* One instruction, on r1 and r3, with a word of data at 32.
Operands == {0, 1, 3, 31, 127, 128, 255}
Ops3 == {"ADD", "ADDU", "SUB", "SUBU", "AND", "OR", "XOR", "NOR", "SLT", "SLTU",
         "SLLV", "SRAV", "SRLV", "MULT", "MULTU", "DIV", "DIVU"}
OpsImm == {"ADDI", "ADDIU", "ANDI", "ORI", "XORI", "SLTI", "SLTIU", "LUI"}
OpsShift == {"SLL", "SRA", "SRL"}
OpsBranch == {"BEQ", "BNE", "BGEZ", "BGEZAL", "BLTZ", "BLTZAL", "BGTZ", "BLEZ"}
OpsMem == {"LB", "LBU", "LH", "LHU", "LW", "LWL", "LWR", "SB", "SH", "SW", "SWL", "SWR"}

Single(instr, a, b, m) ==
  P(<< instr, Nop, R3("MFHI", "r31", "r0", "r0") >> \o Exiting \o << Nop, Nop, Nop >>, m, <<1, 0, 2>>,
    ("r1" :> a) @@ ("r3" :> b) @@ ("r4" :> 40))

Singles ==
  {Single(R3(op, "r4", "r1", "r3"), a, b, << >>) : op \in Ops3, a, b \in Operands}
  \cup {Single(Im(op, "r3", "r1", k), a, 0, << >>) : op \in OpsImm, a \in Operands, k \in {0, 1, 7, 8, 15}}
  \cup {Single(I(op, "r4", "r0", "r3", k), 0, b, << >>) : op \in OpsShift, b \in Operands, k \in {0, 1, 7}}
  \cup {Single(Im(op, "r3", "r1", 3), a, b, << >>) : op \in OpsBranch, a, b \in {0, 1, 127, 128, 255}}
  \cup {Single(Im(op, "r3", "r1", k), a, 198, << 2, 1, 3, 2 >>) : op \in OpsMem, a \in {32, 33, 47, 48}, k \in {0, 1, 2, 4, 15}}
  \cup {Single(R3(op, "r4", "r1", "r3"), 12, 0, << >>) : op \in {"JALR", "JR", "MTHI", "MTLO", "RES", "UNIMP"}}
  \cup {Single(I(op, "r0", "r0", "r0", 3), 0, 0, << >>) : op \in {"J", "JAL"}}

\* OP_OR drops rt, OP_SRL and OP_SRLV shift in the sign, OP_DIV traps the host on
\* the one quotient that does not fit, unaligned OP_LWL and the like abort.
Small(w) == w < Half
KnownNachos(i, a, b) ==
  \/ i.op = "OR" /\ (a | b) # a
  \/ i.op \in {"SRL", "SRLV"} /\ Negative(b)
  \/ i.op = "DIV" /\ a = SignBit /\ b = 255
  \/ i.op \in {"LWL", "LWR", "SWL", "SWR"} /\ (a + i.extra) % 4 # 0

\* execute.c: no traps, immediates always extended, carries of a product
\* dropped, the other end of a word in I_LWR, no I_SWL.
KnownExecute(i, a, b) ==
  \/ i.op \in {"ADD", "ADDI", "SUB", "LWL", "LWR", "SWL", "SWR"}
  \/ i.op \in {"ANDI", "ORI", "XORI"} /\ i.extra >= 8
  \/ i.op \in {"MULT", "MULTU"} /\ ~(Small(a) /\ Small(b))
  \/ i.op \in {"LB", "LBU", "LH", "LHU", "LW", "SB", "SH", "SW"}
       /\ LET n == IF i.op \in {"LW", "SW"} THEN 4 ELSE IF i.op \in {"LH", "LHU", "SH"} THEN 2 ELSE 1
              x == a + SignExtend(i.extra, Half) - (IF i.extra >= 8 THEN Word ELSE 0)
          IN x % n # 0 \/ x + n > 48
  \/ i.op \in {"DIV", "DIVU"} /\ b = 0
  \/ i.op = "DIV" /\ a = SignBit /\ b = 255
  \/ i.op \in {"SLLV", "SRAV", "SRLV"} /\ a >= WordBits

\* Everything but OR.
AllButOr(i, a, b) == i.op # "OR"

Tested(known(_, _, _)) == {p \in Singles : ~known(p.text[1], p.args["r1"], p.args["r3"])}

----------------------------------------------------------------------------
Part(name, addr, n, lost) == [name |-> name, paddr |-> addr, size |-> n, there |-> n - lost]
Coff(known, sections) == [mipsel |-> known, omagic |-> known, sections |-> sections]

\* The layouts of test/script and test/newscript.
Linked(text_, rdata, data, sbss, bss, lost) ==
  << Part(".text", 0, text_, 0), Part(".rdata", text_, rdata, 0),
     Part(".data", text_ + rdata, data, IF data > 0 THEN lost ELSE 0),
     Part(".sbss", text_ + rdata + data, sbss, 0),
     Part(".bss", text_ + rdata + data + sbss, bss, 0) >>
Programs ==
  {Coff(TRUE, Linked(t, r, d, s, b, l)) :
     t \in {1, 4, 5}, r \in {0, 2}, d \in {0, 3}, s \in {0, 1}, b \in {0, 4}, l \in {0, 1}}
  \cup {Coff(FALSE, Linked(1, 0, 1, 0, 0, 0)),
        Coff(TRUE, Append(Linked(3, 0, 1, 0, 0, 0), Part(".comment", 4, 1, 0)))}

OnUnix == {<<1, 2, 3, 4, 5, 6>>, <<7>>}
AChunk == <<9, 9, 9>>

----------------------------------------------------------------------------
VARIABLES
  suiteThread, status, readyList, threadToBeDestroyed, started, deleted, suiteHalted,
  lockStatus, lockOwner, lockQueue, waitingLock, condQueue, pc, argLock, argCond,
  semValue, semQueue, inP, pending, posted, taken, place, slices

CONSTANTS NoLock, NoCond, NoSem, MaxSlices

NoUnits == [s \in SuiteSems |-> 0]
Suite == INSTANCE TestSuite
           WITH Threads <- SuiteThreads, Main <- One("TestSuite"), Locks <- SuiteLocks,
                Conds <- SuiteConds, Sems <- SuiteSems, InitialValue <- NoUnits,
                MaxV <- 0, MaxInterrupts <- NoUnits,
                currentThread <- suiteThread, halted <- suiteHalted
suiteVars ==
  <<suiteThread, status, readyList, threadToBeDestroyed, started, deleted, suiteHalted,
    lockStatus, lockOwner, lockQueue, waitingLock, condQueue, pc, argLock, argCond,
    semValue, semQueue, inP, pending, posted, taken, place, slices>>

----------------------------------------------------------------------------
VARIABLES arch, machine, switchRunning, switchAt, calls, forkedWith, expects, atCall

Switches == INSTANCE ContextSwitch
              WITH Threads <- {t1, t2}, Main <- t1, Args <- {1}, MaxValue <- 1,
                   NoThread <- NoThread, running <- switchRunning, at <- switchAt
switchVars == <<arch, machine, switchRunning, switchAt, calls, forkedWith, expects, atCall>>

----------------------------------------------------------------------------
\* A part that does not run stays in one state.
None == P(<< >>, << >>, <<7>>, "r2" :> 0)
NoMachine == MachineInit((t1 :> None) @@ (t2 :> None)) /\ currentThread = t1
NoExecute == ExecuteInit([text |-> << >>, args |-> << >>, memory |-> << >>])
NoObject == coff = Coff(FALSE, << >>) /\ loader = "coff2flat" /\ ObjectsBegin

XMemory(p) == [a \in 0 .. 47 |-> IF a >= 32 /\ a - 31 \in DOMAIN p.data THEN p.data[a - 31] ELSE 0]
Init ==
  /\ FsInit /\ FileInit /\ Suite!SuiteInit /\ Switches!SwitchInit
  /\ \/ /\ part = "nachos"
        /\ \E p \in Pairs \cup {(t1 :> q) @@ (t2 :> None) : q \in Tested(Excused)} : MachineInit(p)
        /\ currentThread = t1
        /\ NoExecute /\ NoObject
     \/ /\ part = "execute"
        /\ \E p \in Tested(KnownExecute) :
             ExecuteInit([text |-> p.text, args |-> p.args, memory |-> XMemory(p)])
        /\ NoMachine /\ NoObject
     \/ /\ part = "object"
        /\ ObjectInit
        /\ NoMachine /\ NoExecute
     \/ /\ part \in {"disk", "table", "suite", "switch"}
        /\ NoMachine /\ NoExecute /\ NoObject
  /\ part # "switch" => arch = "mips"

Next ==
  \/ part = "nachos" /\ MachineNext
       /\ UNCHANGED <<executeVars, objectVars, fsVars, fileVars, suiteVars, switchVars, part>>
  \/ part = "execute" /\ ExecuteNext
       /\ UNCHANGED <<machineVars, objectVars, fsVars, fileVars, suiteVars, switchVars, part>>
  \/ part = "object" /\ ObjectNext
       /\ UNCHANGED <<machineVars, executeVars, fsVars, fileVars, suiteVars, switchVars, part>>
  \/ part = "disk" /\ FsNext
       /\ UNCHANGED <<machineVars, executeVars, objectVars, fileVars, suiteVars, switchVars, part>>
  \/ part = "table" /\ FileNext
       /\ UNCHANGED <<machineVars, executeVars, objectVars, fsVars, suiteVars, switchVars, part>>
  \/ part = "suite" /\ Suite!SuiteNext
       /\ UNCHANGED <<machineVars, executeVars, objectVars, fsVars, fileVars, switchVars, part>>
  \/ part = "switch" /\ Switches!SwitchNext
       /\ UNCHANGED <<machineVars, executeVars, objectVars, fsVars, fileVars, suiteVars, part>>

Spec == Init /\ [][Next]_<<machineVars, executeVars, objectVars, fsVars, fileVars, suiteVars, switchVars, part>>

SuiteComesOut == part = "suite" => Suite!SuiteComesOut
ThreadsResume == Switches!ThreadsResume
=============================================================================
