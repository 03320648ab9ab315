------------------------------ MODULE Machine ------------------------------
(***************************************************************************)
(* The simulated processor that every user thread shares                   *)
(* (machine/mipssim.cc, translate.cc, machine.cc): one register file, with *)
(* the delayed load as two more registers, one physical memory reached     *)
(* through the running thread's page table.  Threads are switched between  *)
(* any two instructions and inside system calls (threads/scheduler.cc).    *)
(* A program does not write its own text.  Of the system calls, those that *)
(* copy a buffer from or to user memory are modelled by what they copy.    *)
(***************************************************************************)
EXTENDS Words, Sequences, FiniteSets, SequencesExt

CONSTANTS
  Threads, Region, Answers, SC, threadArgs, Keys,   \* as in Isa
  PageSize, NumPhysPages

VARIABLES
  text,          \* the instruction in every word of physical memory, NoInstr in data
  registers,     \* the machine's registers
  userRegisters, \* what a thread that does not run has saved
  mainMemory,    \* physical bytes
  pageTable,     \* each thread's space
  currentThread,
  mode,          \* each thread: "user", "syscall" (in the handler) or "done"
  passed,        \* what the kernel has copied in for each thread
  halted         \* the cause that stopped the machine, or "no"

machineVars ==
  <<text, registers, userRegisters, mainMemory, pageTable, currentThread, mode, passed, halted>>

GPRegs == {"r0", "r1", "r2", "r3", "r4", "r5", "r31"}
OtherRegs == {"Hi", "Lo", "PC", "NextPC", "PrevPC", "Load", "LoadV", "BadV"}

\* An instruction's fields: code is the major one, low the minor one (the
\* function of a SPECIAL instruction, the rt of a BCOND one).  op is what the
\* assembler wrote: only Isa reads it.
NoInstr == [op |-> "RES", code |-> 63, low |-> 0, rs |-> "r0", rt |-> "r0", rd |-> "r0", extra |-> 0]

Reserved(n) == [k \in 1 .. n |-> "RES"]
NotImplemented(n) == [k \in 1 .. n |-> "UNIMP"]

\* opTable, by major field.
OpTable ==
  <<"SPECIAL", "BCOND", "J", "JAL", "BEQ", "BNE", "BLEZ", "BGTZ",
    "ADDI", "ADDIU", "SLTI", "SLTIU", "ANDI", "ORI", "XORI", "LUI">>
  \o NotImplemented(4) \o Reserved(12)
  \o <<"LB", "LH", "LWL", "LW", "LBU", "LHU", "LWR", "RES",
       "SB", "SH", "SWL", "SW", "RES", "RES", "SWR", "RES">>
  \o NotImplemented(4) \o Reserved(4) \o NotImplemented(4) \o Reserved(4)

\* specialTable, by function.
SpecialTable ==
  <<"SLL", "RES", "SRL", "SRA", "SLLV", "RES", "SRLV", "SRAV",
    "JR", "JALR", "RES", "RES", "SYSCALL", "UNIMP", "RES", "RES",
    "MFHI", "MTHI", "MFLO", "MTLO">> \o Reserved(4)
  \o <<"MULT", "MULTU", "DIV", "DIVU">> \o Reserved(4)
  \o <<"ADD", "ADDU", "SUB", "SUBU", "AND", "OR", "XOR", "NOR", "RES", "RES", "SLT", "SLTU">>
  \o Reserved(20)

\* Instruction::Decode: the immediate of an I format instruction is extended
\* with its sign.
JFormat == {"J", "JAL"}
Decode(raw) ==
  LET major == OpTable[raw.code + 1]
      op == CASE major = "SPECIAL" -> SpecialTable[raw.low + 1]
              [] major = "BCOND" -> CASE raw.low = 0 -> "BLTZ" [] raw.low = 1 -> "BGEZ"
                                      [] raw.low = 16 -> "BLTZAL" [] raw.low = 17 -> "BGEZAL"
                                      [] OTHER -> "UNIMP"
              [] OTHER -> major
      extra == IF major \in JFormat \cup {"SPECIAL"} THEN raw.extra ELSE SignExtend(raw.extra, Half)
  IN [op |-> op, rs |-> raw.rs, rt |-> raw.rt, rd |-> raw.rd, extra |-> extra]

----------------------------------------------------------------------------
Table == pageTable[currentThread]

\* Where the virtual address is, or the exception.
Translate(virtAddr, size, writing) ==
  LET vpn == virtAddr \div PageSize
      Fail(c) == [cause |-> c, phys |-> 0, vpn |-> 0]
  IN CASE size > 1 /\ virtAddr % size # 0 -> Fail("AddressError")
       [] vpn >= Len(Table) -> Fail("AddressError")
       [] ~Table[vpn + 1].valid -> Fail("PageFault")
       [] writing /\ Table[vpn + 1].readOnly -> Fail("ReadOnly")
       [] Table[vpn + 1].physicalPage >= NumPhysPages -> Fail("BusError")
       [] OTHER -> [ cause |-> "no", vpn |-> vpn,
                     phys |-> Table[vpn + 1].physicalPage * PageSize + (virtAddr % PageSize) ]

\* The use and dirty bits that the translations of an instruction set.
Marked(table, used, written) ==
  [p \in DOMAIN table |->
     [table[p] EXCEPT !.use = @ \/ p - 1 \in used, !.dirty = @ \/ p - 1 \in written]]

\* What an instruction comes to: an exception, or registers, the next pc, a
\* delayed load, a store, and the pages it touched.
NoStore == [at |-> 0, size |-> 0, value |-> 0]
Plain(r) == [ cause |-> "no", bad |-> 0, registers |-> r, after |-> Wrap(registers["NextPC"] + 4),
              load |-> "r0", loadValue |-> 0, store |-> NoStore, used |-> {}, written |-> {} ]
Raised(c, a) == [Plain(registers) EXCEPT !.cause = c, !.bad = a]
Set(r, x) == Plain([registers EXCEPT ![r] = x])

RS(i) == registers[i.rs]
RT(i) == registers[i.rt]
Differ(x, y) == Negative(x) # Negative(y)    \* (x ^ y) & SIGN_BIT

\* What a read comes to: the exception, or the value in mainMemory, which is
\* an array of signed char.
ReadMem(a, size) ==
  LET p == Translate(a, size, FALSE)
      v == Bytes(mainMemory, p.phys, size)
  IN [p EXCEPT !.phys = IF size = 1 THEN SignExtend(v, Byte) ELSE v]

\* The outcome of an instruction that reads and goes on with the value.
Reading(a, size, Then(_)) ==
  LET p == ReadMem(a, size)
      o == Then(p.phys)
  IN IF p.cause # "no" THEN Raised(p.cause, a) ELSE [o EXCEPT !.used = @ \cup {p.vpn}]

WriteMem(a, size, x) ==
  LET p == Translate(a, size, TRUE)
  IN IF p.cause # "no" THEN Raised(p.cause, a)
     ELSE [Plain(registers) EXCEPT !.store = [at |-> p.phys, size |-> size, value |-> x],
                                   !.used = {p.vpn}, !.written = {p.vpn}]

----------------------------------------------------------------------------
\* OP_ADD, OP_ADDI, OP_ADDIU, OP_ADDU
Add(i) ==
  LET immediate == i.op \in {"ADDI", "ADDIU"}
      b == IF immediate THEN i.extra ELSE RT(i)
      sum == Wrap(RS(i) + b)
      overflow == ~Differ(RS(i), b) /\ Differ(IF immediate THEN b ELSE RS(i), sum)
  IN IF i.op \in {"ADD", "ADDI"} /\ overflow THEN Raised("Overflow", 0)
     ELSE Set(IF immediate THEN i.rt ELSE i.rd, sum)

\* OP_SUB, OP_SUBU
Subtract(i) ==
  LET diff == Wrap(RS(i) - RT(i))
  IN IF i.op = "SUB" /\ Differ(RS(i), RT(i)) /\ Differ(RS(i), diff) THEN Raised("Overflow", 0)
     ELSE Set(i.rd, diff)

\* OP_AND, OP_ANDI
BitAnd(i) == IF i.op = "AND" THEN Set(i.rd, RS(i) & RT(i)) ELSE Set(i.rt, RS(i) & (i.extra % Half))

\* OP_NOR, OP_OR, OP_ORI.  OP_OR is written rs | rs.
BitOr(i) ==
  CASE i.op = "NOR" -> Set(i.rd, Inverted(RS(i) | RT(i)))
    [] i.op = "OR" -> Set(i.rd, RS(i) | RS(i))
    [] i.op = "ORI" -> Set(i.rt, RS(i) | (i.extra % Half))

\* OP_XOR, OP_XORI
BitXor(i) == IF i.op = "XOR" THEN Set(i.rd, RS(i) ^^ RT(i)) ELSE Set(i.rt, RS(i) ^^ (i.extra % Half))

\* OP_SLL, OP_SLLV
ShiftLeft(i) == Set(i.rd, Wrap(RT(i) * 2 ^ (IF i.op = "SLL" THEN i.extra ELSE RS(i) % WordBits)))

\* OP_SRA, OP_SRAV, OP_SRL, OP_SRLV: tmp is an int, so that SRL shifts in the sign.
ShiftRight(i) ==
  LET n == IF i.op \in {"SRA", "SRL"} THEN i.extra ELSE RS(i) % WordBits
  IN Set(i.rd, Wrap(Signed(RT(i)) \div 2 ^ n))

\* OP_SLT, OP_SLTI, OP_SLTIU, OP_SLTU
SetLess(i) ==
  LET b == IF i.op \in {"SLTI", "SLTIU"} THEN i.extra ELSE RT(i)
      less == IF i.op \in {"SLT", "SLTI"} THEN Signed(RS(i)) < Signed(b) ELSE RS(i) < b
  IN Set(IF i.op \in {"SLTI", "SLTIU"} THEN i.rt ELSE i.rd, IF less THEN 1 ELSE 0)

\* OP_DIV, OP_DIVU.  The host traps on the one quotient that does not fit.
Divide(i) ==
  LET Abs(x) == IF x < 0 THEN -x ELSE x
      a == IF i.op = "DIV" THEN Signed(RS(i)) ELSE RS(i)
      b == IF i.op = "DIV" THEN Signed(RT(i)) ELSE RT(i)
      q == Abs(a) \div Abs(b)
      r == Abs(a) % Abs(b)
  IN CASE b = 0 -> Plain([registers EXCEPT !["Lo"] = 0, !["Hi"] = 0])
       [] i.op = "DIV" /\ RS(i) = SignBit /\ b = -1 -> Raised("HostTrap", 0)
       [] OTHER -> Plain([registers EXCEPT !["Lo"] = Wrap(IF (a < 0) = (b < 0) THEN q ELSE -q),
                                           !["Hi"] = Wrap(IF a < 0 THEN -r ELSE r)])

\* Mult: add the shifted b for every bit of a, in double words of two halves.
\* a is an int, so that a >>= 1 keeps its sign.
MultLoop(a, b) ==
  LET Bit(s, k) ==
        IF s.stop THEN s
        ELSE LET odd == s.a % 2 = 1
                 lo == IF odd THEN Wrap(s.lo + s.bLo) ELSE s.lo
                 carry == IF odd /\ lo < s.bLo THEN 1 ELSE 0
             IN [ lo |-> lo,
                  hi |-> IF odd THEN Wrap(s.hi + carry + s.bHi) ELSE s.hi,
                  bHi |-> Wrap(2 * s.bHi) + (IF Negative(s.bLo) THEN 1 ELSE 0),
                  bLo |-> Wrap(2 * s.bLo),
                  a |-> Wrap(Signed(s.a) \div 2),
                  stop |-> odd /\ s.a <= 1 ]
  IN FoldLeft(Bit, [lo |-> 0, hi |-> 0, bHi |-> 0, bLo |-> b, a |-> a, stop |-> FALSE],
              [k \in 1 .. WordBits |-> k])

\* OP_MULT, OP_MULTU
Mult(i) ==
  LET signed == i.op = "MULT"
      Positive(x) == IF signed /\ Negative(x) THEN Wrap(-x) ELSE x
      negative == signed /\ Differ(RS(i), RT(i))
      p == MultLoop(Positive(RS(i)), Positive(RT(i)))
      lo == Wrap(Inverted(p.lo) + 1)
      result == IF negative
                THEN [lo |-> lo, hi |-> Wrap(Inverted(p.hi) + (IF lo = 0 THEN 1 ELSE 0))]
                ELSE [lo |-> p.lo, hi |-> p.hi]
  IN IF RS(i) = 0 \/ RT(i) = 0 THEN Plain([registers EXCEPT !["Lo"] = 0, !["Hi"] = 0])
     ELSE Plain([registers EXCEPT !["Lo"] = result.lo, !["Hi"] = result.hi])

\* OP_MFHI, OP_MFLO, OP_MTHI, OP_MTLO
MoveHiLo(i) ==
  CASE i.op = "MFHI" -> Set(i.rd, registers["Hi"])
    [] i.op = "MFLO" -> Set(i.rd, registers["Lo"])
    [] i.op = "MTHI" -> Set("Hi", RS(i))
    [] i.op = "MTLO" -> Set("Lo", RS(i))

\* OP_BEQ, OP_BGEZAL, OP_BGEZ, OP_BGTZ, OP_BLEZ, OP_BLTZAL, OP_BLTZ, OP_BNE.
\* The links are written before the condition is read.
Branch(i) ==
  LET links == i.op \in {"BGEZAL", "BLTZAL"}
      r == IF links THEN [registers EXCEPT !["r31"] = Wrap(registers["NextPC"] + 4)] ELSE registers
      a == Signed(r[i.rs])
      taken == CASE i.op = "BEQ" -> RS(i) = RT(i)
                 [] i.op = "BNE" -> RS(i) # RT(i)
                 [] i.op \in {"BGEZ", "BGEZAL"} -> a >= 0
                 [] i.op \in {"BLTZ", "BLTZAL"} -> a < 0
                 [] i.op = "BGTZ" -> a > 0
                 [] i.op = "BLEZ" -> a <= 0
  IN [Plain(r) EXCEPT !.after = IF taken THEN Wrap(registers["NextPC"] + 4 * i.extra) ELSE @]

\* OP_JAL, OP_J, OP_JALR, OP_JR
Jump(i) ==
  LET link == Wrap(registers["NextPC"] + 4)
      r == CASE i.op = "JAL" -> [registers EXCEPT !["r31"] = link]
             [] i.op = "JALR" -> [registers EXCEPT ![i.rd] = link]
             [] OTHER -> registers
  IN [Plain(r) EXCEPT !.after = IF i.op \in JFormat THEN (@ \div Region) * Region + 4 * i.extra ELSE r[i.rs]]

Address(i) == Wrap(RS(i) + i.extra)
DelayLoad(i, x) == [Plain(registers) EXCEPT !.load = i.rt, !.loadValue = x]

\* OP_LB, OP_LBU
LoadByte(i) ==
  LET Load(v) == DelayLoad(i, IF i.op = "LB" THEN SignExtend(v % Byte, Byte) ELSE v % Byte)
  IN Reading(Address(i), 1, Load)

\* OP_LH, OP_LHU
LoadHalf(i) ==
  LET Load(v) == DelayLoad(i, IF i.op = "LH" THEN SignExtend(v % Half, Half) ELSE v % Half)
  IN IF Address(i) % 2 # 0 THEN Raised("AddressError", Address(i)) ELSE Reading(Address(i), 2, Load)

\* OP_LW
LoadWord(i) ==
  LET Load(v) == DelayLoad(i, v)
  IN IF Address(i) % 4 # 0 THEN Raised("AddressError", Address(i)) ELSE Reading(Address(i), 4, Load)

\* OP_LWL, OP_LWR, which an ASSERT confines to aligned addresses: they merge
\* with the register's value after a load that is still delayed.
LoadPart(i) ==
  LET old == IF registers["Load"] = i.rt THEN registers["LoadV"] ELSE RT(i)
      Load(v) == DelayLoad(i, IF i.op = "LWL" THEN v ELSE (old - (old % Byte)) + v \div (Byte * Half))
  IN IF Address(i) % 4 # 0 THEN Raised("Assert", 0) ELSE Reading(Address(i), 4, Load)

\* OP_SB, OP_SH, OP_SW
Store(i) == WriteMem(Address(i), CASE i.op = "SB" -> 1 [] i.op = "SH" -> 2 [] i.op = "SW" -> 4, RT(i))

\* OP_SWL, OP_SWR: read the word, write it back with the register's part.
StorePart(i) ==
  LET Merge(v) ==
        WriteMem(Address(i), 4,
                 IF i.op = "SWL" THEN RT(i) ELSE Wrap(RT(i) * Byte * Half) + (v % (Byte * Half)))
  IN IF Address(i) % 4 # 0 THEN Raised("Assert", 0) ELSE Reading(Address(i), 4, Merge)

\* The switch of OneInstruction.
Outcome(i) ==
  CASE i.op \in {"ADD", "ADDI", "ADDIU", "ADDU"} -> Add(i)
    [] i.op \in {"SUB", "SUBU"} -> Subtract(i)
    [] i.op \in {"AND", "ANDI"} -> BitAnd(i)
    [] i.op \in {"NOR", "OR", "ORI"} -> BitOr(i)
    [] i.op \in {"XOR", "XORI"} -> BitXor(i)
    [] i.op \in {"SLL", "SLLV"} -> ShiftLeft(i)
    [] i.op \in {"SRA", "SRAV", "SRL", "SRLV"} -> ShiftRight(i)
    [] i.op \in {"SLT", "SLTI", "SLTIU", "SLTU"} -> SetLess(i)
    [] i.op = "LUI" -> Set(i.rt, Wrap(i.extra * Half))
    [] i.op \in {"DIV", "DIVU"} -> Divide(i)
    [] i.op \in {"MULT", "MULTU"} -> Mult(i)
    [] i.op \in {"MFHI", "MFLO", "MTHI", "MTLO"} -> MoveHiLo(i)
    [] i.op \in {"BEQ", "BNE", "BGEZ", "BGEZAL", "BLTZ", "BLTZAL", "BGTZ", "BLEZ"} -> Branch(i)
    [] i.op \in {"J", "JAL", "JR", "JALR"} -> Jump(i)
    [] i.op \in {"LB", "LBU"} -> LoadByte(i)
    [] i.op \in {"LH", "LHU"} -> LoadHalf(i)
    [] i.op = "LW" -> LoadWord(i)
    [] i.op \in {"LWL", "LWR"} -> LoadPart(i)
    [] i.op \in {"SB", "SH", "SW"} -> Store(i)
    [] i.op \in {"SWL", "SWR"} -> StorePart(i)
    [] i.op = "SYSCALL" -> Raised("Syscall", 0)
    [] i.op \in {"RES", "UNIMP"} -> Raised("IllegalInstr", 0)

----------------------------------------------------------------------------
\* DelayedLoad: the load of the instruction before takes effect, this one's waits.
DelayedLoad(r, nextReg, nextValue) ==
  [[r EXCEPT ![r["Load"]] = r["LoadV"]] EXCEPT !["Load"] = nextReg, !["LoadV"] = nextValue, !["r0"] = 0]

Advance(r, after) == [r EXCEPT !["PrevPC"] = r["PC"], !["PC"] = r["NextPC"], !["NextPC"] = after]

\* What the fetched instruction comes to, with the page of the fetch.
This ==
  LET f == Translate(registers["PC"], 4, FALSE)
      o == Outcome(Decode(text[f.phys \div 4]))
  IN IF f.cause # "no" THEN Raised(f.cause, registers["PC"]) ELSE [o EXCEPT !.used = @ \cup {f.vpn}]

Running == halted = "no" /\ mode[currentThread] = "user"

\* OneInstruction of an instruction that succeeds.
OneInstruction ==
  /\ Running
  /\ This.cause = "no"
  /\ registers' = Advance(DelayedLoad(This.registers, This.load, This.loadValue), This.after)
  /\ mainMemory' = WithBytes(mainMemory, This.store.at, This.store.size, This.store.value)
  /\ pageTable' = [pageTable EXCEPT ![currentThread] = Marked(@, This.used, This.written)]
  /\ UNCHANGED <<text, userRegisters, currentThread, mode, passed, halted>>

\* RaiseException: what is in progress is finished, then the kernel runs.
\* ExceptionHandler halts the machine on everything but a system call.
RaiseException ==
  /\ Running
  /\ This.cause # "no"
  /\ registers' = DelayedLoad([registers EXCEPT !["BadV"] = This.bad], "r0", 0)
  /\ pageTable' = [pageTable EXCEPT ![currentThread] = Marked(@, This.used, This.written)]
  /\ IF This.cause = "Syscall"
     THEN mode' = [mode EXCEPT ![currentThread] = "syscall"] /\ UNCHANGED halted
     ELSE halted' = This.cause /\ UNCHANGED mode
  /\ UNCHANGED <<text, userRegisters, mainMemory, currentThread, passed>>

----------------------------------------------------------------------------
\* The system call with one of these codes in r2.
InCall(codes) ==
  /\ halted = "no" /\ mode[currentThread] = "syscall" /\ registers["r2"] \in codes

\* The end of ExceptionHandler: the answer goes to r2 and the pc past the call.
Returns(rv) ==
  /\ registers' = [registers EXCEPT !["r2"] = rv, !["PrevPC"] = registers["PC"],
                                    !["PC"] = registers["NextPC"],
                                    !["NextPC"] = Wrap(registers["NextPC"] + 4)]
  /\ mode' = [mode EXCEPT ![currentThread] = "user"]
  /\ UNCHANGED <<text, userRegisters, currentThread, halted>>

\* The calls whose effects are not on user memory.
SyscallReturns ==
  /\ InCall((0 .. Word - 1) \ {SC.Exit, SC.Create, SC.PrintString, SC.PrintNum, SC.Read, SC.GetThreadArgs})
  /\ \E rv \in Answers : Returns(rv)
  /\ UNCHANGED <<mainMemory, pageTable, passed>>

GetThreadArgs ==
  /\ InCall({SC.GetThreadArgs})
  /\ Returns(threadArgs[currentThread])
  /\ UNCHANGED <<mainMemory, pageTable, passed>>

\* copyin and copyout go byte by byte through ReadMem and WriteMem, which
\* translate every address.
Length == registers["r5"]
UserByte(k, writing) == Translate(Wrap(registers["r4"] + k - 1), 1, writing)
Accessible(n, writing) == \A k \in 1 .. n : UserByte(k, writing).cause = "no"
PagesOf(n, writing) == {UserByte(k, writing).vpn : k \in 1 .. n}

copyin(n) == [k \in 1 .. n |-> mainMemory[UserByte(k, FALSE).phys]]

copyout(n, buf) ==
  /\ mainMemory' = [a \in DOMAIN mainMemory |->
                      IF \E k \in 1 .. n : UserByte(k, TRUE).phys = a
                      THEN buf[CHOOSE k \in 1 .. n : UserByte(k, TRUE).phys = a] ELSE mainMemory[a]]
  /\ pageTable' = [pageTable EXCEPT ![currentThread] = Marked(@, PagesOf(n, TRUE), PagesOf(n, TRUE))]

\* The kernel has the buffer of the call.
GivesBuffer(code) ==
  /\ InCall({code}) /\ Accessible(Length, FALSE)
  /\ passed' = [passed EXCEPT ![currentThread] = Append(@, <<code, copyin(Length)>>)]
  /\ pageTable' = [pageTable EXCEPT ![currentThread] = Marked(@, PagesOf(Length, FALSE), {})]
  /\ Returns(0)
  /\ UNCHANGED mainMemory

CreateFile == GivesBuffer(SC.Create)
PrintOut == GivesBuffer(SC.PrintString)

PrintNum ==
  /\ InCall({SC.PrintNum})
  /\ passed' = [passed EXCEPT ![currentThread] = Append(@, <<SC.PrintNum, << registers["r4"] >> >>)]
  /\ Returns(0)
  /\ UNCHANGED <<mainMemory, pageTable>>

\* Read_Syscall, from the console: what is typed.
Read ==
  /\ InCall({SC.Read}) /\ Accessible(Length, TRUE)
  /\ \E buf \in [1 .. Length -> Keys] : copyout(Length, buf)
  /\ Returns(Length)
  /\ UNCHANGED passed

\* A byte that cannot be translated: RaiseException halts the machine inside
\* the call, so that neither copyin's loop goes on nor copyout returns -1.
CopyFaults ==
  /\ InCall({SC.Create, SC.PrintString, SC.Read})
  /\ LET writing == registers["r2"] = SC.Read IN
     \E n \in 0 .. Length - 1 :
       /\ Accessible(n, writing) /\ UserByte(n + 1, writing).cause # "no"
       /\ halted' = UserByte(n + 1, writing).cause
       /\ IF writing THEN \E buf \in [1 .. n -> Keys] : copyout(n, buf)
                     ELSE UNCHANGED <<mainMemory, pageTable>>
       /\ registers' = [registers EXCEPT !["BadV"] = Wrap(registers["r4"] + n)]
  /\ UNCHANGED <<text, userRegisters, currentThread, mode, passed>>

----------------------------------------------------------------------------
\* Mutant of SwitchTo: Hi and Lo stay in the machine.
SwitchLeavesHiLo(t, r) ==
  /\ userRegisters' = [userRegisters EXCEPT ![currentThread] = r]
  /\ currentThread' = t
  /\ registers' = [userRegisters[t] EXCEPT !["Hi"] = r["Hi"], !["Lo"] = r["Lo"]]

\* Scheduler::Run with SaveUserState and RestoreUserState.
SwitchTo(t, r) ==
  /\ userRegisters' = [userRegisters EXCEPT ![currentThread] = r]
  /\ currentThread' = t
  /\ registers' = userRegisters[t]

\* Exit_sys: the thread finishes, another runs.
ThreadExits ==
  /\ InCall({SC.Exit})
  /\ mode' = [mode EXCEPT ![currentThread] = "done"]
  /\ UNCHANGED <<text, registers, userRegisters, mainMemory, pageTable, currentThread, passed, halted>>

\* An interrupt between two instructions, or in the kernel: CheckIfDue finishes
\* the load in progress before it calls the handler.
DeviceInterrupt ==
  /\ halted = "no" /\ mode[currentThread] # "done"
  /\ registers["Load"] # "r0"
  /\ registers' = DelayedLoad(registers, "r0", 0)
  /\ UNCHANGED <<text, userRegisters, mainMemory, pageTable, currentThread, mode, passed, halted>>

\* The thread loses the processor: its time slice ends, its system call
\* sleeps or yields, or it has finished.
Switch(t) ==
  /\ halted = "no" /\ t # currentThread /\ mode[t] # "done"
  /\ SwitchTo(t, DelayedLoad(registers, "r0", 0))
  /\ UNCHANGED <<text, mainMemory, pageTable, mode, passed, halted>>

MachineNext ==
  \/ OneInstruction
  \/ RaiseException
  \/ SyscallReturns
  \/ GetThreadArgs
  \/ CreateFile
  \/ PrintOut
  \/ PrintNum
  \/ Read
  \/ CopyFaults
  \/ ThreadExits
  \/ DeviceInterrupt
  \/ \E t \in Threads : Switch(t)

----------------------------------------------------------------------------
\* Machine::Machine and AddrSpace: every thread's program from virtual address
\* 0 on, its data in the pages after it, its registers 0 but for the arguments.
Phys(frames, a) == frames[a \div PageSize + 1] * PageSize + (a % PageSize)

StartRegisters(p) ==
  [r \in GPRegs \cup OtherRegs |->
     CASE r = "NextPC" -> 4 [] r = "Load" -> "r0" [] r \in DOMAIN p.args -> p.args[r] [] OTHER -> 0]

\* f, with the values of q at the physical addresses of thread t's addresses from a on.
RECURSIVE Loaded(_, _, _, _, _)
Loaded(f, q, frames, a, step) ==
  IF q = << >> THEN f
  ELSE Loaded([f EXCEPT ![Phys(frames, a) \div step] = Head(q)], Tail(q), frames, a + step, step)

DataStart(p) == ((Len(p.text) * 4 + PageSize - 1) \div PageSize) * PageSize

MachineInit(p) ==    \* p[t]: text, data, frames and args of every thread
  LET Order == SetToSeq(Threads)
      MemorySize == NumPhysPages * PageSize
      PutText(f, t) == Loaded(f, p[t].text, p[t].frames, 0, 4)
      PutData(f, t) == Loaded(f, p[t].data, p[t].frames, DataStart(p[t]), 1)
  IN /\ text = FoldLeft(PutText, [w \in 0 .. MemorySize \div 4 - 1 |-> NoInstr], Order)
     /\ mainMemory = FoldLeft(PutData, [a \in 0 .. MemorySize - 1 |-> 0], Order)
     /\ pageTable = [t \in Threads |-> [k \in DOMAIN p[t].frames |->
          [physicalPage |-> p[t].frames[k], valid |-> TRUE, readOnly |-> FALSE, use |-> FALSE, dirty |-> FALSE]]]
     /\ userRegisters = [t \in Threads |-> StartRegisters(p[t])]
     /\ currentThread \in Threads
     /\ registers = userRegisters[currentThread]
     /\ mode = [t \in Threads |-> IF p[t].text = << >> THEN "done" ELSE "user"]    \* no such thread
     /\ passed = [t \in Threads |-> << >>]
     /\ halted = "no"

----------------------------------------------------------------------------
\* The registers a thread has, those of the running one in the machine, with
\* the delayed load done.
Own(t) == DelayedLoad(IF t = currentThread THEN registers ELSE userRegisters[t], "r0", 0)
SpaceOf(t) == 0 .. Len(pageTable[t]) * PageSize - 1
Physical(t, a) == pageTable[t][a \div PageSize + 1].physicalPage * PageSize + (a % PageSize)

CpuOf(t) == [ reg |-> [r \in GPRegs |-> Own(t)[r]], hi |-> Own(t)["Hi"], lo |-> Own(t)["Lo"],
              pc |-> Own(t)["PC"], npc |-> Own(t)["NextPC"] ]
TextOf(t) == [k \in 1 .. (Len(pageTable[t]) * PageSize) \div 4 |-> text[Physical(t, 4 * (k - 1)) \div 4]]
RamOf(t) == [a \in SpaceOf(t) |-> mainMemory[Physical(t, a)]]
OverOf(t) ==
  IF halted # "no" /\ t = currentThread THEN halted
  ELSE IF halted # "no" \/ mode[t] = "done" THEN "done" ELSE "no"

Ideal == INSTANCE Isa WITH
  text <- [t \in Threads |-> TextOf(t)], cpu <- [t \in Threads |-> CpuOf(t)],
  ram <- [t \in Threads |-> RamOf(t)], over <- [t \in Threads |-> OverOf(t)]

\* Every thread computes what it would compute alone, on a processor and a
\* memory of its own: whatever instruction an interrupt or a switch falls
\* after, whichever calls sleep in the kernel, the delayed load, Hi and Lo, the
\* pc pair and the pages of one thread are never those of another.
RunsAsIfAlone == Ideal!Spec

\* OR writes what its operands hold: "OR r%d,r%d,r%d" with {RD, RS, RT}
\* (mipssim.h, opStrings).
OrTakesBothRegisters ==
  [][ LET i == Decode(text[Translate(registers["PC"], 4, FALSE).phys \div 4])
      IN OneInstruction /\ i.op = "OR" /\ i.rd # registers["Load"]
           => registers'[i.rd] = RS(i) | RT(i) ]_machineVars

=============================================================================
