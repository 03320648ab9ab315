-------------------------------- MODULE Isa --------------------------------
(***************************************************************************)
(* The R2000's user-level instructions, as its architecture defines them,  *)
(* in arithmetic: what a program computes when it runs on a processor and  *)
(* a memory of its own.  Loads take effect at once (a program must not use *)
(* the register of a load in the instruction after it), branches have      *)
(* their delay slot.  The kernel answers a system call in r2; the bytes of *)
(* a buffer go in and out at once.  Interrupts, address translation and    *)
(* the other threads are not visible here.                                 *)
(***************************************************************************)
EXTENDS Words, Sequences

CONSTANTS
  Threads, Region, \* addresses a jump cannot leave
  Answers,         \* what a system call that is not modelled may return
  SC,              \* the codes of the others in r2
  threadArgs,      \* what each thread has been given
  Keys             \* what can be typed

VARIABLES
  text,    \* each thread's program
  cpu,     \* each thread's processor: [reg, hi, lo, pc, npc]
  ram,     \* each thread's memory, by virtual address
  passed,  \* what the kernel has been given by each thread: names and output
  over     \* "done" for a thread that has ended, the cause of a trap, or "no"

isaVars == <<text, cpu, ram, passed, over>>

Imm(i) == SignExtend(i.extra, Half)
Addr(i, s) == Wrap(s.reg[i.rs] + Imm(i))
Width(i) == CASE i.op \in {"LB", "LBU", "SB"} -> 1 [] i.op \in {"LH", "LHU", "SH"} -> 2 [] OTHER -> 4
Aligned(a, n) == a % n = 0

Loads == {"LB", "LBU", "LH", "LHU", "LW", "LWL", "LWR"}
Stores == {"SB", "SH", "SW", "SWL", "SWR"}

\* What an instruction puts in a register, before it is cut to a word.
Exact(i, s, m) ==
  LET a == s.reg[i.rs]
      b == s.reg[i.rt]
      x == Addr(i, s)
  IN CASE i.op \in {"ADD", "ADDU"} -> Signed(a) + Signed(b)
       [] i.op \in {"ADDI", "ADDIU"} -> Signed(a) + Signed(Imm(i))
       [] i.op \in {"SUB", "SUBU"} -> Signed(a) - Signed(b)
       [] i.op = "AND" -> a & b
       [] i.op = "ANDI" -> a & i.extra
       [] i.op = "OR" -> a | b
       [] i.op = "ORI" -> a | i.extra
       [] i.op = "XOR" -> a ^^ b
       [] i.op = "XORI" -> a ^^ i.extra
       [] i.op = "NOR" -> Inverted(a | b)
       [] i.op = "SLT" -> IF Signed(a) < Signed(b) THEN 1 ELSE 0
       [] i.op = "SLTI" -> IF Signed(a) < Signed(Imm(i)) THEN 1 ELSE 0
       [] i.op = "SLTU" -> IF a < b THEN 1 ELSE 0
       [] i.op = "SLTIU" -> IF a < Imm(i) THEN 1 ELSE 0
       [] i.op = "SLL" -> b * 2 ^ i.extra
       [] i.op = "SLLV" -> b * 2 ^ (a % WordBits)
       [] i.op = "SRA" -> Signed(b) \div 2 ^ i.extra
       [] i.op = "SRAV" -> Signed(b) \div 2 ^ (a % WordBits)
       [] i.op = "SRL" -> b \div 2 ^ i.extra
       [] i.op = "SRLV" -> b \div 2 ^ (a % WordBits)
       [] i.op = "LUI" -> i.extra * Half
       [] i.op = "MFHI" -> s.hi
       [] i.op = "MFLO" -> s.lo
       [] i.op = "LB" -> SignExtend(m[x], Byte)
       [] i.op = "LH" -> SignExtend(Bytes(m, x, 2), Half)
       [] i.op \in {"LBU", "LHU", "LW", "LWL"} -> Bytes(m, x, Width(i))
       [] i.op = "LWR" -> (b - (b % Byte)) + m[x + 3]
       [] i.op \in {"JAL", "JALR", "BGEZAL", "BLTZAL"} -> s.npc + 4

Destination(i) ==
  CASE i.op \in {"ADD", "ADDU", "SUB", "SUBU", "AND", "OR", "XOR", "NOR", "SLT", "SLTU", "SLL",
                 "SLLV", "SRA", "SRAV", "SRL", "SRLV", "MFHI", "MFLO", "JALR"} -> i.rd
    [] i.op \in {"ADDI", "ADDIU", "ANDI", "ORI", "XORI", "SLTI", "SLTIU", "LUI"} \cup Loads -> i.rt
    [] i.op \in {"JAL", "BGEZAL", "BLTZAL"} -> "r31"
    [] OTHER -> "r0"

\* The double word, or the quotient and remainder, in <<lo, hi>>.  The
\* architecture leaves a division by zero open: 0, as both programs do or trap.
HiLo(i, s) ==
  LET a == s.reg[i.rs]
      b == s.reg[i.rt]
      Quotient(x, y) ==    \* towards zero
        LET q == (IF x < 0 THEN -x ELSE x) \div (IF y < 0 THEN -y ELSE y)
        IN IF (x < 0) = (y < 0) THEN q ELSE -q
      Product(n) == << Wrap(n), Wrap(n \div Word) >>
  IN CASE i.op = "MULT" -> Product(Signed(a) * Signed(b))
       [] i.op = "MULTU" -> Product(a * b)
       [] i.op \in {"DIV", "DIVU"} /\ b = 0 -> <<0, 0>>
       [] i.op = "DIV" /\ b # 0 -> LET q == Quotient(Signed(a), Signed(b))
                                   IN << Wrap(q), Wrap(Signed(a) - q * Signed(b)) >>
       [] i.op = "DIVU" /\ b # 0 -> << a \div b, a % b >>
       [] i.op = "MTHI" -> << s.lo, a >>
       [] i.op = "MTLO" -> << a, s.hi >>
       [] OTHER -> << s.lo, s.hi >>

Taken(i, s) ==
  LET a == Signed(s.reg[i.rs])
  IN CASE i.op = "BEQ" -> s.reg[i.rs] = s.reg[i.rt]
       [] i.op = "BNE" -> s.reg[i.rs] # s.reg[i.rt]
       [] i.op \in {"BGEZ", "BGEZAL"} -> a >= 0
       [] i.op \in {"BLTZ", "BLTZAL"} -> a < 0
       [] i.op = "BGTZ" -> a > 0
       [] i.op = "BLEZ" -> a <= 0
       [] OTHER -> FALSE

Target(i, s) ==
  CASE Taken(i, s) -> Wrap(s.npc + 4 * Signed(Imm(i)))
    [] i.op \in {"J", "JAL"} -> (s.npc \div Region) * Region + 4 * i.extra
    [] i.op \in {"JR", "JALR"} -> s.reg[i.rs]
    [] OTHER -> Wrap(s.npc + 4)

\* The exception an instruction raises.
Cause(i, s, m) ==
  CASE i.op \in {"RES", "UNIMP"} -> "IllegalInstr"
    [] i.op \in Loads \cup Stores ->
         IF Aligned(Addr(i, s), Width(i)) /\ Addr(i, s) \in DOMAIN m THEN "no" ELSE "AddressError"
    [] i.op \in {"ADD", "ADDI", "SUB"} ->
         IF Exact(i, s, m) \in -SignBit .. SignBit - 1 THEN "no" ELSE "Overflow"
    [] OTHER -> "no"

Executed(i, s, m) ==
  LET d == Destination(i)
  IN [ reg |-> IF d = "r0" THEN s.reg ELSE [s.reg EXCEPT ![d] = Wrap(Exact(i, s, m))],
       lo |-> HiLo(i, s)[1], hi |-> HiLo(i, s)[2], pc |-> s.npc, npc |-> Target(i, s) ]

Stored(i, s, m) ==
  LET x == Addr(i, s)
      b == s.reg[i.rt]
  IN CASE i.op \in {"SB", "SH", "SW", "SWL"} -> WithBytes(m, x, Width(i), b)
       [] i.op = "SWR" -> WithBytes(m, x + 3, 1, b)
       [] OTHER -> m

----------------------------------------------------------------------------
Fetched(t) == text[t][cpu[t].pc \div 4 + 1]
Fetches(t) == cpu[t].pc % 4 = 0 /\ cpu[t].pc \div 4 < Len(text[t])

Step(t) ==
  /\ over[t] = "no" /\ Fetches(t)
  /\ LET i == Fetched(t)
     IN /\ i.op # "SYSCALL"
        /\ Cause(i, cpu[t], ram[t]) = "no"
        /\ cpu' = [cpu EXCEPT ![t] = Executed(i, @, ram[t])]
        /\ ram' = [ram EXCEPT ![t] = Stored(i, cpu[t], @)]
  /\ UNCHANGED <<text, passed, over>>

\* t calls the kernel, with one of these codes.
Calls(t, codes) ==
  /\ over[t] = "no" /\ Fetches(t)
  /\ Fetched(t).op = "SYSCALL" /\ cpu[t].reg["r2"] \in codes

Answered(t, v) ==
  /\ cpu' = [cpu EXCEPT ![t] = [@ EXCEPT !.reg["r2"] = v, !.pc = cpu[t].npc, !.npc = Wrap(@ + 4)]]
  /\ UNCHANGED <<text, over>>

\* The buffer of a call: its address in r4, its length in r5; some of its
\* first bytes are in memory.
BufferLength(t) == cpu[t].reg["r5"]
InMemory(t, n) == \A k \in 0 .. n - 1 : Wrap(cpu[t].reg["r4"] + k) \in DOMAIN ram[t]
Typed(t, word, n) ==
  LET At(k) == Wrap(cpu[t].reg["r4"] + k - 1)
  IN [a \in DOMAIN ram[t] |-> IF \E k \in 1 .. n : At(k) = a THEN word[CHOOSE k \in 1 .. n : At(k) = a]
                              ELSE ram[t][a]]

GivesBuffer(t) ==    \* Create, PrintString
  /\ Calls(t, {SC.Create, SC.PrintString}) /\ InMemory(t, BufferLength(t))
  /\ LET bytes == [k \in 1 .. BufferLength(t) |-> ram[t][Wrap(cpu[t].reg["r4"] + k - 1)]]
     IN passed' = [passed EXCEPT ![t] = Append(@, <<cpu[t].reg["r2"], bytes>>)]
  /\ Answered(t, 0) /\ UNCHANGED ram

GivesNumber(t) ==    \* PrintNum
  /\ Calls(t, {SC.PrintNum})
  /\ passed' = [passed EXCEPT ![t] = Append(@, <<SC.PrintNum, << cpu[t].reg["r4"] >> >>)]
  /\ Answered(t, 0) /\ UNCHANGED ram

Reads(t) ==    \* Read, from the console
  /\ Calls(t, {SC.Read}) /\ InMemory(t, BufferLength(t))
  /\ \E word \in [1 .. BufferLength(t) -> Keys] : ram' = [ram EXCEPT ![t] = Typed(t, word, BufferLength(t))]
  /\ Answered(t, BufferLength(t)) /\ UNCHANGED passed

\* GetThreadArgs, and calls that are not modelled here.
Call(t) ==
  /\ Calls(t, (0 .. Word - 1) \ {SC.Exit, SC.Create, SC.PrintString, SC.PrintNum, SC.Read})
  /\ \E v \in IF Calls(t, {SC.GetThreadArgs}) THEN {threadArgs[t]} ELSE Answers : Answered(t, v)
  /\ UNCHANGED <<ram, passed>>

Exit(t) ==
  /\ Calls(t, {SC.Exit})
  /\ over' = [over EXCEPT ![t] = "done"]
  /\ UNCHANGED <<text, cpu, ram, passed>>

\* A trap the kernel does not handle ends this thread, and it may end the others.
Ended(t, c) == over' = [u \in Threads |-> IF u = t THEN c ELSE IF over[u] = "no" THEN "done" ELSE over[u]]

Trap(t) ==
  /\ over[t] = "no"
  /\ LET c == IF Fetches(t) THEN Cause(Fetched(t), cpu[t], ram[t]) ELSE "AddressError"
     IN c # "no" /\ Ended(t, c)
  /\ UNCHANGED <<text, cpu, ram, passed>>

\* A buffer that is not all in memory: a Read has stored what comes before.
BadBuffer(t) ==
  /\ Calls(t, {SC.Create, SC.PrintString, SC.Read})
  /\ \E n \in 0 .. BufferLength(t) - 1 :
       /\ InMemory(t, n) /\ ~InMemory(t, n + 1)
       /\ IF Calls(t, {SC.Read})
          THEN \E word \in [1 .. n -> Keys] : ram' = [ram EXCEPT ![t] = Typed(t, word, n)]
          ELSE UNCHANGED ram
  /\ Ended(t, "AddressError")
  /\ UNCHANGED <<text, cpu, passed>>

Next == \E t \in Threads :
  \/ Step(t) \/ GivesBuffer(t) \/ GivesNumber(t) \/ Reads(t) \/ Call(t) \/ Exit(t)
  \/ Trap(t) \/ BadBuffer(t)

Init == \A t \in Threads :
  /\ over[t] \in {"no", "done"}
  /\ cpu[t].pc = 0 /\ cpu[t].npc = 4 /\ cpu[t].hi = 0 /\ cpu[t].lo = 0
  /\ passed[t] = << >>

Spec == Init /\ [][Next]_isaVars

=============================================================================
