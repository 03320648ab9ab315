------------------------------ MODULE Execute ------------------------------
(***************************************************************************)
(* The other interpreter of the same programs, bin/execute.c: one program, *)
(* loads without delay, no traps, no address translation.  Where the C     *)
(* code's value depends on the host (a division by zero, a shift by more   *)
(* than a word) the guard HostDefined says so.                             *)
(***************************************************************************)
EXTENDS Words, Sequences

CONSTANTS XRegion, XExitCall    \* as Region and ExitCall in Isa

VARIABLES
  xtext,    \* the program, from address 0 on
  Reg, HI, LO,
  xpc, npc, \* the next instruction and the one after it
  mem,
  exited    \* "no", "done", or "unimplemented" after u()

executeVars == <<xtext, Reg, HI, LO, xpc, npc, mem, exited>>

Sext(n) == SignExtend(n, Half)    \* immed(instr)
Rs(i) == Reg[i.rs]
Rt(i) == Reg[i.rt]

\* Where runprogram's C expressions have a value that the language defines.
HostDefined(i) ==
  CASE i.op \in {"DIV", "DIVU"} -> Rt(i) # 0 /\ ~(i.op = "DIV" /\ Rs(i) = SignBit /\ Rt(i) = Word - 1)
    [] i.op \in {"SLLV", "SRLV", "SRAV"} -> Rs(i) < WordBits
    [] OTHER -> TRUE

\* The high word that I_MULT and I_MULTU compute: the middle products are
\* shifted one by one, without the carry of the parts that are shifted out.
HighPart(t1, t2) ==
  LET t1l == t1 % Half  t1h == t1 \div Half
      t2l == t2 % Half  t2h == t2 \div Half
  IN Wrap(t1h * t2h + Signed(Wrap(t1h * t2l)) \div Half + Signed(Wrap(t2h * t1l)) \div Half)

\* I_MULT, I_MULTU
Multiply(i) ==
  LET signed == i.op = "MULT"
      Abs(x) == IF signed /\ Negative(x) THEN Wrap(-x) ELSE x
      neg == signed /\ Negative(Rs(i)) # Negative(Rt(i))
      lo == Wrap(Abs(Rs(i)) * Abs(Rt(i)))
      hi == HighPart(Abs(Rs(i)), Abs(Rt(i)))
      nlo == Wrap(Inverted(lo) + 1)
  IN IF neg THEN << nlo, Wrap(Inverted(hi) + (IF nlo = 0 THEN 1 ELSE 0)) >> ELSE << lo, hi >>

\* I_DIV, I_DIVU
Quotients(i) ==
  LET Abs(x) == IF x < 0 THEN -x ELSE x
      a == IF i.op = "DIV" THEN Signed(Rs(i)) ELSE Rs(i)
      b == IF i.op = "DIV" THEN Signed(Rt(i)) ELSE Rt(i)
      q == Abs(a) \div Abs(b)
      r == Abs(a) % Abs(b)
  IN << Wrap(IF (a < 0) = (b < 0) THEN q ELSE -q), Wrap(IF a < 0 THEN -r ELSE r) >>

\* The register instructions of the I_SPECIAL switch.
Special(i) ==
  CASE i.op = "SLL" -> Wrap(Rt(i) * 2 ^ i.extra)
    [] i.op = "SRL" -> Rt(i) \div 2 ^ i.extra
    [] i.op = "SRA" -> Wrap(Signed(Rt(i)) \div 2 ^ i.extra)
    [] i.op = "SLLV" -> Wrap(Rt(i) * 2 ^ Rs(i))
    [] i.op = "SRLV" -> Rt(i) \div 2 ^ Rs(i)
    [] i.op = "SRAV" -> Wrap(Signed(Rt(i)) \div 2 ^ Rs(i))
    [] i.op = "JALR" -> Wrap(xpc + 8)
    [] i.op = "MFHI" -> HI
    [] i.op = "MFLO" -> LO
    [] i.op \in {"ADD", "ADDU"} -> Wrap(Rs(i) + Rt(i))
    [] i.op \in {"SUB", "SUBU"} -> Wrap(Rs(i) - Rt(i))
    [] i.op = "AND" -> Rs(i) & Rt(i)
    [] i.op = "OR" -> Rs(i) | Rt(i)
    [] i.op = "XOR" -> Rs(i) ^^ Rt(i)
    [] i.op = "NOR" -> Inverted(Rs(i) | Rt(i))
    [] i.op = "SLT" -> IF Signed(Rs(i)) < Signed(Rt(i)) THEN 1 ELSE 0
    [] i.op = "SLTU" -> IF Rs(i) < Rt(i) THEN 1 ELSE 0

\* Mutant of Immediate: I_SLTIU compares with the bare immediate.
ImmediateUnextended(i) ==
  CASE i.op \in {"ADDI", "ADDIU"} -> Wrap(Rs(i) + Sext(i.extra))
    [] i.op = "SLTI" -> IF Signed(Rs(i)) < Signed(Sext(i.extra)) THEN 1 ELSE 0
    [] i.op = "SLTIU" -> IF Rs(i) < i.extra THEN 1 ELSE 0
    [] i.op = "ANDI" -> Rs(i) & Sext(i.extra)
    [] i.op = "ORI" -> Rs(i) | Sext(i.extra)
    [] i.op = "XORI" -> Rs(i) ^^ Sext(i.extra)
    [] i.op = "LUI" -> Wrap(i.extra * Half)

\* The instructions with an immediate: all of them extend its sign.
Immediate(i) ==
  CASE i.op \in {"ADDI", "ADDIU"} -> Wrap(Rs(i) + Sext(i.extra))
    [] i.op = "SLTI" -> IF Signed(Rs(i)) < Signed(Sext(i.extra)) THEN 1 ELSE 0
    [] i.op = "SLTIU" -> IF Rs(i) < Sext(i.extra) THEN 1 ELSE 0
    [] i.op = "ANDI" -> Rs(i) & Sext(i.extra)
    [] i.op = "ORI" -> Rs(i) | Sext(i.extra)
    [] i.op = "XORI" -> Rs(i) ^^ Sext(i.extra)
    [] i.op = "LUI" -> Wrap(i.extra * Half)

At(i) == Wrap(Rs(i) + Sext(i.extra))

\* The loads: I_LWL ors the word into the register it has not cleared.
Fetch(i) ==
  CASE i.op = "LB" -> SignExtend(mem[At(i)], Byte)
    [] i.op = "LBU" -> mem[At(i)]
    [] i.op = "LH" -> SignExtend(Bytes(mem, At(i), 2), Half)
    [] i.op = "LHU" -> Bytes(mem, At(i), 2)
    [] i.op = "LW" -> Bytes(mem, At(i), 4)
    [] i.op \in {"LWL", "LWR"} ->
         LET k == At(i) % 4
             w == Bytes(mem, At(i) - k, 4)
         IN IF i.op = "LWL" THEN Rt(i) | Wrap(w * Byte ^ k)
            ELSE (IF k = 0 THEN 0 ELSE Rt(i) - (Rt(i) % Byte ^ k))
                   | Wrap(Signed(w) \div Byte ^ ((4 - k) % 4))

SpecialOps == {"SLL", "SRL", "SRA", "SLLV", "SRLV", "SRAV", "JALR", "MFHI", "MFLO", "ADD", "ADDU",
               "SUB", "SUBU", "AND", "OR", "XOR", "NOR", "SLT", "SLTU"}
ImmediateOps == {"ADDI", "ADDIU", "SLTI", "SLTIU", "ANDI", "ORI", "XORI", "LUI"}
FetchOps == {"LB", "LBU", "LH", "LHU", "LW", "LWL", "LWR"}
Links == {"JAL", "BLTZAL", "BGEZAL"}

NewReg(i) ==
  CASE i.op \in SpecialOps -> [Reg EXCEPT ![i.rd] = Special(i)]
    [] i.op \in ImmediateOps -> [Reg EXCEPT ![i.rt] = Immediate(i)]
    [] i.op \in FetchOps -> [Reg EXCEPT ![i.rt] = Fetch(i)]
    [] i.op \in Links -> [Reg EXCEPT !["r31"] = Wrap(xpc + 8)]
    [] OTHER -> Reg

NewHiLo(i) ==
  CASE i.op \in {"MULT", "MULTU"} -> Multiply(i)
    [] i.op \in {"DIV", "DIVU"} -> Quotients(i)
    [] i.op = "MTHI" -> << LO, Rs(i) >>
    [] i.op = "MTLO" -> << Rs(i), HI >>
    [] OTHER -> << LO, HI >>

\* The branches and jumps: npc, which runprogram has set past the next instruction.
NewNpc(i) ==
  LET taken == CASE i.op = "BEQ" -> Rs(i) = Rt(i)
                 [] i.op = "BNE" -> Rs(i) # Rt(i)
                 [] i.op = "BLEZ" -> Signed(Rs(i)) <= 0
                 [] i.op = "BGTZ" -> Signed(Rs(i)) > 0
                 [] i.op \in {"BLTZ", "BLTZAL"} -> Negative(NewReg(i)[i.rs])
                 [] i.op \in {"BGEZ", "BGEZAL"} -> ~Negative(NewReg(i)[i.rs])
                 [] OTHER -> FALSE
  IN CASE taken -> Wrap(xpc + 4 + 4 * Sext(i.extra))
       [] i.op \in {"J", "JAL"} -> (xpc \div XRegion) * XRegion + 4 * i.extra
       [] i.op \in {"JR", "JALR"} -> Rs(i)
       [] OTHER -> Wrap(npc + 4)

NewMem(i) ==
  CASE i.op = "SB" -> WithBytes(mem, At(i), 1, Rt(i))
    [] i.op = "SH" -> WithBytes(mem, At(i), 2, Rt(i))
    [] i.op = "SW" -> WithBytes(mem, At(i), 4, Rt(i))
    [] OTHER -> mem

\* One turn of runprogram's loop, r0 forced to 0 before it.
Current == xtext[xpc \div 4 + 1]
Unimplemented == {"SWL", "SWR", "RES", "UNIMP"}

RunInstruction ==
  /\ exited = "no" /\ Current.op \notin Unimplemented \cup {"SYSCALL"}
  /\ HostDefined(Current)
  /\ Reg' = [NewReg(Current) EXCEPT !["r0"] = 0]
  /\ LO' = NewHiLo(Current)[1] /\ HI' = NewHiLo(Current)[2]
  /\ xpc' = npc /\ npc' = NewNpc(Current)
  /\ mem' = NewMem(Current)
  /\ UNCHANGED <<xtext, exited>>

\* u(): the interpreter ends.
U ==
  /\ exited = "no" /\ Current.op \in Unimplemented
  /\ exited' = "unimplemented"
  /\ UNCHANGED <<xtext, Reg, HI, LO, xpc, npc, mem>>

\* system_trap: exit.  The calls on the host's files are not modelled.
SystemTrap ==
  /\ exited = "no" /\ Current.op = "SYSCALL" /\ Reg["r2"] = XExitCall
  /\ exited' = "done"
  /\ UNCHANGED <<xtext, Reg, HI, LO, xpc, npc, mem>>

ExecuteNext == RunInstruction \/ SystemTrap \/ U

\* main: the program is loaded, its registers are 0 but for the arguments.
ExecuteInit(p) ==
  /\ xtext = p.text
  /\ Reg = [r \in {"r0", "r1", "r2", "r3", "r4", "r5", "r31"} |-> IF r \in DOMAIN p.args THEN p.args[r] ELSE 0]
  /\ HI = 0 /\ LO = 0 /\ xpc = 0 /\ npc = 4
  /\ mem = p.memory
  /\ exited = "no"

----------------------------------------------------------------------------
\* Of the calls only exit is modelled.
XCalls == [ Exit |-> XExitCall, Create |-> -1, PrintString |-> -1, PrintNum |-> -1, Read |-> -1,
            GetThreadArgs |-> -1 ]

XIdeal == INSTANCE Isa WITH
  Threads <- {0}, Region <- XRegion, SC <- XCalls, Answers <- {}, threadArgs <- << >>, Keys <- {},
  text <- [t \in {0} |-> xtext],
  cpu <- [t \in {0} |-> [reg |-> Reg, hi |-> HI, lo |-> LO, pc |-> xpc, npc |-> npc]],
  ram <- [t \in {0} |-> mem], passed <- [t \in {0} |-> << >>],
  over <- [t \in {0} |-> IF exited = "unimplemented" THEN "IllegalInstr" ELSE exited]

\* What a program computes in this interpreter is what the architecture says,
\* and so what it computes in Nachos: the same test binary can be tried in both.
ExecutesTheIsa == XIdeal!Spec

=============================================================================
