------------------------------ MODULE RiscVISA ------------------------------
(***************************************************************************)
(* The instruction set of the multicycle processor, as a programmer sees   *)
(* it: one instruction a step.  ADDI is the command the exercise added: it *)
(* complements the sum.  JAL is what the processor makes of it: its target *)
(* is computed from the bits of a branch offset.                           *)
(***************************************************************************)
EXTENDS Integers

CONSTANTS
  Size,          \* how many values a word has, 2^32 in the code
  Registers,     \* the registers but x0
  Cells,         \* how many words of memory an address can tell apart
  Programs,      \* the contents of the instruction memory
  InitialData,   \* the contents of registers and data memory
  Alu(_, _, _)   \* the arithmetic unit: operation, left and right operand

VARIABLES pc, rf, imem, dmem

vars == <<pc, rf, imem, dmem>>

Sum(x, y)  == (x + y) % Size
Plus4(x)   == (x + 4) % Size
Cell(addr) == (addr \div 4) % Cells
Reg(r)     == IF r \in Registers THEN rf[r] ELSE 0

Current == imem[Cell(pc)]

\* What the instruction leaves in its destination register.
Result(i) ==
  CASE i.op = "LW"   -> dmem[Cell(Sum(Reg(i.rs1), i.immI))]
    [] i.op = "ALU"  -> Alu(i.funct, Reg(i.rs1), Reg(i.rs2))
    [] i.op = "ADDI" -> Size - 1 - Sum(Reg(i.rs1), i.immI)
    [] i.op = "JAL"  -> Plus4(pc)

RegistersAfter(i) ==
  IF i.op \in {"LW", "ALU", "ADDI", "JAL"} /\ i.rd \in Registers
  THEN [rf EXCEPT ![i.rd] = Result(i)] ELSE rf

MemoryAfter(i) ==
  IF i.op = "SW" THEN [dmem EXCEPT ![Cell(Sum(Reg(i.rs1), i.immS))] = Reg(i.rs2)] ELSE dmem

Taken(i) == i.op = "JAL" \/ (i.op = "BEQ" /\ Reg(i.rs1) = Reg(i.rs2))

Execute(i) ==
  /\ rf'   = RegistersAfter(i)
  /\ dmem' = MemoryAfter(i)
  /\ pc'   = IF Taken(i) THEN Sum(pc, i.immB) ELSE Plus4(pc)
  /\ UNCHANGED imem

\* A reset may still let the current instruction write its register.
Reset ==
  /\ pc' = 0
  /\ rf' \in {rf, RegistersAfter(Current)}
  /\ UNCHANGED <<imem, dmem>>

Init == pc = 0 /\ imem \in Programs /\ \E d \in InitialData : rf = d.rf /\ dmem = d.dmem

Next == Execute(Current) \/ Reset

Spec == Init /\ [][Next]_vars
=============================================================================
