------------------------------- MODULE RiscV --------------------------------
(***************************************************************************)
(* The multicycle RISC-V processor: the control state machine of rv_ctl.sv *)
(* and the stage registers of rv_dp.sv, with the memories of rv_sim.sv.    *)
(* A step is one clock edge; every register that has an enable, and those  *)
(* that follow their input in every cycle, take their next value at once.  *)
(*                                                                         *)
(* An instruction is a record of its fields, the four immediates its bits  *)
(* can be read as among them; `op' stands for the opcode with funct3.      *)
(***************************************************************************)
EXTENDS Integers

CONSTANTS Size, Registers, Cells, Programs, InitialData, Alu(_, _, _)

Word == 0..Size - 1
Ones == Size - 1
AluOps == {"ADD", "SUB", "SLL", "SLT", "SLTU", "XOR", "SRL", "SRA", "OR", "AND", "none"}
Ops == {"LW", "SW", "ALU", "BEQ", "JAL", "ADDI", "none"}

Instruction ==
  [op : Ops, funct : AluOps, rd : Registers \cup {0}, rs1 : Registers \cup {0}, rs2 : Registers \cup {0},
   immI : Word, immS : Word, immB : Word, immJ : Word]

ASSUME ConstantAssumption ==
  /\ Size \in Nat \ {0} /\ Cells \in Nat \ {0}
  /\ 0 \notin Registers
  /\ Programs \subseteq [0..Cells - 1 -> Instruction]
  /\ InitialData \subseteq [rf : [Registers -> Word], dmem : [0..Cells - 1 -> Word]]

\* What the control relies on of the arithmetic unit (module RiscVAlu).
ASSUME AluAssumption ==
  /\ \A op \in AluOps : \A x, y \in Word : Alu(op, x, y) \in Word
  /\ \A x, y \in Word : Alu("ADD", x, y) = (x + y) % Size
  /\ \A x, y \in Word : Alu("SUB", x, y) = 0 <=> x = y
  /\ \A x \in Word : Alu("XOR", x, Ones) = Ones - x

VARIABLES
  current,                           \* rv_ctl: the state of the control
  pc, pcc, ir, a, b, aluout, mdr,    \* rv_dp: the stage registers
  rf,                                \* rv_dp: the register file
  imem, dmem                         \* rv_sim: the memories

stages == <<pcc, ir, a, b, aluout, mdr>>
vars   == <<current, pc, stages, rf, imem, dmem>>

States == {"FETCH", "DECODE", "LSW_ADDR", "LW_MEM", "LW_WB", "SW_MEM", "RTYPE_ALU", "RTYPE_WB",
           "BEQ_EXEC", "JAL_EXEC", "ADDI_ADD", "ADDI_XOR", "ADDI_WB"}

-----------------------------------------------------------------------------
(* Control: the next state.                                                  *)

\* Fault: an unimplemented instruction is waited for.
AfterDecodeStuck ==
  CASE ir.op \in {"LW", "SW"} -> "LSW_ADDR"
    [] ir.op = "ALU"  -> "RTYPE_ALU"
    [] ir.op = "BEQ"  -> "BEQ_EXEC"
    [] ir.op = "JAL"  -> "JAL_EXEC"
    [] ir.op = "ADDI" -> "ADDI_ADD"
    [] ir.op = "none" -> "DECODE"
AfterDecode ==
  CASE ir.op \in {"LW", "SW"} -> "LSW_ADDR"
    [] ir.op = "ALU"  -> "RTYPE_ALU"
    [] ir.op = "BEQ"  -> "BEQ_EXEC"
    [] ir.op = "JAL"  -> "JAL_EXEC"
    [] ir.op = "ADDI" -> "ADDI_ADD"
    [] ir.op = "none" -> "FETCH"

\* Fault: the added command writes back before it has complemented.
NextStateShort ==
  CASE current = "FETCH"     -> "DECODE"
    [] current = "DECODE"    -> AfterDecode
    [] current = "LSW_ADDR"  -> IF ir.op = "LW" THEN "LW_MEM" ELSE "SW_MEM"
    [] current = "LW_MEM"    -> "LW_WB"
    [] current = "RTYPE_ALU" -> "RTYPE_WB"
    [] current = "ADDI_ADD"  -> "ADDI_WB"
    [] OTHER -> "FETCH"
NextState ==
  CASE current = "FETCH"     -> "DECODE"
    [] current = "DECODE"    -> AfterDecode
    [] current = "LSW_ADDR"  -> IF ir.op = "LW" THEN "LW_MEM" ELSE "SW_MEM"
    [] current = "LW_MEM"    -> "LW_WB"
    [] current = "RTYPE_ALU" -> "RTYPE_WB"
    [] current = "ADDI_ADD"  -> "ADDI_XOR"
    [] current = "ADDI_XOR"  -> "ADDI_WB"
    [] OTHER -> "FETCH"

-----------------------------------------------------------------------------
(* Control: the outputs, each by the states in which it is not the default.  *)

ImmSel ==
  CASE current = "LSW_ADDR" -> IF ir.op = "LW" THEN ir.immI ELSE ir.immS
    [] current = "JAL_EXEC" -> ir.immJ
    [] current = "ADDI_ADD" -> ir.immI
    [] current = "ADDI_XOR" -> Ones
    [] OTHER -> ir.immB

ASel ==
  CASE current \in {"DECODE", "JAL_EXEC"} -> pcc
    [] current = "ADDI_XOR" -> aluout
    [] OTHER -> a

BSel == IF current \in {"DECODE", "LSW_ADDR", "JAL_EXEC", "ADDI_ADD", "ADDI_XOR"} THEN ImmSel ELSE b

AluSel ==
  CASE current = "RTYPE_ALU" -> ir.funct
    [] current = "BEQ_EXEC"  -> "SUB"
    [] current = "ADDI_XOR"  -> "XOR"
    [] OTHER -> "ADD"

AluResult == Alu(AluSel, ASel, BSel)
Zero == AluResult = 0

PcWrite == current \in {"FETCH", "JAL_EXEC"} \/ (current = "BEQ_EXEC" /\ Zero)

WbSel ==
  CASE current = "LW_WB" -> mdr
    [] current \in {"RTYPE_WB", "ADDI_WB"} -> aluout
    [] OTHER -> pc

RegWrite == current \in {"LW_WB", "RTYPE_WB", "JAL_EXEC", "ADDI_WB"} /\ ir.rd # 0

-----------------------------------------------------------------------------
(* Datapath.                                                                 *)

Plus4(x)     == (x + 4) % Size
Cell(addr)   == (addr \div 4) % Cells
Reg(r)       == IF r \in Registers THEN rf[r] ELSE 0

\* Fault: a branch that is not taken already goes by the new pc.
PccAfterNow == IF current = "FETCH" THEN Plus4(pc) ELSE pcc
PccAfter    == IF current = "FETCH" THEN pc ELSE pcc

RegistersAfter == IF RegWrite THEN [rf EXCEPT ![ir.rd] = WbSel] ELSE rf

Clock ==
  /\ current' = NextState
  /\ pc'     = IF ~PcWrite THEN pc ELSE IF current = "FETCH" THEN Plus4(pc) ELSE aluout
  /\ pcc'    = PccAfter
  /\ ir'     = IF current = "FETCH" THEN imem[Cell(pc)] ELSE ir
  /\ a'      = Reg(ir.rs1)
  /\ b'      = Reg(ir.rs2)
  /\ aluout' = AluResult
  /\ mdr'    = IF current = "LW_MEM" THEN dmem[Cell(aluout)] ELSE mdr
  /\ rf'     = RegistersAfter
  /\ dmem'   = IF current = "SW_MEM" THEN [dmem EXCEPT ![Cell(aluout)] = b] ELSE dmem
  /\ UNCHANGED imem

NoInstruction ==
  [op |-> "none", funct |-> "ADD", rd |-> 0, rs1 |-> 0, rs2 |-> 0, immI |-> 0, immS |-> 0, immB |-> 0, immJ |-> 0]

\* The edge of rst clears the stages, and, where a register was about to be
\* written, writes it: the register file is not guarded by rst.
Reset ==
  /\ current' = "FETCH"
  /\ pc' = 0 /\ pcc' = 0 /\ ir' = NoInstruction
  /\ a' = 0 /\ b' = 0 /\ aluout' = 0 /\ mdr' = 0
  /\ rf' = RegistersAfter
  /\ UNCHANGED <<imem, dmem>>

Init ==
  /\ current = "FETCH"
  /\ pc = 0 /\ pcc = 0 /\ ir = NoInstruction
  /\ a = 0 /\ b = 0 /\ aluout = 0 /\ mdr = 0
  /\ imem \in Programs
  /\ \E d \in InitialData : rf = d.rf /\ dmem = d.dmem

Next == Clock \/ Reset

\* The clock ticks.
Spec == Init /\ [][Next]_vars /\ WF_vars(Clock)

-----------------------------------------------------------------------------
TypeOK ==
  /\ current \in States
  /\ pc \in Word /\ pcc \in Word /\ ir \in Instruction
  /\ a \in Word /\ b \in Word /\ aluout \in Word /\ mdr \in Word
  /\ rf \in [Registers -> Word]
  /\ imem \in [0..Cells - 1 -> Instruction]
  /\ dmem \in [0..Cells - 1 -> Word]

StatesOf ==
  [LW |-> {"LSW_ADDR", "LW_MEM", "LW_WB"}, SW |-> {"LSW_ADDR", "SW_MEM"}, ALU |-> {"RTYPE_ALU", "RTYPE_WB"},
   BEQ |-> {"BEQ_EXEC"}, JAL |-> {"JAL_EXEC"}, ADDI |-> {"ADDI_ADD", "ADDI_XOR", "ADDI_WB"}, none |-> {}]

\* Every variable has its type; between fetch and the last cycle of an
\* instruction the stage registers hold what belongs to that instruction, though
\* a, b and aluout are overwritten in every cycle; and a state is entered by its
\* own instructions only, so that the default branch of LSW_ADDR, "never reached",
\* is not.
StagesHold ==
  /\ TypeOK
  /\ current # "FETCH" => pc = Plus4(pcc) /\ ir = imem[Cell(pcc)]
  /\ current \notin {"FETCH", "DECODE"} =>
       current \in StatesOf[ir.op] /\ a = Reg(ir.rs1) /\ b = Reg(ir.rs2)
  /\ current \in {"BEQ_EXEC", "JAL_EXEC"} => aluout = Alu("ADD", pcc, ir.immB)
  /\ current = "LW_MEM" => aluout = Alu("ADD", a, ir.immI)
  /\ current = "SW_MEM" => aluout = Alu("ADD", a, ir.immS)
  /\ current = "LW_WB" => mdr = dmem[Cell(Alu("ADD", a, ir.immI))]
  /\ current = "RTYPE_WB" => aluout = Alu(ir.funct, a, b)
  /\ current = "ADDI_XOR" => aluout = Alu("ADD", a, ir.immI)
  /\ current = "ADDI_WB" => aluout = Alu("XOR", Alu("ADD", a, ir.immI), Ones)

\* The processor implements its instruction set: registers and memory change only
\* in the last cycle of an instruction, all at once, also when a reset cuts it.
ISA == INSTANCE RiscVISA WITH pc <- IF current = "FETCH" THEN pc ELSE pcc
ImplementsISA == ISA!Spec

\* Every instruction comes to its end, an unimplemented one included.
Retires == current # "FETCH" ~> current = "FETCH"
=============================================================================
