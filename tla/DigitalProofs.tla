----------------------------- MODULE DigitalProofs -----------------------------
(***************************************************************************)
(* Proofs about the two digital designs.  The processor, for words,        *)
(* memories and programs of any size: the stage registers hold what        *)
(* belongs to the instruction at hand, and the processor implements its    *)
(* instruction set.  The multipliers, for any base: the product is exact,  *)
(* and a run takes exactly the cycles its operands allow.                  *)
(***************************************************************************)
EXTENDS RiscV, Multiplier, TLAPS

-----------------------------------------------------------------------------
(* The arithmetic stays within a word and an address within a memory.       *)

LEMMA Remainder == \A x \in Nat, n \in Nat \ {0} : x % n \in 0..n - 1
  OBVIOUS

LEMMA Quotient == \A x \in Nat : x \div 4 \in Nat
  OBVIOUS

LEMMA InWord ==
  /\ \A x \in Word : Plus4(x) \in Word
  /\ \A x \in Word : Cell(x) \in 0..Cells - 1
  /\ 0 \in Word /\ Ones \in Word
<1>1. Size \in Nat \ {0} /\ Cells \in Nat \ {0}
  BY ConstantAssumption
<1>2. ASSUME NEW x \in Word PROVE Plus4(x) \in Word
  <2>1. x + 4 \in Nat
    BY <1>1 DEF Word
  <2> QED BY <1>1, <2>1, Remainder DEF Plus4, Word
<1>3. ASSUME NEW x \in Word PROVE Cell(x) \in 0..Cells - 1
  <2>1. x \in Nat
    BY <1>1 DEF Word
  <2>2. x \div 4 \in Nat
    BY <2>1, Quotient
  <2> QED BY <1>1, <2>2, Remainder DEF Cell
<1> QED BY <1>1, <1>2, <1>3 DEF Word, Ones

-----------------------------------------------------------------------------
(* Types.  Two views of the definitions keep the leaves small: what the      *)
(* arithmetic unit is given and returns is a word, and so is what is written *)
(* to a register.                                                            *)

LEMMA InstructionFields ==
  ASSUME NEW i \in Instruction
  PROVE  /\ i.op \in Ops /\ i.funct \in AluOps
         /\ i.rd \in Registers \cup {0} /\ i.rs1 \in Registers \cup {0} /\ i.rs2 \in Registers \cup {0}
         /\ i.immI \in Word /\ i.immS \in Word /\ i.immB \in Word /\ i.immJ \in Word
BY DEF Instruction

LEMMA RegInWord == ASSUME TypeOK, NEW r PROVE Reg(r) \in Word
BY InWord DEF TypeOK, Reg

LEMMA OperandsInWord ==
  ASSUME TypeOK
  PROVE  ImmSel \in Word /\ ASel \in Word /\ BSel \in Word /\ AluSel \in AluOps
<1>1. ImmSel \in Word
  BY InWord, InstructionFields DEF TypeOK, ImmSel
<1>2. ASel \in Word
  BY DEF TypeOK, ASel
<1>3. BSel \in Word
  BY <1>1 DEF TypeOK, BSel
<1>4. AluSel \in AluOps
  BY InstructionFields DEF TypeOK, AluSel, AluOps
<1> QED BY <1>1, <1>2, <1>3, <1>4

LEMMA AluResultInWord == ASSUME TypeOK PROVE AluResult \in Word
BY OperandsInWord, AluAssumption DEF AluResult

LEMMA NextStateInStates == ASSUME TypeOK PROVE NextState \in States
<1>1. AfterDecode \in States
  BY InstructionFields DEF TypeOK, AfterDecode, Ops, States
<1> QED BY <1>1 DEF NextState, States

LEMMA RegistersAfterType == ASSUME TypeOK PROVE RegistersAfter \in [Registers -> Word]
<1>1. WbSel \in Word
  BY DEF TypeOK, WbSel
<1>2. RegWrite => ir.rd \in Registers
  BY InstructionFields DEF TypeOK, RegWrite
<1> QED BY <1>1, <1>2 DEF TypeOK, RegistersAfter

LEMMA TypeClock == ASSUME TypeOK, Clock PROVE TypeOK'
<1> USE DEF TypeOK
<1>1. current' \in States
  BY NextStateInStates DEF Clock
<1>2. pc' \in Word /\ pcc' \in Word
  BY InWord DEF Clock, PccAfter
<1>3. ir' \in Instruction
  BY InWord DEF Clock
<1>4. a' \in Word /\ b' \in Word
  BY RegInWord DEF Clock
<1>5. aluout' \in Word
  BY AluResultInWord DEF Clock
<1>6. mdr' \in Word
  BY InWord DEF Clock
<1>7. rf' \in [Registers -> Word]
  BY RegistersAfterType DEF Clock
<1>8. imem' \in [0..Cells - 1 -> Instruction] /\ dmem' \in [0..Cells - 1 -> Word]
  BY DEF Clock
<1> QED BY <1>1, <1>2, <1>3, <1>4, <1>5, <1>6, <1>7, <1>8

LEMMA TypeReset == ASSUME TypeOK, Reset PROVE TypeOK'
<1>1. NoInstruction \in Instruction
  BY InWord DEF NoInstruction, Instruction, Ops, AluOps
<1>2. rf' \in [Registers -> Word]
  BY RegistersAfterType DEF Reset
<1> QED BY <1>1, <1>2, InWord DEF TypeOK, Reset, States

LEMMA TypeInit == Init => TypeOK
<1> SUFFICES ASSUME Init PROVE TypeOK
  OBVIOUS
<1>1. NoInstruction \in Instruction
  BY InWord DEF NoInstruction, Instruction, Ops, AluOps
<1>2. imem \in [0..Cells - 1 -> Instruction]
  BY ConstantAssumption DEF Init
<1>3. rf \in [Registers -> Word] /\ dmem \in [0..Cells - 1 -> Word]
  <2>1. PICK d \in InitialData : rf = d.rf /\ dmem = d.dmem
    BY DEF Init
  <2>2. d \in [rf : [Registers -> Word], dmem : [0..Cells - 1 -> Word]]
    BY ConstantAssumption
  <2> QED BY <2>1, <2>2
<1> QED BY <1>1, <1>2, <1>3, InWord DEF TypeOK, Init, States

-----------------------------------------------------------------------------
(* The stages.  No register is written but in the last cycle of an           *)
(* instruction, so that a and b, read again in every cycle, do not change.   *)

Middle == {"DECODE", "LSW_ADDR", "LW_MEM", "RTYPE_ALU", "ADDI_ADD", "ADDI_XOR"}

LEMMA FetchThenDecode ==
  ASSUME current = "FETCH", Clock
  PROVE  current' = "DECODE" /\ pc' = Plus4(pc) /\ pcc' = pc /\ ir' = imem[Cell(pc)] /\ imem' = imem
BY DEF Clock, NextState, PcWrite, PccAfter

LEMMA LastThenFetch ==
  ASSUME TypeOK, Clock, current \notin Middle \cup {"FETCH"} PROVE current' = "FETCH"
BY DEF TypeOK, States, Clock, NextState, Middle

LEMMA MiddleKeeps ==
  ASSUME TypeOK, Clock, current \in Middle
  PROVE  /\ pc' = pc /\ pcc' = pcc /\ ir' = ir /\ rf' = rf /\ imem' = imem /\ dmem' = dmem
         /\ a' = Reg(ir.rs1) /\ b' = Reg(ir.rs2) /\ \A r : Reg(r)' = Reg(r)
<1>1. current # "FETCH" /\ ~PcWrite /\ ~RegWrite /\ current # "SW_MEM"
  BY DEF Middle, PcWrite, RegWrite
<1>2. pc' = pc /\ pcc' = pcc /\ ir' = ir /\ rf' = rf /\ imem' = imem /\ dmem' = dmem
  BY <1>1 DEF Clock, PccAfter, RegistersAfter
<1>3. a' = Reg(ir.rs1) /\ b' = Reg(ir.rs2)
  BY DEF Clock
<1> QED BY <1>2, <1>3 DEF Reg

\* Where the middle states lead and what aluout and mdr then hold.
LEMMA MiddleLeads ==
  ASSUME TypeOK, StagesHold, Clock, current \in Middle
  PROVE  \/ current = "DECODE" /\ current' = AfterDecode /\ aluout' = Alu("ADD", pcc, ir.immB)
         \/ current = "LSW_ADDR" /\ ir.op = "LW" /\ current' = "LW_MEM" /\ aluout' = Alu("ADD", a, ir.immI)
         \/ current = "LSW_ADDR" /\ ir.op = "SW" /\ current' = "SW_MEM" /\ aluout' = Alu("ADD", a, ir.immS)
         \/ current = "LW_MEM" /\ current' = "LW_WB" /\ mdr' = dmem[Cell(aluout)]
         \/ current = "RTYPE_ALU" /\ current' = "RTYPE_WB" /\ aluout' = Alu(ir.funct, a, b)
         \/ current = "ADDI_ADD" /\ current' = "ADDI_XOR" /\ aluout' = Alu("ADD", a, ir.immI)
         \/ current = "ADDI_XOR" /\ current' = "ADDI_WB" /\ aluout' = Alu("XOR", aluout, Ones)
<1> USE DEF Clock, NextState, AluResult, AluSel, ASel, BSel, ImmSel
<1>1. CASE current = "DECODE"
  BY <1>1
<1>2. CASE current = "LSW_ADDR"
  <2>1. ir.op \in {"LW", "SW"}
    BY <1>2, InstructionFields DEF StagesHold, TypeOK, StatesOf, Ops
  <2> QED BY <1>2, <2>1
<1>3. CASE current = "LW_MEM"
  BY <1>3
<1>4. CASE current = "RTYPE_ALU"
  BY <1>4
<1>5. CASE current = "ADDI_ADD"
  BY <1>5
<1>6. CASE current = "ADDI_XOR"
  BY <1>6
<1> QED BY <1>1, <1>2, <1>3, <1>4, <1>5, <1>6 DEF Middle

LEMMA StatesOfOp ==
  ASSUME TypeOK, current = "DECODE"
  PROVE  /\ AfterDecode # "FETCH" => AfterDecode \in StatesOf[ir.op]
         /\ AfterDecode \in {"FETCH", "LSW_ADDR", "RTYPE_ALU", "BEQ_EXEC", "JAL_EXEC", "ADDI_ADD"}
<1>1. ir.op \in Ops
  BY InstructionFields DEF TypeOK
<1> QED BY <1>1 DEF AfterDecode, StatesOf, Ops

LEMMA StagesClock == ASSUME StagesHold, Clock PROVE StagesHold'
<1>0. TypeOK /\ TypeOK'
  BY TypeClock DEF StagesHold
<1>1. CASE current = "FETCH"
  BY <1>0, <1>1, FetchThenDecode DEF StagesHold, Plus4, Cell
<1>2. CASE current \notin Middle \cup {"FETCH"}
  BY <1>0, <1>2, LastThenFetch DEF StagesHold
<1>3. CASE current \in Middle
  <2>1. pc' = pc /\ pcc' = pcc /\ ir' = ir /\ rf' = rf /\ imem' = imem /\ dmem' = dmem
    BY <1>0, <1>3, MiddleKeeps
  <2>2. pc = Plus4(pcc) /\ ir = imem[Cell(pcc)]
    BY <1>3 DEF StagesHold, Middle
  <2>3. a' = Reg(ir.rs1)' /\ b' = Reg(ir.rs2)'
    BY <1>0, <1>3, MiddleKeeps DEF Reg
  <2>4. current # "DECODE" => a' = a /\ b' = b
    BY <1>0, <1>3, <2>3, MiddleKeeps DEF StagesHold, Middle, Reg
  <2>5. current' \notin {"FETCH", "DECODE"} => current' \in StatesOf[ir.op]
    <3>1. CASE current = "DECODE"
      BY <1>0, <1>3, <3>1, MiddleLeads, StatesOfOp
    <3>2. CASE current # "DECODE"
      <4>1. current \in StatesOf[ir.op] /\ ir.op \in Ops
        BY <1>0, <1>3, <3>2, InstructionFields DEF StagesHold, TypeOK, Middle
      <4> QED BY <1>0, <1>3, <3>2, <4>1, MiddleLeads DEF StatesOf, Ops
    <3> QED BY <3>1, <3>2
  <2>6. current' \in {"BEQ_EXEC", "JAL_EXEC"} => aluout' = Alu("ADD", pcc, ir.immB)
    BY <1>0, <1>3, MiddleLeads, StatesOfOp
  <2>7. /\ current' = "LW_MEM" => aluout' = Alu("ADD", a, ir.immI) /\ current # "DECODE"
        /\ current' = "SW_MEM" => aluout' = Alu("ADD", a, ir.immS) /\ current # "DECODE"
        /\ current' = "LW_WB" => mdr' = dmem[Cell(aluout)] /\ current = "LW_MEM"
        /\ current' = "RTYPE_WB" => aluout' = Alu(ir.funct, a, b) /\ current # "DECODE"
        /\ current' = "ADDI_XOR" => aluout' = Alu("ADD", a, ir.immI) /\ current # "DECODE"
        /\ current' = "ADDI_WB" => aluout' = Alu("XOR", aluout, Ones) /\ current = "ADDI_XOR"
    BY <1>0, <1>3, MiddleLeads, StatesOfOp
  <2>8. /\ current = "LW_MEM" => aluout = Alu("ADD", a, ir.immI)
        /\ current = "ADDI_XOR" => aluout = Alu("ADD", a, ir.immI)
    BY DEF StagesHold
  <2>9. /\ current' = "LW_WB" => mdr' = dmem[Cell(Alu("ADD", a, ir.immI))] /\ current # "DECODE"
        /\ current' = "ADDI_WB" => aluout' = Alu("XOR", Alu("ADD", a, ir.immI), Ones) /\ current # "DECODE"
    BY <2>7, <2>8
  <2> QED
    BY <1>0, <2>1, <2>2, <2>3, <2>4, <2>5, <2>6, <2>7, <2>9 DEF StagesHold, Plus4, Cell
<1> QED BY <1>1, <1>2, <1>3

LEMMA StagesReset == ASSUME StagesHold, Reset PROVE StagesHold'
<1>1. TypeOK' /\ current' = "FETCH"
  BY TypeReset DEF StagesHold, Reset
<1> QED BY <1>1 DEF StagesHold

\* At every clock edge of every program, a reset among them, the stage registers
\* hold what belongs to the instruction at hand.
THEOREM StagesHoldCorrect == Spec => []StagesHold
<1>1. Init => StagesHold
  BY TypeInit DEF Init, StagesHold
<1>2. StagesHold /\ [Next]_vars => StagesHold'
  <2> SUFFICES ASSUME StagesHold, [Next]_vars PROVE StagesHold'
    OBVIOUS
  <2>1. CASE Clock
    BY <2>1, StagesClock
  <2>2. CASE Reset
    BY <2>2, StagesReset
  <2>3. CASE UNCHANGED vars
    BY <2>3 DEF StagesHold, TypeOK, vars, stages, Reg, Cell, Plus4
  <2> QED BY <2>1, <2>2, <2>3 DEF Next
<1> QED BY <1>1, <1>2, PTL DEF Spec

-----------------------------------------------------------------------------
(* The instruction set.  The programmer's pc is that of the instruction at   *)
(* hand, and an instruction is executed when the control returns to FETCH.   *)

LEMMA Operands ==
  ASSUME StagesHold, current # "FETCH"
  PROVE  ISA!Current = ir /\ ISA!Plus4(pcc) = pc /\ \A r : ISA!Reg(r) = Reg(r)
BY DEF StagesHold, ISA!Current, ISA!Cell, Cell, ISA!Plus4, Plus4, ISA!Reg, Reg

LEMMA SumIsAdd ==
  ASSUME NEW x \in Word, NEW y \in Word
  PROVE  ISA!Sum(x, y) = Alu("ADD", x, y) /\ Alu("XOR", ISA!Sum(x, y), Ones) = Size - 1 - ISA!Sum(x, y)
<1>1. ISA!Sum(x, y) = Alu("ADD", x, y)
  BY AluAssumption DEF ISA!Sum
<1>2. Alu("ADD", x, y) \in Word
  BY AluAssumption DEF AluOps
<1> QED BY <1>1, <1>2, AluAssumption DEF Ones

\* What a cycle that writes a register writes is the instruction's result.
LEMMA WritesResult ==
  ASSUME StagesHold, RegWrite
  PROVE  /\ ir.op \in {"LW", "ALU", "ADDI", "JAL"}
         /\ ISA!Result(ir) = WbSel
<1>1. TypeOK /\ current # "FETCH" /\ current # "DECODE" /\ ir \in Instruction /\ ir.op \in Ops
  BY InstructionFields DEF StagesHold, TypeOK, RegWrite
<1>2. current \in StatesOf[ir.op] /\ a = Reg(ir.rs1) /\ b = Reg(ir.rs2) /\ a \in Word /\ b \in Word
  BY <1>1 DEF StagesHold, TypeOK
<1>3. ir.immI \in Word
  BY <1>1, InstructionFields
<1>4. CASE current = "LW_WB"
  <2>1. ir.op = "LW"
    BY <1>1, <1>2, <1>4 DEF StatesOf, Ops
  <2>2. mdr = dmem[Cell(Alu("ADD", a, ir.immI))]
    BY <1>4 DEF StagesHold
  <2>3. ISA!Result(ir) = dmem[ISA!Cell(ISA!Sum(ISA!Reg(ir.rs1), ir.immI))]
    BY <2>1 DEF ISA!Result
  <2>4. ISA!Sum(ISA!Reg(ir.rs1), ir.immI) = Alu("ADD", a, ir.immI)
    BY <1>1, <1>2, <1>3, Operands, SumIsAdd
  <2>5. WbSel = mdr
    BY <1>4 DEF WbSel
  <2> QED BY <2>1, <2>2, <2>3, <2>4, <2>5 DEF ISA!Cell, Cell
<1>5. CASE current = "RTYPE_WB"
  <2>1. ir.op = "ALU"
    BY <1>1, <1>2, <1>5 DEF StatesOf, Ops
  <2>2. ISA!Result(ir) = Alu(ir.funct, ISA!Reg(ir.rs1), ISA!Reg(ir.rs2))
    BY <2>1 DEF ISA!Result
  <2>3. aluout = Alu(ir.funct, a, b) /\ WbSel = aluout
    BY <1>5 DEF StagesHold, WbSel
  <2> QED BY <1>1, <1>2, <2>1, <2>2, <2>3, Operands
<1>6. CASE current = "ADDI_WB"
  <2>1. ir.op = "ADDI"
    BY <1>1, <1>2, <1>6 DEF StatesOf, Ops
  <2>2. ISA!Result(ir) = Size - 1 - ISA!Sum(ISA!Reg(ir.rs1), ir.immI)
    BY <2>1 DEF ISA!Result
  <2>3. aluout = Alu("XOR", Alu("ADD", a, ir.immI), Ones) /\ WbSel = aluout
    BY <1>6 DEF StagesHold, WbSel
  <2>4. ISA!Reg(ir.rs1) = a
    BY <1>1, <1>2, Operands
  <2> QED BY <1>2, <1>3, <2>1, <2>2, <2>3, <2>4, SumIsAdd
<1>7. CASE current = "JAL_EXEC"
  <2>1. ir.op = "JAL"
    BY <1>1, <1>2, <1>7 DEF StatesOf, Ops
  <2>2. ISA!Result(ir) = ISA!Plus4(pcc)
    BY <1>1, <2>1 DEF ISA!Result
  <2>3. WbSel = pc
    BY <1>7 DEF WbSel
  <2> QED BY <1>1, <2>1, <2>2, <2>3, Operands
<1> QED BY <1>4, <1>5, <1>6, <1>7 DEF RegWrite

LEMMA WritesRegisters ==
  ASSUME StagesHold, current # "FETCH"
  PROVE  RegistersAfter = IF RegWrite THEN ISA!RegistersAfter(ISA!Current) ELSE rf
<1>1. CASE RegWrite
  <2>1. ir.rd \in Registers
    BY <1>1, InstructionFields DEF StagesHold, TypeOK, RegWrite
  <2> QED BY <1>1, <2>1, WritesResult, Operands DEF RegistersAfter, ISA!RegistersAfter
<1>2. CASE ~RegWrite
  BY <1>2 DEF RegistersAfter
<1> QED BY <1>1, <1>2

\* The cycles that do not end an instruction are stutters.
LEMMA FetchStutters ==
  ASSUME StagesHold, Clock, current = "FETCH"
  PROVE  UNCHANGED ISA!vars
<1>1. ~RegWrite /\ current # "SW_MEM"
  BY DEF RegWrite
<1>2. rf' = rf /\ dmem' = dmem /\ imem' = imem
  BY <1>1 DEF Clock, RegistersAfter
<1> QED BY <1>2, FetchThenDecode DEF ISA!vars

LEMMA MiddleStutters ==
  ASSUME StagesHold, Clock, current \in Middle, current' # "FETCH"
  PROVE  UNCHANGED ISA!vars
<1>1. TypeOK /\ current # "FETCH"
  BY DEF StagesHold, Middle
<1> QED BY <1>1, MiddleKeeps DEF ISA!vars

\* An instruction that is not implemented comes back from DECODE and executes as
\* nothing but the step of the pc.
LEMMA NoneExecutes ==
  ASSUME StagesHold, Clock, current \in Middle, current' = "FETCH"
  PROVE  ISA!Execute(ISA!Current)
<1>1. TypeOK /\ current # "FETCH"
  BY DEF StagesHold, Middle
<1>2. current = "DECODE" /\ current' = AfterDecode
  BY <1>1, MiddleLeads
<1>3. ir.op = "none"
  <2>1. ir.op \in Ops
    BY <1>1, InstructionFields DEF TypeOK
  <2> QED BY <1>2, <2>1 DEF AfterDecode, Ops
<1>4. ISA!Current = ir /\ ISA!Plus4(pcc) = pc
  BY <1>1, Operands
<1>5. ISA!RegistersAfter(ir) = rf /\ ISA!MemoryAfter(ir) = dmem /\ ~ISA!Taken(ir)
  BY <1>3 DEF ISA!RegistersAfter, ISA!MemoryAfter, ISA!Taken
<1> QED BY <1>1, <1>4, <1>5, MiddleKeeps DEF ISA!Execute

LEMMA LastExecutes ==
  ASSUME StagesHold, Clock, current \notin Middle \cup {"FETCH"}
  PROVE  ISA!Execute(ISA!Current)
<1>0. /\ TypeOK /\ current \notin {"FETCH", "DECODE"} /\ ir \in Instruction /\ ir.op \in Ops
      /\ current \in {"LW_WB", "SW_MEM", "RTYPE_WB", "BEQ_EXEC", "JAL_EXEC", "ADDI_WB"}
  BY InstructionFields DEF StagesHold, TypeOK, Middle, States
<1>1. /\ ISA!Current = ir /\ ISA!Plus4(pcc) = pc /\ current' = "FETCH"
      /\ ISA!Reg(ir.rs1) = a /\ ISA!Reg(ir.rs2) = b /\ a \in Word /\ b \in Word
  BY <1>0, Operands, LastThenFetch DEF StagesHold, TypeOK
<1>2. current \in StatesOf[ir.op]
  BY <1>0 DEF StagesHold
<1>3. rf' = ISA!RegistersAfter(ir)
  <2>1. rf' = IF RegWrite THEN ISA!RegistersAfter(ir) ELSE rf
    BY <1>0, <1>1, WritesRegisters DEF Clock
  <2>2. CASE ~RegWrite
    <3>1. ir.op \in {"LW", "ALU", "ADDI", "JAL"} => ir.rd \notin Registers
      BY <1>0, <1>2, <2>2, ConstantAssumption DEF RegWrite, StatesOf, Ops
    <3> QED BY <2>1, <2>2, <3>1 DEF ISA!RegistersAfter
  <2> QED BY <2>1, <2>2
<1>4. dmem' = ISA!MemoryAfter(ir)
  <2>1. CASE current = "SW_MEM"
    <3>1. ir.op = "SW" /\ aluout = Alu("ADD", a, ir.immS)
      BY <1>0, <1>2, <2>1 DEF StatesOf, Ops, StagesHold
    <3>2. aluout = ISA!Sum(a, ir.immS)
      BY <1>0, <1>1, <3>1, SumIsAdd, InstructionFields
    <3> QED BY <1>1, <2>1, <3>1, <3>2 DEF Clock, ISA!MemoryAfter, ISA!Cell, Cell
  <2>2. CASE current # "SW_MEM"
    <3>1. ir.op # "SW"
      BY <1>0, <1>2, <2>2 DEF StatesOf, Ops, Middle
    <3> QED BY <2>2, <3>1 DEF Clock, ISA!MemoryAfter
  <2> QED BY <2>1, <2>2
<1>5. pc' = IF ISA!Taken(ir) THEN ISA!Sum(pcc, ir.immB) ELSE ISA!Plus4(pcc)
  <2>1. current \in {"BEQ_EXEC", "JAL_EXEC"} => aluout = ISA!Sum(pcc, ir.immB)
    BY <1>0, SumIsAdd, InstructionFields DEF StagesHold, TypeOK
  <2>2. current = "BEQ_EXEC" => (Zero <=> a = b)
    BY <1>1, AluAssumption DEF Zero, AluResult, AluSel, ASel, BSel
  <2>3. current = "JAL_EXEC" <=> ir.op = "JAL"
    BY <1>0, <1>2 DEF StatesOf, Ops
  <2>4. current = "BEQ_EXEC" <=> ir.op = "BEQ"
    BY <1>0, <1>2 DEF StatesOf, Ops
  <2>5. PcWrite <=> ISA!Taken(ir)
    BY <1>0, <1>1, <2>2, <2>3, <2>4 DEF PcWrite, ISA!Taken
  <2>6. ISA!Taken(ir) => current \in {"BEQ_EXEC", "JAL_EXEC"}
    BY <2>3, <2>4 DEF ISA!Taken
  <2> QED BY <1>0, <1>1, <2>1, <2>5, <2>6 DEF Clock
<1> QED BY <1>0, <1>1, <1>3, <1>4, <1>5 DEF ISA!Execute, Clock

LEMMA ResetResets ==
  ASSUME StagesHold, Reset
  PROVE  ISA!Reset
<1>1. rf' \in {rf, ISA!RegistersAfter(ISA!Current)}
  <2>1. CASE current = "FETCH"
    BY <2>1 DEF Reset, RegistersAfter, RegWrite
  <2>2. CASE current # "FETCH"
    BY <2>2, WritesRegisters DEF Reset
  <2> QED BY <2>1, <2>2
<1> QED BY <1>1 DEF Reset, ISA!Reset

\* The multicycle processor implements its instruction set: whatever the program,
\* registers, memory and pc go through the states of one instruction at a time.
THEOREM ImplementsISACorrect == Spec => ImplementsISA
<1>1. Init => ISA!Init
  BY DEF Init, ISA!Init
<1>2. StagesHold /\ [Next]_vars => [ISA!Next]_(ISA!vars)
  <2> SUFFICES ASSUME StagesHold, [Next]_vars PROVE [ISA!Next]_(ISA!vars)
    OBVIOUS
  <2>1. CASE Clock
    <3>1. CASE current = "FETCH"
      BY <2>1, <3>1, FetchStutters
    <3>2. CASE current \in Middle
      BY <2>1, <3>2, MiddleStutters, NoneExecutes DEF ISA!Next
    <3>3. CASE current \notin Middle \cup {"FETCH"}
      BY <2>1, <3>3, LastExecutes DEF ISA!Next
    <3> QED BY <3>1, <3>2, <3>3
  <2>2. CASE Reset
    BY <2>2, ResetResets DEF ISA!Next
  <2>3. CASE UNCHANGED vars
    BY <2>3 DEF vars, stages, ISA!vars
  <2> QED BY <2>1, <2>2, <2>3 DEF Next
<1> QED BY <1>1, <1>2, StagesHoldCorrect, PTL DEF Spec, ISA!Spec, ImplementsISA

-----------------------------------------------------------------------------
(* The multipliers, which share nothing with the processor: the inductive    *)
(* invariant.                                                                *)

Rank == [b |-> 0, c |-> 1, d |-> 2, e |-> 3, f |-> 4, g |-> 5, h |-> 6, i |-> 7]

\* What has been added when state s is entered; the states left out add 0.
BeforeF == Mux8("b") + Mux8("c") + Mux8("d") + Mux8("e")
Added ==
  [b |-> 0, c |-> Mux8("b"), d |-> Mux8("b") + Mux8("c"), e |-> Mux8("b") + Mux8("c") + Mux8("d"),
   f |-> BeforeF, g |-> BeforeF + Mux8("f"), h |-> BeforeF + Mux8("f") + Mux8("g"),
   i |-> BeforeF + Mux8("f") + Mux8("g") + Mux8("h")]
Total == BeforeF + Mux8("f") + Mux8("g") + Mux8("h") + Mux8("i")

\* The cycles a run has taken when it enters state s.
Elapsed(s) == IF fast /\ AMsbIs0 /\ s \in {"f", "g", "h", "i"} THEN Rank[s] - 1 ELSE Rank[s]

\* A run, also one a reset left in the latch, is in state s after Rank[s] cycles
\* at most; only a reset leaves such a run.
Bounded ==
  /\ Busy => cycles <= Rank[current_state]
  /\ ~Busy /\ next_state # "a" => cycles = 0

\* The fast multiplier is in no state whose product is known to be zero.
Needed == fast =>
  /\ current_state \in {"e", "i"} => ~AMsbIs0
  /\ current_state \in {"f", "g", "h", "i"} => ~BMswIs0

Running  == Busy => product = Added[current_state] /\ cycles = Elapsed(current_state) /\ Needed
Finished == ~Busy => next_state = "a" /\ product = Total /\ cycles = IdealCycles

IInv == MultTypeOK /\ Bounded /\ (begun => Running /\ Finished)

-----------------------------------------------------------------------------
(* Arithmetic.                                                               *)

LEMMA Distributes ==
  ASSUME NEW a0 \in Nat, NEW a1 \in Nat, NEW a2 \in Nat, NEW a3 \in Nat,
         NEW b0 \in Nat, NEW b1 \in Nat, NEW B \in Nat
  PROVE  (a0 * b0) * 1 + (a1 * b0) * B + (a2 * b0) * (B * B) + (a3 * b0) * ((B * B) * B)
           + (a0 * b1) * (B * B) + (a1 * b1) * ((B * B) * B)
           + (a2 * b1) * ((B * B) * (B * B)) + (a3 * b1) * (((B * B) * (B * B)) * B)
         = (a0 + a1 * B + a2 * (B * B) + a3 * ((B * B) * B)) * (b0 + b1 * (B * B))
OBVIOUS

LEMMA TimesNat == ASSUME NEW x \in Nat, NEW y \in Nat PROVE x * y \in Nat
OBVIOUS

LEMMA TimesAssociate ==
  ASSUME NEW x \in Nat, NEW y \in Nat, NEW z \in Nat PROVE (x * y) * z = x * (y * z)
OBVIOUS

LEMMA TimesLess ==
  ASSUME NEW x \in Nat, NEW y \in Nat, NEW m \in Nat, NEW n \in Nat, x < m, y < n PROVE x * y < m * n
OBVIOUS

LEMMA Append ==
  ASSUME NEW B \in Nat, NEW N \in Nat, NEW x \in 0..N - 1, NEW y \in 0..B - 1
  PROVE  x + y * N \in 0..N * B - 1
OBVIOUS

LEMMA Remains == ASSUME NEW m \in Nat, NEW x \in 0..m - 1 PROVE x % m = x
OBVIOUS

LEMMA Modulo == ASSUME NEW m \in Nat \ {0}, NEW x \in Nat PROVE x % m \in 0..m - 1
OBVIOUS

LEMMA BaseNat ==
  /\ Base \in Nat \ {0} /\ Base2 \in Nat \ {0}
  /\ Base4 \in Nat \ {0} /\ Base4 * Base4 \in Nat \ {0}
<1>1. \A m \in Nat \ {0} : m * m \in Nat \ {0}
  OBVIOUS
<1> QED BY <1>1, BaseAssumption DEF Base2, Base4

LEMMA OperandsNat ==
  ASSUME MultTypeOK
  PROVE  /\ opA[0] \in Digit /\ opA[1] \in Digit /\ opA[2] \in Digit /\ opA[3] \in Digit
         /\ opB[0] \in HalfWord /\ opB[1] \in HalfWord
         /\ opA[0] \in Nat /\ opA[1] \in Nat /\ opA[2] \in Nat /\ opA[3] \in Nat
         /\ opB[0] \in Nat /\ opB[1] \in Nat
<1>1. /\ opA[0] \in Digit /\ opA[1] \in Digit /\ opA[2] \in Digit /\ opA[3] \in Digit
      /\ opB[0] \in HalfWord /\ opB[1] \in HalfWord
  BY DEF MultTypeOK
<1> QED BY <1>1, BaseNat DEF Digit, HalfWord, Base2

LEMMA Parts ==
  /\ Mux8("b") = (opA[0] * opB[0]) * 1 /\ Mux8("c") = (opA[1] * opB[0]) * Base
  /\ Mux8("d") = (opA[2] * opB[0]) * Base2 /\ Mux8("e") = (opA[3] * opB[0]) * (Base2 * Base)
  /\ Mux8("f") = (opA[0] * opB[1]) * Base2 /\ Mux8("g") = (opA[1] * opB[1]) * (Base2 * Base)
  /\ Mux8("h") = (opA[2] * opB[1]) * Base4 /\ Mux8("i") = (opA[3] * opB[1]) * (Base4 * Base)
BY DEF Mux8, Select, Shifted

LEMMA PartsNat == ASSUME MultTypeOK PROVE \A s \in FsmStates \ {"a"} : Mux8(s) \in Nat
<1>1. Base2 * Base \in Nat /\ Base4 * Base \in Nat
  BY BaseNat, TimesNat
<1>2. /\ opA[0] * opB[0] \in Nat /\ opA[1] * opB[0] \in Nat
      /\ opA[2] * opB[0] \in Nat /\ opA[3] * opB[0] \in Nat
      /\ opA[0] * opB[1] \in Nat /\ opA[1] * opB[1] \in Nat
      /\ opA[2] * opB[1] \in Nat /\ opA[3] * opB[1] \in Nat
  BY OperandsNat, TimesNat
<1>3. Mux8("b") \in Nat /\ Mux8("c") \in Nat /\ Mux8("d") \in Nat /\ Mux8("e") \in Nat
  BY <1>1, <1>2, Parts, BaseNat, TimesNat
<1>4. Mux8("f") \in Nat /\ Mux8("g") \in Nat /\ Mux8("h") \in Nat /\ Mux8("i") \in Nat
  BY <1>1, <1>2, Parts, BaseNat, TimesNat
<1> QED BY <1>3, <1>4 DEF FsmStates

\* The parts that are left out are zero, and all of them are the product, which
\* fits the register.
LEMMA ZeroParts ==
  ASSUME MultTypeOK
  PROVE  /\ AMsbIs0 => Mux8("e") = 0 /\ Mux8("i") = 0
         /\ BMswIs0 => Mux8("f") = 0 /\ Mux8("g") = 0 /\ Mux8("h") = 0 /\ Mux8("i") = 0
<1>1. \A n \in Nat : 0 * n = 0 /\ n * 0 = 0
  OBVIOUS
<1>2. Base2 * Base \in Nat /\ Base4 * Base \in Nat
  BY BaseNat, TimesNat
<1> QED BY <1>1, <1>2, OperandsNat, BaseNat, Parts DEF AMsbIs0, BMswIs0

LEMMA TotalIsProduct == ASSUME MultTypeOK PROVE Total = ValueOfA * ValueOfB
BY OperandsNat, BaseNat, Parts, Distributes DEF Total, BeforeF, ValueOfA, ValueOfB, Base2, Base4

LEMMA TotalFits == ASSUME MultTypeOK PROVE Total \in 0..Base4 * Base4 - 1
<1>1. ValueOfA \in 0..Base4 - 1
  <2>1. opA[0] + opA[1] * Base \in 0..Base2 - 1
    BY OperandsNat, BaseNat, Append DEF Digit, Base2
  <2>2. opA[0] + opA[1] * Base + opA[2] * Base2 \in 0..Base2 * Base - 1
    BY <2>1, OperandsNat, BaseNat, Append DEF Digit
  <2>3. Base2 * Base \in Nat /\ (Base2 * Base) * Base = Base4
    BY BaseNat, TimesNat DEF Base2, Base4
  <2>4. opA[0] + opA[1] * Base + opA[2] * Base2 + opA[3] * (Base2 * Base) \in 0..(Base2 * Base) * Base - 1
    BY <2>2, <2>3, OperandsNat, BaseNat, Append DEF Digit
  <2>5. (opA[3] * Base2) * Base = opA[3] * (Base2 * Base)
    BY OperandsNat, BaseNat, TimesAssociate
  <2> QED BY <2>3, <2>4, <2>5 DEF ValueOfA
<1>2. ValueOfB \in 0..Base4 - 1
  BY OperandsNat, BaseNat, Append DEF ValueOfB, HalfWord, Base2, Base4
<1>3. ValueOfA * ValueOfB \in Nat /\ ValueOfA * ValueOfB < Base4 * Base4
  BY <1>1, <1>2, BaseNat, TimesNat, TimesLess
<1> QED BY <1>3, TotalIsProduct, BaseNat

-----------------------------------------------------------------------------
(* A cycle inside a run.                                                     *)

\* What has been added never exceeds the whole sum.
LEMMA AddedFits ==
  ASSUME MultTypeOK
  PROVE  \A s \in FsmStates \ {"a"} :
           /\ Added[s] \in 0..Base4 * Base4 - 1
           /\ Added[s] + Mux8(s) \in 0..Base4 * Base4 - 1
<1>1. Total \in 0..Base4 * Base4 - 1 /\ Base4 * Base4 \in Nat
  BY TotalFits, BaseNat
<1>2. /\ Mux8("b") \in Nat /\ Mux8("c") \in Nat /\ Mux8("d") \in Nat /\ Mux8("e") \in Nat
      /\ Mux8("f") \in Nat /\ Mux8("g") \in Nat /\ Mux8("h") \in Nat /\ Mux8("i") \in Nat
  BY PartsNat DEF FsmStates
<1>3. \A s \in {"b", "c", "d", "e"} : Added[s] \in 0..Base4 * Base4 - 1
                                      /\ Added[s] + Mux8(s) \in 0..Base4 * Base4 - 1
  BY <1>1, <1>2 DEF Added, Total, BeforeF
<1>4. \A s \in {"f", "g", "h", "i"} : Added[s] \in 0..Base4 * Base4 - 1
                                      /\ Added[s] + Mux8(s) \in 0..Base4 * Base4 - 1
  BY <1>1, <1>2 DEF Added, Total, BeforeF
<1> QED BY <1>3, <1>4 DEF FsmStates

\* The state that follows, in a run that started with b: what it has been added,
\* its cycles, and that its own product is not known to be zero.
LEMMA FollowAdds ==
  ASSUME MultTypeOK, Busy, Needed
  PROVE  LET s == Follow(current_state) IN
         /\ s # "a" => /\ s \in FsmStates
                       /\ Added[s] = Added[current_state] + Mux8(current_state)
                       /\ Elapsed(s) = Elapsed(current_state) + 1
                       /\ fast => /\ s \in {"e", "i"} => ~AMsbIs0
                                  /\ s \in {"f", "g", "h", "i"} => ~BMswIs0
         /\ s = "a" => /\ Total = Added[current_state] + Mux8(current_state)
                       /\ IdealCycles = Elapsed(current_state) + 1
<1>1. /\ Mux8("b") \in Nat /\ Mux8("c") \in Nat /\ Mux8("d") \in Nat /\ Mux8("e") \in Nat
      /\ Mux8("f") \in Nat /\ Mux8("g") \in Nat /\ Mux8("h") \in Nat /\ Mux8("i") \in Nat
  BY PartsNat DEF FsmStates
<1>2. current_state \in {"b", "c", "d", "e", "f", "g", "h", "i"}
  BY DEF MultTypeOK, Busy, FsmStates
<1>3. /\ AMsbIs0 => Mux8("e") = 0 /\ Mux8("i") = 0
      /\ BMswIs0 => Mux8("f") = 0 /\ Mux8("g") = 0 /\ Mux8("h") = 0 /\ Mux8("i") = 0
  BY ZeroParts
<1>4. CASE current_state \in {"b", "c", "f", "g"}
  BY <1>1, <1>4 DEF Follow, FollowFast, FollowSlow, Added, Total, BeforeF, Elapsed, Rank, Needed, FsmStates
<1>5. CASE current_state = "d"
  BY <1>1, <1>3, <1>5 DEF Follow, FollowFast, FollowSlow, Added, Total, BeforeF, Elapsed, Rank, Needed, FsmStates,
     IdealCycles, AMsbIs0, BMswIs0
<1>6. CASE current_state = "e"
  BY <1>1, <1>3, <1>6 DEF Follow, FollowFast, FollowSlow, Added, Total, BeforeF, Elapsed, Rank, Needed, FsmStates,
     IdealCycles, AMsbIs0, BMswIs0
<1>7. CASE current_state = "h"
  BY <1>1, <1>3, <1>7 DEF Follow, FollowFast, FollowSlow, Added, Total, BeforeF, Elapsed, Rank, Needed, FsmStates,
     IdealCycles, AMsbIs0, BMswIs0
<1>8. CASE current_state = "i"
  BY <1>1, <1>3, <1>8 DEF Follow, FollowFast, FollowSlow, Added, Total, BeforeF, Elapsed, Rank, Needed, FsmStates,
     IdealCycles, AMsbIs0, BMswIs0
<1> QED BY <1>2, <1>4, <1>5, <1>6, <1>7, <1>8

\* Nothing the invariant says of the operands changes while they are held.
LEMMA Held ==
  ASSUME UNCHANGED <<opA, opB, fast>>
  PROVE  /\ Added' = Added /\ Total' = Total /\ IdealCycles' = IdealCycles
         /\ AMsbIs0' = AMsbIs0 /\ BMswIs0' = BMswIs0 /\ \A s \in FsmStates : Elapsed(s)' = Elapsed(s)
<1>1. \A s \in FsmStates : Mux8(s)' = Mux8(s)
  BY DEF Mux8, Shifted
<1> QED BY <1>1 DEF Added, Total, BeforeF, IdealCycles, Elapsed, AMsbIs0, BMswIs0, FsmStates

\* Whatever the state, the machine goes on to a later one or to a.
LEMMA FollowLater ==
  ASSUME NEW s \in FsmStates, s # "a", fast \in BOOLEAN
  PROVE  Follow(s) \in FsmStates /\ (Follow(s) # "a" => Rank[Follow(s)] >= Rank[s] + 1)
BY DEF FsmStates, Follow, FollowFast, FollowSlow, Rank, AMsbIs0, BMswIs0

-----------------------------------------------------------------------------
(* The invariant.                                                            *)

LEMMA InitIInv == MultInit => IInv
<1> SUFFICES ASSUME MultInit PROVE IInv
  OBVIOUS
<1>1. 0 \in Digit /\ 0 \in HalfWord /\ 0 \in 0..Base4 * Base4 - 1
  BY BaseNat DEF Digit, HalfWord, Base2
<1>2. fast \in BOOLEAN /\ begun \in BOOLEAN
  BY DEF MultInit
<1>3. current_state \in FsmStates /\ next_state \in FsmStates /\ cycles \in 0..8
  BY DEF MultInit, FsmStates
<1>4. product \in 0..Base4 * Base4 - 1 /\ opA \in [0..3 -> Digit] /\ opB \in [0..1 -> HalfWord]
  BY <1>1 DEF MultInit
<1>5. MultTypeOK
  BY <1>2, <1>3, <1>4 DEF MultTypeOK
<1> QED BY <1>5 DEF MultInit, IInv, Bounded, Busy

LEMMA ResetIInv == ASSUME IInv, MultReset PROVE IInv'
<1>1. next_state' \in FsmStates
  <2>1. CASE current_state = "a"
    BY <2>1 DEF IInv, MultTypeOK, MultReset, Settled
  <2>2. CASE current_state # "a"
    BY <2>2, FollowLater DEF IInv, MultTypeOK, MultReset, Settled
  <2> QED BY <2>1, <2>2
<1>2. 0 \in 0..Base4 * Base4 - 1
  BY BaseNat
<1>3. fast' \in BOOLEAN /\ begun' \in BOOLEAN /\ current_state' \in FsmStates /\ cycles' \in 0..8
  <2>1. fast' \in BOOLEAN
    BY Zenon DEF IInv, MultTypeOK, MultReset
  <2>2. begun' \in BOOLEAN
    BY DEF MultReset
  <2>3. current_state' \in FsmStates /\ cycles' \in 0..8
    BY DEF MultReset, FsmStates
  <2> QED BY <2>1, <2>2, <2>3
<1>4. product' \in (0..Base4 * Base4 - 1)' /\ opA' \in [0..3 -> Digit] /\ opB' \in [0..1 -> HalfWord]
  BY <1>2 DEF IInv, MultTypeOK, MultReset
<1>5. MultTypeOK'
  BY <1>1, <1>3, <1>4 DEF MultTypeOK
<1> QED BY <1>5 DEF IInv, MultReset, Bounded, Busy

LEMMA BusyIInv == ASSUME IInv, Busy, NEW start \in BOOLEAN, Cycle(start) PROVE IInv'
<1> DEFINE s == Follow(current_state)
<1>1. /\ current_state \in FsmStates /\ current_state # "a" /\ fast \in BOOLEAN /\ cycles \in 0..8
      /\ MultTypeOK /\ cycles <= Rank[current_state] /\ Rank[current_state] \in 0..7
  BY DEF IInv, MultTypeOK, Bounded, Busy, FsmStates, Rank
<1>2. /\ current_state' = s /\ next_state' = IF s = "a" THEN "a" ELSE Follow(s)
      /\ product' = (product + Mux8(current_state)) % (Base4 * Base4)
      /\ cycles' = cycles + 1
      /\ UNCHANGED <<opA, opB, fast, begun>>
  BY <1>1 DEF Cycle, Settled, Product, Busy, MaxCycles
<1>3. s \in FsmStates /\ (s # "a" => Rank[s] >= Rank[current_state] + 1)
  BY <1>1, FollowLater
<1>4. next_state' \in FsmStates
  BY <1>1, <1>2, <1>3, FollowLater
<1>5. Mux8(current_state) \in Nat /\ product \in Nat
  BY <1>1, PartsNat DEF MultTypeOK
<1>6. product' \in 0..Base4 * Base4 - 1
  BY <1>2, <1>5, BaseNat, Modulo
<1>7. MultTypeOK'
  BY <1>1, <1>2, <1>3, <1>4, <1>6 DEF MultTypeOK
<1>8. Bounded'
  <2>1. ~Busy' => next_state' = "a"
    BY <1>2 DEF Busy
  <2>2. Busy' => cycles' <= Rank[current_state']
    BY <1>1, <1>2, <1>3 DEF Busy, Rank, FsmStates
  <2> QED BY <2>1, <2>2 DEF Bounded, Busy
<1>9. ASSUME begun PROVE Running' /\ Finished'
  <2>1. Needed /\ product = Added[current_state] /\ cycles = Elapsed(current_state)
    BY <1>9 DEF IInv, Running
  <2>2. product' = Added[current_state] + Mux8(current_state)
    BY <1>1, <1>2, <2>1, AddedFits, Remains, BaseNat
  <2>3. ASSUME s # "a" PROVE Running'
    <3>1. /\ Added[s] = product' /\ Elapsed(s) = cycles'
          /\ fast => /\ s \in {"e", "i"} => ~AMsbIs0
                     /\ s \in {"f", "g", "h", "i"} => ~BMswIs0
      BY <1>1, <1>2, <2>1, <2>2, <2>3, FollowAdds
    <3>2. product' = Added'[current_state']
      BY <1>2, <3>1, Held
    <3>3. cycles' = Elapsed(current_state)'
      BY <1>2, <1>3, <3>1, Held DEF Elapsed
    <3>4. Needed'
      BY <1>2, <3>1, Held DEF Needed
    <3> QED BY <3>2, <3>3, <3>4 DEF Running
  <2>4. ASSUME s = "a" PROVE Finished'
    <3>1. Total = product' /\ IdealCycles = cycles'
      BY <1>1, <1>2, <2>1, <2>2, <2>4, FollowAdds
    <3> QED BY <1>2, <2>4, <3>1, Held DEF Finished
  <2>5. s = "a" => ~Busy'
    BY <1>2 DEF Busy
  <2>6. s # "a" => Busy'
    BY <1>2 DEF Busy
  <2> QED BY <2>3, <2>4, <2>5, <2>6 DEF Running, Finished
<1> QED BY <1>2, <1>7, <1>8, <1>9 DEF IInv

LEMMA StartIInv == ASSUME IInv, ~Busy, Cycle(TRUE) PROVE IInv'
<1>1. /\ current_state' = "b" /\ next_state' = "c" /\ product' = 0
      /\ opA' \in [0..3 -> Digit] /\ opB' \in [0..1 -> HalfWord] /\ begun' = TRUE /\ cycles' = 0
      /\ fast' = fast /\ fast \in BOOLEAN
  BY DEF IInv, MultTypeOK, Cycle, Settled, Product, Busy, Follow, FollowFast, FollowSlow
<1>2. 0 \in 0..Base4 * Base4 - 1
  BY BaseNat
<1>3. MultTypeOK'
  BY <1>1, <1>2 DEF MultTypeOK, FsmStates
<1>4. Bounded' /\ Busy'
  BY <1>1 DEF Bounded, Busy, Rank
<1>5. Running'
  BY <1>1 DEF Running, Added, Elapsed, Rank, Needed
<1> QED BY <1>3, <1>4, <1>5 DEF IInv, Finished

LEMMA IdleIInv == ASSUME IInv, ~Busy, Cycle(FALSE) PROVE IInv'
<1>1. /\ current_state' = next_state /\ next_state' = IF next_state = "a" THEN "a" ELSE Follow(next_state)
      /\ UNCHANGED <<fast, product, opA, opB, begun, cycles>> /\ next_state \in FsmStates /\ fast \in BOOLEAN
  BY DEF IInv, MultTypeOK, Cycle, Settled, Product, Busy
<1>2. next_state' \in FsmStates
  BY <1>1, FollowLater
<1>3. MultTypeOK'
  BY <1>1, <1>2 DEF IInv, MultTypeOK
<1>4. Bounded'
  <2>1. Rank[next_state] >= 0 \/ next_state = "a"
    BY <1>1 DEF Rank, FsmStates
  <2> QED BY <1>1, <2>1 DEF IInv, Bounded, Busy
<1>5. ASSUME begun PROVE ~Busy' /\ Finished'
  <2>1. next_state = "a" /\ product = Total /\ cycles = IdealCycles
    BY <1>5 DEF IInv, Finished
  <2>2. UNCHANGED <<opA, opB, fast>>
    BY <1>1
  <2> QED BY <1>1, <2>1, <2>2, Held DEF Finished, Busy
<1> QED BY <1>1, <1>3, <1>4, <1>5 DEF IInv, Running

LEMMA NextIInv == ASSUME IInv, [MultNext]_multVars PROVE IInv'
<1>1. CASE UNCHANGED multVars
  <2>1. UNCHANGED <<opA, opB, fast>> /\ UNCHANGED <<current_state, next_state, product, begun, cycles>>
    BY <1>1 DEF multVars
  <2>2. MultTypeOK' /\ Bounded'
    BY <2>1 DEF IInv, MultTypeOK, Bounded, Busy
  <2>3. begun => Running' /\ Finished'
    BY <2>1, Held DEF IInv, MultTypeOK, Running, Finished, Needed, Busy, Elapsed
  <2> QED BY <2>1, <2>2, <2>3 DEF IInv
<1>2. CASE MultReset
  BY <1>2, ResetIInv
<1>3. ASSUME NEW start \in BOOLEAN, Cycle(start) PROVE IInv'
  <2>1. CASE Busy
    BY <1>3, <2>1, BusyIInv
  <2>2. CASE ~Busy /\ start = TRUE
    BY <1>3, <2>2, StartIInv
  <2>3. CASE ~Busy /\ start = FALSE
    BY <1>3, <2>3, IdleIInv
  <2> QED BY <1>3, <2>1, <2>2, <2>3
<1> QED BY <1>1, <1>2, <1>3 DEF MultNext

\* The inductive invariant holds in every state: the types, the bound on cycles,
\* and, in a run that was not reset, what has been added so far.
THEOREM MultiplierInvariance == MultSpec => []IInv
<1>1. MultInit => IInv
  BY InitIInv
<1>2. IInv /\ [MultNext]_multVars => IInv'
  BY NextIInv
<1> QED BY <1>1, <1>2, PTL DEF MultSpec

\* When a run that was started and not reset is over, product holds a * b, for
\* either multiplier, whichever partial products it left out.
THEOREM ProductExactCorrect == MultSpec => []ProductExact
<1>1. IInv => ProductExact
  BY TotalIsProduct DEF IInv, Finished, ProductExact
<1> QED BY MultiplierInvariance, <1>1, PTL

\* Such a run has taken 8 cycles, and in the fast multiplier exactly those whose
\* byte and word are not zero at the top.
THEOREM LatencyCorrect == MultSpec => []Latency
<1>1. IInv => Latency
  BY DEF IInv, Finished, Latency
<1> QED BY MultiplierInvariance, <1>1, PTL
=============================================================================
