------------------------------- MODULE MCRiscV ------------------------------
(* Model-checking instance of the processor: words of three bits, two       *)
(* registers beside x0, two cells of each memory, every program of two      *)
(* instructions out of a choice of 34, all operations among them.           *)
EXTENDS RiscV, RiscVAlu

Make(op, funct, rd, rs1, rs2, immI, immS, immB, immJ) ==
  [op |-> op, funct |-> funct, rd |-> rd, rs1 |-> rs1, rs2 |-> rs2,
   immI |-> immI, immS |-> immS, immB |-> immB, immJ |-> immJ]

Chosen ==
  {Make("LW", "none", 1, 2, 0, 4, 1, 2, 0), Make("LW", "none", 2, 0, 0, 0, 4, 4, 6),
   Make("SW", "none", 0, 0, 1, 2, 4, 4, 0), Make("SW", "none", 0, 1, 2, 4, 0, 2, 4),
   Make("BEQ", "none", 0, 1, 2, 4, 1, 4, 0), Make("BEQ", "none", 0, 1, 0, 0, 4, 0, 4),
   Make("JAL", "none", 1, 0, 0, 2, 0, 4, 0), Make("JAL", "none", 0, 0, 0, 4, 1, 2, 6),
   Make("ADDI", "none", 1, 1, 0, 1, 4, 0, 0), Make("ADDI", "none", 2, 1, 1, 3, 1, 2, 2),
   Make("none", "SRA", 1, 2, 1, 1, 1, 4, 4), Make("BEQ", "none", 0, 2, 2, 3, 4, 6, 4)}
  \cup {Make("ALU", op, 1, 2, 1, 4, 0, 2, 0) : op \in AluOps}
  \cup {Make("ALU", op, 2, 1, 2, 1, 1, 0, 4) : op \in AluOps}

MCPrograms == [0..1 -> Chosen]
MCData == {[rf |-> <<x, 5>>, dmem |-> [c \in 0..1 |-> 3 * c]] : x \in {4, 5}}
=============================================================================
