------------------------------ MODULE RiscVAlu ------------------------------
(* The arithmetic unit of rv_dp.sv on words of Width bits.  The operands are *)
(* unsigned but for SLT, so that SRA shifts zeros in like SRL; a shift takes *)
(* the whole right operand; an operation that is none of the ten adds.       *)
EXTENDS Integers, Bitwise

CONSTANT Width

Values == 2^Width
Signed(x) == IF x < Values \div 2 THEN x ELSE x - Values
ShiftLeft(x, n)  == IF n >= Width THEN 0 ELSE (x * 2^n) % Values
ShiftRight(x, n) == IF n >= Width THEN 0 ELSE x \div 2^n

AluOf(op, x, y) ==
  CASE op = "SUB"  -> (x - y) % Values
    [] op = "SLL"  -> ShiftLeft(x, y)
    [] op = "SLT"  -> IF Signed(x) < Signed(y) THEN 1 ELSE 0
    [] op = "SLTU" -> IF x < y THEN 1 ELSE 0
    [] op = "XOR"  -> x ^^ y
    [] op \in {"SRL", "SRA"} -> ShiftRight(x, y)
    [] op = "OR"   -> x | y
    [] op = "AND"  -> x & y
    [] OTHER -> (x + y) % Values
=============================================================================
