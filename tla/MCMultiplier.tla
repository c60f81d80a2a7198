---------------------------- MODULE MCMultiplier ----------------------------
(* Model-checking instance of the multipliers: bytes of one bit. *)
EXTENDS Multiplier
=============================================================================
