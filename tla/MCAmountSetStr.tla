--------------------------- MODULE MCAmountSetStr ---------------------------
(* Model-checking instance of the amount sets of strings.  No step reads the *)
(* last answer, so that states are told apart without it.                    *)
EXTENDS AmountSetStr

View == <<heads, nodeVars, iterator, defined>>
=============================================================================
