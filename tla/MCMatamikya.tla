---------------------------- MODULE MCMatamikya ----------------------------
(* Model-checking instance of the warehouse.  Ten units make 1.0, one is the *)
(* tolerance; a cfg file cannot write a negative number.                    *)
EXTENDS MatamikyaProperties

Mixed == {-5, 10}
=============================================================================
