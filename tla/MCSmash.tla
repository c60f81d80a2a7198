------------------------------ MODULE MCSmash ------------------------------
(* Model-checking instance of the job control of smash. *)
EXTENDS SmashProperties

CONSTANTS p1, p2, p3

Symmetric == Permutations(Pids)
=============================================================================
