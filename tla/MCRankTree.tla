---------------------------- MODULE MCRankTree ----------------------------
(* Model-checking instance of the rank tree. *)
EXTENDS RankTree, TLC

CONSTANTS t1, t2

Symmetric == Permutations(Trees)
=============================================================================
