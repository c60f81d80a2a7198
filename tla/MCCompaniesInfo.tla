--------------------------- MODULE MCCompaniesInfo ---------------------------
(* Model-checking instance of the companies' AVL trees.  Nothing compares the *)
(* ids of companies, so the companies are symmetric.                          *)
EXTENDS CompaniesInfo, TLC

CONSTANTS c1, c2, c3

Symmetric == Permutations(CompanyIds)
=============================================================================
