---------------------------- MODULE MCCompanies ----------------------------
(* Model-checking instance of the companies' data structure. *)
EXTENDS CompaniesProperties, TLC

CONSTANTS e1, e2

Symmetric == Permutations(Employees)
=============================================================================
