------------------------------- MODULE MCCity -------------------------------
(* Model-checking instance of the city: two workplaces, three faculties of  *)
(* which two teach one skill.                                               *)
EXTENDS City, TLC

CONSTANTS c1, c2, c3, c4, w1, w2, f1, f2, f3

Symmetric == Permutations(Ids)

MCWorkersSalary  == w1 :> 1 @@ w2 :> 2
MCManagersSalary == w1 :> 1 @@ w2 :> 3
MCSkillOf        == f1 :> "basic" @@ f2 :> "advanced" @@ f3 :> "advanced"
MCRequiredPoints == f1 :> 0 @@ f2 :> 1 @@ f3 :> 2
MCAddedPoints    == f1 :> 1 @@ f2 :> 1 @@ f3 :> 2
=============================================================================
