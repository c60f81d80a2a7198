---------------------------- MODULE Corporations ----------------------------
(***************************************************************************)
(* What "Companies Management 2" promises about ownership and employment:  *)
(* every company belongs to a corporation, named by its head; an           *)
(* acquisition moves a whole corporation under the acquirer's head, with   *)
(* its employees, and raises what every company of the acquirer's          *)
(* corporation is worth.  No tree, no hash table, no cached pointer.       *)
(***************************************************************************)
EXTENDS Naturals

CONSTANTS NumCompanies, Employees, Factors, MaxSalary, MaxGrade

Companies == 1..NumCompanies
NoCompany == 0

VARIABLES
  head,      \* the company that heads a company's corporation
  employer,  \* the head of the corporation an employee works for, or NoCompany
  salary, grade,
  worth      \* what a company is worth

vars == <<head, employer, salary, grade, worth>>

Init ==
  /\ head = [c \in Companies |-> c]
  /\ employer = [e \in Employees |-> NoCompany]
  /\ salary = [e \in Employees |-> 0]
  /\ grade = [e \in Employees |-> 0]
  /\ worth = [c \in Companies |-> c]

Hire(e, c, g) ==
  /\ employer[e] = NoCompany
  /\ employer' = [employer EXCEPT ![e] = head[c]]
  /\ grade' = [grade EXCEPT ![e] = g]
  /\ UNCHANGED <<head, salary, worth>>

Leave(e) ==
  /\ employer[e] # NoCompany
  /\ employer' = [employer EXCEPT ![e] = NoCompany]
  /\ salary' = [salary EXCEPT ![e] = 0]
  /\ grade' = [grade EXCEPT ![e] = 0]
  /\ UNCHANGED <<head, worth>>

Raise(e, n) ==
  /\ employer[e] # NoCompany
  /\ salary[e] + n <= MaxSalary
  /\ salary' = [salary EXCEPT ![e] = @ + n]
  /\ UNCHANGED <<head, employer, grade, worth>>

Promote(e, n) ==
  /\ employer[e] # NoCompany
  /\ grade[e] + n <= MaxGrade
  /\ grade' = [grade EXCEPT ![e] = @ + n]
  /\ UNCHANGED <<head, employer, salary, worth>>

Acquire(c, d, factor) ==
  /\ head[c] # head[d]
  /\ head' = [x \in Companies |-> IF head[x] = head[d] THEN head[c] ELSE head[x]]
  /\ employer' = [e \in Employees |-> IF employer[e] = head[d] THEN head[c] ELSE employer[e]]
  /\ worth' = [x \in Companies |-> IF head[x] = head[c] THEN worth[x] + factor * worth[head[d]] ELSE worth[x]]
  /\ UNCHANGED <<salary, grade>>

Next ==
  \/ \E e \in Employees, c \in Companies, g \in 0..MaxGrade : Hire(e, c, g)
  \/ \E e \in Employees : Leave(e)
  \/ \E e \in Employees, n \in 1..MaxSalary : Raise(e, n)
  \/ \E e \in Employees, n \in 1..MaxGrade : Promote(e, n)
  \/ \E c, d \in Companies, factor \in Factors : Acquire(c, d, factor)

Spec == Init /\ [][Next]_vars
=============================================================================
