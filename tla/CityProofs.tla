----------------------------- MODULE CityProofs ------------------------------
(***************************************************************************)
(* Proofs about the city, for any citizens, workplaces and faculties, and  *)
(* any salaries: a manager's salary tells whether there is a post, the     *)
(* lists implement the posts and contracts that were agreed, everyone      *)
(* earns what these pay, and has the points of the courses taken.          *)
(***************************************************************************)
EXTENDS City, SetLemmas

\* The inductive invariant.  Who leads and who is led tell the classes apart, so
\* that a group's salaries never change a manager's; a manager has one post, whose
\* salary is the manager's own, and without it earns nothing and leads nobody.
Post(m, w) == m \in managers[w]

KindsApart ==
  /\ \A c \in Ids : kind[c] # "Manager" => employees[c] = {} /\ \A w \in Workplaces : ~Post(c, w)
  /\ \A c \in Ids : \A d \in employees[c] : kind[d] = "Employee"
  /\ \A c \in Ids : kind[c] = "none" => salary[c] = 0
WorkplacesExist == \A w \in Workplaces : managers[w] # {} => w \in workplaces
OnePost == \A m \in Ids : \A v, w \in Workplaces : Post(m, v) /\ Post(m, w) => v = w
PaidForPost == \A m \in Ids : \A w \in Workplaces : Post(m, w) => salary[m] = ManagersSalary[w]
UnpaidWithout == \A m \in Ids :
  kind[m] = "Manager" /\ (\A w \in Workplaces : ~Post(m, w)) => salary[m] = 0 /\ employees[m] = {}

IInv == TypeOK /\ KindsApart /\ WorkplacesExist /\ OnePost /\ PaidForPost /\ UnpaidWithout

-----------------------------------------------------------------------------
(* Salaries.                                                                 *)

LEMMA PaidNat ==
  ASSUME NEW n \in Nat, NEW amount \in Int
  PROVE  EmployeePaid(n, amount) \in Nat /\ ManagerPaid(n, amount) \in Nat
BY DEF EmployeePaid, ManagerPaid

LEMMA GroupPaidNat ==
  ASSUME NEW s \in [Ids -> Nat], NEW m \in Ids, NEW amount \in Int
  PROVE  /\ GroupPaid(s, m, amount) \in [Ids -> Nat]
         /\ \A c \in Ids \ employees[m] : GroupPaid(s, m, amount)[c] = s[c]
BY PaidNat DEF GroupPaid

LEMMA InitIInv == Init => IInv
BY DEF Answers, Init, IInv, TypeOK, KindsApart, WorkplacesExist, OnePost, PaidForPost, UnpaidWithout, Post

-----------------------------------------------------------------------------
(* The steps.                                                                *)

LEMMA ThrowIInv == ASSUME IInv, NEW x \in Answers, Throw(x) PROVE IInv'
BY DEF Throw, IInv, TypeOK, KindsApart, WorkplacesExist, OnePost, PaidForPost, UnpaidWithout, Post,
       cityVars, staffVars, schoolVars

LEMMA AddCitizenIInv ==
  ASSUME IInv, NEW c \in Ids, NEW k \in {"Employee", "Manager"}, AddCitizen(c, k) PROVE IInv'
<1>1. CASE c \in Citizens
  BY <1>1, ThrowIInv DEF AddCitizen, Answers
<1>2. CASE c \notin Citizens
  <2>0. kind[c] = "none"
    BY <1>2 DEF Citizens
  <2>1. /\ kind' = [kind EXCEPT ![c] = k] /\ answer' = "done"
        /\ UNCHANGED <<workplaces, faculties, managers, employees, salary, score, skills, courses>>
    BY <1>2 DEF AddCitizen, staffVars, schoolVars
  <2>2. TypeOK'
    BY <2>1 DEF IInv, TypeOK, Answers
  <2>3. \A d \in Ids : c \notin employees[d]
    BY <2>0 DEF IInv, KindsApart
  <2>4. employees[c] = {} /\ (\A w \in Workplaces : ~Post(c, w)) /\ salary[c] = 0
    BY <2>0 DEF IInv, KindsApart
  <2>5. KindsApart'
    BY <2>0, <2>1, <2>3, <2>4 DEF IInv, TypeOK, KindsApart, Post
  <2>6. UnpaidWithout'
    BY <2>0, <2>1, <2>4 DEF IInv, TypeOK, UnpaidWithout, Post
  <2> QED
    BY <2>1, <2>2, <2>5, <2>6 DEF IInv, WorkplacesExist, OnePost, PaidForPost, Post
<1> QED BY <1>1, <1>2

LEMMA HireManagerIInv ==
  ASSUME IInv, NEW c \in Ids, NEW w \in Workplaces, HireManagerAtWorkplace(c, w) PROVE IInv'
<1>1. CASE \E x \in Answers : Throw(x)
  BY <1>1, ThrowIInv
<1>2. CASE /\ c \notin managers[w] /\ ~EarnsElsewhere(c) /\ kind[c] = "Manager" /\ w \in workplaces
           /\ salary' = [GroupPaid(salary, c, WorkersSalary[w]) EXCEPT ![c] = ManagerPaid(@, ManagersSalary[w])]
           /\ managers' = [managers EXCEPT ![w] = @ \cup {c}]
           /\ answer' = "done"
           /\ UNCHANGED <<employees, cityVars, schoolVars>>
  <2>0. TypeOK /\ ManagersSalary[w] \in Nat \ {0} /\ WorkersSalary[w] \in Nat
    BY ConstantAssumption DEF IInv
  <2>1. salary[c] = 0 /\ \A v \in Workplaces : ~Post(c, v)
    BY <1>2, <2>0, ConstantAssumption DEF IInv, TypeOK, EarnsElsewhere, PaidForPost
  <2>2. employees[c] = {}
    BY <1>2, <2>1 DEF IInv, UnpaidWithout
  <2>3. salary' = [salary EXCEPT ![c] = ManagersSalary[w]]
    <3>1. GroupPaid(salary, c, WorkersSalary[w]) = salary
      BY <2>0, <2>2 DEF GroupPaid, TypeOK
    <3>2. ManagerPaid(salary[c], ManagersSalary[w]) = ManagersSalary[w]
      BY <2>0, <2>1 DEF ManagerPaid
    <3> QED BY <1>2, <3>1, <3>2
  <2>4. UNCHANGED <<employees, kind, workplaces, faculties, score, skills, courses>>
    BY <1>2 DEF cityVars, schoolVars
  <2>5. \A m \in Ids : \A v \in Workplaces : Post(m, v)' <=> Post(m, v) \/ (m = c /\ v = w)
    BY <1>2, <2>0 DEF Post, TypeOK
  <2>6. TypeOK'
    BY <1>2, <2>0, <2>3, <2>4 DEF TypeOK, Answers
  <2>7. KindsApart'
    BY <1>2, <2>0, <2>3, <2>4, <2>5 DEF IInv, KindsApart, TypeOK
  <2>8. WorkplacesExist'
    BY <1>2, <2>0, <2>4 DEF IInv, WorkplacesExist, TypeOK
  <2>9. OnePost'
    BY <2>1, <2>5 DEF IInv, OnePost
  <2>10. PaidForPost'
    BY <2>0, <2>1, <2>3, <2>5 DEF IInv, PaidForPost, TypeOK
  <2>11. UnpaidWithout'
    BY <2>0, <2>3, <2>4, <2>5 DEF IInv, UnpaidWithout, TypeOK
  <2> QED BY <2>6, <2>7, <2>8, <2>9, <2>10, <2>11 DEF IInv
<1> QED BY <1>1, <1>2 DEF HireManagerAtWorkplace, HireManager, Answers

LEMMA AddFacultyIInv == ASSUME IInv, NEW f \in Faculties, AddFaculty(f) PROVE IInv'
<1>1. CASE f \in faculties
  BY <1>1, ThrowIInv DEF AddFaculty, Answers
<1>2. CASE f \notin faculties
  BY <1>2 DEF AddFaculty, Answers, staffVars, schoolVars,
     IInv, TypeOK, KindsApart, WorkplacesExist, OnePost, PaidForPost, UnpaidWithout, Post
<1> QED BY <1>1, <1>2

LEMMA CreateWorkplaceIInv == ASSUME IInv, NEW w \in Workplaces, CreateWorkplace(w) PROVE IInv'
<1>1. CASE w \in workplaces
  BY <1>1, ThrowIInv DEF CreateWorkplace, Answers
<1>2. CASE w \notin workplaces
  BY <1>2 DEF CreateWorkplace, Answers, staffVars, schoolVars,
     IInv, TypeOK, KindsApart, WorkplacesExist, OnePost, PaidForPost, UnpaidWithout, Post
<1> QED BY <1>1, <1>2

LEMMA HireEmployeeIInv ==
  ASSUME IInv, NEW e \in Ids, NEW m \in Ids, NEW w \in Workplaces, HireEmployeeAtWorkplace(e, m, w) PROVE IInv'
<1>1. CASE \E x \in Answers : Throw(x)
  BY <1>1, ThrowIInv
<1>2. CASE /\ kind[e] = "Employee" /\ m \in managers[w]
           /\ employees' = [employees EXCEPT ![m] = @ \cup {e}]
           /\ salary' = [salary EXCEPT ![e] = EmployeePaid(@, WorkersSalary[w])]
           /\ answer' = "done"
           /\ UNCHANGED <<managers, cityVars, schoolVars>>
  <2>0. TypeOK /\ WorkersSalary[w] \in Nat
    BY ConstantAssumption DEF IInv
  <2>1. kind[m] = "Manager" /\ Post(m, w)
    BY <1>2 DEF IInv, KindsApart, Post
  <2>2. UNCHANGED <<managers, kind, workplaces, faculties, score, skills, courses>>
    BY <1>2 DEF cityVars, schoolVars
  <2>3. EmployeePaid(salary[e], WorkersSalary[w]) \in Nat
    <3>1. salary[e] \in Nat /\ WorkersSalary[w] \in Int
      BY <2>0 DEF TypeOK
    <3> QED BY <3>1, PaidNat
  <2>4. TypeOK'
    BY <1>2, <2>0, <2>2, <2>3 DEF TypeOK, Answers
  <2>5. KindsApart'
    BY <1>2, <2>0, <2>1, <2>2 DEF IInv, KindsApart, TypeOK, Post
  <2>6. PaidForPost'
    BY <1>2, <2>0, <2>2 DEF IInv, PaidForPost, KindsApart, TypeOK, Post
  <2>7. UnpaidWithout'
    BY <1>2, <2>0, <2>1, <2>2 DEF IInv, UnpaidWithout, TypeOK, Post
  <2> QED BY <2>2, <2>4, <2>5, <2>6, <2>7 DEF IInv, WorkplacesExist, OnePost, Post
<1> QED BY <1>1, <1>2 DEF HireEmployeeAtWorkplace, Answers

LEMMA FireEmployeeIInv ==
  ASSUME IInv, NEW e \in Ids, NEW m \in Ids, NEW w \in Workplaces, FireEmployeeAtWorkplace(e, m, w) PROVE IInv'
<1>1. CASE \E x \in Answers : Throw(x)
  BY <1>1, ThrowIInv
<1>2. CASE /\ m \in managers[w]
           /\ salary' = [c \in Ids |-> IF c \in NoLongerPaid(e, m)
                                       THEN EmployeePaid(salary[c], -WorkersSalary[w]) ELSE salary[c]]
           /\ employees' = [employees EXCEPT ![m] = @ \ {e}]
           /\ answer' = IF e \in employees[m] THEN "done" ELSE "EmployeeDoesNotExist"
           /\ UNCHANGED <<managers, cityVars, schoolVars>>
  <2>0. TypeOK /\ WorkersSalary[w] \in Nat
    BY ConstantAssumption DEF IInv
  <2>1. UNCHANGED <<managers, kind, workplaces, faculties, score, skills, courses>>
    BY <1>2 DEF cityVars, schoolVars
  <2>2. \A c \in NoLongerPaid(e, m) : kind[c] = "Employee"
    BY DEF NoLongerPaid, IInv, KindsApart
  <2>3. \A c \in Ids : EmployeePaid(salary[c], -WorkersSalary[w]) \in Nat
    <3>1. (\A c \in Ids : salary[c] \in Nat) /\ -WorkersSalary[w] \in Int
      BY <2>0 DEF TypeOK
    <3> QED BY <3>1, PaidNat
  <2>4. /\ salary' \in [Ids -> Nat]
        /\ \A c \in Ids : kind[c] # "Employee" => salary'[c] = salary[c]
    BY <1>2, <2>0, <2>2, <2>3 DEF TypeOK
  <2>5. TypeOK'
    BY <1>2, <2>0, <2>1, <2>4 DEF TypeOK, Answers
  <2>6. KindsApart'
    BY <1>2, <2>0, <2>1, <2>4 DEF IInv, KindsApart, TypeOK, Post
  <2>7. PaidForPost'
    BY <2>0, <2>1, <2>4 DEF IInv, PaidForPost, KindsApart, TypeOK, Post
  <2>8. UnpaidWithout'
    BY <1>2, <2>0, <2>1, <2>4 DEF IInv, UnpaidWithout, TypeOK, Post
  <2> QED BY <2>1, <2>5, <2>6, <2>7, <2>8 DEF IInv, WorkplacesExist, OnePost, Post
<1> QED BY <1>1, <1>2 DEF FireEmployeeAtWorkplace, Answers

\* A dismissed manager's own salary comes down to nothing, being that of the post.
LEMMA FireManagerIInv ==
  ASSUME IInv, NEW m \in Ids, NEW w \in Workplaces, FireManagerAtWorkplace(m, w) PROVE IInv'
<1>1. CASE \E x \in Answers : Throw(x)
  BY <1>1, ThrowIInv
<1> DEFINE paidOff == GroupPaid(salary, m, -WorkersSalary[w])
<1>2. CASE /\ m \in managers[w]
           /\ salary' = [c \in Ids |->
                IF c = m THEN ManagerPaid(paidOff[c], -ManagersSalary[w])
                ELSE IF c \in GroupRemoved(m) THEN EmployeePaid(paidOff[c], -WorkersSalary[w])
                ELSE paidOff[c]]
           /\ employees' = [employees EXCEPT ![m] = GroupRemoved(m)]
           /\ managers' = [managers EXCEPT ![w] = @ \ {m}]
           /\ answer' = "done"
           /\ UNCHANGED <<cityVars, schoolVars>>
  <2>0. TypeOK /\ WorkersSalary[w] \in Nat /\ -WorkersSalary[w] \in Int /\ ManagersSalary[w] \in Nat \ {0}
    BY ConstantAssumption DEF IInv
  <2>1. UNCHANGED <<kind, workplaces, faculties, score, skills, courses>>
    BY <1>2 DEF cityVars, schoolVars
  <2>2. kind[m] = "Manager" /\ m \notin employees[m] /\ salary[m] = ManagersSalary[w]
    BY <1>2 DEF IInv, KindsApart, PaidForPost, Post
  <2>3. paidOff \in [Ids -> Nat] /\ \A c \in Ids \ employees[m] : paidOff[c] = salary[c]
    BY <2>0, GroupPaidNat DEF TypeOK
  <2>4. ManagerPaid(paidOff[m], -ManagersSalary[w]) = 0
    <3>1. paidOff[m] = ManagersSalary[w]
      BY <2>2, <2>3
    <3> QED BY <2>0, <3>1 DEF ManagerPaid
  <2>5. salary' = [paidOff EXCEPT ![m] = 0]
    <3> HIDE DEF paidOff
    <3> QED BY <1>2, <2>3, <2>4 DEF GroupRemoved
  <2> HIDE DEF paidOff
  <2>6. /\ salary' \in [Ids -> Nat] /\ salary'[m] = 0
        /\ \A c \in Ids \ {m} : kind[c] # "Employee" => salary'[c] = salary[c]
    BY <2>3, <2>5 DEF IInv, KindsApart
  <2>7. \A c \in Ids : \A v \in Workplaces : Post(c, v)' <=> Post(c, v) /\ ~(c = m /\ v = w)
    BY <1>2, <2>0 DEF Post, TypeOK
  <2>8. \A v \in Workplaces : ~Post(m, v)'
    BY <1>2, <2>7 DEF IInv, OnePost, Post
  <2>9. TypeOK'
    BY <1>2, <2>0, <2>1, <2>6 DEF TypeOK, Answers, GroupRemoved
  <2>10. KindsApart'
    BY <1>2, <2>0, <2>1, <2>2, <2>6, <2>7 DEF IInv, KindsApart, TypeOK, GroupRemoved
  <2>11. WorkplacesExist'
    BY <1>2, <2>0, <2>1 DEF IInv, WorkplacesExist, TypeOK
  <2>12. OnePost'
    BY <2>7 DEF IInv, OnePost
  <2>13. PaidForPost'
    <3> SUFFICES ASSUME NEW c \in Ids, NEW v \in Workplaces, Post(c, v)' PROVE salary'[c] = ManagersSalary[v]
      BY DEF PaidForPost
    <3>1. c # m /\ Post(c, v)
      BY <2>7, <2>8
    <3>2. kind[c] = "Manager"
      BY <3>1 DEF IInv, KindsApart
    <3> QED BY <2>6, <3>1, <3>2 DEF IInv, PaidForPost
  <2>14. UnpaidWithout'
    BY <1>2, <2>0, <2>1, <2>6, <2>7 DEF IInv, UnpaidWithout, TypeOK, GroupRemoved
  <2> QED BY <2>9, <2>10, <2>11, <2>12, <2>13, <2>14 DEF IInv
<1> QED BY <1>1, <1>2 DEF FireManagerAtWorkplace, Answers

LEMMA TeachIInv == ASSUME IInv, NEW e \in Ids, NEW f \in Faculties, TeachAtFaculty(e, f) PROVE IInv'
<1>1. CASE \E x \in Answers : Throw(x)
  BY <1>1, ThrowIInv
<1>2. CASE /\ skills' = [skills EXCEPT ![e] = @ \cup {SkillOf[f]}]
           /\ score' = [score EXCEPT ![e] = @ + AddedPoints[f]]
           /\ courses' = [courses EXCEPT ![e] = @ \cup {f}]
           /\ answer' = "done"
           /\ UNCHANGED <<cityVars, staffVars>>
  <2>1. UNCHANGED <<kind, workplaces, faculties, managers, employees, salary>>
    BY <1>2 DEF cityVars, staffVars
  <2>2. TypeOK'
    BY <1>2, <2>1, ConstantAssumption DEF IInv, TypeOK, Answers
  <2> QED BY <2>1, <2>2 DEF IInv, KindsApart, WorkplacesExist, OnePost, PaidForPost, UnpaidWithout, Post
<1> QED BY <1>1, <1>2 DEF TeachAtFaculty, Answers

LEMMA SameWorkplaceIInv == ASSUME IInv, NEW e \in Ids, NEW f \in Ids, IsWorkingInTheSameWorkplace(e, f) PROVE IInv'
<1>1. \E x \in Answers : Throw(x)
  BY DEF IsWorkingInTheSameWorkplace, Answers
<1> QED BY <1>1, ThrowIInv

LEMMA NextIInv == IInv /\ [Next]_vars => IInv'
<1> SUFFICES ASSUME IInv, [Next]_vars PROVE IInv'
  OBVIOUS
<1>1. ASSUME NEW c \in Ids, AddEmployee(c) \/ AddManager(c) PROVE IInv'
  BY <1>1, AddCitizenIInv DEF AddEmployee, AddManager
<1>2. ASSUME NEW f \in Faculties, AddFaculty(f) PROVE IInv'
  BY <1>2, AddFacultyIInv
<1>3. ASSUME NEW w \in Workplaces, CreateWorkplace(w) PROVE IInv'
  BY <1>3, CreateWorkplaceIInv
<1>4. ASSUME NEW c \in Ids, NEW w \in Workplaces, HireManagerAtWorkplace(c, w) \/ FireManagerAtWorkplace(c, w)
      PROVE  IInv'
  BY <1>4, HireManagerIInv, FireManagerIInv
<1>5. ASSUME NEW e \in Ids, NEW m \in Ids, NEW w \in Workplaces,
             HireEmployeeAtWorkplace(e, m, w) \/ FireEmployeeAtWorkplace(e, m, w)
      PROVE  IInv'
  BY <1>5, HireEmployeeIInv, FireEmployeeIInv
<1>6. ASSUME NEW e \in Ids, NEW f \in Faculties, TeachAtFaculty(e, f) PROVE IInv'
  BY <1>6, TeachIInv
<1>7. ASSUME NEW e \in Ids, NEW f \in Ids, IsWorkingInTheSameWorkplace(e, f) PROVE IInv'
  BY <1>7, SameWorkplaceIInv
<1>8. CASE UNCHANGED vars
  BY <1>8 DEF vars, cityVars, staffVars, schoolVars,
     IInv, TypeOK, KindsApart, WorkplacesExist, OnePost, PaidForPost, UnpaidWithout, Post
<1> QED BY <1>1, <1>2, <1>3, <1>4, <1>5, <1>6, <1>7, <1>8 DEF Next

\* The inductive invariant holds throughout.
THEOREM Invariance == Spec => []IInv
BY InitIInv, NextIInv, PTL DEF Spec

\* Types are kept, and a manager's salary tells whether there is a post.
THEOREM SalaryTellsPostCorrect == Spec => []SalaryTellsPost
<1>1. IInv => SalaryTellsPost
  BY ConstantAssumption DEF IInv, TypeOK, SalaryTellsPost, PaidForPost, UnpaidWithout, Post
<1> QED BY <1>1, Invariance, PTL

-----------------------------------------------------------------------------
(* The posts and contracts that were agreed.                                 *)

Reply(x) == IF x \in {"done", "yes", "no"} THEN x ELSE "refused"

LEMMA InPosts ==
  \A w, m : <<w, m>> \in Posts <=> w \in Workplaces /\ m \in Ids /\ Post(m, w)
BY DEF Posts, Post

LEMMA InContracts ==
  \A w, m, e : <<w, m, e>> \in Contracts
                 <=> w \in Workplaces /\ m \in Ids /\ e \in Ids /\ Post(m, w) /\ e \in employees[m]
BY DEF Contracts, Post

\* Whatever throws, or is about something else, leaves the agreements alone.
LEMMA OtherStep ==
  ASSUME UNCHANGED <<managers, employees>>, answer' \in Answers \ {"yes", "no"}
  PROVE  Agreed!Other
<1>1. UNCHANGED <<Posts, Contracts>>
  BY DEF Posts, Contracts
<1>2. Reply(answer)' \in {"done", "refused"}
  BY DEF Reply, Answers
<1> QED BY <1>1, <1>2 DEF Agreed!Other, Reply

LEMMA ThrowStep ==
  ASSUME NEW x \in Answers \ {"yes", "no"}, Throw(x) PROVE Agreed!Next
BY OtherStep DEF Throw, staffVars, Agreed!Next

LEMMA HireManagerStep ==
  ASSUME IInv, NEW c \in Ids, NEW w \in Workplaces, HireManagerAtWorkplace(c, w) PROVE Agreed!Next
<1>1. CASE \E x \in Answers \ {"yes", "no"} : Throw(x)
  BY <1>1, ThrowStep
<1>2. CASE /\ c \notin managers[w] /\ ~EarnsElsewhere(c) /\ kind[c] = "Manager"
           /\ managers' = [managers EXCEPT ![w] = @ \cup {c}]
           /\ answer' = "done" /\ UNCHANGED employees
  <2>1. \A v \in Workplaces : ~Post(c, v)
    <3>1. \A v \in Workplaces : ManagersSalary[v] > 0
      BY ConstantAssumption
    <3> QED BY <1>2, <3>1 DEF IInv, EarnsElsewhere, PaidForPost
  <2>2. employees[c] = {}
    BY <1>2, <2>1 DEF IInv, UnpaidWithout
  <2>3. \A m \in Ids : \A v \in Workplaces : Post(m, v)' <=> Post(m, v) \/ (m = c /\ v = w)
    BY <1>2 DEF Post, IInv, TypeOK
  <2>4. Posts' = Posts \cup {<<w, c>>}
    BY <2>3 DEF Posts, Post
  <2>5. Contracts' = Contracts
    BY <1>2, <2>2, <2>3 DEF Contracts, Post
  <2>6. \A v \in Workplaces : <<v, c>> \notin Posts
    BY <2>1 DEF Posts, Post
  <2> QED BY <1>2, <2>4, <2>5, <2>6 DEF Agreed!Next, Agreed!Appoint
<1> QED BY <1>1, <1>2 DEF HireManagerAtWorkplace, HireManager, Answers

LEMMA FireManagerStep ==
  ASSUME IInv, NEW m \in Ids, NEW w \in Workplaces, FireManagerAtWorkplace(m, w) PROVE Agreed!Next
<1>1. CASE \E x \in Answers \ {"yes", "no"} : Throw(x)
  BY <1>1, ThrowStep
<1>2. CASE /\ m \in managers[w]
           /\ employees' = [employees EXCEPT ![m] = {}]
           /\ managers' = [managers EXCEPT ![w] = @ \ {m}]
           /\ answer' = "done"
  <2>1. \A c \in Ids : \A v \in Workplaces : Post(c, v)' <=> Post(c, v) /\ ~(c = m /\ v = w)
    BY <1>2 DEF Post, IInv, TypeOK
  <2>2. \A c \in Ids : employees'[c] = IF c = m THEN {} ELSE employees[c]
    BY <1>2 DEF IInv, TypeOK
  <2>3. Posts' = Posts \ {<<w, m>>}
    BY <2>1 DEF Posts, Post
  <2>4. Contracts' = {k \in Contracts : k[2] # m}
    BY <2>1, <2>2 DEF Contracts, Post
  <2>5. <<w, m>> \in Posts
    BY <1>2 DEF Posts
  <2> QED BY <1>2, <2>3, <2>4, <2>5 DEF Agreed!Next, Agreed!Dismiss
<1> QED BY <1>1, <1>2 DEF FireManagerAtWorkplace, GroupRemoved, Answers

LEMMA HireEmployeeStep ==
  ASSUME IInv, NEW e \in Ids, NEW m \in Ids, NEW w \in Workplaces, HireEmployeeAtWorkplace(e, m, w)
  PROVE  Agreed!Next
<1>1. CASE \E x \in Answers \ {"yes", "no"} : Throw(x)
  BY <1>1, ThrowStep
<1>2. CASE /\ m \in managers[w] /\ e \notin employees[m]
           /\ employees' = [employees EXCEPT ![m] = @ \cup {e}]
           /\ answer' = "done" /\ UNCHANGED managers
  <2>1. \A v \in Workplaces : Post(m, v) <=> v = w
    BY <1>2 DEF IInv, OnePost, Post
  <2>2. \A c \in Ids : employees'[c] = IF c = m THEN employees[m] \cup {e} ELSE employees[c]
    BY <1>2 DEF IInv, TypeOK
  <2>3. Posts' = Posts
    BY <1>2 DEF Posts
  <2>4. Contracts' = Contracts \cup {<<w, m, e>>}
    BY <1>2, <2>1, <2>2 DEF Contracts, Post
  <2>5. <<w, m>> \in Posts /\ <<w, m, e>> \notin Contracts
    BY <1>2 DEF Posts, Contracts
  <2> QED BY <1>2, <2>3, <2>4, <2>5 DEF Agreed!Next, Agreed!Hire
<1> QED BY <1>1, <1>2 DEF HireEmployeeAtWorkplace, Answers

LEMMA FireEmployeeStep ==
  ASSUME IInv, NEW e \in Ids, NEW m \in Ids, NEW w \in Workplaces, FireEmployeeAtWorkplace(e, m, w)
  PROVE  Agreed!Next
<1>1. CASE \E x \in Answers \ {"yes", "no"} : Throw(x)
  BY <1>1, ThrowStep
<1>2. CASE /\ m \in managers[w] /\ UNCHANGED managers
           /\ employees' = [employees EXCEPT ![m] = @ \ {e}]
           /\ answer' = IF e \in employees[m] THEN "done" ELSE "EmployeeDoesNotExist"
  <2>1. CASE e \notin employees[m]
    <3>1. employees' = employees /\ answer' = "EmployeeDoesNotExist"
      BY <1>2, <2>1 DEF IInv, TypeOK
    <3> QED BY <1>2, <3>1, OtherStep DEF Answers, Agreed!Next
  <2>2. CASE e \in employees[m]
    <3>1. \A v \in Workplaces : Post(m, v) <=> v = w
      BY <1>2 DEF IInv, OnePost, Post
    <3>2. \A c \in Ids : employees'[c] = IF c = m THEN employees[m] \ {e} ELSE employees[c]
      BY <1>2 DEF IInv, TypeOK
    <3>3. Posts' = Posts
      BY <1>2 DEF Posts
    <3>4. Contracts' = Contracts \ {<<w, m, e>>}
      BY <1>2, <3>1, <3>2 DEF Contracts, Post
    <3>5. <<w, m, e>> \in Contracts
      BY <1>2, <2>2 DEF Contracts
    <3> QED BY <1>2, <2>2, <3>3, <3>4, <3>5 DEF Agreed!Next, Agreed!Fire
  <2> QED BY <2>1, <2>2
<1> QED BY <1>1, <1>2 DEF FireEmployeeAtWorkplace, cityVars, Answers

LEMMA SameWorkplaceStep ==
  ASSUME IInv, NEW e \in Ids, NEW f \in Ids, IsWorkingInTheSameWorkplace(e, f) PROVE Agreed!Next
<1>1. CASE e \notin Citizens
  BY <1>1, ThrowStep DEF IsWorkingInTheSameWorkplace, Answers
<1>2. CASE e \in Citizens
  <2> DEFINE together == \E w \in workplaces : InWorkplace(w, e) /\ InWorkplace(w, f)
  <2>1. answer' = (IF together THEN "yes" ELSE "no") /\ UNCHANGED <<managers, employees>>
    BY <1>2 DEF IsWorkingInTheSameWorkplace, Throw, staffVars
  <2>2. together <=> Agreed!Colleagues(e, f)
    <3>1. ASSUME together PROVE Agreed!Colleagues(e, f)
      <4>1. PICK w \in workplaces : InWorkplace(w, e) /\ InWorkplace(w, f)
        BY <3>1
      <4>2. PICK m \in managers[w], n \in managers[w] : e \in employees[m] /\ f \in employees[n]
        BY <4>1 DEF InWorkplace
      <4>3. w \in Workplaces /\ m \in Ids /\ n \in Ids
        BY <4>1, <4>2 DEF IInv, TypeOK
      <4> QED BY <4>2, <4>3, InContracts DEF Agreed!Colleagues, Post
    <3>2. ASSUME Agreed!Colleagues(e, f) PROVE together
      <4>1. PICK w \in Workplaces, m \in Ids, n \in Ids : <<w, m, e>> \in Contracts /\ <<w, n, f>> \in Contracts
        BY <3>2 DEF Agreed!Colleagues
      <4>2. Post(m, w) /\ e \in employees[m] /\ Post(n, w) /\ f \in employees[n]
        BY <4>1, InContracts
      <4>3. w \in workplaces
        BY <4>1, <4>2 DEF IInv, WorkplacesExist, Post
      <4> QED BY <4>2, <4>3 DEF InWorkplace, Post
    <3> QED BY <3>1, <3>2
  <2>3. UNCHANGED <<Posts, Contracts>>
    BY <2>1 DEF Posts, Contracts
  <2> HIDE DEF together
  <2> QED BY <2>1, <2>2, <2>3 DEF Agreed!Next, Agreed!AskColleagues
<1> QED BY <1>1, <1>2

\* Every call does to the lists what was agreed, and nothing else.
THEOREM ImplementsEmploymentCorrect == Spec => ImplementsEmployment
<1>1. Init => Agreed!Init
  BY DEF Init, Agreed!Init, Posts, Contracts
<1>2. IInv /\ [Next]_vars => [Agreed!Next]_(Agreed!vars)
  <2> SUFFICES ASSUME IInv, [Next]_vars PROVE [Agreed!Next]_(Agreed!vars)
    OBVIOUS
  <2>1. ASSUME \/ \E c \in Ids : AddEmployee(c) \/ AddManager(c)
               \/ \E f \in Faculties : AddFaculty(f)
               \/ \E w \in Workplaces : CreateWorkplace(w)
               \/ \E e \in Ids, f \in Faculties : TeachAtFaculty(e, f)
        PROVE  Agreed!Next
    <3>1. UNCHANGED <<managers, employees>> /\ answer' \in Answers \ {"yes", "no"}
      BY <2>1 DEF AddEmployee, AddManager, AddCitizen, AddFaculty, CreateWorkplace, TeachAtFaculty,
         Throw, staffVars, Answers
    <3> QED BY <3>1, OtherStep DEF Agreed!Next
  <2>2. ASSUME NEW c \in Ids, NEW w \in Workplaces, HireManagerAtWorkplace(c, w) \/ FireManagerAtWorkplace(c, w)
        PROVE  Agreed!Next
    BY <2>2, HireManagerStep, FireManagerStep
  <2>3. ASSUME NEW e \in Ids, NEW m \in Ids, NEW w \in Workplaces,
               HireEmployeeAtWorkplace(e, m, w) \/ FireEmployeeAtWorkplace(e, m, w)
        PROVE  Agreed!Next
    BY <2>3, HireEmployeeStep, FireEmployeeStep
  <2>4. ASSUME NEW e \in Ids, NEW f \in Ids, IsWorkingInTheSameWorkplace(e, f) PROVE Agreed!Next
    BY <2>4, SameWorkplaceStep
  <2>5. CASE UNCHANGED vars
    BY <2>5 DEF vars, cityVars, staffVars, Agreed!vars, Posts, Contracts
  <2> QED BY <2>1, <2>2, <2>3, <2>4, <2>5 DEF Next
<1> QED BY <1>1, <1>2, Invariance, PTL DEF Spec, Agreed!Spec, ImplementsEmployment

-----------------------------------------------------------------------------
(* What the contracts pay.                                                   *)

Deals == Workplaces \X Ids \X Ids
Wage  == [k \in Deals |-> WorkersSalary[k[1]]]

ContractsIn(mans, emps, c) ==
  {k \in Deals : k[2] \in mans[k[1]] /\ k[3] \in emps[k[2]] /\ k[3] = c}

PaidBy(n, S) == IsFiniteSet(S) /\ n = SumOver(Wage, S)

\* An employee is paid by contracts alone; what a manager is paid, IInv says.
PaidByContracts == \A c \in Ids :
  kind[c] = "Employee" => PaidBy(salary[c], ContractsIn(managers, employees, c))

LEMMA WageNat == ASSUME NEW k \in Deals PROVE Wage[k] = WorkersSalary[k[1]] /\ Wage[k] \in Nat
BY ConstantAssumption DEF Wage, Deals

LEMMA Raised ==
  ASSUME NEW S \in SUBSET Deals, NEW n, PaidBy(n, S), NEW k \in Deals, k \notin S
  PROVE  PaidBy(EmployeePaid(n, WorkersSalary[k[1]]), S \cup {k})
<1>1. IsFiniteSet(S \cup {k}) /\ \A x \in S \cup {k} : Wage[x] \in Nat
  BY WageNat, FS_AddElement DEF PaidBy
<1>2. SumOver(Wage, S \cup {k}) = SumOver(Wage, S) + Wage[k] /\ SumOver(Wage, S) \in Nat
  <2>1. IsFiniteSet(S) /\ (\A x \in S : Wage[x] \in Nat) /\ \A x \in S \cup {k} : Wage[x] \in Int
    BY <1>1 DEF PaidBy
  <2>2. SumOver(Wage, S) \in Nat
    BY <2>1, SumType
  <2> QED BY <2>1, <2>2, SumAdd
<1>3. WorkersSalary[k[1]] = Wage[k] /\ Wage[k] \in Nat
  BY WageNat
<1>4. EmployeePaid(n, WorkersSalary[k[1]]) = SumOver(Wage, S) + Wage[k]
  BY <1>2, <1>3 DEF EmployeePaid, PaidBy
<1> QED BY <1>1, <1>2, <1>4 DEF PaidBy

\* The salary never has to be stopped at 0: it holds what the contract paid.
LEMMA Lowered ==
  ASSUME NEW S \in SUBSET Deals, NEW n, PaidBy(n, S), NEW k \in S
  PROVE  PaidBy(EmployeePaid(n, -WorkersSalary[k[1]]), S \ {k})
<1>1. IsFiniteSet(S) /\ IsFiniteSet(S \ {k}) /\ \A x \in S : Wage[x] \in Nat
  BY WageNat, FS_RemoveElement DEF PaidBy
<1>2. SumOver(Wage, S \ {k}) = SumOver(Wage, S) - Wage[k] /\ SumOver(Wage, S) \in Nat /\ SumOver(Wage, S \ {k}) \in Nat
  <2>1. SumOver(Wage, S) \in Nat /\ SumOver(Wage, S \ {k}) \in Nat
    BY <1>1, SumType
  <2>2. \A x \in S : Wage[x] \in Int
    BY <1>1
  <2> QED BY <1>1, <2>1, <2>2, SumRemove
<1>3. WorkersSalary[k[1]] = Wage[k] /\ Wage[k] \in Nat
  BY WageNat
<1>4. EmployeePaid(n, -WorkersSalary[k[1]]) = SumOver(Wage, S \ {k})
  BY <1>2, <1>3 DEF EmployeePaid, PaidBy
<1> QED BY <1>1, <1>4 DEF PaidBy

LEMMA InContractsIn ==
  ASSUME NEW mans, NEW emps, NEW c
  PROVE  /\ ContractsIn(mans, emps, c) \subseteq Deals
         /\ \A w \in Workplaces, m \in Ids, d \in Ids :
              <<w, m, d>> \in ContractsIn(mans, emps, c) <=> m \in mans[w] /\ d \in emps[m] /\ d = c
BY DEF ContractsIn, Deals

LEMMA SamePay ==
  ASSUME PaidByContracts, UNCHANGED <<kind, managers, employees, salary>> PROVE PaidByContracts'
BY DEF PaidByContracts, ContractsIn

LEMMA AddCitizenPay ==
  ASSUME IInv, PaidByContracts, NEW c \in Ids, NEW k, AddCitizen(c, k) PROVE PaidByContracts'
<1>1. CASE c \in Citizens
  BY <1>1, SamePay DEF AddCitizen, Throw, cityVars, staffVars
<1>2. CASE c \notin Citizens
  <2>0. kind[c] = "none"
    BY <1>2 DEF Citizens
  <2>1. kind' = [kind EXCEPT ![c] = k] /\ UNCHANGED <<managers, employees, salary>>
    BY <1>2 DEF AddCitizen, staffVars
  <2>2. \A d \in Ids : c \notin employees[d]
    BY <2>0 DEF IInv, KindsApart
  <2>3. ContractsIn(managers, employees, c) = {}
    BY <2>2 DEF ContractsIn, Deals
  <2>4. PaidBy(salary[c], ContractsIn(managers, employees, c))
    <3>1. salary[c] = 0
      BY <2>0 DEF IInv, KindsApart
    <3>2. PaidBy(0, {})
      BY FS_EmptySet, SumEmpty DEF PaidBy
    <3> QED BY <2>3, <3>1, <3>2, Zenon
  <2>5. \A d \in Ids : d # c => kind'[d] = kind[d]
    BY <2>1 DEF IInv, TypeOK
  <2>6. \A d \in Ids : ContractsIn(managers', employees', d) = ContractsIn(managers, employees, d)
    BY <2>1 DEF ContractsIn
  <2>7. ASSUME NEW d \in Ids, kind'[d] = "Employee" PROVE PaidBy(salary'[d], ContractsIn(managers', employees', d))
    <3>1. PaidBy(salary[d], ContractsIn(managers, employees, d))
      BY <2>4, <2>5, <2>7 DEF PaidByContracts
    <3> QED BY <2>1, <2>6, <3>1, Zenon
  <2> QED BY <2>7 DEF PaidByContracts, ContractsIn
<1> QED BY <1>1, <1>2

LEMMA HireManagerPay ==
  ASSUME IInv, PaidByContracts, NEW c \in Ids, NEW w \in Workplaces, HireManagerAtWorkplace(c, w)
  PROVE  PaidByContracts'
<1>1. CASE \E x \in Answers : Throw(x)
  BY <1>1, SamePay DEF Throw, cityVars, staffVars
<1>2. CASE /\ c \notin managers[w] /\ ~EarnsElsewhere(c) /\ kind[c] = "Manager"
           /\ salary' = [GroupPaid(salary, c, WorkersSalary[w]) EXCEPT ![c] = ManagerPaid(@, ManagersSalary[w])]
           /\ managers' = [managers EXCEPT ![w] = @ \cup {c}]
           /\ UNCHANGED <<employees, cityVars>>
  <2>0. TypeOK
    BY DEF IInv
  <2>1. employees[c] = {}
    <3>1. \A v \in Workplaces : ManagersSalary[v] \in Nat \ {0}
      BY ConstantAssumption
    <3>2. \A v \in Workplaces : ~Post(c, v)
      BY <1>2, <3>1 DEF IInv, EarnsElsewhere, PaidForPost
    <3> QED BY <1>2, <3>2 DEF IInv, UnpaidWithout
  <2>2. \A d \in Ids : d # c => salary'[d] = salary[d]
    BY <1>2, <2>0, <2>1 DEF GroupPaid, TypeOK
  <2>3. UNCHANGED <<employees, kind>>
    BY <1>2 DEF cityVars
  <2>4. \A m \in Ids : \A v \in Workplaces : m # c => (m \in managers'[v] <=> m \in managers[v])
    BY <1>2, <2>0 DEF TypeOK
  <2>5. \A d \in Ids : ContractsIn(managers', employees', d) = ContractsIn(managers, employees, d)
    BY <2>1, <2>3, <2>4 DEF ContractsIn, Deals
  <2>6. ASSUME NEW d \in Ids, kind'[d] = "Employee" PROVE PaidBy(salary'[d], ContractsIn(managers', employees', d))
    <3>1. PaidBy(salary[d], ContractsIn(managers, employees, d)) /\ d # c
      BY <1>2, <2>3, <2>6 DEF PaidByContracts
    <3> QED BY <2>2, <2>5, <3>1, Zenon
  <2> QED BY <2>6 DEF PaidByContracts, ContractsIn
<1> QED BY <1>1, <1>2 DEF HireManagerAtWorkplace, HireManager, Answers

LEMMA HireEmployeePay ==
  ASSUME IInv, PaidByContracts, NEW e \in Ids, NEW m \in Ids, NEW w \in Workplaces, HireEmployeeAtWorkplace(e, m, w)
  PROVE  PaidByContracts'
<1>1. CASE \E x \in Answers : Throw(x)
  BY <1>1, SamePay DEF Throw, cityVars, staffVars
<1>2. CASE /\ m \in managers[w] /\ e \notin employees[m] /\ kind[e] = "Employee"
           /\ employees' = [employees EXCEPT ![m] = @ \cup {e}]
           /\ salary' = [salary EXCEPT ![e] = EmployeePaid(@, WorkersSalary[w])]
           /\ UNCHANGED <<managers, cityVars>>
  <2>0. TypeOK /\ UNCHANGED <<managers, kind>>
    BY <1>2 DEF IInv, cityVars
  <2>1. \A v \in Workplaces : m \in managers[v] <=> v = w
    BY <1>2 DEF IInv, OnePost, Post
  <2>2. \A c \in Ids : employees'[c] = IF c = m THEN employees[m] \cup {e} ELSE employees[c]
    BY <1>2, <2>0 DEF TypeOK
  <2>3. \A d \in Ids : d # e => ContractsIn(managers', employees', d) = ContractsIn(managers, employees, d)
    BY <2>0, <2>2 DEF ContractsIn, Deals
  <2>4. ContractsIn(managers', employees', e) = ContractsIn(managers, employees, e) \cup {<<w, m, e>>}
    BY <1>2, <2>0, <2>1, <2>2 DEF ContractsIn, Deals
  <2>5. PaidBy(salary'[e], ContractsIn(managers', employees', e))
    <3> DEFINE S == ContractsIn(managers, employees, e)
               k == <<w, m, e>>
    <3>1. k \in Deals /\ k \notin S /\ S \in SUBSET Deals /\ k[1] = w
      BY <1>2, InContractsIn DEF Deals
    <3>2. PaidBy(salary[e], S)
      BY <1>2 DEF PaidByContracts
    <3>3. salary'[e] = EmployeePaid(salary[e], WorkersSalary[k[1]])
      BY <1>2, <2>0, <3>1 DEF TypeOK
    <3>4. ContractsIn(managers', employees', e) = S \cup {k}
      BY <2>4
    <3> HIDE DEF S, k
    <3>5. PaidBy(EmployeePaid(salary[e], WorkersSalary[k[1]]), S \cup {k})
      BY <3>1, <3>2, Raised
    <3> QED BY <3>3, <3>4, <3>5, Zenon
  <2>6. ASSUME NEW d \in Ids, kind'[d] = "Employee" PROVE PaidBy(salary'[d], ContractsIn(managers', employees', d))
    <3>1. CASE d # e
      <4>1. PaidBy(salary[d], ContractsIn(managers, employees, d)) /\ salary'[d] = salary[d]
        BY <1>2, <2>0, <2>6, <3>1 DEF PaidByContracts, TypeOK
      <4> QED BY <2>3, <3>1, <4>1, Zenon
    <3> QED BY <2>5, <3>1
  <2> QED BY <2>6 DEF PaidByContracts, ContractsIn
<1> QED BY <1>1, <1>2 DEF HireEmployeeAtWorkplace, Answers

\* A manager at w lets some of the group go, who are no longer paid.
LEMMA LetGoPay ==
  ASSUME IInv, PaidByContracts, NEW m \in Ids, NEW w \in Workplaces, m \in managers[w], NEW gone \in SUBSET employees[m],
         kind' = kind,
         managers' = managers \/ (gone = employees[m] /\ managers' = [managers EXCEPT ![w] = @ \ {m}]),
         employees' = [employees EXCEPT ![m] = @ \ gone],
         \A c \in Ids : kind[c] = "Employee" =>
           salary'[c] = IF c \in gone THEN EmployeePaid(salary[c], -WorkersSalary[w]) ELSE salary[c]
  PROVE  PaidByContracts'
<1>0. TypeOK
  BY DEF IInv
<1>1. \A v \in Workplaces : m \in managers[v] <=> v = w
  BY DEF IInv, OnePost, Post
<1>2. \A c \in Ids : employees'[c] = IF c = m THEN employees[m] \ gone ELSE employees[c]
  BY <1>0 DEF TypeOK
<1>3. \A c \in Ids : \A v \in Workplaces : c # m => (c \in managers'[v] <=> c \in managers[v])
  BY <1>0 DEF TypeOK
<1>4. \A v \in Workplaces : m \in managers'[v] /\ employees'[m] # {} <=> m \in managers[v] /\ employees'[m] # {}
  BY <1>0, <1>2 DEF TypeOK
<1>5. ASSUME NEW d \in Ids, d \notin gone
      PROVE  ContractsIn(managers', employees', d) = ContractsIn(managers, employees, d)
  <2>1. ASSUME NEW v \in Workplaces, NEW c \in Ids
        PROVE  (c \in managers'[v] /\ d \in employees'[c]) <=> (c \in managers[v] /\ d \in employees[c])
    <3>1. CASE c = m
      <4>1. d \in employees'[m] <=> d \in employees[m]
        BY <1>2, <1>5
      <4>2. d \in employees'[m] => (m \in managers'[v] <=> m \in managers[v])
        BY <1>4
      <4> QED BY <3>1, <4>1, <4>2
    <3> QED BY <1>2, <1>3, <3>1
  <2> QED BY <2>1 DEF ContractsIn, Deals
<1>6. ASSUME NEW d \in gone
      PROVE  ContractsIn(managers', employees', d) = ContractsIn(managers, employees, d) \ {<<w, m, d>>}
  <2>0. d \in Ids
    BY <1>0 DEF TypeOK
  <2>1. ASSUME NEW v \in Workplaces, NEW c \in Ids
        PROVE  (c \in managers'[v] /\ d \in employees'[c]) <=> (c \in managers[v] /\ d \in employees[c] /\ ~(v = w /\ c = m))
    BY <1>1, <1>2, <1>3
  <2> QED BY <2>0, <2>1 DEF ContractsIn, Deals
<1>7. ASSUME NEW d \in Ids, kind'[d] = "Employee" PROVE PaidBy(salary'[d], ContractsIn(managers', employees', d))
  <2> DEFINE S == ContractsIn(managers, employees, d)
             k == <<w, m, d>>
  <2>1. PaidBy(salary[d], S)
    BY <1>7 DEF PaidByContracts
  <2>2. CASE d \in gone
    <3>1. k \in S /\ S \in SUBSET Deals /\ k[1] = w
      BY <2>2, InContractsIn
    <3>2. salary'[d] = EmployeePaid(salary[d], -WorkersSalary[k[1]])
      BY <1>7, <2>2, <3>1
    <3>3. ContractsIn(managers', employees', d) = S \ {k}
      BY <1>6, <2>2
    <3> HIDE DEF S, k
    <3>4. PaidBy(EmployeePaid(salary[d], -WorkersSalary[k[1]]), S \ {k})
      BY <2>1, <3>1, Lowered
    <3> QED BY <3>2, <3>3, <3>4, Zenon
  <2>3. CASE d \notin gone
    <3>1. salary'[d] = salary[d] /\ ContractsIn(managers', employees', d) = S
      BY <1>5, <1>7, <2>3
    <3> QED BY <2>1, <3>1, Zenon
  <2> QED BY <2>2, <2>3
<1> QED BY <1>7 DEF PaidByContracts, ContractsIn

LEMMA FireEmployeePay ==
  ASSUME IInv, PaidByContracts, NEW e \in Ids, NEW m \in Ids, NEW w \in Workplaces, FireEmployeeAtWorkplace(e, m, w)
  PROVE  PaidByContracts'
<1>1. CASE \E x \in Answers : Throw(x)
  BY <1>1, SamePay DEF Throw, cityVars, staffVars
<1>2. CASE /\ m \in managers[w]
           /\ salary' = [c \in Ids |-> IF c \in NoLongerPaid(e, m)
                                       THEN EmployeePaid(salary[c], -WorkersSalary[w]) ELSE salary[c]]
           /\ employees' = [employees EXCEPT ![m] = @ \ {e}]
           /\ UNCHANGED <<managers, cityVars>>
  <2> DEFINE gone == {c \in employees[m] : c = e}
  <2>1. kind' = kind /\ gone \in SUBSET employees[m]
    BY <1>2 DEF cityVars
  <2>2. employees' = [employees EXCEPT ![m] = @ \ gone]
    <3>1. employees[m] \ gone = employees[m] \ {e}
      OBVIOUS
    <3> HIDE DEF gone
    <3> QED BY <1>2, <3>1, Zenon
  <2>3. \A c \in Ids : salary'[c] = IF c \in gone THEN EmployeePaid(salary[c], -WorkersSalary[w]) ELSE salary[c]
    BY <1>2 DEF NoLongerPaid
  <2> HIDE DEF gone
  <2> QED BY <1>2, <2>1, <2>2, <2>3, LetGoPay
<1> QED BY <1>1, <1>2 DEF FireEmployeeAtWorkplace, Answers

LEMMA FireManagerPay ==
  ASSUME IInv, PaidByContracts, NEW m \in Ids, NEW w \in Workplaces, FireManagerAtWorkplace(m, w)
  PROVE  PaidByContracts'
<1>1. CASE \E x \in Answers : Throw(x)
  BY <1>1, SamePay DEF Throw, cityVars, staffVars
<1> DEFINE paidOff == GroupPaid(salary, m, -WorkersSalary[w])
<1>2. CASE /\ m \in managers[w]
           /\ salary' = [c \in Ids |->
                IF c = m THEN ManagerPaid(paidOff[c], -ManagersSalary[w])
                ELSE IF c \in GroupRemoved(m) THEN EmployeePaid(paidOff[c], -WorkersSalary[w])
                ELSE paidOff[c]]
           /\ employees' = [employees EXCEPT ![m] = GroupRemoved(m)]
           /\ managers' = [managers EXCEPT ![w] = @ \ {m}]
           /\ UNCHANGED cityVars
  <2> DEFINE gone == employees[m]
  <2>1. kind' = kind /\ gone \in SUBSET employees[m]
    BY <1>2 DEF cityVars
  <2>2. employees' = [employees EXCEPT ![m] = @ \ gone]
    <3>1. employees[m] \ gone = {}
      OBVIOUS
    <3> QED BY <1>2, <3>1 DEF GroupRemoved
  <2>3. kind[m] = "Manager"
    BY <1>2 DEF IInv, KindsApart, Post
  <2>4. \A c \in Ids : kind[c] = "Employee" =>
          salary'[c] = IF c \in gone THEN EmployeePaid(salary[c], -WorkersSalary[w]) ELSE salary[c]
    BY <1>2, <2>3 DEF GroupRemoved, GroupPaid
  <2>5. /\ m \in managers[w]
        /\ managers' = managers \/ (gone = employees[m] /\ managers' = [managers EXCEPT ![w] = @ \ {m}])
    BY <1>2
  <2> HIDE DEF gone
  <2> QED BY <2>1, <2>2, <2>4, <2>5, LetGoPay
<1> QED BY <1>1, <1>2 DEF FireManagerAtWorkplace, Answers

LEMMA NextPay == IInv /\ PaidByContracts /\ [Next]_vars => PaidByContracts'
<1> SUFFICES ASSUME IInv, PaidByContracts, [Next]_vars PROVE PaidByContracts'
  OBVIOUS
<1>1. ASSUME NEW c \in Ids, AddEmployee(c) \/ AddManager(c) PROVE PaidByContracts'
  BY <1>1, AddCitizenPay DEF AddEmployee, AddManager
<1>2. ASSUME \/ \E f \in Faculties : AddFaculty(f)
             \/ \E w \in Workplaces : CreateWorkplace(w)
             \/ \E e \in Ids, f \in Faculties : TeachAtFaculty(e, f)
             \/ \E e, f \in Ids : IsWorkingInTheSameWorkplace(e, f)
             \/ UNCHANGED vars
      PROVE  PaidByContracts'
  <2>1. UNCHANGED <<kind, managers, employees, salary>>
    BY <1>2 DEF AddFaculty, CreateWorkplace, TeachAtFaculty, IsWorkingInTheSameWorkplace, Throw,
       vars, cityVars, staffVars
  <2> QED BY <2>1, SamePay
<1>3. ASSUME NEW c \in Ids, NEW w \in Workplaces, HireManagerAtWorkplace(c, w) \/ FireManagerAtWorkplace(c, w)
      PROVE  PaidByContracts'
  BY <1>3, HireManagerPay, FireManagerPay
<1>4. ASSUME NEW e \in Ids, NEW m \in Ids, NEW w \in Workplaces,
             HireEmployeeAtWorkplace(e, m, w) \/ FireEmployeeAtWorkplace(e, m, w)
      PROVE  PaidByContracts'
  BY <1>4, HireEmployeePay, FireEmployeePay
<1> QED BY <1>1, <1>2, <1>3, <1>4 DEF Next

\* The two sums of SalaryExact.
Jobs == Workplaces \X Ids
Fee  == [p \in Jobs |-> ManagersSalary[p[1]]]

LEMMA WageSum ==
  ASSUME NEW S \in SUBSET Deals
  PROVE  MapThenSumSet(LAMBDA k : WorkersSalary[k[1]], S) = SumOver(Wage, S)
<1>1. ASSUME NEW it
      PROVE  IsSum(it, Wage, S) <=>
               it = [s \in SUBSET S |-> IF s = {} THEN 0
                       ELSE WorkersSalary[Picked(s)[1]] + it[s \ {Picked(s)}]]
  <2>1. ASSUME NEW s \in SUBSET S, s # {}
        PROVE  Wage[Picked(s)] = WorkersSalary[Picked(s)[1]]
    BY <2>1, WageNat DEF Picked
  <2> QED BY <2>1, Zenon DEF IsSum
<1> QED BY <1>1, Zenon DEF MapThenSumSet, MapThenFoldSet, SumOver, Picked

LEMMA FeeSum ==
  ASSUME NEW S \in SUBSET Jobs
  PROVE  MapThenSumSet(LAMBDA p : ManagersSalary[p[1]], S) = SumOver(Fee, S)
<1>1. ASSUME NEW it
      PROVE  IsSum(it, Fee, S) <=>
               it = [s \in SUBSET S |-> IF s = {} THEN 0
                       ELSE ManagersSalary[Picked(s)[1]] + it[s \ {Picked(s)}]]
  <2>1. ASSUME NEW s \in SUBSET S, s # {}
        PROVE  Fee[Picked(s)] = ManagersSalary[Picked(s)[1]]
    BY <2>1 DEF Fee, Picked
  <2> QED BY <2>1, Zenon DEF IsSum
<1> QED BY <1>1, Zenon DEF MapThenSumSet, MapThenFoldSet, SumOver, Picked

LEMMA FeeOfOne ==
  ASSUME NEW p \in Jobs
  PROVE  SumOver(Fee, {p}) = ManagersSalary[p[1]]
<1>1. Fee[p] = ManagersSalary[p[1]] /\ Fee[p] \in Nat
  BY ConstantAssumption DEF Fee, Jobs
<1>2. SumOver(Fee, {} \cup {p}) = SumOver(Fee, {}) + Fee[p]
  <2>1. IsFiniteSet({}) /\ p \notin {} /\ \A y \in {} \cup {p} : Fee[y] \in Int
    BY <1>1, FS_EmptySet
  <2> QED BY <2>1, SumAdd
<1>3. SumOver(Fee, {}) = 0 /\ {} \cup {p} = {p}
  BY SumEmpty
<1>4. SumOver(Fee, {p}) = 0 + Fee[p]
  BY <1>2, <1>3, Zenon
<1> QED BY <1>1, <1>4

\* Everyone earns exactly what their contracts and their post pay: the loops of
\* hireManager, fireManager and the group's salaries raise and lower the same.
THEOREM SalaryExactCorrect == Spec => []SalaryExact
<1>1. Init => PaidByContracts
  BY DEF Init, PaidByContracts
<1>2. Spec => [](IInv /\ PaidByContracts)
  BY <1>1, InitIInv, NextIInv, NextPay, PTL DEF Spec
<1>3. ASSUME IInv, PaidByContracts, NEW c \in Ids
      PROVE  salary[c] = MapThenSumSet(LAMBDA k : WorkersSalary[k[1]], {k \in Contracts : k[3] = c})
                       + MapThenSumSet(LAMBDA p : ManagersSalary[p[1]], {p \in Posts : p[2] = c})
  <2> DEFINE K == {k \in Contracts : k[3] = c}
             P == {p \in Posts : p[2] = c}
  <2>1. K \in SUBSET Deals /\ P \in SUBSET Jobs /\ K = ContractsIn(managers, employees, c)
    BY DEF Contracts, Posts, Deals, Jobs, ContractsIn
  <2>2. /\ MapThenSumSet(LAMBDA k : WorkersSalary[k[1]], K) = SumOver(Wage, K)
        /\ MapThenSumSet(LAMBDA p : ManagersSalary[p[1]], P) = SumOver(Fee, P)
    BY <2>1, WageSum, FeeSum
  <2>3. kind[c] \in {"none", "Employee", "Manager"} /\ salary[c] \in Nat
    BY <1>3 DEF IInv, TypeOK
  <2>4. kind[c] # "Employee" => SumOver(Wage, K) = 0
    <3>1. kind[c] # "Employee" => K = {}
      BY <1>3 DEF IInv, KindsApart, Contracts
    <3> HIDE DEF K
    <3> QED BY <3>1, SumEmpty
  <2>5. (\A w \in Workplaces : ~Post(c, w)) => SumOver(Fee, P) = 0
    <3>1. (\A w \in Workplaces : ~Post(c, w)) => P = {}
      BY DEF Posts, Post
    <3> HIDE DEF P
    <3> QED BY <3>1, SumEmpty
  <2>6. ASSUME NEW w \in Workplaces, Post(c, w) PROVE SumOver(Fee, P) = ManagersSalary[w]
    <3>1. P = {<<w, c>>}
      BY <1>3, <2>6 DEF Posts, Post, IInv, OnePost
    <3>2. SumOver(Fee, {<<w, c>>}) = ManagersSalary[w]
      <4>1. <<w, c>> \in Jobs /\ <<w, c>>[1] = w
        BY DEF Jobs
      <4> QED BY <4>1, FeeOfOne
    <3> QED BY <3>1, <3>2, Zenon
  <2>7. kind[c] = "Employee" => salary[c] = SumOver(Wage, K)
    <3>1. kind[c] = "Employee" => salary[c] = SumOver(Wage, ContractsIn(managers, employees, c))
      BY <1>3 DEF PaidByContracts, PaidBy
    <3> QED BY <2>1, <3>1, Zenon
  <2> HIDE DEF K, P
  <2>8. salary[c] = SumOver(Wage, K) + SumOver(Fee, P)
    <3>1. CASE kind[c] = "Employee"
      <4>1. \A w \in Workplaces : ~Post(c, w)
        BY <1>3, <3>1 DEF IInv, KindsApart
      <4> QED BY <2>3, <2>5, <2>7, <3>1, <4>1
    <3>2. CASE kind[c] = "none"
      <4>1. (\A w \in Workplaces : ~Post(c, w)) /\ salary[c] = 0
        BY <1>3, <3>2 DEF IInv, KindsApart
      <4> QED BY <2>4, <2>5, <3>2, <4>1
    <3>3. CASE kind[c] = "Manager" /\ \E w \in Workplaces : Post(c, w)
      <4>1. PICK w \in Workplaces : Post(c, w)
        BY <3>3
      <4>2. salary[c] = ManagersSalary[w]
        BY <1>3, <4>1 DEF IInv, PaidForPost
      <4> QED BY <2>3, <2>4, <2>6, <3>3, <4>1, <4>2
    <3>4. CASE kind[c] = "Manager" /\ \A w \in Workplaces : ~Post(c, w)
      <4>1. salary[c] = 0
        BY <1>3, <3>4 DEF IInv, UnpaidWithout
      <4> QED BY <2>4, <2>5, <3>4, <4>1
    <3> QED BY <2>3, <3>1, <3>2, <3>3, <3>4
  <2> QED BY <2>2, <2>8, Zenon DEF K, P
<1>4. IInv /\ PaidByContracts => SalaryExact
  BY <1>3, Zenon DEF SalaryExact
<1> QED BY <1>2, <1>4, PTL

-----------------------------------------------------------------------------
(* Points.                                                                   *)

EarnedIn(n, skl, cs) ==
  /\ n \in Nat /\ n = SumOver(AddedPoints, cs)
  /\ skl = {SkillOf[f] : f \in cs} /\ IsFiniteSet(skl) /\ Cardinality(skl) = Cardinality(cs)
  /\ \A f \in cs : RequiredPoints[f] + AddedPoints[f] <= n

Earned == \A e \in Ids : EarnedIn(score[e], skills[e], courses[e])

LEMMA AnotherCourse ==
  ASSUME NEW cs \in SUBSET Faculties, NEW n, NEW skl, EarnedIn(n, skl, cs), NEW f \in Faculties,
         SkillOf[f] \notin skl, n >= RequiredPoints[f]
  PROVE  EarnedIn(n + AddedPoints[f], skl \cup {SkillOf[f]}, cs \cup {f})
<1>1. f \notin cs /\ IsFiniteSet(cs) /\ skl = {SkillOf[g] : g \in cs} /\ n \in Nat
  BY ConstantAssumption, FS_Subset DEF EarnedIn
<1>2. IsFiniteSet(skl)
  BY DEF EarnedIn
<1>3. Cardinality(skl \cup {SkillOf[f]}) = Cardinality(cs \cup {f})
  <2>1. Cardinality(skl \cup {SkillOf[f]}) = Cardinality(skl) + 1
    BY <1>2, FS_AddElement
  <2>2. Cardinality(cs \cup {f}) = Cardinality(cs) + 1
    BY <1>1, FS_AddElement
  <2> QED BY <2>1, <2>2 DEF EarnedIn
<1>4. \A g \in Faculties : AddedPoints[g] \in Nat /\ RequiredPoints[g] \in Nat
  BY ConstantAssumption
<1>5. SumOver(AddedPoints, cs \cup {f}) = n + AddedPoints[f]
  <2>1. \A g \in cs \cup {f} : AddedPoints[g] \in Int
    BY <1>4
  <2> QED BY <1>1, <2>1, SumAdd DEF EarnedIn
<1>6. skl \cup {SkillOf[f]} = {SkillOf[g] : g \in cs \cup {f}}
  BY <1>1
<1>7. \A g \in cs \cup {f} : RequiredPoints[g] + AddedPoints[g] <= n + AddedPoints[f]
  BY <1>1, <1>4 DEF EarnedIn
<1>8. IsFiniteSet(skl \cup {SkillOf[f]})
  BY <1>2, FS_AddElement
<1> QED BY <1>1, <1>3, <1>4, <1>5, <1>6, <1>7, <1>8 DEF EarnedIn

LEMMA TeachEarned ==
  ASSUME IInv, Earned, NEW e \in Ids, NEW f \in Faculties, TeachAtFaculty(e, f) PROVE Earned'
<1>1. CASE \E x \in Answers : Throw(x)
  BY <1>1 DEF Throw, schoolVars, Earned
<1>2. CASE /\ ~Learned(e, f) /\ ~Beyond(e, f)
           /\ skills' = [skills EXCEPT ![e] = @ \cup {SkillOf[f]}]
           /\ score' = [score EXCEPT ![e] = @ + AddedPoints[f]]
           /\ courses' = [courses EXCEPT ![e] = @ \cup {f}]
  <2>1. /\ score[e] \in Nat /\ RequiredPoints[f] \in Nat /\ courses[e] \in SUBSET Faculties
        /\ EarnedIn(score[e], skills[e], courses[e]) /\ SkillOf[f] \notin skills[e]
    BY <1>2, ConstantAssumption DEF IInv, TypeOK, Earned, Learned
  <2>2. score[e] >= RequiredPoints[f]
    BY <1>2, <2>1 DEF Beyond
  <2>3. EarnedIn(score[e] + AddedPoints[f], skills[e] \cup {SkillOf[f]}, courses[e] \cup {f})
    BY <2>1, <2>2, AnotherCourse
  <2>4. ASSUME NEW c \in Ids PROVE EarnedIn(score'[c], skills'[c], courses'[c])
    <3>1. CASE c = e
      <4>1. /\ score'[e] = score[e] + AddedPoints[f] /\ skills'[e] = skills[e] \cup {SkillOf[f]}
            /\ courses'[e] = courses[e] \cup {f}
        BY <1>2 DEF IInv, TypeOK
      <4> QED BY <2>3, <3>1, <4>1, Zenon
    <3>2. CASE c # e
      <4>1. score'[c] = score[c] /\ skills'[c] = skills[c] /\ courses'[c] = courses[c]
        BY <1>2, <3>2 DEF IInv, TypeOK
      <4> QED BY <4>1, Zenon DEF Earned
    <3> QED BY <3>1, <3>2
  <2> QED BY <2>4 DEF Earned, EarnedIn
<1> QED BY <1>1, <1>2 DEF TeachAtFaculty, Answers

\* The score of an employee is the points of the courses that learnSkill let
\* through, one to a skill although two faculties may teach the same, and each
\* was within reach before its own points were added.
THEOREM PointsEarnedCorrect == Spec => []PointsEarned
<1>1. Init => Earned
  <2> SUFFICES ASSUME Init, NEW e \in Ids PROVE EarnedIn(score[e], skills[e], courses[e])
    BY DEF Earned
  <2>1. score[e] = 0 /\ skills[e] = {} /\ courses[e] = {}
    BY DEF Init
  <2>2. EarnedIn(0, {}, {})
    BY SumEmpty, FS_EmptySet DEF EarnedIn
  <2> QED BY <2>1, <2>2, Zenon
<1>2. IInv /\ Earned /\ [Next]_vars => Earned'
  <2> SUFFICES ASSUME IInv, Earned, [Next]_vars PROVE Earned'
    OBVIOUS
  <2>1. ASSUME NEW e \in Ids, NEW f \in Faculties, TeachAtFaculty(e, f) PROVE Earned'
    BY <2>1, TeachEarned
  <2>2. CASE UNCHANGED <<score, skills, courses>>
    BY <2>2 DEF Earned
  <2>3. (\E e \in Ids, f \in Faculties : TeachAtFaculty(e, f)) \/ UNCHANGED <<score, skills, courses>>
    BY DEF Next, AddEmployee, AddManager, AddCitizen, AddFaculty, CreateWorkplace, HireManagerAtWorkplace, HireManager,
       FireManagerAtWorkplace, HireEmployeeAtWorkplace, FireEmployeeAtWorkplace, IsWorkingInTheSameWorkplace, Throw,
       vars, schoolVars
  <2> QED BY <2>1, <2>2, <2>3
<1>3. Spec => []Earned
  BY <1>1, <1>2, Invariance, PTL DEF Spec
<1>4. ASSUME NEW S PROVE MapThenSumSet(LAMBDA f : AddedPoints[f], S) = SumOver(AddedPoints, S)
  BY DEF SumOver, IsSum, Picked, MapThenSumSet, MapThenFoldSet
<1>5. ASSUME Earned, NEW e \in Ids
      PROVE  /\ score[e] = MapThenSumSet(LAMBDA f : AddedPoints[f], courses[e])
             /\ skills[e] = {SkillOf[f] : f \in courses[e]}
             /\ Cardinality(skills[e]) = Cardinality(courses[e])
             /\ \A f \in courses[e] : RequiredPoints[f] + AddedPoints[f] <= score[e]
  <2>1. EarnedIn(score[e], skills[e], courses[e])
    BY <1>5 DEF Earned
  <2>2. score[e] = MapThenSumSet(LAMBDA f : AddedPoints[f], courses[e])
    BY <1>4, <2>1, Zenon DEF EarnedIn
  <2> QED BY <2>1, <2>2, Zenon DEF EarnedIn
<1>6. Earned => PointsEarned
  BY <1>5, Zenon DEF PointsEarned
<1> QED BY <1>3, <1>6, PTL
=============================================================================
