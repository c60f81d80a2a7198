-------------------------------- MODULE City --------------------------------
(***************************************************************************)
(* "City workplaces management": citizens, who are employees or managers,  *)
(* workplaces with managers, each of whom leads employees, and faculties   *)
(* that teach employees skills for points.  An action is one call of City  *)
(* in all its outcomes; `answer' is the exception it threw, or "done", or  *)
(* what a query found.  Nothing but a salary above 0 tells that a manager  *)
(* has a post, and nothing but the lists whom a salary is paid for.        *)
(*                                                                         *)
(* What the caller decides, the conditions of hiring and of faculties, is  *)
(* chosen freely.  The order of citizens in the vectors, their names and   *)
(* the printing are left out.  A manager is never sent to a faculty: the   *)
(* call hands the faculty's condition a null pointer.                      *)
(***************************************************************************)
EXTENDS Integers, FiniteSets, FiniteSetsExt

CONSTANTS
  Ids,             \* the ids of citizens
  Workplaces, Faculties,
  WorkersSalary,   \* Workplace::workersSalary
  ManagersSalary,  \* Workplace::managersSalary
  SkillOf,         \* the id of Faculty::skill
  RequiredPoints,  \* Skill::requiredPoints of that skill
  AddedPoints      \* Faculty::AddedPoints

\* A manager paid nothing could be hired twice, see Workplace::hireManager.
ASSUME ConstantAssumption ==
  /\ IsFiniteSet(Ids) /\ IsFiniteSet(Faculties)
  /\ WorkersSalary \in [Workplaces -> Nat]
  /\ ManagersSalary \in [Workplaces -> Nat \ {0}]
  /\ RequiredPoints \in [Faculties -> Nat]
  /\ AddedPoints \in [Faculties -> Nat]

VARIABLES
  kind,        \* the class of a citizen, "none" before it is added
  workplaces, faculties,  \* City::workplaces and City::faculties
  managers,    \* Workplace::managers
  employees,   \* Manager::employees
  salary,      \* Employee::salary and Manager::salary
  score,       \* Employee::score
  skills,      \* Employee::skills
  answer,
  courses      \* history: the faculties that have taught an employee

staffVars  == <<managers, employees, salary>>
schoolVars == <<score, skills, courses>>
cityVars   == <<kind, workplaces, faculties>>
vars       == <<cityVars, staffVars, schoolVars, answer>>

Citizens == {c \in Ids : kind[c] # "none"}

Answers ==
  {"done", "yes", "no", "CitizenAlreadyExists", "FacultyAlreadyExists", "WorkplaceAlreadyExists",
   "EmployeeDoesNotExist", "ManagerDoesNotExist", "WorkplaceDoesNotExist", "FacultyDoesNotExist",
   "ManagerAlreadyHired", "CanNotHireManager", "ManagerIsNotHired", "EmployeeNotSelected",
   "EmployeeAlreadyHired", "EmployeeNotAccepted", "SkillAlreadyLearned", "CanNotLearnSkill"}

Throw(exception) ==
  /\ answer' = exception
  /\ UNCHANGED <<cityVars, staffVars, schoolVars>>

-----------------------------------------------------------------------------
(* Citizens, faculties and workplaces: an id is taken once and for all.     *)

AddCitizen(c, k) ==
  IF c \in Citizens
  THEN Throw("CitizenAlreadyExists")
  ELSE /\ kind' = [kind EXCEPT ![c] = k]
       /\ answer' = "done"
       /\ UNCHANGED <<workplaces, faculties, staffVars, schoolVars>>

AddEmployee(c) == AddCitizen(c, "Employee")
AddManager(c)  == AddCitizen(c, "Manager")

AddFaculty(f) ==
  IF f \in faculties
  THEN Throw("FacultyAlreadyExists")
  ELSE /\ faculties' = faculties \cup {f}
       /\ answer' = "done"
       /\ UNCHANGED <<kind, workplaces, staffVars, schoolVars>>

CreateWorkplace(w) ==
  IF w \in workplaces
  THEN Throw("WorkplaceAlreadyExists")
  ELSE /\ workplaces' = workplaces \cup {w}
       /\ answer' = "done"
       /\ UNCHANGED <<kind, faculties, staffVars, schoolVars>>

-----------------------------------------------------------------------------
(* Salaries.  A citizen may be paid by several managers at once.             *)

\* Employee::setSalary stops at 0, Manager::setSalary ignores what would go below.
EmployeePaid(n, amount) == IF n + amount < 0 THEN 0 ELSE n + amount
ManagerPaid(n, amount)  == IF n + amount < 0 THEN n ELSE n + amount

\* Manager::setEmployeesSalaries: everyone the manager leads.
GroupPaid(s, m, amount) ==
  [c \in Ids |-> IF c \in employees[m] THEN EmployeePaid(s[c], amount) ELSE s[c]]

\* Whom hireManager takes for employed.  Fault: only who leads somebody.
LeadsSomebody(c)   == employees[c] # {}
EarnsElsewhere(c)  == salary[c] > 0

HireManager(c, w) ==
  \/ c \in managers[w] /\ Throw("ManagerAlreadyHired")
  \/ c \notin managers[w] /\ EarnsElsewhere(c) /\ Throw("CanNotHireManager")
  \/ /\ c \notin managers[w]
     /\ ~EarnsElsewhere(c)
     /\ kind[c] = "Employee"               \* Citizen::setEmployeesSalaries
     /\ Throw("ManagerDoesNotExist")
  \/ /\ c \notin managers[w]
     /\ ~EarnsElsewhere(c)
     /\ kind[c] = "Manager"
     /\ salary' = [GroupPaid(salary, c, WorkersSalary[w]) EXCEPT ![c] = ManagerPaid(@, ManagersSalary[w])]
     /\ managers' = [managers EXCEPT ![w] = @ \cup {c}]
     /\ answer' = "done"
     /\ UNCHANGED <<employees, cityVars, schoolVars>>

HireManagerAtWorkplace(c, w) ==
  \/ c \notin Citizens /\ Throw("ManagerDoesNotExist")
  \/ c \in Citizens /\ w \notin workplaces /\ Throw("WorkplaceDoesNotExist")
  \/ c \in Citizens /\ w \in workplaces /\ HireManager(c, w)

HireEmployeeAtWorkplace(e, m, w) ==
  \/ w \notin workplaces /\ Throw("WorkplaceDoesNotExist")
  \/ w \in workplaces /\ kind[e] # "Employee" /\ Throw("EmployeeDoesNotExist")
  \/ w \in workplaces /\ kind[e] = "Employee" /\ m \notin managers[w] /\ Throw("ManagerIsNotHired")
  \/ /\ w \in workplaces /\ kind[e] = "Employee" /\ m \in managers[w]
     /\ \/ Throw("EmployeeNotSelected")
        \/ e \in employees[m] /\ Throw("EmployeeAlreadyHired")
        \/ /\ e \notin employees[m]
           /\ employees' = [employees EXCEPT ![m] = @ \cup {e}]
           /\ salary' = [salary EXCEPT ![e] = EmployeePaid(@, WorkersSalary[w])]
           /\ answer' = "done"
           /\ UNCHANGED <<managers, cityVars, schoolVars>>

\* The employees Workplace::fireEmployee stops paying before it asks the manager
\* to let the employee go, which may fail.  Fault: whoever has that id.
NoLongerPaidAnyone(e, m) == {e}
NoLongerPaid(e, m)       == {c \in employees[m] : c = e}

FireEmployeeAtWorkplace(e, m, w) ==
  \/ w \notin workplaces /\ Throw("WorkplaceDoesNotExist")
  \/ w \in workplaces /\ m \notin managers[w] /\ Throw("ManagerDoesNotExist")
  \/ /\ w \in workplaces /\ m \in managers[w]
     /\ salary' = [c \in Ids |-> IF c \in NoLongerPaid(e, m)
                                 THEN EmployeePaid(salary[c], -WorkersSalary[w]) ELSE salary[c]]
     /\ employees' = [employees EXCEPT ![m] = @ \ {e}]
     /\ answer' = IF e \in employees[m] THEN "done" ELSE "EmployeeDoesNotExist"
     /\ UNCHANGED <<managers, cityVars, schoolVars>>

\* Manager::removeAllEmployees pays the group off and clears it.  Fault: the
\* group stays.
GroupKept(m)    == employees[m]
GroupRemoved(m) == {}

\* The loop of City::fireManagerAtWorkplace, then Workplace::fireManager, which
\* charges whom the manager still leads a second time.
FireManagerAtWorkplace(m, w) ==
  \/ w \notin workplaces /\ Throw("WorkplaceDoesNotExist")
  \/ w \in workplaces /\ m \notin managers[w] /\ Throw("ManagerDoesNotExist")
  \/ /\ w \in workplaces /\ m \in managers[w]
     /\ LET paidOff == GroupPaid(salary, m, -WorkersSalary[w]) IN
        salary' = [c \in Ids |->
          IF c = m THEN ManagerPaid(paidOff[c], -ManagersSalary[w])
          ELSE IF c \in GroupRemoved(m) THEN EmployeePaid(paidOff[c], -WorkersSalary[w])
          ELSE paidOff[c]]
     /\ employees' = [employees EXCEPT ![m] = GroupRemoved(m)]
     /\ managers' = [managers EXCEPT ![w] = @ \ {m}]
     /\ answer' = "done"
     /\ UNCHANGED <<cityVars, schoolVars>>

-----------------------------------------------------------------------------
(* Faculties.  Employee::learnSkill refuses before the points are added;     *)
(* two faculties may teach one skill.                                        *)

\* What an employee has not the points for.  Fault: the points of this very
\* course count.
BeyondWithBonus(e, f) == score[e] + AddedPoints[f] < RequiredPoints[f]
Beyond(e, f)          == score[e] < RequiredPoints[f]

\* Employee::skills is a set of skills, compared by id.
Learned(e, f) == SkillOf[f] \in skills[e]

TeachAtFaculty(e, f) ==
  \/ e \notin Citizens /\ Throw("EmployeeDoesNotExist")
  \/ e \in Citizens /\ f \notin faculties /\ Throw("FacultyDoesNotExist")
  \/ /\ kind[e] = "Employee" /\ f \in faculties
     /\ \/ Throw("EmployeeNotAccepted")
        \/ Learned(e, f) /\ Throw("SkillAlreadyLearned")
        \/ ~Learned(e, f) /\ Beyond(e, f) /\ Throw("CanNotLearnSkill")
        \/ /\ ~Learned(e, f) /\ ~Beyond(e, f)
           /\ skills' = [skills EXCEPT ![e] = @ \cup {SkillOf[f]}]
           /\ score' = [score EXCEPT ![e] = @ + AddedPoints[f]]
           /\ courses' = [courses EXCEPT ![e] = @ \cup {f}]
           /\ answer' = "done"
           /\ UNCHANGED <<cityVars, staffVars>>

-----------------------------------------------------------------------------
(* Queries.                                                                  *)

InWorkplace(w, e) == \E m \in managers[w] : e \in employees[m]

IsWorkingInTheSameWorkplace(e, f) ==
  \/ e \notin Citizens /\ Throw("EmployeeDoesNotExist")
  \/ /\ e \in Citizens
     /\ Throw(IF \E w \in workplaces : InWorkplace(w, e) /\ InWorkplace(w, f) THEN "yes" ELSE "no")

-----------------------------------------------------------------------------
Init ==
  /\ kind = [c \in Ids |-> "none"]
  /\ workplaces = {} /\ faculties = {}
  /\ managers = [w \in Workplaces |-> {}]
  /\ employees = [c \in Ids |-> {}]
  /\ salary = [c \in Ids |-> 0]
  /\ score = [c \in Ids |-> 0]
  /\ skills = [c \in Ids |-> {}]
  /\ courses = [c \in Ids |-> {}]
  /\ answer = "done"

Next ==
  \/ \E c \in Ids : AddEmployee(c) \/ AddManager(c)
  \/ \E f \in Faculties : AddFaculty(f)
  \/ \E w \in Workplaces : CreateWorkplace(w)
  \/ \E c \in Ids, w \in Workplaces : HireManagerAtWorkplace(c, w) \/ FireManagerAtWorkplace(c, w)
  \/ \E e, m \in Ids, w \in Workplaces : HireEmployeeAtWorkplace(e, m, w) \/ FireEmployeeAtWorkplace(e, m, w)
  \/ \E e \in Ids, f \in Faculties : TeachAtFaculty(e, f)
  \/ \E e, f \in Ids : IsWorkingInTheSameWorkplace(e, f)

Spec == Init /\ [][Next]_vars

-----------------------------------------------------------------------------
TypeOK ==
  /\ kind \in [Ids -> {"none", "Employee", "Manager"}]
  /\ workplaces \subseteq Workplaces /\ faculties \subseteq Faculties
  /\ managers \in [Workplaces -> SUBSET Ids]
  /\ employees \in [Ids -> SUBSET Ids]
  /\ salary \in [Ids -> Nat] /\ score \in [Ids -> Nat]
  /\ skills \in [Ids -> SUBSET {SkillOf[f] : f \in Faculties}]
  /\ courses \in [Ids -> SUBSET Faculties]
  /\ answer \in Answers

Posts     == {p \in Workplaces \X Ids : p[2] \in managers[p[1]]}
Contracts == {k \in Workplaces \X Ids \X Ids : k[2] \in managers[k[1]] /\ k[3] \in employees[k[2]]}

\* The lists of workplaces and managers, changed one after the other by every
\* call, are at all times the posts and contracts that were agreed, also after a
\* call that threw half way through; and the query of two colleagues is right.
Agreed == INSTANCE Employment WITH
  posts     <- Posts,
  contracts <- Contracts,
  reply     <- IF answer \in {"done", "yes", "no"} THEN answer ELSE "refused"
ImplementsEmployment == Agreed!Spec

\* Everyone earns exactly what their contracts and their post pay, though the
\* salaries are raised and lowered call by call by three different loops.
SalaryExact == \A c \in Ids :
  salary[c] = MapThenSumSet(LAMBDA k : WorkersSalary[k[1]], {k \in Contracts : k[3] = c})
            + MapThenSumSet(LAMBDA p : ManagersSalary[p[1]], {p \in Posts : p[2] = c})

\* Every variable has its type; a manager's salary above 0 means a post, on which
\* hireManager relies; and a manager without a post leads nobody, whom a later
\* post would pay for again.
SalaryTellsPost ==
  /\ TypeOK
  /\ \A m \in Ids : kind[m] = "Manager" =>
       IF \E w \in Workplaces : m \in managers[w] THEN salary[m] > 0
       ELSE salary[m] = 0 /\ employees[m] = {}

\* An employee's score is the points of the courses taken, one course to a
\* skill, and every course was within reach before its own points were added.
PointsEarned == \A e \in Ids :
  /\ score[e] = MapThenSumSet(LAMBDA f : AddedPoints[f], courses[e])
  /\ skills[e] = {SkillOf[f] : f \in courses[e]}
  /\ Cardinality(skills[e]) = Cardinality(courses[e])
  /\ \A f \in courses[e] : RequiredPoints[f] + AddedPoints[f] <= score[e]
=============================================================================
