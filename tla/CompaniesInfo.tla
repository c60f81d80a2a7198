---------------------------- MODULE CompaniesInfo ----------------------------
(***************************************************************************)
(* The data structure of "Companies Management 1 (using AVL tree)":        *)
(* companies with their values, and the same employees in four AVL trees   *)
(* (by id and by salary, of the company and of everybody), with counters,  *)
(* a best earner per company and a highest earner of all, and a tree of    *)
(* the companies that have employees.                                      *)
(*                                                                         *)
(* An action is one call of the interface (library1.cpp).  A tree is the   *)
(* set of employees in it, and an employee, whose object every change      *)
(* replaces, is an id with a salary and an employer.  Grades, which only   *)
(* GetNumEmployeesMatching reads, are left out.                            *)
(*                                                                         *)
(* Some acquisitions leave the acquirer with trees that do not hold its    *)
(* employees, with pointers to the freed target and with freed nodes.      *)
(* They are modelled whole; of the calls after them, those that follow a   *)
(* freed or null pointer or fail an assertion, and so do not return, are   *)
(* no steps.                                                               *)
(***************************************************************************)
EXTENDS Integers, FiniteSets, FiniteSetsExt

CONSTANTS
  CompanyIds,
  Employees,    \* the employee ids
  Values,       \* the values companies start with
  Rises,        \* the rises of a value
  Factors,      \* the factors of acquisitions, integers here
  MaxValue,     \* bound: the largest value
  MaxSalary     \* bound: the largest salary

NoCompany == 0
NoEmployee == 0

\* Four employees make no tree that a removal unbalances, and five would make
\* buildNewEmployeesTree trim leaves.
ASSUME ConstantAssumption ==
  /\ NoCompany \notin CompanyIds
  /\ Employees \subseteq Nat \ {0} /\ IsFiniteSet(Employees) /\ Cardinality(Employees) <= 4
  /\ Values \subseteq 1..MaxValue /\ Rises \subseteq 1..MaxValue /\ Factors \subseteq Nat \ {0}
  /\ MaxValue \in Nat /\ MaxSalary \in Nat

VARIABLES
  companies,       \* CompaniesInfo::companies
  withEmployees,   \* CompaniesInfo::companies_with_employees
  value,           \* Company::value
  numOfEmployees,  \* Company::num_of_employees
  byId, bySalary,  \* Company::employees_by_id and employees_by_salary
  bestEarner,      \* Company::bestEarner
  allById, allBySalary, numEmployees, highestEarner,  \* CompaniesInfo: the same for everybody
  salary,          \* Employee::salary, 0 of nobody
  employer,        \* Employee::company, NoCompany of nobody and for a freed company
  disordered       \* history: the companies that such an acquisition made

ownVars == <<numOfEmployees, byId, bySalary, bestEarner>>
allVars == <<allById, allBySalary, numEmployees, highestEarner>>
vars    == <<companies, withEmployees, value, ownVars, allVars, salary, employer, disordered>>

-----------------------------------------------------------------------------
(* Orders of the trees. *)

\* Key's operator<, for a salary and an id: of two with one salary the one with
\* the lower id is the greater.
Less(d, e, pay) == pay[d] < pay[e] \/ (pay[d] = pay[e] /\ d > e)

\* getMaxNode of a tree by salary.
MaxOf(S, pay) ==
  IF S = {} THEN NoEmployee ELSE CHOOSE e \in S : \A d \in S \ {e} : Less(d, e, pay)

\* The first n of S in the order of a tree.
FirstById(S, n)          == {e \in S : Cardinality({d \in S : d < e}) < n}
FirstBySalary(S, n, pay) == {e \in S : Cardinality({d \in S : Less(d, e, pay)}) < n}

\* buildNewEmployeesTree for n employees has 2^ceil(log2 n) - 1 nodes before it
\* is trimmed to n, which is too few when n is a power of two.
NodesBuilt(n) == IF n \in {2^h : h \in 1..n} THEN n - 1 ELSE n

-----------------------------------------------------------------------------
(* Steps that several calls share.  They take and return the part of the     *)
(* state that employees move through.                                        *)

State ==
  [withEmployees |-> withEmployees, num |-> numOfEmployees, byId |-> byId,
   bySalary |-> bySalary, best |-> bestEarner, allById |-> allById,
   allBySalary |-> allBySalary, numAll |-> numEmployees, highest |-> highestEarner,
   salary |-> salary, employer |-> employer]

Becomes(s) ==
  /\ withEmployees' = s.withEmployees /\ numOfEmployees' = s.num
  /\ byId' = s.byId /\ bySalary' = s.bySalary /\ bestEarner' = s.best
  /\ allById' = s.allById /\ allBySalary' = s.allBySalary
  /\ numEmployees' = s.numAll /\ highestEarner' = s.highest
  /\ salary' = s.salary /\ employer' = s.employer

\* DSRemoveEmployee, with Company::removeEmployee.  Fault: a company that it
\* leaves empty stays listed.
RemovedListed(s, e) ==
  LET c   == s.employer[e]
      own == s.bySalary[c] \ {e}
      all == s.allBySalary \ {e}
  IN [s EXCEPT
        !.byId[c] = @ \ {e}, !.bySalary[c] = own, !.num[c] = @ - 1,
        !.best[c] = IF @ = e THEN MaxOf(own, s.salary) ELSE @,
        !.allById = @ \ {e}, !.allBySalary = all, !.numAll = @ - 1,
        !.highest = IF @ = e THEN MaxOf(all, s.salary) ELSE @,
        !.salary[e] = 0, !.employer[e] = NoCompany]
Removed(s, e) ==
  LET c   == s.employer[e]
      own == s.bySalary[c] \ {e}
      all == s.allBySalary \ {e}
  IN [s EXCEPT
        !.withEmployees = IF s.num[c] = 1 THEN @ \ {c} ELSE @,
        !.byId[c] = @ \ {e}, !.bySalary[c] = own, !.num[c] = @ - 1,
        !.best[c] = IF @ = e THEN MaxOf(own, s.salary) ELSE @,
        !.allById = @ \ {e}, !.allBySalary = all, !.numAll = @ - 1,
        !.highest = IF @ = e THEN MaxOf(all, s.salary) ELSE @,
        !.salary[e] = 0, !.employer[e] = NoCompany]

\* Company::addEmployee: the ids of two with one salary are not compared.
\* Fault: the salaries are not compared either.
HiredUncompared(s, e, c, pay) ==
  [s EXCEPT
     !.byId[c] = @ \cup {e}, !.bySalary[c] = @ \cup {e}, !.num[c] = @ + 1,
     !.best[c] = IF @ = NoEmployee THEN e ELSE @,
     !.salary[e] = pay, !.employer[e] = c]
HiredBy(s, e, c, pay) ==
  [s EXCEPT
     !.byId[c] = @ \cup {e}, !.bySalary[c] = @ \cup {e}, !.num[c] = @ + 1,
     !.best[c] = IF @ = NoEmployee \/ pay > s.salary[@] THEN e ELSE @,
     !.salary[e] = pay, !.employer[e] = c]

\* The rest of AddEmployeeToDS and of PromoteEmployee.
Counted(s, e) ==
  [s EXCEPT
     !.allById = @ \cup {e}, !.allBySalary = @ \cup {e}, !.numAll = @ + 1,
     !.highest = IF @ = NoEmployee \/ Less(@, e, s.salary) THEN e ELSE @]

Added(s, e, c, pay) ==
  LET listed == [s EXCEPT !.withEmployees = IF s.num[c] = 0 THEN @ \cup {c} ELSE @]
  IN Counted(HiredBy(listed, e, c, pay), e)

\* The end of DSRemoveCompany: the company is freed, with its trees.  Fault: it
\* stays listed.
FreedListed(s, c) ==
  [s EXCEPT
     !.byId[c] = {}, !.bySalary[c] = {}, !.best[c] = NoEmployee,
     !.employer = [e \in Employees |-> IF @[e] = c THEN NoCompany ELSE @[e]]]
Freed(s, c) ==
  [s EXCEPT
     !.withEmployees = @ \ {c}, !.byId[c] = {}, !.bySalary[c] = {}, !.best[c] = NoEmployee,
     !.employer = [e \in Employees |-> IF @[e] = c THEN NoCompany ELSE @[e]]]

-----------------------------------------------------------------------------
(* Operations. *)

Init ==
  /\ companies = {} /\ withEmployees = {}
  /\ value          = [c \in CompanyIds |-> 0]
  /\ numOfEmployees = [c \in CompanyIds |-> 0]
  /\ byId           = [c \in CompanyIds |-> {}]
  /\ bySalary       = [c \in CompanyIds |-> {}]
  /\ bestEarner     = [c \in CompanyIds |-> NoEmployee]
  /\ allById = {} /\ allBySalary = {} /\ numEmployees = 0 /\ highestEarner = NoEmployee
  /\ salary         = [e \in Employees |-> 0]
  /\ employer       = [e \in Employees |-> NoCompany]
  /\ disordered     = {}

AddCompany(c, v) ==
  /\ c \notin companies
  /\ companies' = companies \cup {c}
  /\ value'     = [value EXCEPT ![c] = v]
  /\ UNCHANGED <<withEmployees, ownVars, allVars, salary, employer, disordered>>

\* The trees of c have no freed nodes: of the trees that TakenOver gave it only
\* the roots are its own.
Sound(c) == \A tree \in {byId[c], bySalary[c]} :
              Cardinality({e \in tree : employer[e] = NoCompany}) <= 1

AddEmployee(e, c, pay) ==
  /\ c \in companies /\ e \notin allById \cup allBySalary /\ Sound(c)
  /\ Becomes(Added(State, e, c, pay))
  /\ UNCHANGED <<companies, value, disordered>>

\* DSRemoveCompany; it refuses a company with employees.
RemoveCompany(c) ==
  /\ c \in companies /\ numOfEmployees[c] = 0
  /\ Becomes(Freed(State, c))
  /\ companies' = companies \ {c}
  /\ value'     = [value EXCEPT ![c] = 0]
  /\ UNCHANGED disordered

\* What the calls with an employee require: getEmployer() is followed, and so is
\* the best earner of the company in Company::removeEmployee.
Employed(e) ==
  /\ e \in allById /\ employer[e] \in companies /\ Sound(employer[e])
  /\ bestEarner[employer[e]] # NoEmployee

RemoveEmployee(e) ==
  /\ Employed(e)
  /\ Becomes(Removed(State, e))
  /\ UNCHANGED <<companies, value, disordered>>

IncreaseCompanyValue(c, v) ==
  /\ c \in companies /\ value[c] + v <= MaxValue
  /\ value' = [value EXCEPT ![c] = @ + v]
  /\ UNCHANGED <<companies, withEmployees, ownVars, allVars, salary, employer, disordered>>

\* PromoteEmployee takes the employee out and a new one in, but does not put a
\* company that it leaves empty in between back into companies_with_employees.
PromoteEmployee(e, raise) ==
  /\ Employed(e) /\ salary[e] + raise <= MaxSalary
  /\ LET c == employer[e]
     IN Becomes(Counted(HiredBy(Removed(State, e), e, c, salary[e] + raise), e))
  /\ UNCHANGED <<companies, value, disordered>>

\* HireEmployee, MoveEmployeeToCompany.
HireEmployee(e, c) ==
  /\ Employed(e) /\ c \in companies /\ employer[e] # c /\ Sound(c)
  /\ Becomes(Added(Removed(State, e), e, c, salary[e]))
  /\ UNCHANGED <<companies, value, disordered>>

\* MoveAllEmployeesFromTargetToAcquirer, both with employees: two sorted arrays
\* are merged and put into two new trees, and who is put there gets the new
\* employer.
MergedIds(s, a, t) ==
  FirstById(s.byId[a] \cup s.byId[t], NodesBuilt(s.num[a] + s.num[t]))
MergedPaid(s, a, t) ==
  FirstBySalary(s.bySalary[a] \cup s.bySalary[t], NodesBuilt(s.num[a] + s.num[t]), s.salary)
Moved(s, a, t) ==
  LET ids  == MergedIds(s, a, t)
      paid == MergedPaid(s, a, t)
  IN [s EXCEPT
        !.byId[a] = ids, !.bySalary[a] = paid, !.num[a] = @ + s.num[t], !.num[t] = 0,
        !.best[a] = MaxOf(paid, s.salary),
        !.employer = [e \in Employees |-> IF e \in ids \cup paid THEN a ELSE s.employer[e]]]

\* The same for an acquirer without employees: clone() copies the roots of the
\* target's trees, which share their other nodes with the originals.  Nobody's
\* employer changes, and the acquirer is not listed as having employees.
TakenOver(s, a, t) ==
  [s EXCEPT
     !.byId[a] = s.byId[t], !.bySalary[a] = s.bySalary[t], !.num[a] = s.num[t], !.num[t] = 0,
     !.best[a] = MaxOf(s.bySalary[t], s.salary)]

\* clone() copies a root, which must be there.
Clonable(t) == Sound(t) /\ byId[t] # {} /\ bySalary[t] # {}

\* Merging two staffs: the array of a company whose tree holds fewer than it
\* counts has nulls at its end, which mergeArrays may not compare and which no
\* node may get, and the employer of everybody who gets a node is followed.
Mergeable(a, t) ==
  LET n    == NodesBuilt(numOfEmployees[a] + numOfEmployees[t])
      ids  == MergedIds(State, a, t)
      paid == MergedPaid(State, a, t)
  IN /\ Sound(a) /\ Sound(t)
     /\ \A c, d \in {a, t} :
          /\ c # d /\ Cardinality(byId[c]) < numOfEmployees[c] =>
               \A e \in byId[d] : \E f \in byId[c] : e < f
          /\ c # d /\ Cardinality(bySalary[c]) < numOfEmployees[c] =>
               \A e \in bySalary[d] : \E f \in bySalary[c] : Less(e, f, salary)
     /\ Cardinality(ids) = n /\ Cardinality(paid) = n
     /\ \A e \in ids \cup paid : employer[e] \in companies

\* AcquireCompany.  The target has no employees left, so that DSRemoveCompany,
\* which follows, does not refuse it.
AcquireCompany(a, t, factor) ==
  /\ a \in companies /\ t \in companies /\ a # t /\ value[a] >= 10 * value[t]
  /\ (value[a] + value[t]) * factor <= MaxValue
  /\ \/ /\ numOfEmployees[t] = 0
        /\ Becomes(Freed(State, t))
        /\ UNCHANGED disordered
     \/ /\ numOfEmployees[t] > 0 /\ numOfEmployees[a] = 0 /\ Clonable(t)
        /\ Becomes(Freed(TakenOver(State, a, t), t))
        /\ disordered' = disordered \cup {a}
     \/ /\ numOfEmployees[t] > 0 /\ numOfEmployees[a] > 0 /\ Mergeable(a, t)
        /\ Becomes(Freed(Moved(State, a, t), t))
        /\ LET n == numOfEmployees[a] + numOfEmployees[t]
           IN disordered' = IF NodesBuilt(n) = n /\ {a, t} \cap disordered = {}
                            THEN disordered ELSE disordered \cup {a}
  /\ companies' = companies \ {t}
  /\ value'     = [value EXCEPT ![a] = (@ + value[t]) * factor, ![t] = 0]

Next ==
  \/ \E c \in CompanyIds :
       \/ RemoveCompany(c)
       \/ \E v \in Values : AddCompany(c, v)
       \/ \E v \in Rises : IncreaseCompanyValue(c, v)
  \/ \E e \in Employees, c \in CompanyIds :
       HireEmployee(e, c) \/ \E pay \in 1..MaxSalary : AddEmployee(e, c, pay)
  \/ \E e \in Employees :
       RemoveEmployee(e) \/ \E raise \in 1..MaxSalary : PromoteEmployee(e, raise)
  \/ \E a, t \in CompanyIds, factor \in Factors : AcquireCompany(a, t, factor)

Spec == Init /\ [][Next]_vars

-----------------------------------------------------------------------------
(* Properties. *)

TypeOK ==
  /\ withEmployees \subseteq companies /\ companies \subseteq CompanyIds
  /\ value \in [CompanyIds -> 0..MaxValue]
  /\ numOfEmployees \in [CompanyIds -> 0..Cardinality(Employees)]
  /\ byId \in [CompanyIds -> SUBSET Employees] /\ bySalary \in [CompanyIds -> SUBSET Employees]
  /\ bestEarner \in [CompanyIds -> Employees \cup {NoEmployee}]
  /\ allById \in SUBSET Employees /\ allBySalary \in SUBSET Employees
  /\ numEmployees \in 0..Cardinality(Employees)
  /\ highestEarner \in Employees \cup {NoEmployee}
  /\ salary \in [Employees -> 0..MaxSalary]
  /\ employer \in [Employees -> companies \cup {NoCompany}]
  /\ disordered \subseteq CompanyIds

\* The trees agree after every call of library1.cpp: the two of everybody with
\* each other and with the counter, and the two of a company with each other, its
\* counter and the employees who point to it; a company that
\* GetHighestEarnerInEachCompany visits has an employee; and every employee's
\* company exists.  Excepted are the companies that an acquisition by a company
\* without employees made, or one with a power of two employees as its result,
\* and what these are merged into.  In their trees, too, are only employees whose
\* pointer is to the company, or to one that has been freed, and these
\* acquisitions do no harm to any other company.
TreesAgree ==
  /\ allBySalary = allById /\ numEmployees = Cardinality(allById)
  /\ \A c \in companies : \A e \in byId[c] \cup bySalary[c] :
       e \in allById /\ employer[e] \in {c, NoCompany}
  /\ \A c \in companies \ disordered :
       LET staff == {e \in allById : employer[e] = c}
       IN /\ byId[c] = staff /\ bySalary[c] = staff /\ numOfEmployees[c] = Cardinality(staff)
          /\ c \in withEmployees => staff # {} /\ bestEarner[c] # NoEmployee
  /\ disordered = {} => \A e \in allById : employer[e] \in companies

\* GetHighestEarner answers for everybody with the greatest of the tree by
\* salary, whatever acquisitions there were; and for a company, but those that
\* TreesAgree excepts, with one of its employees who earns no less than the
\* others, and with nobody exactly when there is nobody.
EarnersTop ==
  /\ highestEarner = MaxOf(allBySalary, salary)
  /\ \A c \in companies \ disordered :
       IF bySalary[c] = {} THEN bestEarner[c] = NoEmployee
       ELSE /\ bestEarner[c] \in bySalary[c]
            /\ \A e \in bySalary[c] : salary[e] <= salary[bestEarner[c]]
=============================================================================
