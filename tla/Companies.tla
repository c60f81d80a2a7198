----------------------------- MODULE Companies -----------------------------
(***************************************************************************)
(* The data structure of "Companies Management 2 (using hash table,        *)
(* union-find, rank AVL tree)": an upside-down tree of companies           *)
(* (union-find) with purchase factors summed along the paths, per company  *)
(* a hash table of its employees and a rank tree of those with a salary,   *)
(* a global hash table and rank tree, and in every employee a cached       *)
(* pointer to its employer.                                                *)
(*                                                                         *)
(* An action is one call of the interface (library2.cpp), with the path    *)
(* shrinking it does on the way.  A hash table and a rank tree are the     *)
(* sets of employees in them; the two counters of a hash table, which it   *)
(* updates entry by entry, are kept beside it.  Values and factors are     *)
(* integers.  The table and the tree of a company that is acquired are     *)
(* freed.                                                                  *)
(***************************************************************************)
EXTENDS Integers, FiniteSets, FiniteSetsExt

CONSTANTS
  NumCompanies,  \* the k of Init(k)
  Employees,     \* the employee ids
  Factors,       \* the purchase factors
  MaxSalary,     \* bound: the largest salary
  MaxGrade,      \* bound: the largest grade
  MaxCrowded     \* bound: with two employees, only companies 1..MaxCrowded do business

\* With two employees every rank tree keeps its shape, even one built by a merge
\* (module RankTree), and is the set of its entries; and no hash table grows past
\* 0.8 of its 11 slots: resize_table is not called.
ASSUME ConstantAssumption ==
  /\ NumCompanies \in Nat \ {0}
  /\ IsFiniteSet(Employees) /\ Cardinality(Employees) <= 2
  /\ Factors \subseteq Nat \ {0}
  /\ MaxSalary \in Nat
  /\ MaxGrade \in Nat
  /\ MaxCrowded \in Nat

Companies == 1..NumCompanies
NoCompany == 0

VARIABLES
  parent,          \* UDCompanyTree::parent, NoCompany for nullptr
  size,            \* UDCompanyTree::size
  value,           \* UDCompanyTree::value
  purchaseFactor,  \* UDCompanyTree::purchaseFactor
  table,           \* UDCompanyTree::employees: the employees in the hash table
  numNoSalary,     \* employeeHash::numEmployeesNoSalary of that table
  gradesNoSalary,  \* employeeHash::gradesSumOfNoSalary of that table
  tree,            \* UDCompanyTree::employeesWithSalary
  allTable, allNumNoSalary, allGradesNoSalary, allTree,  \* wet2DS: the same for everyone
  company,         \* Employee::company, a cached pointer
  salary, grade,   \* Employee::salary and grade
  worth            \* history: the value every company ought to have

treeVars     == <<parent, size, value, purchaseFactor>>
tableVars    == <<table, numNoSalary, gradesNoSalary, tree>>
allVars      == <<allTable, allNumNoSalary, allGradesNoSalary, allTree>>
employeeVars == <<company, salary, grade>>
vars         == <<treeVars, tableVars, allVars, employeeVars, worth>>

-----------------------------------------------------------------------------
(* The upside-down tree.  The operators take the parent pointers they climb. *)

\* Climb(par, c)[k]: k parents up from c, or the root if that is nearer.
Climb(par, c) ==
  LET up[k \in 0..NumCompanies] ==
        IF k = 0 THEN c
        ELSE LET d == up[k - 1] IN IF par[d] = NoCompany THEN d ELSE par[d]
  IN up

RootIn(par, c)  == IF par[c] = NoCompany THEN c ELSE Climb(par, c)[NumCompanies]
Between(par, c) == {Climb(par, c)[k] : k \in 1..NumCompanies} \ {c, RootIn(par, c)}
Passed(par, c)  ==
  IF par[c] = NoCompany \/ par[par[c]] = NoCompany THEN 0
  ELSE MapThenSumSet(LAMBDA d : purchaseFactor[d], Between(par, c))

\* getRoot and getCompanyRoot: the factors passed on the way to the root go to
\* the company's own value, and the root becomes its parent.
Shrink(f, c) ==
  [parent |-> IF RootIn(f.parent, c) = c THEN f.parent
              ELSE [f.parent EXCEPT ![c] = RootIn(f.parent, c)],
   value  |-> [f.value EXCEPT ![c] = @ + Passed(f.parent, c)]]

Forest == [parent |-> parent, value |-> value]
Root(c) == RootIn(parent, c)

GetCompanyRoot(c) ==
  /\ parent' = Shrink(Forest, c).parent
  /\ value'  = Shrink(Forest, c).value

\* Employee::getEmployer: a stale pointer is replaced by the root, which charges
\* the company pointed to, whose parent stays.
GetEmployer(e) ==
  /\ value'   = [value EXCEPT ![company[e]] = @ + Passed(parent, company[e])]
  /\ company' = [company EXCEPT ![e] = Root(company[e])]

\* UDCompanyTree::getValue: the factors passed go to purchaseFactor.
RealValue(c) ==
  value[c] + purchaseFactor[c] + Passed(parent, c)
    + IF Root(c) = c THEN 0 ELSE purchaseFactor[Root(c)]

\* The bound on a step that adds staff and makes companies S do business.
Business == {c \in Companies : parent[c] # NoCompany} \cup {parent[c] : c \in Companies}
              \cup {company[e] : e \in Employees}
Manageable(S, staff) ==
  Cardinality(staff) = 2 => (Business \cup S) \ {NoCompany} \subseteq 1..MaxCrowded

-----------------------------------------------------------------------------
(* The hash tables: the counters hold for the employees without a salary.   *)
Unpaid(S)   == {e \in S : salary[e] < 1}
GradeSum(S) == MapThenSumSet(LAMBDA e : grade[e], S)

AddEmployee(e, c, g) ==
  /\ e \notin allTable
  /\ Manageable({c}, allTable \cup {e})     \* bound
  /\ GetCompanyRoot(c)
  /\ LET r == Root(c) IN
     /\ company' = [company EXCEPT ![e] = r]
     /\ table' = [table EXCEPT ![r] = @ \cup {e}]
     /\ numNoSalary' = [numNoSalary EXCEPT ![r] = @ + 1]
     /\ gradesNoSalary' = [gradesNoSalary EXCEPT ![r] = @ + g]
  /\ grade' = [grade EXCEPT ![e] = g]
  /\ allTable' = allTable \cup {e}
  /\ allNumNoSalary' = allNumNoSalary + 1
  /\ allGradesNoSalary' = allGradesNoSalary + g
  /\ UNCHANGED <<size, purchaseFactor, tree, allTree, salary, worth>>

\* The entries of a table after employeeHash::Remove, which counts down only for
\* an entry it finds.  Fault: the entry stays.
EntriesKept(S, e)    == S
EntriesWithout(S, e) == S \ {e}

RemoveEmployee(e) ==
  /\ e \in allTable
  /\ value' = [value EXCEPT ![company[e]] = @ + Passed(parent, company[e])]
  /\ LET r == Root(company[e])
         n == IF salary[e] < 1 THEN 1 ELSE 0
         found == IF e \in table[r] THEN n ELSE 0
     IN
     /\ tree'  = [tree EXCEPT ![r] = @ \ {e}]
     /\ table' = [table EXCEPT ![r] = EntriesWithout(@, e)]
     /\ numNoSalary' = [numNoSalary EXCEPT ![r] = @ - found]
     /\ gradesNoSalary' = [gradesNoSalary EXCEPT ![r] = @ - found * grade[e]]
     /\ allNumNoSalary' = allNumNoSalary - n
     /\ allGradesNoSalary' = allGradesNoSalary - n * grade[e]
  /\ allTable' = allTable \ {e}
  /\ allTree' = allTree \ {e}
  /\ company' = [company EXCEPT ![e] = NoCompany]
  /\ salary' = [salary EXCEPT ![e] = 0]
  /\ grade' = [grade EXCEPT ![e] = 0]
  /\ UNCHANGED <<parent, size, purchaseFactor, worth>>

EmployeeSalaryIncrease(e, increase) ==
  /\ e \in allTable
  /\ salary[e] + increase <= MaxSalary     \* bound
  /\ GetEmployer(e)
  /\ LET r == Root(company[e])
         n == IF salary[e] < 1 THEN 1 ELSE 0
     IN
     /\ tree' = [tree EXCEPT ![r] = @ \cup {e}]
     /\ numNoSalary' = [numNoSalary EXCEPT ![r] = @ - n]
     /\ gradesNoSalary' = [gradesNoSalary EXCEPT ![r] = @ - n * grade[e]]
     /\ allNumNoSalary' = allNumNoSalary - n
     /\ allGradesNoSalary' = allGradesNoSalary - n * grade[e]
  /\ allTree' = allTree \cup {e}
  /\ salary' = [salary EXCEPT ![e] = @ + increase]
  /\ UNCHANGED <<parent, size, purchaseFactor, table, allTable, grade, worth>>

\* The counters follow a grade only while there is no salary.  Fault: always.
AlwaysCounted(e, bump) == bump
GradeCounted(e, bump)  == IF salary[e] < 1 THEN bump ELSE 0

PromoteEmployee(e, bump) ==
  /\ e \in allTable
  /\ grade[e] + bump <= MaxGrade     \* bound
  /\ GetEmployer(e)
  /\ LET r == Root(company[e])
         n == GradeCounted(e, bump)
     IN
     /\ gradesNoSalary' = [gradesNoSalary EXCEPT ![r] = @ + n]
     /\ allGradesNoSalary' = allGradesNoSalary + n
  /\ grade' = [grade EXCEPT ![e] = @ + bump]
  /\ UNCHANGED <<parent, size, purchaseFactor, table, numNoSalary, tree,
                 allTable, allNumNoSalary, allTree, salary, worth>>

\* CompanyValue: what the call leaves behind in the tree.
CompanyValue(c) ==
  /\ parent' = IF Root(c) = c THEN parent ELSE [parent EXCEPT ![c] = Root(c)]
  /\ purchaseFactor' = [purchaseFactor EXCEPT ![c] = @ + Passed(parent, c)]
  /\ UNCHANGED <<size, value, tableVars, allVars, employeeVars, worth>>

\* SumOfBumpGradeBetweenTopWorkersByGroup and AverageBumpGradeBetweenSalaryByGroup
\* of one company change nothing but the tree.
GroupQuery(c) ==
  /\ GetCompanyRoot(c)
  /\ UNCHANGED <<size, purchaseFactor, tableVars, allVars, employeeVars, worth>>

-----------------------------------------------------------------------------
(* AcquireCompany.                                                          *)

\* The factors after an acquisition: the acquirer's corporation rises by factor
\* times the target's value, and the target's is charged what the acquirer's
\* root will give it.  Fault: the target is bought at its original value.
FactorsOfOriginal(a, t, factor) ==
  [purchaseFactor EXCEPT ![a] = @ + factor * value[t],
                         ![t] = @ - (purchaseFactor[a] + factor * value[t])]
FactorsAfter(a, t, factor) ==
  LET rise == factor * (value[t] + purchaseFactor[t]) IN
  [purchaseFactor EXCEPT ![a] = @ + rise, ![t] = @ - (purchaseFactor[a] + rise)]

\* makeSon with mergeWithEmployeesOf, and makeThisRoot: the acquirer's tree
\* becomes the union.
TreeMerged(a, t) == tree[a] \cup tree[t]

\* mergeTwoHashs: only when the acquirer is the larger does its own table take
\* the target's entries; otherwise the target's table is merged into itself,
\* which gives its entries to the acquirer.  The target's table and tree are freed.
Unite(a, t, factor) ==
  LET larger == size[a] >= size[t]
      moved  == IF larger THEN table[t] ELSE {}
  IN
  /\ Manageable({a, t}, allTable)     \* bound
  /\ purchaseFactor' = FactorsAfter(a, t, factor)
  /\ size'    = IF larger THEN [size EXCEPT ![a] = @ + size[t]] ELSE [size EXCEPT ![t] = @ + size[a]]
  /\ tree'    = [tree EXCEPT ![a] = TreeMerged(a, t), ![t] = {}]
  /\ company' = [e \in Employees |-> IF e \in table[t] THEN a ELSE company[e]]
  /\ table'   = [table EXCEPT ![a] = @ \cup moved, ![t] = {}]
  /\ numNoSalary'    = [numNoSalary EXCEPT ![a] = @ + Cardinality(Unpaid(moved)), ![t] = 0]
  /\ gradesNoSalary' = [gradesNoSalary EXCEPT ![a] = @ + GradeSum(Unpaid(moved)), ![t] = 0]
  /\ worth'   = [c \in Companies |-> IF Root(c) = a THEN worth[c] + factor * worth[t] ELSE worth[c]]

\* AcquireCompany refuses two companies of one corporation.  Fault: it does not.
NeverOne(a, t)       == FALSE
OneCorporation(a, t) == a = t

\* The parents after makeSon and makeThisRoot: the acquirer is the root whichever
\* of the two is larger.  Fault: the pointer is not turned around.
ParentsUnturned(par, a, t) == IF size[a] >= size[t] THEN [par EXCEPT ![t] = a] ELSE [par EXCEPT ![a] = t]
ParentsAfter(par, a, t)    == [par EXCEPT ![t] = a]

\* The test for one corporation shrinks the paths of both companies, in either
\* order.
AcquireCompany(c, d, factor) ==
  /\ c # d
  /\ \E first \in {c, d} :
       LET f == Shrink(Shrink(Forest, first), IF first = c THEN d ELSE c)
           a == RootIn(f.parent, c)
           t == RootIn(f.parent, d)
       IN /\ value' = f.value
          /\ IF OneCorporation(a, t)
             THEN /\ parent' = f.parent
                  /\ UNCHANGED <<size, purchaseFactor, tableVars, company, worth>>
             ELSE /\ parent' = ParentsAfter(f.parent, a, t)
                  /\ Unite(a, t, factor)
  /\ UNCHANGED <<allVars, salary, grade>>

-----------------------------------------------------------------------------
Init ==
  /\ parent = [c \in Companies |-> NoCompany]
  /\ size = [c \in Companies |-> 1]
  /\ value = [c \in Companies |-> c]
  /\ purchaseFactor = [c \in Companies |-> 0]
  /\ table = [c \in Companies |-> {}]
  /\ numNoSalary = [c \in Companies |-> 0]
  /\ gradesNoSalary = [c \in Companies |-> 0]
  /\ tree = [c \in Companies |-> {}]
  /\ allTable = {} /\ allNumNoSalary = 0 /\ allGradesNoSalary = 0 /\ allTree = {}
  /\ company = [e \in Employees |-> NoCompany]
  /\ salary = [e \in Employees |-> 0]
  /\ grade = [e \in Employees |-> 0]
  /\ worth = [c \in Companies |-> c]

Next ==
  \/ \E e \in Employees, c \in Companies, g \in 0..MaxGrade : AddEmployee(e, c, g)
  \/ \E e \in Employees : RemoveEmployee(e)
  \/ \E e \in Employees, n \in 1..MaxSalary : EmployeeSalaryIncrease(e, n)
  \/ \E e \in Employees, n \in 1..MaxGrade : PromoteEmployee(e, n)
  \/ \E c \in Companies : CompanyValue(c) \/ GroupQuery(c)
  \/ \E c, d \in Companies, factor \in Factors : AcquireCompany(c, d, factor)

Spec == Init /\ [][Next]_vars
=============================================================================
