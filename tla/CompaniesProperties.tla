------------------------ MODULE CompaniesProperties ------------------------
(***************************************************************************)
(* What the companies' data structure promises: it implements Corporations *)
(* and its sums, tables and trees agree with what they stand for.          *)
(***************************************************************************)
EXTENDS Companies

TypeOK ==
  /\ parent \in [Companies -> Companies \cup {NoCompany}]
  /\ size \in [Companies -> Companies]
  /\ value \in [Companies -> Int] /\ purchaseFactor \in [Companies -> Int]
  /\ table \in [Companies -> SUBSET Employees] /\ tree \in [Companies -> SUBSET Employees]
  /\ numNoSalary \in [Companies -> Int] /\ gradesNoSalary \in [Companies -> Int]
  /\ allTable \subseteq Employees /\ allTree \subseteq Employees
  /\ allNumNoSalary \in Int /\ allGradesNoSalary \in Int
  /\ company \in [Employees -> Companies \cup {NoCompany}]
  /\ salary \in [Employees -> 0..MaxSalary] /\ grade \in [Employees -> 0..MaxGrade]
  /\ worth \in [Companies -> Nat]

IsRoot(c)    == parent[c] = NoCompany
Employer(e)  == IF e \in allTable THEN Root(company[e]) ELSE NoCompany
StaffOf(c)   == {e \in allTable : Employer(e) = c}

\* Union-find with its cached employer pointers, shrunk lazily and in any order
\* of calls, implements the corporations: every company and every employee is
\* found in the corporation the acquisitions put them in.
Corporation == INSTANCE Corporations WITH
  head     <- [c \in Companies |-> Root(c)],
  employer <- [e \in Employees |-> Employer(e)]
ImplementsCorporations == Corporation!Spec

\* The parent pointers never form a cycle, though an acquisition by the smaller
\* company turns the pointer of the larger root around (makeThisRoot): from every
\* company the climb ends, at a root.
Acyclic == \A c \in Companies : IsRoot(Root(c))

\* What CompanyValue answers for a company that has not been acquired, which every
\* acquisition multiplies, is exact, whatever was added to value and
\* purchaseFactor of the companies below it.
RootValueExact == \A c \in Companies : IsRoot(c) => RealValue(c) = worth[c]

\* The rank tree of a corporation, which the two group queries read, holds
\* exactly its employees with a salary, and its table no employee of another
\* corporation nor one who left; the global tree, kept by separate calls, holds
\* all who have a salary.
StaffExact ==
  /\ \A c \in Companies : IsRoot(c) =>
       /\ tree[c] = {e \in StaffOf(c) : salary[e] > 0}
       /\ table[c] \subseteq StaffOf(c)
  /\ allTree = {e \in allTable : salary[e] > 0}

\* Every variable has its type, and the counters of the global table, which five
\* calls change each in its own way, are those of the employees without a salary.
CountersExact ==
  /\ TypeOK
  /\ allNumNoSalary = Cardinality(Unpaid(allTable))
  /\ allGradesNoSalary = GradeSum(Unpaid(allTable))
=============================================================================
