------------------------- MODULE CompaniesInfoProofs -------------------------
(***************************************************************************)
(* Proofs about the companies' AVL trees, for any companies, values and    *)
(* salaries and the employees that ConstantAssumption allows (the proofs   *)
(* use that they are finite, not how many they are), and any acquisitions: *)
(* the trees of everybody agree and the highest earner is the highest; the *)
(* trees, the counters and the employers of a company agree and its best   *)
(* earner is one of the best paid, if no acquisition has put it in         *)
(* disorder, whatever acquisitions did to the other companies.             *)
(***************************************************************************)
EXTENDS CompaniesInfo, SetLemmas

-----------------------------------------------------------------------------
(* The orders of the trees.                                                  *)

Pays == [Employees -> Nat]

LEMMA EmployeesFinite ==
  /\ Employees \subseteq Nat \ {0} /\ IsFiniteSet(Employees)
  /\ \A S \in SUBSET Employees :
       /\ IsFiniteSet(S) /\ Cardinality(S) \in Nat /\ Cardinality(S) <= Cardinality(Employees)
       /\ Cardinality(S) = 0 <=> S = {}
<1>1. Employees \subseteq Nat \ {0} /\ IsFiniteSet(Employees)
  BY ConstantAssumption
<1>2. ASSUME NEW S \in SUBSET Employees
      PROVE  /\ IsFiniteSet(S) /\ Cardinality(S) \in Nat /\ Cardinality(S) <= Cardinality(Employees)
             /\ Cardinality(S) = 0 <=> S = {}
  BY <1>1, FS_Subset, FS_CardinalityType, FS_EmptySet
<1> QED BY <1>1, <1>2

LEMMA LessOrders ==
  ASSUME NEW pay \in Pays
  PROVE  /\ \A d \in Employees : ~Less(d, d, pay)
         /\ \A d, e \in Employees : d # e => Less(d, e, pay) \/ Less(e, d, pay)
         /\ \A d, e \in Employees : Less(d, e, pay) => ~Less(e, d, pay) /\ pay[d] <= pay[e]
         /\ \A d, e, f \in Employees : Less(d, e, pay) /\ Less(e, f, pay) => Less(d, f, pay)
BY EmployeesFinite DEF Pays, Less

IsMax(m, S, pay) == m \in S /\ \A d \in S \ {m} : Less(d, m, pay)

\* The highest earner of everybody is the greatest of the tree; the best of a
\* company need only earn as much as the others.
TopOf(h, S, pay)  == IF S = {} THEN h = NoEmployee ELSE IsMax(h, S, pay)
BestOf(b, S, pay) == IF S = {} THEN b = NoEmployee ELSE b \in S /\ \A d \in S : pay[d] <= pay[b]

\* Who is new in a tree is its greatest, or the greatest stays.
LEMMA MaxAdd ==
  ASSUME NEW pay \in Pays, NEW S \in SUBSET Employees, NEW e \in Employees \ S, NEW m, IsMax(m, S, pay)
  PROVE  IsMax(IF Less(m, e, pay) THEN e ELSE m, S \cup {e}, pay)
<1>1. m \in S /\ m \in Employees /\ m # e /\ \A d \in S \ {m} : Less(d, m, pay)
  BY DEF IsMax
<1>2. CASE Less(m, e, pay)
  BY <1>1, <1>2, LessOrders DEF IsMax
<1>3. CASE ~Less(m, e, pay)
  <2>1. Less(e, m, pay)
    BY <1>1, <1>3, LessOrders
  <2> QED BY <1>1, <1>3, <2>1 DEF IsMax
<1> QED BY <1>2, <1>3

LEMMA MaxExists ==
  ASSUME NEW pay \in Pays, NEW S \in SUBSET Employees, S # {}
  PROVE  \E m : IsMax(m, S, pay)
<1> DEFINE F == {T \in SUBSET Employees : T # {} => \E m : IsMax(m, T, pay)}
<1>1. {} \in F
  OBVIOUS
<1>2. ASSUME NEW T \in SUBSET Employees, T \in F, NEW x \in Employees \ T PROVE T \cup {x} \in F
  <2>1. CASE T = {}
    <3>1. IsMax(x, T \cup {x}, pay)
      BY <2>1 DEF IsMax
    <3> QED BY <3>1
  <2>2. CASE T # {}
    <3>1. PICK m : IsMax(m, T, pay)
      BY <1>2, <2>2
    <3>2. IsMax(IF Less(m, x, pay) THEN x ELSE m, T \cup {x}, pay)
      BY <3>1, MaxAdd
    <3> QED BY <3>2
  <2> QED BY <2>1, <2>2
<1> HIDE DEF F
<1>3. SUBSET Employees \subseteq F
  BY <1>1, <1>2, EmployeesFinite, SubsetInduction
<1> QED BY <1>3 DEF F

LEMMA MaxOfTop ==
  ASSUME NEW pay \in Pays, NEW S \in SUBSET Employees
  PROVE  /\ TopOf(MaxOf(S, pay), S, pay) /\ BestOf(MaxOf(S, pay), S, pay)
         /\ MaxOf(S, pay) \in Employees \cup {NoEmployee}
         /\ \A h : TopOf(h, S, pay) => h = MaxOf(S, pay)
<1>1. CASE S = {}
  BY <1>1 DEF TopOf, BestOf, MaxOf
<1>2. CASE S # {}
  <2> DEFINE m == MaxOf(S, pay)
  <2>1. m = CHOOSE e \in S : \A d \in S \ {e} : Less(d, e, pay)
    BY <1>2 DEF MaxOf
  <2>2. \E e \in S : \A d \in S \ {e} : Less(d, e, pay)
    BY <1>2, MaxExists DEF IsMax
  <2> HIDE DEF m
  <2>3. IsMax(m, S, pay)
    BY <2>1, <2>2 DEF IsMax
  <2>4. \A d \in S : pay[d] <= pay[m]
    <3>1. \A d \in S : pay[d] \in Nat
      BY DEF Pays
    <3> QED BY <2>3, <3>1, LessOrders DEF IsMax
  <2>5. \A h : IsMax(h, S, pay) => h = m
    BY <2>3, LessOrders DEF IsMax
  <2> QED BY <1>2, <2>3, <2>4, <2>5 DEF TopOf, BestOf, IsMax, m
<1> QED BY <1>1, <1>2

\* Only the salaries of the members matter.
LEMMA SamePays ==
  ASSUME NEW S, NEW pay, NEW new, \A d \in S : new[d] = pay[d], NEW h
  PROVE  (TopOf(h, S, pay) => TopOf(h, S, new)) /\ (BestOf(h, S, pay) => BestOf(h, S, new))
BY DEF TopOf, BestOf, IsMax, Less

LEMMA TopRemove ==
  ASSUME NEW pay \in Pays, NEW S \in SUBSET Employees, NEW e \in S, NEW h
  PROVE  /\ TopOf(h, S, pay) => TopOf(IF h = e THEN MaxOf(S \ {e}, pay) ELSE h, S \ {e}, pay)
         /\ BestOf(h, S, pay) => BestOf(IF h = e THEN MaxOf(S \ {e}, pay) ELSE h, S \ {e}, pay)
<1>1. TopOf(MaxOf(S \ {e}, pay), S \ {e}, pay) /\ BestOf(MaxOf(S \ {e}, pay), S \ {e}, pay)
  BY MaxOfTop
<1>2. h # e /\ TopOf(h, S, pay) => TopOf(h, S \ {e}, pay)
  BY DEF TopOf, IsMax
<1>3. h # e /\ BestOf(h, S, pay) => BestOf(h, S \ {e}, pay)
  BY DEF BestOf
<1> QED BY <1>1, <1>2, <1>3

LEMMA TopAdd ==
  ASSUME NEW pay \in Pays, NEW S \in SUBSET Employees, NEW e \in Employees \ S, NEW h
  PROVE  /\ TopOf(h, S, pay) => TopOf(IF h = NoEmployee \/ Less(h, e, pay) THEN e ELSE h, S \cup {e}, pay)
         /\ BestOf(h, S, pay) => BestOf(IF h = NoEmployee \/ pay[e] > pay[h] THEN e ELSE h, S \cup {e}, pay)
<1>1. NoEmployee \notin S
  BY EmployeesFinite DEF NoEmployee
<1>2. CASE S = {}
  <2>1. pay[e] \in Nat /\ S \cup {e} = {e}
    BY <1>2 DEF Pays
  <2> QED BY <1>2, <2>1 DEF TopOf, BestOf, IsMax
<1>3. CASE S # {}
  <2>1. TopOf(h, S, pay) => h # NoEmployee /\ IsMax(h, S, pay)
    BY <1>1, <1>3 DEF TopOf, IsMax
  <2>2. TopOf(h, S, pay) => IsMax(IF Less(h, e, pay) THEN e ELSE h, S \cup {e}, pay)
    BY <2>1, MaxAdd
  <2>3. BestOf(h, S, pay) => h # NoEmployee /\ h \in S /\ \A d \in S : pay[d] <= pay[h]
    BY <1>1, <1>3 DEF BestOf
  <2>4. \A d \in S \cup {e} : pay[d] \in Nat
    BY DEF Pays
  <2> QED BY <1>3, <2>1, <2>2, <2>3, <2>4 DEF TopOf, BestOf
<1> QED BY <1>2, <1>3

\* Two sorted arrays that are put into trees of as many nodes are all in them.
LEMMA FirstAll ==
  ASSUME NEW S \in SUBSET Employees, NEW pay \in Pays
  PROVE  FirstById(S, Cardinality(S)) = S /\ FirstBySalary(S, Cardinality(S), pay) = S
<1>1. ASSUME NEW e \in S, NEW T \in SUBSET (S \ {e}) PROVE Cardinality(T) < Cardinality(S)
  <2>1. IsFiniteSet(S) /\ IsFiniteSet(S \ {e}) /\ Cardinality(S \ {e}) = Cardinality(S) - 1 /\ Cardinality(S) \in Nat
    BY EmployeesFinite, FS_RemoveElement
  <2>2. Cardinality(T) <= Cardinality(S \ {e}) /\ Cardinality(T) \in Nat
    BY <2>1, FS_Subset, FS_CardinalityType
  <2> QED BY <2>1, <2>2
<1>2. ASSUME NEW e \in S PROVE Cardinality({d \in S : d < e}) < Cardinality(S)
  <2>1. {d \in S : d < e} \in SUBSET (S \ {e})
    BY EmployeesFinite
  <2> HIDE DEF FirstById
  <2> QED BY <1>1, <2>1
<1>3. ASSUME NEW e \in S PROVE Cardinality({d \in S : Less(d, e, pay)}) < Cardinality(S)
  <2>1. {d \in S : Less(d, e, pay)} \in SUBSET (S \ {e})
    BY LessOrders
  <2> QED BY <1>1, <2>1
<1> QED BY <1>2, <1>3 DEF FirstById, FirstBySalary

-----------------------------------------------------------------------------
(* What the steps do, field by field.                                        *)

Rec(s) ==
  s = [withEmployees |-> s.withEmployees, num |-> s.num, byId |-> s.byId,
       bySalary |-> s.bySalary, best |-> s.best, allById |-> s.allById,
       allBySalary |-> s.allBySalary, numAll |-> s.numAll, highest |-> s.highest,
       salary |-> s.salary, employer |-> s.employer]

IsRemoved(r, s, e, c) ==
  /\ Rec(r)
  /\ r.withEmployees = IF s.num[c] = 1 THEN s.withEmployees \ {c} ELSE s.withEmployees
  /\ r.num = [s.num EXCEPT ![c] = @ - 1]
  /\ r.byId = [s.byId EXCEPT ![c] = @ \ {e}]
  /\ r.bySalary = [s.bySalary EXCEPT ![c] = s.bySalary[c] \ {e}]
  /\ r.best = [s.best EXCEPT ![c] = IF @ = e THEN MaxOf(s.bySalary[c] \ {e}, s.salary) ELSE @]
  /\ r.allById = s.allById \ {e} /\ r.allBySalary = s.allBySalary \ {e}
  /\ r.numAll = s.numAll - 1
  /\ r.highest = IF s.highest = e THEN MaxOf(s.allBySalary \ {e}, s.salary) ELSE s.highest
  /\ r.salary = [s.salary EXCEPT ![e] = 0]
  /\ r.employer = [s.employer EXCEPT ![e] = NoCompany]

LEMMA RemovedFields ==
  ASSUME NEW s, Rec(s), NEW e, NEW c, c = s.employer[e], NEW r, r = Removed(s, e)
  PROVE  IsRemoved(r, s, e, c)
BY DEF Removed, Rec, IsRemoved

\* Whether the company is listed is up to the caller.
Joined(s, listed, e, c, pay) == Counted(HiredBy([s EXCEPT !.withEmployees = listed], e, c, pay), e)

IsJoined(r, s, listed, e, c, pay) ==
  /\ Rec(r)
  /\ r.withEmployees = listed
  /\ r.num = [s.num EXCEPT ![c] = @ + 1]
  /\ r.byId = [s.byId EXCEPT ![c] = @ \cup {e}]
  /\ r.bySalary = [s.bySalary EXCEPT ![c] = @ \cup {e}]
  /\ r.best = [s.best EXCEPT ![c] = IF @ = NoEmployee \/ pay > s.salary[@] THEN e ELSE @]
  /\ r.allById = s.allById \cup {e} /\ r.allBySalary = s.allBySalary \cup {e}
  /\ r.numAll = s.numAll + 1
  /\ r.salary = [s.salary EXCEPT ![e] = pay]
  /\ r.highest = IF s.highest = NoEmployee \/ Less(s.highest, e, r.salary) THEN e ELSE s.highest
  /\ r.employer = [s.employer EXCEPT ![e] = c]

LEMMA JoinedFields ==
  ASSUME NEW s, Rec(s), NEW listed, NEW e, NEW c, NEW pay, NEW r, r = Joined(s, listed, e, c, pay)
  PROVE  IsJoined(r, s, listed, e, c, pay)
<1> DEFINE q == [s EXCEPT !.withEmployees = listed]
           h == HiredBy(q, e, c, pay)
<1>1. /\ Rec(q) /\ q.withEmployees = listed /\ q.num = s.num /\ q.byId = s.byId /\ q.bySalary = s.bySalary
      /\ q.best = s.best /\ q.allById = s.allById /\ q.allBySalary = s.allBySalary /\ q.numAll = s.numAll
      /\ q.highest = s.highest /\ q.salary = s.salary /\ q.employer = s.employer
  BY DEF Rec
<1> HIDE DEF q
<1>2. /\ Rec(h) /\ h.withEmployees = q.withEmployees /\ h.num = [q.num EXCEPT ![c] = @ + 1]
      /\ h.byId = [q.byId EXCEPT ![c] = @ \cup {e}] /\ h.bySalary = [q.bySalary EXCEPT ![c] = @ \cup {e}]
      /\ h.best = [q.best EXCEPT ![c] = IF @ = NoEmployee \/ pay > q.salary[@] THEN e ELSE @]
      /\ h.allById = q.allById /\ h.allBySalary = q.allBySalary /\ h.numAll = q.numAll /\ h.highest = q.highest
      /\ h.salary = [q.salary EXCEPT ![e] = pay] /\ h.employer = [q.employer EXCEPT ![e] = c]
  <2> DEFINE b == [q.best EXCEPT ![c] = IF @ = NoEmployee \/ pay > q.salary[@] THEN e ELSE @]
  <2>1. h = [q EXCEPT !.byId[c] = @ \cup {e}, !.bySalary[c] = @ \cup {e}, !.num[c] = @ + 1,
                      !.best = b, !.salary[e] = pay, !.employer[e] = c]
    BY <1>1 DEF HiredBy, Rec
  <2> HIDE DEF b, h
  <2>2. /\ Rec(h) /\ h.withEmployees = q.withEmployees /\ h.num = [q.num EXCEPT ![c] = @ + 1]
        /\ h.byId = [q.byId EXCEPT ![c] = @ \cup {e}] /\ h.bySalary = [q.bySalary EXCEPT ![c] = @ \cup {e}]
        /\ h.best = b
        /\ h.allById = q.allById /\ h.allBySalary = q.allBySalary /\ h.numAll = q.numAll /\ h.highest = q.highest
        /\ h.salary = [q.salary EXCEPT ![e] = pay] /\ h.employer = [q.employer EXCEPT ![e] = c]
    BY <1>1, <2>1 DEF Rec
  <2> QED BY <2>2 DEF b
<1>3. r = Counted(h, e)
  BY DEF Joined, q, h
<1> HIDE DEF h
<1>4. /\ Rec(r) /\ r.withEmployees = h.withEmployees /\ r.num = h.num /\ r.byId = h.byId /\ r.bySalary = h.bySalary
      /\ r.best = h.best /\ r.allById = h.allById \cup {e} /\ r.allBySalary = h.allBySalary \cup {e}
      /\ r.numAll = h.numAll + 1 /\ r.salary = h.salary /\ r.employer = h.employer
      /\ r.highest = IF h.highest = NoEmployee \/ Less(h.highest, e, h.salary) THEN e ELSE h.highest
  BY <1>2, <1>3 DEF Counted, Rec
<1> QED BY <1>1, <1>2, <1>4 DEF IsJoined

-----------------------------------------------------------------------------
(* What every step leaves right, for the companies comps there are and those *)
(* of them, dis, that an acquisition put in disorder.  A company that is not *)
(* there has nobody, so that one that is created again starts with its trees *)
(* empty.                                                                    *)

Staff(s, c) == {e \in s.allById : s.employer[e] = c}

TypedState(s, comps) ==
  /\ Rec(s) /\ s.withEmployees \subseteq comps
  /\ s.num \in [CompanyIds -> Int]
  /\ s.byId \in [CompanyIds -> SUBSET Employees] /\ s.bySalary \in [CompanyIds -> SUBSET Employees]
  /\ s.best \in [CompanyIds -> Employees \cup {NoEmployee}]
  /\ s.allById \in SUBSET Employees /\ s.numAll \in Nat
  /\ s.salary \in [Employees -> 0..MaxSalary]
  /\ s.employer \in [Employees -> comps \cup {NoCompany}]

CompanyRight(s, c) ==
  /\ s.byId[c] = Staff(s, c) /\ s.bySalary[c] = Staff(s, c)
  /\ s.num[c] = Cardinality(Staff(s, c))
  /\ BestOf(s.best[c], Staff(s, c), s.salary)

AllRight(s) ==
  /\ s.allBySalary = s.allById /\ s.numAll = Cardinality(s.allById)
  /\ TopOf(s.highest, s.allById, s.salary)

\* Who is in the trees of c is employed, by c or by a company that was freed.
Own(s, c) ==
  \A e \in s.byId[c] \cup s.bySalary[c] : e \in s.allById /\ s.employer[e] \in {c, NoCompany}

Good(s, comps, dis) ==
  /\ TypedState(s, comps) /\ AllRight(s)
  /\ \A c \in CompanyIds \ dis : CompanyRight(s, c) /\ (c \in s.withEmployees => s.num[c] > 0)
  /\ \A c \in CompanyIds : Own(s, c)
  /\ \A e \in Employees : s.employer[e] \in comps => e \in s.allById
  /\ dis = {} => \A e \in s.allById : s.employer[e] \in comps

LEMMA GoodFacts ==
  ASSUME NEW comps \in SUBSET CompanyIds, NEW dis, NEW s, Good(s, comps, dis)
  PROVE  /\ Rec(s) /\ s.salary \in Pays /\ NoCompany \notin comps /\ NoCompany \notin CompanyIds
         /\ \A S \in SUBSET Employees : IsFiniteSet(S) /\ Cardinality(S) \in Nat
         /\ \A c : Staff(s, c) \in SUBSET Employees
         /\ \A e \in Employees : s.employer[e] \in comps => e \in s.allById /\ s.employer[e] \in CompanyIds
<1>1. TypedState(s, comps) /\ \A e \in Employees : s.employer[e] \in comps => e \in s.allById
  BY DEF Good
<1>2. Rec(s) /\ s.allById \in SUBSET Employees /\ s.salary \in [Employees -> 0..MaxSalary]
  BY <1>1 DEF TypedState
<1>3. 0..MaxSalary \subseteq Nat /\ NoCompany \notin comps /\ NoCompany \notin CompanyIds
  BY ConstantAssumption DEF NoCompany
<1>4. s.salary \in Pays
  BY <1>2, <1>3 DEF Pays
<1>5. \A c : Staff(s, c) \in SUBSET Employees
  BY <1>2 DEF Staff
<1>6. \A e \in Employees : s.employer[e] \in comps => e \in s.allById /\ s.employer[e] \in CompanyIds
  BY <1>1
<1> QED BY <1>2, <1>3, <1>4, <1>5, <1>6, EmployeesFinite

LEMMA StaffRight ==
  ASSUME NEW comps \in SUBSET CompanyIds, NEW dis, NEW s, Good(s, comps, dis), NEW c \in CompanyIds \ dis
  PROVE  CompanyRight(s, c) /\ (c \in s.withEmployees => s.num[c] > 0)
BY DEF Good

\* An employee of a company is taken out of all trees.
LEMMA RemovedGood ==
  ASSUME NEW comps \in SUBSET CompanyIds, NEW dis, NEW s, Good(s, comps, dis),
         NEW e \in Employees, s.employer[e] \in comps, NEW r, r = Removed(s, e)
  PROVE  Good(r, comps, dis) /\ Rec(r) /\ e \notin r.allById
<1> DEFINE k == s.employer[e]
<1>1. /\ Rec(s) /\ s.salary \in Pays /\ NoCompany \notin comps /\ e \in s.allById /\ k \in comps /\ k \in CompanyIds
      /\ \A S \in SUBSET Employees : IsFiniteSet(S) /\ Cardinality(S) \in Nat
      /\ \A c : Staff(s, c) \in SUBSET Employees
  BY GoodFacts
<1>2. IsRemoved(r, s, e, k)
  BY <1>1, RemovedFields
<1> USE DEF IsRemoved
<1>3. TypedState(s, comps) /\ AllRight(s)
  BY DEF Good
<1>4. \A d \in s.allById \ {e} : r.salary[d] = s.salary[d] /\ r.employer[d] = s.employer[d]
  BY <1>2, <1>3 DEF TypedState
<1> HIDE DEF k
<1>5. e \in Staff(s, k)
  BY <1>1 DEF Staff, k
<1>6. \A c \in CompanyIds : Staff(r, c) = IF c = k THEN Staff(s, k) \ {e} ELSE Staff(s, c)
  <2>1. \A c : c # k => e \notin Staff(s, c)
    BY DEF Staff, k
  <2> QED BY <1>2, <1>4, <2>1 DEF Staff
<1>7. Cardinality(Staff(s, k) \ {e}) = Cardinality(Staff(s, k)) - 1 /\ Cardinality(Staff(s, k) \ {e}) \in Nat
  BY <1>1, <1>5, FS_RemoveElement, FS_CardinalityType
<1>8. ASSUME NEW c \in CompanyIds \ dis PROVE CompanyRight(r, c)
  <2>1. CompanyRight(s, c)
    BY StaffRight
  <2>2. CASE c = k
    <3> DEFINE S == Staff(s, k)
    <3>1. /\ r.byId[k] = S \ {e} /\ r.bySalary[k] = S \ {e} /\ r.num[k] = Cardinality(S) - 1
          /\ r.best[k] = IF s.best[k] = e THEN MaxOf(S \ {e}, s.salary) ELSE s.best[k]
      <4>1. /\ r.byId[k] = s.byId[k] \ {e} /\ r.bySalary[k] = s.bySalary[k] \ {e} /\ r.num[k] = s.num[k] - 1
            /\ r.best[k] = IF s.best[k] = e THEN MaxOf(s.bySalary[k] \ {e}, s.salary) ELSE s.best[k]
        BY <1>1, <1>2, <1>3 DEF TypedState
      <4>2. s.byId[k] = S /\ s.bySalary[k] = S /\ s.num[k] = Cardinality(S)
        BY <2>1, <2>2 DEF CompanyRight
      <4> HIDE DEF S
      <4> QED BY <4>1, <4>2
    <3>2. Staff(r, k) = S \ {e} /\ S \in SUBSET Employees /\ e \in S /\ BestOf(s.best[k], S, s.salary)
      BY <1>1, <1>5, <1>6, <2>1, <2>2 DEF CompanyRight
    <3>3. \A d \in S \ {e} : r.salary[d] = s.salary[d]
      BY <1>4 DEF Staff
    <3> HIDE DEF S
    <3>4. BestOf(r.best[k], S \ {e}, s.salary)
      BY <1>1, <3>1, <3>2, TopRemove
    <3>5. BestOf(r.best[k], S \ {e}, r.salary)
      BY <3>3, <3>4, SamePays
    <3>6. r.num[k] = Cardinality(S \ {e})
      BY <1>7, <3>1 DEF S
    <3> QED BY <2>2, <3>1, <3>2, <3>5, <3>6, Zenon DEF CompanyRight
  <2>3. CASE c # k
    <3>1. r.byId[c] = s.byId[c] /\ r.bySalary[c] = s.bySalary[c] /\ r.num[c] = s.num[c] /\ r.best[c] = s.best[c]
      BY <1>2, <1>3, <2>3 DEF TypedState
    <3>2. Staff(r, c) = Staff(s, c) /\ \A d \in Staff(s, c) : r.salary[d] = s.salary[d]
      <4>1. e \notin Staff(s, c)
        BY <2>3 DEF Staff, k
      <4> QED BY <1>4, <1>6, <2>3, <4>1 DEF Staff
    <3>3. BestOf(s.best[c], Staff(s, c), r.salary)
      BY <2>1, <3>2, SamePays DEF CompanyRight
    <3> QED BY <2>1, <3>1, <3>2, <3>3, Zenon DEF CompanyRight
  <2> QED BY <2>2, <2>3
<1>9. AllRight(r)
  <2> DEFINE S == s.allById
  <2>1. S \in SUBSET Employees /\ s.allBySalary = S /\ s.numAll = Cardinality(S) /\ TopOf(s.highest, S, s.salary) /\ e \in S
    BY <1>1, <1>3 DEF TypedState, AllRight
  <2>2. Cardinality(S \ {e}) = Cardinality(S) - 1
    BY <1>1, <2>1, FS_RemoveElement
  <2>3. /\ r.allById = S \ {e} /\ r.allBySalary = S \ {e} /\ r.numAll = Cardinality(S \ {e})
        /\ r.highest = IF s.highest = e THEN MaxOf(S \ {e}, s.salary) ELSE s.highest
    BY <1>2, <2>1, <2>2
  <2>4. \A d \in S \ {e} : r.salary[d] = s.salary[d]
    BY <1>4
  <2> HIDE DEF S
  <2>5. TopOf(r.highest, S \ {e}, s.salary)
    BY <1>1, <2>1, <2>3, TopRemove
  <2>6. TopOf(r.highest, S \ {e}, r.salary)
    BY <2>4, <2>5, SamePays
  <2> QED BY <2>3, <2>6, Zenon DEF AllRight
<1>10. TypedState(r, comps)
  <2>1. r.numAll \in Nat
    <3>1. r.allById \in SUBSET Employees
      BY <1>2, <1>3 DEF TypedState
    <3> QED BY <1>1, <1>9, <3>1 DEF AllRight
  <2>2. r.num \in [CompanyIds -> Int]
    BY <1>1, <1>2, <1>3 DEF TypedState
  <2>3. r.best \in [CompanyIds -> Employees \cup {NoEmployee}]
    <3>1. s.bySalary[k] \ {e} \in SUBSET Employees
      BY <1>1, <1>3 DEF TypedState
    <3>2. MaxOf(s.bySalary[k] \ {e}, s.salary) \in Employees \cup {NoEmployee}
      BY <1>1, <3>1, MaxOfTop
    <3>3. s.best \in [CompanyIds -> Employees \cup {NoEmployee}]
      BY <1>3 DEF TypedState
    <3>4. r.best = [s.best EXCEPT ![k] = IF @ = e THEN MaxOf(s.bySalary[k] \ {e}, s.salary) ELSE @]
      BY <1>2
    <3> QED BY <1>1, <3>2, <3>3, <3>4
  <2>6. r.byId \in [CompanyIds -> SUBSET Employees] /\ r.bySalary \in [CompanyIds -> SUBSET Employees]
    <3>1. s.byId \in [CompanyIds -> SUBSET Employees] /\ s.bySalary \in [CompanyIds -> SUBSET Employees]
      BY <1>3 DEF TypedState
    <3>2. r.byId = [s.byId EXCEPT ![k] = @ \ {e}] /\ r.bySalary = [s.bySalary EXCEPT ![k] = s.bySalary[k] \ {e}]
      BY <1>2
    <3> QED BY <1>1, <3>1, <3>2
  <2>4. r.salary \in [Employees -> 0..MaxSalary] /\ r.employer \in [Employees -> comps \cup {NoCompany}]
    BY <1>2, <1>3, ConstantAssumption DEF TypedState
  <2>5. r.withEmployees \subseteq comps /\ r.allById \in SUBSET Employees
    BY <1>2, <1>3 DEF TypedState
  <2> QED BY <1>2, <2>1, <2>2, <2>3, <2>4, <2>5, <2>6 DEF TypedState
<1>11. ASSUME NEW c \in CompanyIds PROVE Own(r, c)
  <2>1. Own(s, c)
    BY DEF Good
  <2>2. c # k => e \notin s.byId[c] \cup s.bySalary[c]
    BY <1>1, <2>1 DEF Own, k
  <2>3. r.byId[c] \cup r.bySalary[c] \subseteq (s.byId[c] \cup s.bySalary[c]) \ {e}
    BY <1>1, <1>2, <1>3, <2>2 DEF TypedState
  <2>4. r.allById = s.allById \ {e}
    BY <1>2
  <2> QED BY <1>4, <2>1, <2>3, <2>4 DEF Own
<1>12. /\ \A d \in Employees : r.employer[d] \in comps => d \in r.allById
       /\ dis = {} => \A d \in r.allById : r.employer[d] \in comps
  BY <1>1, <1>2, <1>3, <1>4 DEF Good, TypedState
<1>13. ASSUME NEW c \in CompanyIds \ dis, c \in r.withEmployees PROVE r.num[c] > 0
  <2>1. CompanyRight(s, c) /\ c \in s.withEmployees /\ s.num[c] > 0 /\ (c = k => s.num[k] # 1)
    BY <1>2, <1>13, StaffRight
  <2>2. s.num[c] \in Int /\ r.num[c] = IF c = k THEN s.num[c] - 1 ELSE s.num[c]
    BY <1>1, <1>2, <1>3 DEF TypedState
  <2> QED BY <2>1, <2>2
<1> QED BY <1>1, <1>2, <1>8, <1>9, <1>10, <1>11, <1>12, <1>13 DEF Good

\* An employee who is in no tree joins a company.
LEMMA JoinedGood ==
  ASSUME NEW comps \in SUBSET CompanyIds, NEW dis, NEW s, Good(s, comps, dis), NEW e \in Employees, e \notin s.allById,
         NEW k \in comps, NEW pay \in 0..MaxSalary,
         NEW listed, listed \subseteq s.withEmployees \cup {k},
         NEW r, r = Joined(s, listed, e, k, pay)
  PROVE  Good(r, comps, dis) /\ r.allById = s.allById \cup {e} /\ Rec(r)
<1>1. /\ Rec(s) /\ s.salary \in Pays /\ NoCompany \notin comps /\ k \in CompanyIds
      /\ \A S \in SUBSET Employees : IsFiniteSet(S) /\ Cardinality(S) \in Nat
      /\ \A c : Staff(s, c) \in SUBSET Employees
  BY GoodFacts
<1>2. IsJoined(r, s, listed, e, k, pay)
  BY <1>1, JoinedFields
<1> USE DEF IsJoined
<1>3. TypedState(s, comps) /\ AllRight(s)
  BY DEF Good
<1>4. r.salary \in [Employees -> 0..MaxSalary] /\ r.salary \in Pays /\ r.employer \in [Employees -> comps \cup {NoCompany}]
  <2>1. 0..MaxSalary \subseteq Nat
    BY ConstantAssumption
  <2>2. r.salary \in [Employees -> 0..MaxSalary] /\ r.employer \in [Employees -> comps \cup {NoCompany}]
    BY <1>2, <1>3 DEF TypedState
  <2> QED BY <2>1, <2>2 DEF Pays
<1>5. /\ \A d \in s.allById : d \in Employees /\ r.salary[d] = s.salary[d] /\ r.employer[d] = s.employer[d]
      /\ r.salary[e] = pay /\ r.employer[e] = k
  BY <1>2, <1>3 DEF TypedState
<1>6. \A c \in CompanyIds : Staff(r, c) = IF c = k THEN Staff(s, k) \cup {e} ELSE Staff(s, c)
  BY <1>2, <1>5 DEF Staff
<1>7. \A c : e \notin Staff(s, c)
  BY DEF Staff
<1>8. ASSUME NEW c \in CompanyIds \ dis PROVE CompanyRight(r, c)
  <2>1. CompanyRight(s, c)
    BY StaffRight
  <2>2. CASE c = k
    <3> DEFINE S == Staff(s, k)
    <3>1. /\ r.byId[k] = S \cup {e} /\ r.bySalary[k] = S \cup {e} /\ r.num[k] = Cardinality(S) + 1
          /\ r.best[k] = IF s.best[k] = NoEmployee \/ pay > s.salary[s.best[k]] THEN e ELSE s.best[k]
      BY <1>1, <1>2, <1>3, <2>1, <2>2 DEF TypedState, CompanyRight
    <3>2. Staff(r, k) = S \cup {e} /\ S \in SUBSET Employees /\ e \in Employees \ S /\ BestOf(s.best[k], S, s.salary)
      BY <1>1, <1>6, <1>7, <2>1, <2>2 DEF CompanyRight
    <3>3. \A d \in S : r.salary[d] = s.salary[d]
      BY <1>5 DEF Staff
    <3>4. Cardinality(S \cup {e}) = Cardinality(S) + 1
      BY <1>1, <3>2, FS_AddElement
    <3> HIDE DEF S
    <3>5. BestOf(s.best[k], S, r.salary)
      BY <3>2, <3>3, SamePays
    <3>6. r.best[k] = IF s.best[k] = NoEmployee \/ r.salary[e] > r.salary[s.best[k]] THEN e ELSE s.best[k]
      <4>1. CASE s.best[k] = NoEmployee
        BY <3>1, <4>1
      <4>2. CASE s.best[k] # NoEmployee
        <5>1. s.best[k] \in S
          BY <3>2, <4>2 DEF BestOf
        <5> QED BY <1>5, <3>1, <3>3, <4>2, <5>1
      <4> QED BY <4>1, <4>2
    <3>7. BestOf(r.best[k], S \cup {e}, r.salary)
      BY <1>4, <3>2, <3>5, <3>6, TopAdd
    <3> QED BY <2>2, <3>1, <3>2, <3>4, <3>7, Zenon DEF CompanyRight
  <2>3. CASE c # k
    <3>1. r.byId[c] = s.byId[c] /\ r.bySalary[c] = s.bySalary[c] /\ r.num[c] = s.num[c] /\ r.best[c] = s.best[c]
      BY <1>2, <1>3, <2>3 DEF TypedState
    <3>2. Staff(r, c) = Staff(s, c) /\ \A d \in Staff(s, c) : r.salary[d] = s.salary[d]
      BY <1>5, <1>6, <2>3 DEF Staff
    <3>3. BestOf(s.best[c], Staff(s, c), r.salary)
      BY <2>1, <3>2, SamePays DEF CompanyRight
    <3> QED BY <2>1, <3>1, <3>2, <3>3, Zenon DEF CompanyRight
  <2> QED BY <2>2, <2>3
<1>9. AllRight(r)
  <2> DEFINE S == s.allById
  <2>1. /\ S \in SUBSET Employees /\ s.allBySalary = S /\ s.numAll = Cardinality(S)
        /\ TopOf(s.highest, S, s.salary) /\ e \in Employees \ S
    BY <1>3 DEF TypedState, AllRight
  <2>2. Cardinality(S \cup {e}) = Cardinality(S) + 1
    BY <1>1, <2>1, FS_AddElement
  <2>3. /\ r.allById = S \cup {e} /\ r.allBySalary = S \cup {e} /\ r.numAll = Cardinality(S \cup {e})
        /\ r.highest = IF s.highest = NoEmployee \/ Less(s.highest, e, r.salary) THEN e ELSE s.highest
    BY <1>2, <2>1, <2>2
  <2>4. \A d \in S : r.salary[d] = s.salary[d]
    BY <1>5
  <2> HIDE DEF S
  <2>5. TopOf(s.highest, S, r.salary)
    BY <2>1, <2>4, SamePays
  <2>6. TopOf(r.highest, S \cup {e}, r.salary)
    BY <1>4, <2>1, <2>3, <2>5, TopAdd
  <2> QED BY <2>3, <2>6, Zenon DEF AllRight
<1>10. TypedState(r, comps)
  <2>1. r.numAll \in Nat /\ r.allById \in SUBSET Employees
    BY <1>2, <1>3 DEF TypedState
  <2>2. r.num \in [CompanyIds -> Int]
    BY <1>1, <1>2, <1>3 DEF TypedState
  <2>3. r.best \in [CompanyIds -> Employees \cup {NoEmployee}]
    <3>1. s.best \in [CompanyIds -> Employees \cup {NoEmployee}]
      BY <1>3 DEF TypedState
    <3>2. r.best = [s.best EXCEPT ![k] = IF @ = NoEmployee \/ pay > s.salary[@] THEN e ELSE @]
      BY <1>2
    <3> QED BY <1>1, <3>1, <3>2
  <2>4. r.byId \in [CompanyIds -> SUBSET Employees] /\ r.bySalary \in [CompanyIds -> SUBSET Employees]
    <3>1. s.byId \in [CompanyIds -> SUBSET Employees] /\ s.bySalary \in [CompanyIds -> SUBSET Employees]
      BY <1>3 DEF TypedState
    <3>2. r.byId = [s.byId EXCEPT ![k] = @ \cup {e}] /\ r.bySalary = [s.bySalary EXCEPT ![k] = @ \cup {e}]
      BY <1>2
    <3> QED BY <1>1, <3>1, <3>2
  <2>5. r.withEmployees \subseteq comps
    BY <1>2, <1>3 DEF TypedState
  <2> QED BY <1>2, <1>4, <2>1, <2>2, <2>3, <2>4, <2>5 DEF TypedState
<1>11. ASSUME NEW c \in CompanyIds PROVE Own(r, c)
  <2>1. Own(s, c)
    BY DEF Good
  <2>2. r.byId[c] \cup r.bySalary[c] \subseteq (s.byId[c] \cup s.bySalary[c]) \cup (IF c = k THEN {e} ELSE {})
    BY <1>1, <1>2, <1>3 DEF TypedState
  <2>3. r.allById = s.allById \cup {e}
    BY <1>2
  <2> QED BY <1>5, <2>1, <2>2, <2>3 DEF Own
<1>12. /\ \A d \in Employees : r.employer[d] \in comps => d \in r.allById
       /\ dis = {} => \A d \in r.allById : r.employer[d] \in comps
  <2>1. /\ \A d \in Employees \ {e} : r.employer[d] = s.employer[d]
        /\ r.allById = s.allById \cup {e} /\ r.employer[e] \in comps
    BY <1>2, <1>3, <1>5 DEF TypedState
  <2>2. s.allById \subseteq Employees
    BY <1>3 DEF TypedState
  <2> QED BY <2>1, <2>2 DEF Good
<1>13. ASSUME NEW c \in CompanyIds \ dis, c \in r.withEmployees PROVE r.num[c] > 0
  <2>1. CompanyRight(s, c) /\ (c \in s.withEmployees => s.num[c] > 0)
    BY StaffRight
  <2>2. s.num[c] \in Nat
    BY <1>1, <2>1 DEF CompanyRight
  <2>3. r.num[c] = IF c = k THEN s.num[c] + 1 ELSE s.num[c]
    BY <1>1, <1>2, <1>3 DEF TypedState
  <2>4. c = k \/ c \in s.withEmployees
    BY <1>2, <1>13
  <2> QED BY <2>1, <2>2, <2>3, <2>4
<1> QED BY <1>2, <1>8, <1>9, <1>10, <1>11, <1>12, <1>13 DEF Good

\* A company without employees has nobody, whom nobody's pointer says it employs.
LEMMA NobodyOf ==
  ASSUME NEW comps \in SUBSET CompanyIds, NEW dis, NEW s, Good(s, comps, dis),
         NEW t \in CompanyIds \ dis, s.num[t] = 0
  PROVE  \A e \in s.allById : s.employer[e] # t
<1>1. Staff(s, t) \in SUBSET Employees /\ CompanyRight(s, t)
  BY GoodFacts, StaffRight
<1>2. Staff(s, t) = {}
  BY <1>1, EmployeesFinite DEF CompanyRight
<1> QED BY <1>2 DEF Staff

IsFreed(r, s, t) ==
  /\ Rec(r)
  /\ r.withEmployees = s.withEmployees \ {t} /\ r.num = s.num
  /\ r.byId = [s.byId EXCEPT ![t] = {}] /\ r.bySalary = [s.bySalary EXCEPT ![t] = {}]
  /\ r.best = [s.best EXCEPT ![t] = NoEmployee]
  /\ r.allById = s.allById /\ r.allBySalary = s.allBySalary /\ r.numAll = s.numAll
  /\ r.highest = s.highest /\ r.salary = s.salary
  /\ r.employer = [e \in Employees |-> IF s.employer[e] = t THEN NoCompany ELSE s.employer[e]]

LEMMA FreedFields ==
  ASSUME NEW s, Rec(s), NEW t, NEW r, r = Freed(s, t)
  PROVE  IsFreed(r, s, t)
<1> DEFINE left == [e \in Employees |-> IF s.employer[e] = t THEN NoCompany ELSE s.employer[e]]
<1>1. r = [s EXCEPT !.withEmployees = @ \ {t}, !.byId[t] = {}, !.bySalary[t] = {}, !.best[t] = NoEmployee,
                    !.employer = left]
  BY DEF Freed
<1> HIDE DEF left
<1>2. /\ Rec(r) /\ r.withEmployees = s.withEmployees \ {t} /\ r.num = s.num
      /\ r.byId = [s.byId EXCEPT ![t] = {}] /\ r.bySalary = [s.bySalary EXCEPT ![t] = {}]
      /\ r.best = [s.best EXCEPT ![t] = NoEmployee]
      /\ r.allById = s.allById /\ r.allBySalary = s.allBySalary /\ r.numAll = s.numAll
      /\ r.highest = s.highest /\ r.salary = s.salary /\ r.employer = left
  BY <1>1 DEF Rec
<1> QED BY <1>2 DEF left, IsFreed

LEMMA FreedGood ==
  ASSUME NEW comps \in SUBSET CompanyIds, NEW dis, NEW s, Good(s, comps, dis),
         NEW t \in CompanyIds, s.num[t] = 0, NEW r, r = Freed(s, t)
  PROVE  Good(r, comps \ {t}, dis)
<1>1. /\ TypedState(s, comps) /\ AllRight(s) /\ Rec(s) /\ NoCompany \notin CompanyIds
      /\ \A c : Staff(s, c) \in SUBSET Employees
  BY GoodFacts DEF Good
<1>2. IsFreed(r, s, t)
  BY <1>1, FreedFields
<1> USE DEF IsFreed
<1>3. /\ \A e \in Employees : r.employer[e] = IF s.employer[e] = t THEN NoCompany ELSE s.employer[e]
      /\ s.allById \subseteq Employees /\ r.allById = s.allById
  BY <1>1, <1>2 DEF TypedState
<1>4. Staff(r, t) = {} /\ \A c \in CompanyIds \ {t} : Staff(r, c) = Staff(s, c)
  BY <1>1, <1>3 DEF Staff
<1>5. ASSUME NEW c \in CompanyIds \ dis PROVE CompanyRight(r, c) /\ (c \in r.withEmployees => r.num[c] > 0)
  <2>1. CompanyRight(s, c) /\ (c \in s.withEmployees => s.num[c] > 0)
    BY StaffRight
  <2>2. CASE c = t
    <3>1. r.byId[t] = {} /\ r.bySalary[t] = {} /\ r.num[t] = 0 /\ r.best[t] = NoEmployee /\ t \notin r.withEmployees
      BY <1>1, <1>2 DEF TypedState
    <3> QED BY <1>4, <2>2, <3>1, FS_EmptySet DEF CompanyRight, BestOf
  <2>3. CASE c # t
    <3>1. /\ r.byId[c] = s.byId[c] /\ r.bySalary[c] = s.bySalary[c] /\ r.num[c] = s.num[c]
          /\ r.best[c] = s.best[c] /\ r.salary = s.salary /\ r.withEmployees \subseteq s.withEmployees
      BY <1>1, <1>2, <2>3 DEF TypedState
    <3>2. Staff(r, c) = Staff(s, c)
      BY <1>4, <2>3
    <3> QED BY <2>1, <3>1, <3>2 DEF CompanyRight
  <2> QED BY <2>2, <2>3
<1>6. AllRight(r)
  BY <1>1, <1>2 DEF AllRight
<1>7. ASSUME NEW c \in CompanyIds PROVE Own(r, c)
  <2>1. Own(s, c)
    BY DEF Good
  <2>2. r.byId[c] = (IF c = t THEN {} ELSE s.byId[c]) /\ r.bySalary[c] = IF c = t THEN {} ELSE s.bySalary[c]
    BY <1>1, <1>2 DEF TypedState
  <2> QED BY <1>3, <2>1, <2>2 DEF Own
<1>8. TypedState(r, comps \ {t})
  <2>1. r.employer \in [Employees -> (comps \ {t}) \cup {NoCompany}]
    BY <1>1, <1>2 DEF TypedState
  <2>2. r.withEmployees \subseteq comps \ {t}
    BY <1>1, <1>2 DEF TypedState
  <2>3. /\ r.byId \in [CompanyIds -> SUBSET Employees] /\ r.bySalary \in [CompanyIds -> SUBSET Employees]
        /\ r.best \in [CompanyIds -> Employees \cup {NoEmployee}]
    BY <1>1, <1>2 DEF TypedState
  <2> QED BY <1>1, <1>2, <2>1, <2>2, <2>3 DEF TypedState
<1>9. \A e \in Employees : r.employer[e] \in comps \ {t} => e \in r.allById
  BY <1>1, <1>3 DEF Good
<1>10. dis = {} => \A e \in r.allById : r.employer[e] \in comps \ {t}
  <2>1. dis = {} => \A e \in s.allById : s.employer[e] # t /\ s.employer[e] \in comps
    BY NobodyOf DEF Good
  <2> QED BY <1>3, <2>1
<1> QED BY <1>5, <1>6, <1>7, <1>8, <1>9, <1>10 DEF Good

\* An acquisition: ids and paid become the acquirer's trees, num its counter, and
\* it becomes the employer of who is in moved; the target is freed.
IsAcquired(r, s, a, t, ids, paid, num, moved) ==
  /\ Rec(r)
  /\ r.withEmployees = s.withEmployees \ {t}
  /\ r.num = [s.num EXCEPT ![a] = num, ![t] = 0]
  /\ r.byId = [s.byId EXCEPT ![a] = ids, ![t] = {}]
  /\ r.bySalary = [s.bySalary EXCEPT ![a] = paid, ![t] = {}]
  /\ r.best = [s.best EXCEPT ![a] = MaxOf(paid, s.salary), ![t] = NoEmployee]
  /\ r.allById = s.allById /\ r.allBySalary = s.allBySalary /\ r.numAll = s.numAll
  /\ r.highest = s.highest /\ r.salary = s.salary
  /\ r.employer = [e \in Employees |-> IF e \in moved THEN a
                                       ELSE IF s.employer[e] = t THEN NoCompany ELSE s.employer[e]]

\* What comes before the target is freed.
LEMMA AcquiredFields ==
  ASSUME NEW s, Rec(s), NEW a, NEW t, a # t, NEW ids, NEW paid, NEW num, NEW moved, NEW m, Rec(m),
         m.withEmployees = s.withEmployees, m.num = [s.num EXCEPT ![a] = num, ![t] = 0],
         m.byId = [s.byId EXCEPT ![a] = ids], m.bySalary = [s.bySalary EXCEPT ![a] = paid],
         m.best = [s.best EXCEPT ![a] = MaxOf(paid, s.salary)],
         m.allById = s.allById, m.allBySalary = s.allBySalary, m.numAll = s.numAll,
         m.highest = s.highest, m.salary = s.salary,
         \A e \in Employees : m.employer[e] = IF e \in moved THEN a ELSE s.employer[e],
         NEW r, r = Freed(m, t)
  PROVE  IsAcquired(r, s, a, t, ids, paid, num, moved)
<1> DEFINE best == MaxOf(paid, s.salary)
<1>1. IsFreed(r, m, t)
  BY FreedFields
<1>2. m.best = [s.best EXCEPT ![a] = best]
  OBVIOUS
<1>3. r.employer = [e \in Employees |-> IF e \in moved THEN a
                                        ELSE IF s.employer[e] = t THEN NoCompany ELSE s.employer[e]]
  <2>1. \A e \in Employees : (IF m.employer[e] = t THEN NoCompany ELSE m.employer[e])
                             = IF e \in moved THEN a ELSE IF s.employer[e] = t THEN NoCompany ELSE s.employer[e]
    OBVIOUS
  <2>2. r.employer = [e \in Employees |-> IF m.employer[e] = t THEN NoCompany ELSE m.employer[e]]
    BY <1>1 DEF IsFreed
  <2> QED BY <2>1, <2>2
<1> HIDE DEF best
<1>4. r.best = [s.best EXCEPT ![a] = best, ![t] = NoEmployee]
  BY <1>1, <1>2 DEF IsFreed
<1>5. r.byId = [s.byId EXCEPT ![a] = ids, ![t] = {}] /\ r.bySalary = [s.bySalary EXCEPT ![a] = paid, ![t] = {}]
  BY <1>1 DEF IsFreed
<1>6. /\ Rec(r) /\ r.withEmployees = s.withEmployees \ {t} /\ r.num = [s.num EXCEPT ![a] = num, ![t] = 0]
      /\ r.allById = s.allById /\ r.allBySalary = s.allBySalary /\ r.numAll = s.numAll
      /\ r.highest = s.highest /\ r.salary = s.salary
  BY <1>1 DEF IsFreed
<1> QED BY <1>3, <1>4, <1>5, <1>6 DEF IsAcquired, best

LEMMA MovedFields ==
  ASSUME NEW s, Rec(s), NEW a, NEW t, a # t, NEW n, n = NodesBuilt(s.num[a] + s.num[t]),
         NEW ids, ids = FirstById(s.byId[a] \cup s.byId[t], n),
         NEW paid, paid = FirstBySalary(s.bySalary[a] \cup s.bySalary[t], n, s.salary),
         NEW r, r = Freed(Moved(s, a, t), t)
  PROVE  IsAcquired(r, s, a, t, ids, paid, s.num[a] + s.num[t], ids \cup paid)
<1> DEFINE m == Moved(s, a, t)
           best == MaxOf(paid, s.salary)
           to == [e \in Employees |-> IF e \in ids \cup paid THEN a ELSE s.employer[e]]
<1>1. m = [s EXCEPT !.byId[a] = ids, !.bySalary[a] = paid, !.num[a] = @ + s.num[t], !.num[t] = 0,
                    !.best[a] = best, !.employer = to]
  BY DEF Moved, MergedIds, MergedPaid
<1>2. r = Freed(m, t) /\ \A e \in Employees : to[e] = IF e \in ids \cup paid THEN a ELSE s.employer[e]
  OBVIOUS
<1> HIDE DEF m, best, to
<1>3. /\ Rec(m) /\ m.withEmployees = s.withEmployees /\ m.num = [s.num EXCEPT ![a] = @ + s.num[t], ![t] = 0]
      /\ m.byId = [s.byId EXCEPT ![a] = ids] /\ m.bySalary = [s.bySalary EXCEPT ![a] = paid]
      /\ m.best = [s.best EXCEPT ![a] = best]
      /\ m.allById = s.allById /\ m.allBySalary = s.allBySalary /\ m.numAll = s.numAll
      /\ m.highest = s.highest /\ m.salary = s.salary /\ m.employer = to
  BY <1>1 DEF Rec
<1>4. m.best = [s.best EXCEPT ![a] = MaxOf(paid, s.salary)]
  BY <1>3 DEF best
<1>5. m.num = [s.num EXCEPT ![a] = s.num[a] + s.num[t], ![t] = 0]
  BY <1>3
<1> QED BY <1>2, <1>3, <1>4, <1>5, AcquiredFields

LEMMA TakenOverFields ==
  ASSUME NEW s, Rec(s), NEW a, NEW t, a # t, NEW r, r = Freed(TakenOver(s, a, t), t)
  PROVE  IsAcquired(r, s, a, t, s.byId[t], s.bySalary[t], s.num[t], {})
<1> DEFINE m == TakenOver(s, a, t)
           best == MaxOf(s.bySalary[t], s.salary)
<1>1. m = [s EXCEPT !.byId[a] = s.byId[t], !.bySalary[a] = s.bySalary[t], !.num[a] = s.num[t], !.num[t] = 0,
                    !.best[a] = best]
  BY DEF TakenOver
<1>2. r = Freed(m, t)
  OBVIOUS
<1> HIDE DEF m, best
<1>3. /\ Rec(m) /\ m.withEmployees = s.withEmployees /\ m.num = [s.num EXCEPT ![a] = s.num[t], ![t] = 0]
      /\ m.byId = [s.byId EXCEPT ![a] = s.byId[t]] /\ m.bySalary = [s.bySalary EXCEPT ![a] = s.bySalary[t]]
      /\ m.best = [s.best EXCEPT ![a] = best]
      /\ m.allById = s.allById /\ m.allBySalary = s.allBySalary /\ m.numAll = s.numAll
      /\ m.highest = s.highest /\ m.salary = s.salary /\ m.employer = s.employer
  BY <1>1 DEF Rec
<1>4. m.best = [s.best EXCEPT ![a] = MaxOf(s.bySalary[t], s.salary)]
  BY <1>3 DEF best
<1> QED BY <1>2, <1>3, <1>4, AcquiredFields

LEMMA StaffsApart ==
  ASSUME NEW s, NEW a, NEW t, a # t,
         IsFiniteSet(Staff(s, a)), IsFiniteSet(Staff(s, t))
  PROVE  Cardinality(Staff(s, a) \cup Staff(s, t)) = Cardinality(Staff(s, a)) + Cardinality(Staff(s, t))
<1> DEFINE A == Staff(s, a)
           B == Staff(s, t)
<1>1. A \cap B = {} /\ IsFiniteSet(A) /\ IsFiniteSet(B)
  BY DEF Staff
<1> HIDE DEF A, B
<1>2. /\ Cardinality(A \cup B) = Cardinality(A) + Cardinality(B) - Cardinality(A \cap B)
      /\ Cardinality(A) \in Nat /\ Cardinality(B) \in Nat /\ Cardinality({}) = 0
  BY <1>1, FS_Union, FS_CardinalityType, FS_EmptySet
<1>3. Cardinality(A \cap B) = 0
  BY <1>1, <1>2
<1>4. Cardinality(A \cup B) = Cardinality(A) + Cardinality(B)
  BY <1>2, <1>3
<1> QED BY <1>4 DEF A, B

\* An acquisition does no harm to other companies; and none to the acquirer if
\* the staffs of both are all in its trees and it is their employer.
LEMMA AcquiredGood ==
  ASSUME NEW comps \in SUBSET CompanyIds, NEW dis, NEW s, Good(s, comps, dis),
         NEW a \in comps, NEW t \in comps, a # t,
         NEW ids, ids \subseteq s.byId[a] \cup s.byId[t],
         NEW paid, paid \subseteq s.bySalary[a] \cup s.bySalary[t],
         NEW num \in Int, NEW moved, moved \subseteq ids \cup paid,
         \A e \in moved : s.employer[e] \in comps,
         NEW dis2, dis \subseteq dis2,
         a \notin dis2 => /\ t \notin dis2 /\ num = s.num[a] + s.num[t]
                          /\ \A S \in {ids, paid, moved} : S = Staff(s, a) \cup Staff(s, t),
         NEW r, IsAcquired(r, s, a, t, ids, paid, num, moved)
  PROVE  Good(r, comps \ {t}, dis2)
<1> DEFINE U == Staff(s, a) \cup Staff(s, t)
<1>1. /\ Rec(s) /\ s.salary \in Pays /\ NoCompany \notin CompanyIds /\ a \in CompanyIds /\ t \in CompanyIds
      /\ \A S \in SUBSET Employees : IsFiniteSet(S) /\ Cardinality(S) \in Nat
      /\ \A c : Staff(s, c) \in SUBSET Employees
  BY GoodFacts
<1>2. TypedState(s, comps) /\ AllRight(s)
  BY DEF Good
<1> USE DEF IsAcquired
<1>3. ids \in SUBSET Employees /\ paid \in SUBSET Employees /\ moved \in SUBSET Employees
  BY <1>1, <1>2 DEF TypedState
<1>4. /\ \A e \in ids \cup paid : e \in s.allById /\ s.employer[e] \in {a, t, NoCompany}
      /\ \A e \in moved : s.employer[e] \in {a, t}
  <2>1. Own(s, a) /\ Own(s, t)
    BY <1>1 DEF Good
  <2>2. \A e \in ids \cup paid : e \in s.allById /\ s.employer[e] \in {a, t, NoCompany}
    BY <2>1 DEF Own
  <2> QED BY <1>1, <2>2
<1>5. /\ \A e \in Employees : r.employer[e] = IF e \in moved THEN a
                                              ELSE IF s.employer[e] = t THEN NoCompany ELSE s.employer[e]
      /\ s.allById \subseteq Employees /\ r.allById = s.allById
  BY <1>2 DEF TypedState
<1>6. /\ Staff(r, t) = {}
      /\ \A c \in CompanyIds \ {a, t} : Staff(r, c) = Staff(s, c)
  BY <1>1, <1>4, <1>5 DEF Staff
<1>7. a \notin dis2 => Staff(r, a) = U /\ num = Cardinality(U) /\ ids = U /\ paid = U /\ moved = U
  <2> SUFFICES ASSUME a \notin dis2
               PROVE  Staff(r, a) = U /\ num = Cardinality(U) /\ ids = U /\ paid = U /\ moved = U
    OBVIOUS
  <2>1. ids = U /\ paid = U /\ moved = U /\ num = s.num[a] + s.num[t] /\ a \notin dis /\ t \notin dis
    OBVIOUS
  <2>3. s.num[a] = Cardinality(Staff(s, a)) /\ s.num[t] = Cardinality(Staff(s, t))
    BY <1>1, <2>1, StaffRight DEF CompanyRight
  <2>4. Cardinality(U) = s.num[a] + s.num[t]
    BY <1>1, <2>3, StaffsApart
  <2>5. Staff(r, a) = U
    <3>1. U \subseteq s.allById /\ \A e \in s.allById : s.employer[e] = a => e \in U
      BY DEF Staff
    <3>2. \A e \in s.allById : r.employer[e] = a <=> e \in U
      BY <1>1, <1>5, <2>1, <3>1
    <3> QED BY <1>5, <3>1, <3>2 DEF Staff
  <2> QED BY <2>1, <2>4, <2>5
<1> HIDE DEF U
<1>8. ASSUME NEW c \in CompanyIds \ dis2 PROVE CompanyRight(r, c) /\ (c \in r.withEmployees => r.num[c] > 0)
  <2>1. CompanyRight(s, c) /\ (c \in s.withEmployees => s.num[c] > 0)
    BY StaffRight
  <2>2. CASE c = a
    <3>1. r.byId[a] = U /\ r.bySalary[a] = U /\ r.num[a] = num /\ r.best[a] = MaxOf(U, s.salary) /\ r.salary = s.salary
      BY <1>1, <1>2, <1>7, <2>2 DEF TypedState
    <3>2. U \in SUBSET Employees
      BY <1>3, <1>7, <2>2
    <3>3. BestOf(r.best[a], U, r.salary)
      BY <1>1, <3>1, <3>2, MaxOfTop
    <3>4. a \in s.withEmployees => num > 0
      <4>1. t \notin dis2 /\ num = s.num[a] + s.num[t]
        BY <2>2
      <4>2. CompanyRight(s, t)
        BY <1>1, <4>1, StaffRight
      <4>3. s.num[t] \in Nat /\ s.num[a] \in Nat
        BY <1>1, <2>1, <2>2, <4>2 DEF CompanyRight
      <4> QED BY <2>1, <2>2, <4>1, <4>3
    <3>5. r.withEmployees \subseteq s.withEmployees
      OBVIOUS
    <3> QED BY <1>7, <2>2, <3>1, <3>3, <3>4, <3>5 DEF CompanyRight
  <2>3. CASE c = t
    <3>1. r.byId[t] = {} /\ r.bySalary[t] = {} /\ r.num[t] = 0 /\ r.best[t] = NoEmployee /\ t \notin r.withEmployees
      BY <1>1, <1>2 DEF TypedState
    <3> QED BY <1>6, <2>3, <3>1, FS_EmptySet DEF CompanyRight, BestOf
  <2>4. CASE c \notin {a, t}
    <3>1. /\ r.byId[c] = s.byId[c] /\ r.bySalary[c] = s.bySalary[c] /\ r.num[c] = s.num[c]
          /\ r.best[c] = s.best[c] /\ r.salary = s.salary /\ r.withEmployees \subseteq s.withEmployees
      BY <1>2, <2>4 DEF TypedState
    <3>2. Staff(r, c) = Staff(s, c)
      BY <1>6, <2>4
    <3> QED BY <2>1, <3>1, <3>2 DEF CompanyRight
  <2> QED BY <2>2, <2>3, <2>4
<1>9. AllRight(r)
  BY <1>2 DEF AllRight
<1>10. ASSUME NEW c \in CompanyIds PROVE Own(r, c)
  <2>1. Own(s, c)
    BY DEF Good
  <2>2. CASE c = a
    <3>1. r.byId[a] = ids /\ r.bySalary[a] = paid
      BY <1>1, <1>2 DEF TypedState
    <3>2. \A e \in ids \cup paid : e \in Employees
      BY <1>3
    <3> QED BY <1>4, <1>5, <2>2, <3>1, <3>2 DEF Own
  <2>3. CASE c = t
    <3>1. r.byId[t] = {} /\ r.bySalary[t] = {}
      BY <1>1, <1>2 DEF TypedState
    <3> QED BY <2>3, <3>1 DEF Own
  <2>4. CASE c \notin {a, t}
    <3>1. r.byId[c] = s.byId[c] /\ r.bySalary[c] = s.bySalary[c]
      BY <1>2, <2>4 DEF TypedState
    <3>2. \A e \in s.byId[c] \cup s.bySalary[c] : e \in s.allById /\ e \in Employees /\ e \notin moved
      BY <1>1, <1>4, <1>5, <2>1, <2>4 DEF Own
    <3> QED BY <1>5, <2>1, <3>1, <3>2 DEF Own
  <2> QED BY <2>2, <2>3, <2>4
<1>11. \A e \in Employees : /\ r.employer[e] \in (comps \ {t}) \cup {NoCompany}
                            /\ r.employer[e] \in comps \ {t} => e \in r.allById
  <2>1. \A e \in Employees : /\ s.employer[e] \in comps \cup {NoCompany}
                             /\ s.employer[e] \in comps => e \in s.allById
    BY <1>2 DEF Good, TypedState
  <2>2. moved \subseteq s.allById
    BY <1>4
  <2> QED BY <1>1, <1>5, <2>1, <2>2
<1>12. dis2 = {} => \A e \in r.allById : r.employer[e] \in comps \ {t}
  <2> SUFFICES ASSUME dis2 = {}, NEW e \in r.allById PROVE r.employer[e] \in comps \ {t}
    OBVIOUS
  <2>1. dis = {} /\ moved = U
    BY <1>7
  <2>2. e \in s.allById /\ e \in Employees /\ s.employer[e] \in comps
    BY <1>5, <2>1 DEF Good
  <2>3. s.employer[e] = t => e \in moved
    BY <2>1, <2>2 DEF U, Staff
  <2> QED BY <1>5, <2>2, <2>3
<1>13. TypedState(r, comps \ {t})
  <2>1. r.employer \in [Employees -> (comps \ {t}) \cup {NoCompany}]
    BY <1>11
  <2>2. r.withEmployees \subseteq comps \ {t} /\ r.salary = s.salary /\ r.allById = s.allById /\ r.numAll = s.numAll
    BY <1>2 DEF TypedState
  <2>3. r.byId \in [CompanyIds -> SUBSET Employees] /\ r.bySalary \in [CompanyIds -> SUBSET Employees]
    <3>1. s.byId \in [CompanyIds -> SUBSET Employees] /\ s.bySalary \in [CompanyIds -> SUBSET Employees]
      BY <1>2 DEF TypedState
    <3> QED BY <1>1, <1>3, <3>1
  <2>4. r.num \in [CompanyIds -> Int]
    BY <1>1, <1>2 DEF TypedState
  <2>5. r.best \in [CompanyIds -> Employees \cup {NoEmployee}]
    <3>1. MaxOf(paid, s.salary) \in Employees \cup {NoEmployee}
      BY <1>1, <1>3, MaxOfTop
    <3>2. s.best \in [CompanyIds -> Employees \cup {NoEmployee}]
      BY <1>2 DEF TypedState
    <3>3. r.best = [s.best EXCEPT ![a] = MaxOf(paid, s.salary), ![t] = NoEmployee]
      OBVIOUS
    <3> QED BY <1>1, <3>1, <3>2, <3>3
  <2> QED BY <1>2, <2>1, <2>2, <2>3, <2>4, <2>5 DEF TypedState
<1> QED BY <1>8, <1>9, <1>10, <1>11, <1>12, <1>13 DEF Good

\* A merger of companies in order puts both staffs into the trees of the
\* acquirer, all of them, if it builds enough nodes.
LEMMA MergedGood ==
  ASSUME NEW comps \in SUBSET CompanyIds, NEW dis, NEW s, Good(s, comps, dis),
         NEW a \in comps, NEW t \in comps, a # t,
         \A e \in MergedIds(s, a, t) \cup MergedPaid(s, a, t) : s.employer[e] \in comps,
         NEW n, n = s.num[a] + s.num[t],
         NEW dis2, dis2 = IF NodesBuilt(n) = n /\ {a, t} \cap dis = {} THEN dis ELSE dis \cup {a},
         NEW r, r = Freed(Moved(s, a, t), t)
  PROVE  Good(r, comps \ {t}, dis2)
<1> DEFINE k == NodesBuilt(n)
           ids == FirstById(s.byId[a] \cup s.byId[t], k)
           paid == FirstBySalary(s.bySalary[a] \cup s.bySalary[t], k, s.salary)
           moved == ids \cup paid
<1>1. /\ Rec(s) /\ s.num[a] \in Int /\ s.num[t] \in Int
      /\ a \in CompanyIds /\ t \in CompanyIds
  BY DEF Good, TypedState
<1>2. k = NodesBuilt(s.num[a] + s.num[t]) /\ ids = FirstById(s.byId[a] \cup s.byId[t], k)
      /\ paid = FirstBySalary(s.bySalary[a] \cup s.bySalary[t], k, s.salary) /\ moved = ids \cup paid
  OBVIOUS
<1>3. ids \subseteq s.byId[a] \cup s.byId[t] /\ paid \subseteq s.bySalary[a] \cup s.bySalary[t]
  BY DEF FirstById, FirstBySalary
<1>4. k = NodesBuilt(n)
  OBVIOUS
<1> HIDE DEF k, ids, paid, moved
<1>5. IsAcquired(r, s, a, t, ids, paid, n, moved)
  <2>1. IsAcquired(r, s, a, t, ids, paid, s.num[a] + s.num[t], ids \cup paid)
    BY <1>1, <1>2, MovedFields
  <2> QED BY <1>2, <2>1
<1>6. \A e \in moved : s.employer[e] \in comps
  BY <1>2 DEF MergedIds, MergedPaid
<1>7. ASSUME a \notin dis2
      PROVE  t \notin dis2 /\ \A S \in {ids, paid, moved} : S = Staff(s, a) \cup Staff(s, t)
  <2>1. k = n /\ a \notin dis /\ t \notin dis /\ dis2 = dis
    BY <1>4, <1>7
  <2>3. ids = FirstById(s.byId[a] \cup s.byId[t], n)
        /\ paid = FirstBySalary(s.bySalary[a] \cup s.bySalary[t], n, s.salary)
    BY <1>2, <2>1
  <2>4. ids = Staff(s, a) \cup Staff(s, t) /\ paid = Staff(s, a) \cup Staff(s, t)
    <3> DEFINE U == Staff(s, a) \cup Staff(s, t)
    <3>1. /\ s.salary \in Pays /\ \A S \in SUBSET Employees : IsFiniteSet(S) /\ Cardinality(S) \in Nat
          /\ \A c : Staff(s, c) \in SUBSET Employees
      BY GoodFacts
    <3>2. CompanyRight(s, a) /\ CompanyRight(s, t)
      BY <1>1, <2>1, StaffRight
    <3>3. s.byId[a] \cup s.byId[t] = U /\ s.bySalary[a] \cup s.bySalary[t] = U /\ U \in SUBSET Employees
      BY <3>1, <3>2 DEF CompanyRight
    <3>4. Cardinality(U) = n
      <4>1. s.num[a] = Cardinality(Staff(s, a)) /\ s.num[t] = Cardinality(Staff(s, t))
        BY <3>2 DEF CompanyRight
      <4> QED BY <1>1, <3>1, <4>1, StaffsApart
    <3> HIDE DEF U
    <3>5. FirstById(U, n) = U /\ FirstBySalary(U, n, s.salary) = U
      BY <3>1, <3>3, <3>4, FirstAll
    <3> QED BY <2>3, <3>3, <3>5 DEF U
  <2> QED BY <1>2, <2>1, <2>4
<1>8. n \in Int /\ dis \subseteq dis2 /\ moved \subseteq ids \cup paid
  BY <1>1, <1>2
<1> QED BY <1>3, <1>5, <1>6, <1>7, <1>8, AcquiredGood

LEMMA TakenOverGood ==
  ASSUME NEW comps \in SUBSET CompanyIds, NEW dis, NEW s, Good(s, comps, dis),
         NEW a \in comps, NEW t \in comps, a # t,
         NEW r, r = Freed(TakenOver(s, a, t), t)
  PROVE  Good(r, comps \ {t}, dis \cup {a})
<1> DEFINE ids == s.byId[t]
           paid == s.bySalary[t]
           num == s.num[t]
           dis2 == dis \cup {a}
<1>1. Rec(s) /\ num \in Int
  BY DEF Good, TypedState
<1>2. IsAcquired(r, s, a, t, ids, paid, num, {})
  BY <1>1, TakenOverFields
<1>3. ids \subseteq s.byId[a] \cup s.byId[t] /\ paid \subseteq s.bySalary[a] \cup s.bySalary[t] /\ a \in dis2 /\ dis \subseteq dis2
  OBVIOUS
<1> HIDE DEF ids, paid, num, dis2
<1>4. Good(r, comps \ {t}, dis2)
  BY <1>1, <1>2, <1>3, AcquiredGood
<1> QED BY <1>4 DEF dis2

-----------------------------------------------------------------------------
(* The invariant: the state is good, whatever the values of the companies.   *)

IInv ==
  /\ companies \subseteq CompanyIds /\ value \in [CompanyIds -> 0..MaxValue]
  /\ disordered \subseteq CompanyIds
  /\ Good(State, companies, disordered)

LEMMA StateFields ==
  /\ Rec(State) /\ State.withEmployees = withEmployees /\ State.num = numOfEmployees /\ State.byId = byId
  /\ State.bySalary = bySalary /\ State.best = bestEarner /\ State.allById = allById
  /\ State.allBySalary = allBySalary /\ State.numAll = numEmployees /\ State.highest = highestEarner
  /\ State.salary = salary /\ State.employer = employer
BY DEF State, Rec

LEMMA BecomesState ==
  ASSUME NEW s, Rec(s), Becomes(s)
  PROVE  State' = s
BY DEF Becomes, State, Rec

\* Good with more companies, none of them anybody's employer.
LEMMA GoodGrows ==
  ASSUME NEW comps \in SUBSET CompanyIds, NEW dis, NEW s, Good(s, comps, dis), NEW c \in CompanyIds \ comps
  PROVE  Good(s, comps \cup {c}, dis)
<1>1. /\ TypedState(s, comps) /\ AllRight(s)
      /\ \A d \in CompanyIds \ dis : CompanyRight(s, d) /\ (d \in s.withEmployees => s.num[d] > 0)
      /\ \A d \in CompanyIds : Own(s, d)
      /\ \A e \in Employees : s.employer[e] \in comps => e \in s.allById
      /\ dis = {} => \A e \in s.allById : s.employer[e] \in comps
  BY DEF Good
<1>2. c # NoCompany
  BY ConstantAssumption DEF NoCompany
<1>3. \A e \in Employees : s.employer[e] \in comps \cup {NoCompany}
  BY <1>1 DEF TypedState
<1>4. TypedState(s, comps \cup {c})
  BY <1>1 DEF TypedState
<1>5. \A e \in Employees : s.employer[e] \in comps \cup {c} => e \in s.allById
  BY <1>1, <1>2, <1>3
<1> QED BY <1>1, <1>4, <1>5 DEF Good

LEMMA InitGood == Init => IInv
<1> SUFFICES ASSUME Init PROVE IInv
  OBVIOUS
<1> USE DEF Init
<1>1. \A c : Staff(State, c) = {}
  BY StateFields DEF Staff
<1>2. \A c \in CompanyIds : CompanyRight(State, c)
  BY <1>1, StateFields, FS_EmptySet DEF CompanyRight, BestOf
<1>3. AllRight(State)
  BY StateFields, FS_EmptySet DEF AllRight, TopOf
<1>4. TypedState(State, companies)
  BY StateFields, ConstantAssumption DEF TypedState
<1>5. /\ \A e \in Employees : State.employer[e] \in companies => e \in State.allById
      /\ \A e \in State.allById : State.employer[e] \in companies
      /\ \A c \in CompanyIds : c \notin State.withEmployees /\ Own(State, c)
  BY StateFields DEF Own
<1>6. companies \subseteq CompanyIds /\ value \in [CompanyIds -> 0..MaxValue] /\ disordered \subseteq CompanyIds
  BY ConstantAssumption
<1> QED BY <1>2, <1>3, <1>4, <1>5, <1>6 DEF IInv, Good

LEMMA AddKeeps ==
  ASSUME IInv, NEW e \in Employees, NEW c \in CompanyIds, NEW pay \in 1..MaxSalary, AddEmployee(e, c, pay)
  PROVE  IInv'
<1> DEFINE listed == IF State.num[c] = 0 THEN State.withEmployees \cup {c} ELSE State.withEmployees
           r == Joined(State, listed, e, c, pay)
<1>1. /\ Good(State, companies, disordered) /\ Rec(State) /\ c \in companies /\ e \notin State.allById
      /\ companies' = companies /\ value' = value /\ disordered' = disordered /\ disordered \in SUBSET CompanyIds /\ companies \in SUBSET CompanyIds /\ pay \in 0..MaxSalary
  BY StateFields DEF IInv, AddEmployee
<1>2. Added(State, e, c, pay) = r
  BY DEF Added, Joined
<1>3. Becomes(r)
  BY <1>2 DEF AddEmployee
<1>4. listed \subseteq State.withEmployees \cup {c}
  OBVIOUS
<1> HIDE DEF listed
<1>5. r = Joined(State, listed, e, c, pay)
  OBVIOUS
<1> HIDE DEF r
<1>6. Good(r, companies, disordered) /\ Rec(r)
  BY <1>1, <1>4, <1>5, JoinedGood
<1>7. State' = r
  BY <1>3, <1>6, BecomesState
<1> QED BY <1>1, <1>6, <1>7 DEF IInv

LEMMA RemoveKeeps ==
  ASSUME IInv, NEW e \in Employees, RemoveEmployee(e)
  PROVE  IInv'
<1> DEFINE r == Removed(State, e)
<1>1. /\ Good(State, companies, disordered) /\ State.employer[e] \in companies /\ Becomes(r)
      /\ companies' = companies /\ value' = value /\ disordered' = disordered /\ disordered \in SUBSET CompanyIds /\ companies \in SUBSET CompanyIds
  BY StateFields DEF IInv, RemoveEmployee, Employed
<1>2. r = Removed(State, e)
  OBVIOUS
<1> HIDE DEF r
<1>3. Good(r, companies, disordered) /\ Rec(r)
  BY <1>1, <1>2, RemovedGood
<1>4. State' = r
  BY <1>1, <1>3, BecomesState
<1> QED BY <1>1, <1>3, <1>4 DEF IInv

\* Out and in again, at another company.
LEMMA HireKeeps ==
  ASSUME IInv, NEW e \in Employees, NEW c \in CompanyIds, HireEmployee(e, c)
  PROVE  IInv'
<1> DEFINE q == Removed(State, e)
           listed == IF q.num[c] = 0 THEN q.withEmployees \cup {c} ELSE q.withEmployees
           r == Joined(q, listed, e, c, salary[e])
<1>1. /\ Good(State, companies, disordered) /\ Rec(State) /\ State.employer[e] \in companies /\ c \in companies
      /\ companies' = companies /\ value' = value /\ disordered' = disordered /\ disordered \in SUBSET CompanyIds /\ companies \in SUBSET CompanyIds
  BY StateFields DEF IInv, HireEmployee, Employed
<1>2. salary[e] \in 0..MaxSalary
  BY StateFields DEF IInv, Good, TypedState
<1>3. Added(q, e, c, salary[e]) = r
  BY DEF Added, Joined
<1>4. Becomes(r)
  BY <1>3 DEF HireEmployee
<1>5. q = Removed(State, e)
  OBVIOUS
<1>6. listed \subseteq q.withEmployees \cup {c}
  OBVIOUS
<1> HIDE DEF listed
<1>7. r = Joined(q, listed, e, c, salary[e])
  OBVIOUS
<1> HIDE DEF q
<1>8. Good(q, companies, disordered) /\ Rec(q) /\ e \notin q.allById
  BY <1>1, <1>5, RemovedGood
<1> HIDE DEF r
<1>9. Good(r, companies, disordered) /\ Rec(r)
  BY <1>1, <1>2, <1>6, <1>7, <1>8, JoinedGood
<1>10. State' = r
  BY <1>4, <1>9, BecomesState
<1> QED BY <1>1, <1>9, <1>10 DEF IInv

\* Out and in again, at the same company, which may be listed no more.
LEMMA PromoteKeeps ==
  ASSUME IInv, NEW e \in Employees, NEW raise \in 1..MaxSalary, PromoteEmployee(e, raise)
  PROVE  IInv'
<1> DEFINE c == employer[e]
           pay == salary[e] + raise
           q == Removed(State, e)
           listed == q.withEmployees
           r == Joined(q, listed, e, c, pay)
<1>1. /\ Good(State, companies, disordered) /\ Rec(State) /\ State.employer[e] \in companies /\ c \in companies
      /\ companies' = companies /\ value' = value /\ disordered' = disordered /\ disordered \in SUBSET CompanyIds /\ companies \in SUBSET CompanyIds
  BY StateFields DEF IInv, PromoteEmployee, Employed
<1>2. pay \in 0..MaxSalary
  <2>1. salary[e] \in 0..MaxSalary /\ MaxSalary \in Nat
    BY StateFields, ConstantAssumption DEF IInv, Good, TypedState
  <2>2. pay <= MaxSalary
    BY DEF PromoteEmployee
  <2> QED BY <2>1, <2>2
<1>3. Becomes(Counted(HiredBy(q, e, c, pay), e))
  BY DEF PromoteEmployee
<1>4. q = Removed(State, e) /\ listed = q.withEmployees
  OBVIOUS
<1>5. r = Joined(q, listed, e, c, pay)
  OBVIOUS
<1> HIDE DEF q, c, pay
<1>6. Good(q, companies, disordered) /\ Rec(q) /\ e \notin q.allById
  BY <1>1, <1>4, RemovedGood
<1>7. [q EXCEPT !.withEmployees = listed] = q
  BY <1>6 DEF Rec
<1>8. Becomes(r)
  BY <1>3, <1>7 DEF Joined
<1> HIDE DEF listed, r
<1>9. Good(r, companies, disordered) /\ Rec(r)
  BY <1>1, <1>2, <1>4, <1>5, <1>6, JoinedGood
<1>10. State' = r
  BY <1>8, <1>9, BecomesState
<1> QED BY <1>1, <1>9, <1>10 DEF IInv

LEMMA RemoveCompanyKeeps ==
  ASSUME IInv, NEW c \in CompanyIds, RemoveCompany(c)
  PROVE  IInv'
<1> DEFINE r == Freed(State, c)
<1>1. /\ Good(State, companies, disordered) /\ companies \in SUBSET CompanyIds /\ State.num[c] = 0
      /\ companies' = companies \ {c} /\ disordered' = disordered /\ disordered \in SUBSET CompanyIds /\ Becomes(r)
  BY StateFields DEF IInv, RemoveCompany
<1>2. r = Freed(State, c)
  OBVIOUS
<1> HIDE DEF r
<1>3. Good(r, companies \ {c}, disordered)
  BY <1>1, <1>2, FreedGood
<1>4. State' = r
  BY <1>1, <1>3, BecomesState DEF Good, TypedState
<1>5. value' \in [CompanyIds -> 0..MaxValue]
  BY ConstantAssumption DEF IInv, RemoveCompany
<1> QED BY <1>1, <1>3, <1>4, <1>5 DEF IInv

LEMMA SameStateKeeps ==
  ASSUME UNCHANGED <<withEmployees, ownVars, allVars, salary, employer>>
  PROVE  State' = State
BY DEF State, ownVars, allVars

LEMMA AddCompanyKeeps ==
  ASSUME IInv, NEW c \in CompanyIds, NEW v \in Values, AddCompany(c, v)
  PROVE  IInv'
<1>1. State' = State
  BY SameStateKeeps DEF AddCompany
<1>2. Good(State, companies \cup {c}, disordered)
  BY GoodGrows DEF IInv, AddCompany
<1>3. Good(State', companies', disordered')
  BY <1>1, <1>2 DEF AddCompany
<1>4. value' \in [CompanyIds -> 0..MaxValue] /\ companies' \subseteq CompanyIds
      /\ disordered' \subseteq CompanyIds
  <2>1. v \in 0..MaxValue
    BY ConstantAssumption
  <2> QED BY <2>1 DEF IInv, AddCompany
<1> QED BY <1>3, <1>4 DEF IInv

LEMMA IncreaseKeeps ==
  ASSUME IInv, NEW c \in CompanyIds, NEW v \in Rises, IncreaseCompanyValue(c, v)
  PROVE  IInv'
<1>1. State' = State /\ companies' = companies /\ disordered' = disordered
  BY SameStateKeeps DEF IncreaseCompanyValue
<1>2. value' \in [CompanyIds -> 0..MaxValue]
  <2>1. v \in 0..MaxValue /\ MaxValue \in Nat /\ value[c] \in 0..MaxValue /\ value[c] + v <= MaxValue
    BY ConstantAssumption DEF IInv, IncreaseCompanyValue
  <2>2. value[c] + v \in 0..MaxValue
    BY <2>1
  <2> QED BY <2>2 DEF IInv, IncreaseCompanyValue
<1> QED BY <1>1, <1>2 DEF IInv

\* An acquisition in each of its three forms.
LEMMA AcquiredState ==
  ASSUME IInv, NEW a \in CompanyIds, NEW t \in CompanyIds, NEW factor \in Factors,
         AcquireCompany(a, t, factor)
  PROVE  \E q : Good(q, companies \ {t}, disordered') /\ Becomes(q) /\ disordered' \subseteq CompanyIds
<1>1. /\ Good(State, companies, disordered) /\ companies \in SUBSET CompanyIds
      /\ a \in companies /\ t \in companies /\ a # t /\ disordered \subseteq CompanyIds
  BY DEF IInv, AcquireCompany
<1>2. CASE numOfEmployees[t] = 0 /\ Becomes(Freed(State, t)) /\ disordered' = disordered
  <2> DEFINE r == Freed(State, t)
  <2>1. Becomes(r) /\ State.num[t] = 0 /\ r = Freed(State, t)
    BY <1>2, StateFields
  <2> HIDE DEF r
  <2>2. Good(r, companies \ {t}, disordered)
    BY <1>1, <2>1, FreedGood
  <2> QED BY <1>1, <1>2, <2>1, <2>2
<1>3. CASE Becomes(Freed(TakenOver(State, a, t), t)) /\ disordered' = disordered \cup {a}
  <2> DEFINE r == Freed(TakenOver(State, a, t), t)
  <2>1. Becomes(r) /\ r = Freed(TakenOver(State, a, t), t)
    BY <1>3
  <2> HIDE DEF r
  <2>2. Good(r, companies \ {t}, disordered \cup {a})
    BY <1>1, <2>1, TakenOverGood
  <2> QED BY <1>1, <1>3, <2>1, <2>2
<1>4. CASE /\ Mergeable(a, t) /\ Becomes(Freed(Moved(State, a, t), t))
           /\ LET n == numOfEmployees[a] + numOfEmployees[t]
              IN disordered' = IF NodesBuilt(n) = n /\ {a, t} \cap disordered = {}
                               THEN disordered ELSE disordered \cup {a}
  <2> DEFINE r == Freed(Moved(State, a, t), t)
             n == State.num[a] + State.num[t]
             dis2 == IF NodesBuilt(n) = n /\ {a, t} \cap disordered = {} THEN disordered ELSE disordered \cup {a}
  <2>1. Becomes(r) /\ r = Freed(Moved(State, a, t), t) /\ n = State.num[a] + State.num[t]
    BY <1>4
  <2>2. disordered' = dis2 /\ dis2 \subseteq CompanyIds
    <3>1. n = numOfEmployees[a] + numOfEmployees[t]
      BY StateFields
    <3> HIDE DEF n
    <3>2. disordered' = dis2
      BY <1>4, <3>1
    <3> QED BY <1>1, <3>2
  <2>3. \A e \in MergedIds(State, a, t) \cup MergedPaid(State, a, t) : State.employer[e] \in companies
    <3>1. \A e \in MergedIds(State, a, t) \cup MergedPaid(State, a, t) : employer[e] \in companies
      BY <1>4 DEF Mergeable
    <3> QED BY <3>1, StateFields
  <2>4. dis2 = IF NodesBuilt(n) = n /\ {a, t} \cap disordered = {} THEN disordered ELSE disordered \cup {a}
    OBVIOUS
  <2> HIDE DEF r, n, dis2
  <2>5. Good(r, companies \ {t}, dis2)
    BY <1>1, <2>1, <2>3, <2>4, MergedGood
  <2> QED BY <2>1, <2>2, <2>5
<1> QED BY <1>2, <1>3, <1>4 DEF AcquireCompany

LEMMA AcquireKeeps ==
  ASSUME IInv, NEW a \in CompanyIds, NEW t \in CompanyIds, NEW factor \in Factors,
         AcquireCompany(a, t, factor)
  PROVE  IInv'
<1>1. companies \in SUBSET CompanyIds /\ companies' = companies \ {t}
  BY DEF IInv, AcquireCompany
<1>3. Good(State', companies', disordered') /\ disordered' \subseteq CompanyIds
  <2>1. PICK q : Good(q, companies \ {t}, disordered') /\ Becomes(q) /\ disordered' \subseteq CompanyIds
    BY AcquiredState
  <2>2. Rec(q)
    BY <2>1 DEF Good, TypedState
  <2>3. State' = q
    BY <2>1, <2>2, BecomesState
  <2> QED BY <1>1, <2>1, <2>3
<1>4. value' \in [CompanyIds -> 0..MaxValue]
  <2>1. value \in [CompanyIds -> 0..MaxValue] /\ MaxValue \in Nat /\ factor \in Nat /\ (value[a] + value[t]) * factor <= MaxValue
    BY ConstantAssumption DEF IInv, AcquireCompany
  <2>2. (value[a] + value[t]) * factor \in Nat
    <3>1. value[a] + value[t] \in Nat
      BY <2>1
    <3> QED BY <2>1, <3>1
  <2>3. (value[a] + value[t]) * factor \in 0..MaxValue /\ 0 \in 0..MaxValue
    BY <2>1, <2>2
  <2>4. value' = [value EXCEPT ![a] = (@ + value[t]) * factor, ![t] = 0]
    BY DEF AcquireCompany
  <2> QED BY <2>1, <2>3, <2>4
<1> QED BY <1>1, <1>3, <1>4 DEF IInv

LEMMA Inductive ==
  ASSUME IInv, [Next]_vars
  PROVE  IInv'
<1>1. ASSUME NEW c \in CompanyIds, NEW v \in Values, AddCompany(c, v) PROVE IInv'
  BY <1>1, AddCompanyKeeps
<1>2. ASSUME NEW c \in CompanyIds, NEW v \in Rises, IncreaseCompanyValue(c, v) PROVE IInv'
  BY <1>2, IncreaseKeeps
<1>3. ASSUME NEW c \in CompanyIds, RemoveCompany(c) PROVE IInv'
  BY <1>3, RemoveCompanyKeeps
<1>4. ASSUME NEW e \in Employees, NEW c \in CompanyIds, HireEmployee(e, c) PROVE IInv'
  BY <1>4, HireKeeps
<1>5. ASSUME NEW e \in Employees, NEW c \in CompanyIds, NEW pay \in 1..MaxSalary, AddEmployee(e, c, pay) PROVE IInv'
  BY <1>5, AddKeeps
<1>6. ASSUME NEW e \in Employees, RemoveEmployee(e) PROVE IInv'
  BY <1>6, RemoveKeeps
<1>7. ASSUME NEW e \in Employees, NEW raise \in 1..MaxSalary, PromoteEmployee(e, raise) PROVE IInv'
  BY <1>7, PromoteKeeps
<1>8. ASSUME NEW a \in CompanyIds, NEW t \in CompanyIds, NEW factor \in Factors, AcquireCompany(a, t, factor) PROVE IInv'
  BY <1>8, AcquireKeeps
<1>9. CASE UNCHANGED vars
  <2>1. State' = State
    BY <1>9, SameStateKeeps DEF vars
  <2> QED BY <1>9, <2>1 DEF IInv, vars
<1> QED BY <1>1, <1>2, <1>3, <1>4, <1>5, <1>6, <1>7, <1>8, <1>9 DEF Next

LEMMA Invariant == Spec => []IInv
<1>1. IInv /\ [Next]_vars => IInv'
  BY Inductive
<1> QED BY <1>1, InitGood, PTL DEF Spec

-----------------------------------------------------------------------------
(* What the invariant shows. *)

LEMMA Agree ==
  ASSUME IInv
  PROVE  TreesAgree
<1>1. /\ Good(State, companies, disordered) /\ companies \in SUBSET CompanyIds /\ AllRight(State)
      /\ \A c : Staff(State, c) \in SUBSET Employees
  BY GoodFacts DEF IInv, Good
<1>2. allBySalary = allById /\ numEmployees = Cardinality(allById)
  BY <1>1, StateFields DEF AllRight
<1>3. ASSUME NEW c \in companies
      PROVE  \A e \in byId[c] \cup bySalary[c] : e \in allById /\ employer[e] \in {c, NoCompany}
  <2>1. Own(State, c)
    BY <1>1 DEF Good
  <2> QED BY <2>1, StateFields DEF Own
<1>4. ASSUME NEW c \in companies \ disordered
      PROVE  LET staff == {e \in allById : employer[e] = c}
             IN /\ byId[c] = staff /\ bySalary[c] = staff /\ numOfEmployees[c] = Cardinality(staff)
                /\ c \in withEmployees => staff # {} /\ bestEarner[c] # NoEmployee
  <2>1. CompanyRight(State, c) /\ (c \in withEmployees => numOfEmployees[c] > 0)
    BY <1>1, StaffRight, StateFields
  <2>2. Staff(State, c) = {e \in allById : employer[e] = c}
    BY StateFields DEF Staff
  <2>3. numOfEmployees[c] > 0 => Staff(State, c) # {} /\ bestEarner[c] # NoEmployee
    <3>1. Staff(State, c) \subseteq Employees /\ NoEmployee \notin Employees
      BY <1>1, EmployeesFinite DEF NoEmployee
    <3>2. numOfEmployees[c] = Cardinality(Staff(State, c)) /\ BestOf(bestEarner[c], Staff(State, c), salary)
      BY <2>1, StateFields DEF CompanyRight
    <3> QED BY <3>1, <3>2, FS_EmptySet DEF BestOf
  <2> QED BY <2>1, <2>2, <2>3, StateFields DEF CompanyRight
<1>5. disordered = {} => \A e \in allById : employer[e] \in companies
  BY <1>1, StateFields DEF Good
<1> QED BY <1>2, <1>3, <1>4, <1>5 DEF TreesAgree

LEMMA Top ==
  ASSUME IInv
  PROVE  EarnersTop
<1>1. Good(State, companies, disordered) /\ companies \in SUBSET CompanyIds
  BY DEF IInv
<1>2. highestEarner = MaxOf(allBySalary, salary)
  <2>1. TopOf(highestEarner, allBySalary, salary) /\ allBySalary \in SUBSET Employees /\ salary \in Pays
    BY <1>1, GoodFacts, StateFields DEF Good, AllRight, TypedState
  <2> QED BY <2>1, MaxOfTop
<1>3. ASSUME NEW c \in companies \ disordered
      PROVE  IF bySalary[c] = {} THEN bestEarner[c] = NoEmployee
             ELSE bestEarner[c] \in bySalary[c] /\ \A e \in bySalary[c] : salary[e] <= salary[bestEarner[c]]
  <2>1. CompanyRight(State, c)
    BY <1>1, StaffRight
  <2>2. BestOf(bestEarner[c], bySalary[c], salary)
    BY <2>1, StateFields DEF CompanyRight
  <2> QED BY <2>2 DEF BestOf
<1> QED BY <1>2, <1>3 DEF EarnersTop

\* The trees of everybody agree after every call, and those of a company with its
\* counter and with its employees' pointers, unless an acquisition by a company
\* without employees or with a power of two as its result made the company.
THEOREM TreesAgreeCorrect == Spec => []TreesAgree
BY Invariant, Agree, PTL

\* GetHighestEarner answers with one who earns no less than the others, of
\* everybody in any case, of a company with the same exceptions.
THEOREM EarnersTopCorrect == Spec => []EarnersTop
BY Invariant, Top, PTL
=============================================================================
