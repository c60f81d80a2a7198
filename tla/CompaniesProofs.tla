--------------------------- MODULE CompaniesProofs ---------------------------
(***************************************************************************)
(* Proofs about the companies' data structure, for any number of companies *)
(* and any factors, salaries and grades: the upside-down tree, with paths  *)
(* shrunk in any order and roots turned around, is a forest, the values of *)
(* its roots are exact, the staff is where it belongs, the whole           *)
(* implements the abstract corporations, and the counters are exact.       *)
(***************************************************************************)
EXTENDS CompaniesProperties, SetLemmas

-----------------------------------------------------------------------------
(* Climbing.                                                                *)

Parents == [Companies -> Companies \cup {NoCompany}]
Up(par, d) == IF par[d] = NoCompany THEN d ELSE par[d]

LEMMA UpInCompanies == ASSUME NEW par \in Parents, NEW d \in Companies PROVE Up(par, d) \in Companies
BY DEF Parents, Up, Companies, NoCompany

IsClimb(up, par, c, m) == up = [k \in 0..m |-> IF k = 0 THEN c ELSE Up(par, up[k - 1])]

\* The recursive function in Climb is well defined.
LEMMA ClimbExists ==
  ASSUME NEW par \in Parents, NEW c, NEW m \in Nat
  PROVE  \E up : IsClimb(up, par, c, m)
<1> DEFINE S == {n \in Nat : \E up : IsClimb(up, par, c, n)}
<1>1. 0 \in S
  <2> DEFINE f == [k \in 0..0 |-> c]
  <2>1. f = [k \in 0..0 |-> IF k = 0 THEN c ELSE Up(par, f[k - 1])]
    OBVIOUS
  <2> QED BY <2>1 DEF IsClimb
<1>2. ASSUME NEW n \in Nat, n \in S PROVE n + 1 \in S
  <2>1. PICK f : f = [k \in 0..n |-> IF k = 0 THEN c ELSE Up(par, f[k - 1])]
    BY <1>2 DEF IsClimb
  <2> DEFINE g == [k \in 0..n + 1 |-> IF k = n + 1 THEN Up(par, f[n]) ELSE f[k]]
  <2>2. ASSUME NEW k \in 0..n + 1 PROVE g[k] = IF k = 0 THEN c ELSE Up(par, g[k - 1])
    <3>1. CASE k = n + 1
      BY <3>1
    <3>2. CASE k \in 0..n /\ k # 0
      <4>1. g[k] = f[k] /\ k - 1 \in 0..n + 1 /\ k - 1 # n + 1 /\ g[k - 1] = f[k - 1]
        BY <3>2
      <4>2. f[k] = Up(par, f[k - 1])
        BY <2>1, <3>2
      <4> QED BY <3>2, <4>1, <4>2
    <3>3. CASE k = 0
      <4>1. f[0] = c
        BY <2>1
      <4> QED BY <3>3, <4>1
    <3> QED BY <3>1, <3>2, <3>3
  <2>3. g = [k \in 0..n + 1 |-> IF k = 0 THEN c ELSE Up(par, g[k - 1])]
    <3>1. g = [k \in 0..n + 1 |-> g[k]]
      OBVIOUS
    <3> HIDE DEF g
    <3> QED BY <2>2, <3>1
  <2> HIDE DEF g
  <2> QED BY <2>3 DEF IsClimb
<1> HIDE DEF S
<1>3. Nat \subseteq S
  BY <1>1, <1>2, SetInduction
<1> QED BY <1>3 DEF S

LEMMA ClimbStep ==
  ASSUME NEW par \in Parents, NEW c \in Companies
  PROVE  IsClimb(Climb(par, c), par, c, NumCompanies)
<1>1. NumCompanies \in Nat
  BY ConstantAssumption
<1>2. \E up : IsClimb(up, par, c, NumCompanies)
  BY <1>1, ClimbExists
<1>3. Climb(par, c) = CHOOSE up : IsClimb(up, par, c, NumCompanies)
  BY DEF Climb, Up, IsClimb
<1> QED BY <1>2, <1>3

LEMMA ClimbFacts ==
  ASSUME NEW par \in Parents, NEW c \in Companies, NEW s, s = Climb(par, c)
  PROVE  /\ s \in [0..NumCompanies -> Companies]
         /\ s[0] = c
         /\ \A k \in 0..NumCompanies : k + 1 \in 0..NumCompanies => s[k + 1] = Up(par, s[k])
<1>0. NumCompanies \in Nat
  BY ConstantAssumption
<1>1. s = [k \in 0..NumCompanies |-> IF k = 0 THEN c ELSE Up(par, s[k - 1])]
  BY ClimbStep DEF IsClimb
<1>2. s[0] = c
  BY <1>0, <1>1
<1>3. ASSUME NEW k \in 0..NumCompanies, k + 1 \in 0..NumCompanies PROVE s[k + 1] = Up(par, s[k])
  <2>1. k + 1 # 0 /\ (k + 1) - 1 = k
    BY <1>0
  <2> QED BY <1>1, <1>3, <2>1
<1> DEFINE S == {k \in Nat : k \in 0..NumCompanies => s[k] \in Companies}
<1>4. 0 \in S
  BY <1>2
<1>5. ASSUME NEW n \in Nat, n \in S PROVE n + 1 \in S
  BY <1>0, <1>3, <1>5, UpInCompanies
<1> HIDE DEF S
<1>6. Nat \subseteq S
  BY <1>4, <1>5, SetInduction
<1>7. \A k \in 0..NumCompanies : s[k] \in Companies
  BY <1>0, <1>6 DEF S
<1>8. s \in [0..NumCompanies -> Companies]
  BY <1>1, <1>7
<1> QED BY <1>2, <1>3, <1>8

-----------------------------------------------------------------------------
(* A forest: every company has a root, which its parent shares, and parents *)
(* have a greater height.                                                   *)

Ranked(par, root, height) ==
  /\ par \in Parents /\ root \in [Companies -> Companies] /\ height \in [Companies -> Nat]
  /\ \A c \in Companies : par[c] = NoCompany => root[c] = c
  /\ \A c \in Companies : par[c] # NoCompany => root[c] = root[par[c]] /\ height[c] < height[par[c]]

\* A climb stays in the corporation, and rises until it is at a root.
Rises(par, root, height, s, c, k) ==
  /\ root[s[k]] = root[c]
  /\ \A j \in 0..k : IF par[s[j]] = NoCompany THEN s[k] = s[j] ELSE j = k \/ height[s[j]] < height[s[k]]

LEMMA ClimbRises ==
  ASSUME NEW par, NEW root, NEW height, Ranked(par, root, height), NEW c \in Companies,
         NEW s, s = Climb(par, c)
  PROVE  /\ s \in [0..NumCompanies -> Companies]
         /\ s[0] = c
         /\ \A k \in 0..NumCompanies : Rises(par, root, height, s, c, k)
<1> DEFINE N == NumCompanies
           Good(k) == Rises(par, root, height, s, c, k)
           S == {k \in Nat : k \in 0..N => Good(k)}
<1>0. N \in Nat
  BY ConstantAssumption
<1>1. par \in Parents
  BY DEF Ranked
<1>2. /\ s \in [0..N -> Companies] /\ s[0] = c
      /\ \A k \in 0..N : k + 1 \in 0..N => s[k + 1] = Up(par, s[k])
  BY <1>1, ClimbFacts
<1>3. 0 \in S
  <2>1. \A j \in 0..0 : j = 0
    OBVIOUS
  <2> QED BY <1>2, <2>1 DEF Rises
<1>4. ASSUME NEW n \in Nat, n \in S PROVE n + 1 \in S
  <2> SUFFICES ASSUME n + 1 \in 0..N PROVE Good(n + 1)
    OBVIOUS
  <2>1. n \in 0..N /\ Good(n) /\ s[n + 1] = Up(par, s[n]) /\ s[n] \in Companies /\ s[n + 1] \in Companies
    BY <1>0, <1>2, <1>4
  <2>2. root[s[n + 1]] = root[s[n]]
    BY <2>1 DEF Ranked, Up
  <2>3. ASSUME NEW j \in 0..n + 1
        PROVE  IF par[s[j]] = NoCompany THEN s[n + 1] = s[j] ELSE j = n + 1 \/ height[s[j]] < height[s[n + 1]]
    <3>1. CASE j = n + 1
      BY <3>1
    <3>2. CASE j # n + 1
      <4>1. j \in 0..n /\ j \in 0..N
        BY <1>0, <3>2
      <4>2. IF par[s[j]] = NoCompany THEN s[n] = s[j] ELSE j = n \/ height[s[j]] < height[s[n]]
        BY <2>1, <4>1 DEF Rises
      <4>3. height[s[j]] \in Nat /\ height[s[n]] \in Nat /\ height[s[n + 1]] \in Nat
        BY <1>2, <2>1, <4>1 DEF Ranked
      <4>4. IF par[s[n]] = NoCompany THEN s[n + 1] = s[n] ELSE height[s[n]] < height[s[n + 1]]
        BY <2>1 DEF Ranked, Up
      <4> QED BY <4>2, <4>3, <4>4
    <3> QED BY <3>1, <3>2
  <2> QED BY <2>1, <2>2, <2>3 DEF Rises
<1> HIDE DEF S
<1>5. Nat \subseteq S
  BY <1>3, <1>4, SetInduction
<1>6. \A k \in 0..N : Good(k)
  BY <1>0, <1>5 DEF S
<1> QED BY <1>2, <1>6

\* NumCompanies steps up, a climb is at the root: otherwise it would have passed
\* more companies than there are.
LEMMA ClimbEnds ==
  ASSUME NEW par, NEW root, NEW height, Ranked(par, root, height), NEW c \in Companies
  PROVE  /\ RootIn(par, c) = root[c] /\ par[root[c]] = NoCompany
         /\ root[c] \in Companies /\ root[root[c]] = root[c]
         /\ par[c] = NoCompany \/ height[c] < height[root[c]]
<1> DEFINE N == NumCompanies
           s == Climb(par, c)
<1>0. N \in Nat /\ N \in 0..N /\ N # 0 /\ 0 \in 0..N
  BY ConstantAssumption
<1>1. /\ s \in [0..N -> Companies] /\ s[0] = c
      /\ \A k \in 0..N : Rises(par, root, height, s, c, k)
  BY ClimbRises
<1> HIDE DEF s
<1>2. PICK i \in 0..N, j \in 0..N : i # j /\ s[i] = s[j]
  <2>1. IsFiniteSet(0..N) /\ Cardinality(0..N) = N + 1
    BY <1>0, FS_Interval
  <2>2. IsFiniteSet(Companies) /\ Cardinality(Companies) = N
    BY <1>0, FS_Interval DEF Companies
  <2>3. Cardinality(Companies) < Cardinality(0..N)
    BY <1>0, <2>1, <2>2
  <2>4. s \in [0..N -> Companies]
    BY <1>1
  <2> QED BY <2>1, <2>2, <2>3, <2>4, FS_PigeonHole
<1>3. \E k \in 0..N : par[s[k]] = NoCompany
  <2>1. ASSUME NEW k \in 0..N, NEW l \in 0..N, k < l, s[k] = s[l] PROVE par[s[k]] = NoCompany
    <3>1. k \in 0..l /\ Rises(par, root, height, s, c, l)
      BY <1>0, <1>1, <2>1
    <3>2. height[s[k]] \in Nat
      BY <1>1 DEF Ranked
    <3> QED BY <2>1, <3>1, <3>2 DEF Rises
  <2> QED BY <1>0, <1>2, <2>1
<1>4. par[s[N]] = NoCompany /\ root[s[N]] = root[c] /\ s[N] \in Companies
  BY <1>0, <1>1, <1>3 DEF Rises
<1>5. s[N] = root[c]
  BY <1>4 DEF Ranked
<1>6. par[c] = NoCompany \/ height[c] < height[s[N]]
  BY <1>0, <1>1 DEF Rises
<1> QED BY <1>4, <1>5, <1>6 DEF RootIn, Ranked, s

-----------------------------------------------------------------------------
(* What shrinking and acquiring do to a forest.                             *)

Forested(par) ==
  \E root \in [Companies -> Companies], height \in [Companies -> Nat] : Ranked(par, root, height)

LEMMA RootFacts ==
  ASSUME NEW par, Forested(par), NEW c \in Companies
  PROVE  /\ RootIn(par, c) \in Companies /\ par[RootIn(par, c)] = NoCompany
         /\ par[c] = NoCompany => RootIn(par, c) = c
BY ClimbEnds DEF Forested, RootIn

\* The height of a root is above that of all its companies, so that a company may
\* as well hang from its root.
Shrunk(par, c) == IF RootIn(par, c) = c THEN par ELSE [par EXCEPT ![c] = RootIn(par, c)]

LEMMA ShrunkForested ==
  ASSUME NEW par, Forested(par), NEW c \in Companies, NEW new, new = Shrunk(par, c)
  PROVE  /\ Forested(new)
         /\ \A d \in Companies : RootIn(new, d) = RootIn(par, d) /\ (new[d] = NoCompany <=> par[d] = NoCompany)
<1>1. PICK root \in [Companies -> Companies], height \in [Companies -> Nat] : Ranked(par, root, height)
  BY DEF Forested
<1>2. /\ RootIn(par, c) = root[c] /\ par[root[c]] = NoCompany /\ root[root[c]] = root[c]
      /\ root[c] \in Companies /\ (par[c] = NoCompany \/ height[c] < height[root[c]])
  BY <1>1, ClimbEnds
<1>3. par \in Parents
  BY <1>1 DEF Ranked
<1>4. Ranked(new, root, height) /\ \A d \in Companies : new[d] = NoCompany <=> par[d] = NoCompany
  <2>1. CASE RootIn(par, c) = c
    BY <1>1, <2>1 DEF Shrunk
  <2>2. CASE RootIn(par, c) # c
    <3>1. par[c] # NoCompany /\ root[c] # NoCompany
      BY <1>1, <1>2, <2>2 DEF Ranked, Companies, NoCompany
    <3>2. new \in Parents /\ new[c] = root[c] /\ \A d \in Companies : d # c => new[d] = par[d]
      BY <1>2, <1>3, <2>2 DEF Parents, Shrunk
    <3>3. \A d \in Companies : new[d] = NoCompany <=> par[d] = NoCompany
      BY <3>1, <3>2
    <3>4. height[c] < height[root[c]]
      BY <1>2, <3>1
    <3> QED BY <1>1, <1>2, <3>1, <3>2, <3>3, <3>4 DEF Ranked
  <2> QED BY <2>1, <2>2
<1>5. \A d \in Companies : RootIn(new, d) = root[d] /\ RootIn(par, d) = root[d]
  BY <1>1, <1>4, ClimbEnds
<1> QED BY <1>4, <1>5 DEF Forested

\* A root hung from another: its companies get the other root, which rises above them.
LEMMA LinkedForested ==
  ASSUME NEW par, Forested(par), NEW a \in Companies, NEW t \in Companies, a # t,
         par[a] = NoCompany, par[t] = NoCompany, NEW new, new = [par EXCEPT ![t] = a]
  PROVE  /\ Forested(new) /\ new \in Parents
         /\ \A d \in Companies :
              /\ RootIn(new, d) = IF RootIn(par, d) = t THEN a ELSE RootIn(par, d)
              /\ new[d] = NoCompany <=> par[d] = NoCompany /\ d # t
<1>1. PICK root \in [Companies -> Companies], height \in [Companies -> Nat] : Ranked(par, root, height)
  BY DEF Forested
<1> DEFINE r == [d \in Companies |-> IF root[d] = t THEN a ELSE root[d]]
           h == [height EXCEPT ![a] = height[a] + height[t] + 1]
<1>2. /\ new \in Parents /\ new[t] = a /\ \A d \in Companies : d # t => new[d] = par[d]
      /\ r \in [Companies -> Companies] /\ h \in [Companies -> Nat]
  BY <1>1 DEF Ranked, Parents
<1>3. a # NoCompany /\ root[a] = a /\ root[t] = t
  BY <1>1 DEF Ranked, Companies, NoCompany
<1>4. \A d \in Companies : new[d] = NoCompany <=> par[d] = NoCompany /\ d # t
  BY <1>2, <1>3
<1>5. ASSUME NEW d \in Companies, new[d] = NoCompany PROVE r[d] = d
  BY <1>1, <1>4, <1>5 DEF Ranked
<1>6. ASSUME NEW d \in Companies, new[d] # NoCompany PROVE r[d] = r[new[d]] /\ h[d] < h[new[d]]
  <2>1. CASE d = t
    <3>1. height[a] \in Nat /\ height[t] \in Nat /\ h[t] = height[t] /\ h[a] = height[a] + height[t] + 1
      BY <1>1
    <3> QED BY <1>2, <1>3, <2>1, <3>1
  <2>2. CASE d # t
    <3>1. /\ new[d] = par[d] /\ par[d] # NoCompany /\ par[d] \in Companies /\ d # a
          /\ root[d] = root[par[d]] /\ height[d] < height[par[d]]
      BY <1>1, <1>2, <1>6, <2>2 DEF Ranked, Parents
    <3>2. h[d] = height[d] /\ height[d] \in Nat /\ height[par[d]] \in Nat
      BY <1>1, <3>1
    <3>3. \/ h[par[d]] = height[par[d]]
          \/ par[d] = a /\ h[a] = height[a] + height[t] + 1 /\ height[t] \in Nat
      BY <1>1, <3>1
    <3> QED BY <3>1, <3>2, <3>3
  <2> QED BY <2>1, <2>2
<1> HIDE DEF r, h
<1>7. Ranked(new, r, h)
  BY <1>2, <1>5, <1>6 DEF Ranked
<1>8. \A d \in Companies : RootIn(new, d) = r[d] /\ RootIn(par, d) = root[d]
  BY <1>1, <1>7, ClimbEnds
<1> QED BY <1>2, <1>4, <1>7, <1>8 DEF Forested, r

-----------------------------------------------------------------------------
(* What a call that only shrinks paths leaves alone: the corporations, and  *)
(* what is charged to their roots.                                          *)

LEMMA PassedNone == ASSUME NEW par, NEW c, par[c] = NoCompany PROVE Passed(par, c) = 0
BY DEF Passed

SameForest(par, new) ==
  \A d \in Companies : RootIn(new, d) = RootIn(par, d) /\ (new[d] = NoCompany <=> par[d] = NoCompany)
SameAtRoots(par, f, new) ==
  /\ new = [d \in Companies |-> new[d]]
  /\ \A d \in Companies : par[d] = NoCompany => new[d] = f[d]

\* Charging a company for what was passed on its way up.
LEMMA ChargeSame ==
  ASSUME NEW par, NEW f, f = [d \in Companies |-> f[d]], NEW c \in Companies, NEW new,
         new = [f EXCEPT ![c] = @ + Passed(par, c)],
         par[c] = NoCompany => f[c] \in Int
  PROVE  SameAtRoots(par, f, new)
<1>1. CASE par[c] = NoCompany
  <2>1. Passed(par, c) = 0
    BY <1>1, PassedNone
  <2>2. new = [f EXCEPT ![c] = f[c] + 0]
    BY <2>1
  <2>3. f[c] + 0 = f[c]
    BY <1>1
  <2>4. new = f
    BY <2>2, <2>3
  <2> QED BY <2>4 DEF SameAtRoots
<1>2. CASE par[c] # NoCompany
  <2> DEFINE q == f[c] + Passed(par, c)
  <2>1. new = [f EXCEPT ![c] = q]
    OBVIOUS
  <2> HIDE DEF q
  <2>2. new = [d \in Companies |-> IF d = c THEN q ELSE f[d]]
    BY <2>1
  <2> QED BY <1>2, <2>2 DEF SameAtRoots
<1> QED BY <1>1, <1>2

LEMMA ShrinkSame ==
  ASSUME NEW F, Forested(F.parent), F.value = [d \in Companies |-> F.value[d]],
         \A d \in Companies : F.parent[d] = NoCompany => F.value[d] \in Int, NEW c \in Companies
  PROVE  /\ Forested(Shrink(F, c).parent)
         /\ SameForest(F.parent, Shrink(F, c).parent)
         /\ SameAtRoots(F.parent, F.value, Shrink(F, c).value)
<1> DEFINE p == Shrink(F, c).parent
           v == Shrink(F, c).value
<1>1. p = Shrunk(F.parent, c)
  BY DEF Shrink, Shrunk
<1>2. v = [F.value EXCEPT ![c] = @ + Passed(F.parent, c)]
  BY DEF Shrink
<1> HIDE DEF p, v
<1>3. Forested(p) /\ SameForest(F.parent, p)
  BY <1>1, ShrunkForested DEF SameForest
<1>4. SameAtRoots(F.parent, F.value, v)
  BY <1>2, ChargeSame
<1> QED BY <1>3, <1>4 DEF p, v

LEMMA ShrinkTwiceSame ==
  ASSUME NEW F, Forested(F.parent), F.value = [d \in Companies |-> F.value[d]],
         \A d \in Companies : F.parent[d] = NoCompany => F.value[d] \in Int,
         NEW c \in Companies, NEW d \in Companies, NEW G, G = Shrink(Shrink(F, c), d)
  PROVE  Forested(G.parent) /\ SameForest(F.parent, G.parent) /\ SameAtRoots(F.parent, F.value, G.value)
<1> DEFINE E == Shrink(F, c)
<1>1. Forested(E.parent) /\ SameForest(F.parent, E.parent) /\ SameAtRoots(F.parent, F.value, E.value)
  BY ShrinkSame
<1> HIDE DEF E
<1>2. E.value = [x \in Companies |-> E.value[x]]
  BY <1>1 DEF SameAtRoots
<1>3. \A x \in Companies : E.parent[x] = NoCompany => E.value[x] \in Int
  BY <1>1 DEF SameAtRoots, SameForest
<1>4. G = Shrink(E, d)
  BY DEF E
<1>5. Forested(G.parent) /\ SameForest(E.parent, G.parent) /\ SameAtRoots(E.parent, E.value, G.value)
  BY <1>1, <1>2, <1>3, <1>4, ShrinkSame
<1> QED BY <1>1, <1>5 DEF SameForest, SameAtRoots

-----------------------------------------------------------------------------
(* The inductive invariant.                                                 *)

Shape ==
  /\ value = [c \in Companies |-> value[c]] /\ purchaseFactor = [c \in Companies |-> purchaseFactor[c]]
  /\ table \in [Companies -> SUBSET Employees] /\ tree \in [Companies -> SUBSET Employees]
  /\ allTable \subseteq Employees
  /\ company \in [Employees -> Companies \cup {NoCompany}]
  /\ salary \in [Employees -> 0..MaxSalary]
  /\ worth \in [Companies -> Nat]

\* Who works somewhere points to a company, and nobody else earns anything.
Employed == \A e \in Employees :
  /\ e \in allTable <=> company[e] # NoCompany
  /\ e \notin allTable => salary[e] = 0

\* At a root, nothing that shrinking added is left of value and purchaseFactor.
RootsWorth == \A c \in Companies : IsRoot(c) =>
  value[c] \in Int /\ purchaseFactor[c] \in Int /\ value[c] + purchaseFactor[c] = worth[c]

IInv == Shape /\ Forested(parent) /\ Employed /\ RootsWorth /\ StaffExact

LEMMA InitForested == Init => Forested(parent)
<1> SUFFICES ASSUME Init PROVE Forested(parent)
  OBVIOUS
<1> DEFINE root == [c \in Companies |-> c]
           height == [c \in Companies |-> 0]
<1>1. Ranked(parent, root, height)
  BY DEF Init, Ranked, Parents
<1>2. root \in [Companies -> Companies] /\ height \in [Companies -> Nat]
  OBVIOUS
<1> HIDE DEF root, height
<1> QED BY <1>1, <1>2 DEF Forested

LEMMA InitIInv == Init => IInv
<1> SUFFICES ASSUME Init PROVE IInv
  OBVIOUS
<1>1. Shape
  BY ConstantAssumption DEF Init, Shape, Companies
<1>2. Employed
  BY DEF Init, Employed
<1>3. RootsWorth
  BY ConstantAssumption DEF Init, RootsWorth, Companies
<1>4. StaffExact
  BY DEF Init, StaffExact, StaffOf
<1> QED BY <1>1, <1>2, <1>3, <1>4, InitForested DEF IInv

-----------------------------------------------------------------------------
(* The steps that acquire nothing.                                          *)

Quiet ==
  /\ Forested(parent)' /\ SameForest(parent, parent')
  /\ SameAtRoots(parent, value, value') /\ SameAtRoots(parent, purchaseFactor, purchaseFactor')
  /\ worth' = worth

\* The employer and the staff, as operators of the variables they read.
EmployerIn(par, all, comp, e) == IF e \in all THEN RootIn(par, comp[e]) ELSE NoCompany
StaffIn(par, all, comp, c)    == {e \in all : EmployerIn(par, all, comp, e) = c}
StaffedBy(par, all, comp, tr, tab, sal, c) ==
  /\ tr[c] = {e \in StaffIn(par, all, comp, c) : sal[e] > 0}
  /\ tab[c] \subseteq StaffIn(par, all, comp, c)

LEMMA StaffNow ==
  StaffExact <=> /\ \A c \in Companies : parent[c] = NoCompany =>
                      StaffedBy(parent, allTable, company, tree, table, salary, c)
                 /\ allTree = {e \in allTable : salary[e] > 0}
BY DEF StaffExact, StaffedBy, StaffIn, EmployerIn, StaffOf, Employer, Root, IsRoot

LEMMA StaffNext ==
  StaffExact' <=> /\ \A c \in Companies : parent'[c] = NoCompany =>
                       StaffedBy(parent', allTable', company', tree', table', salary', c)
                  /\ allTree' = {e \in allTable' : salary'[e] > 0}
BY DEF StaffExact, StaffedBy, StaffIn, EmployerIn, StaffOf, Employer, Root, IsRoot

LEMMA Heads ==
  ASSUME IInv, NEW c \in Companies
  PROVE  /\ Root(c) \in Companies /\ IsRoot(Root(c)) /\ Root(Root(c)) = Root(c)
         /\ IsRoot(c) => Root(c) = c
         /\ c # NoCompany
BY RootFacts DEF IInv, Root, IsRoot, Companies, NoCompany

LEMMA SameFunction == ASSUME NEW par, NEW f, f = [d \in Companies |-> f[d]] PROVE SameAtRoots(par, f, f)
BY DEF SameAtRoots

LEMMA SameParents == ASSUME NEW par PROVE SameForest(par, par)
BY DEF SameForest

LEMMA QuietHeads ==
  ASSUME Quiet, NEW c \in Companies
  PROVE  RootIn(parent', c) = RootIn(parent, c) /\ (parent'[c] = NoCompany <=> parent[c] = NoCompany)
BY DEF Quiet, SameForest

LEMMA QuietRootsWorth == ASSUME IInv, Quiet PROVE RootsWorth'
BY DEF IInv, Quiet, RootsWorth, SameForest, SameAtRoots, IsRoot

\* Who stays where the company pointed to is, or has it brought up to date.
LEMMA EmployerKept ==
  ASSUME IInv, Quiet, NEW x \in Employees, x \in allTable' <=> x \in allTable,
         company'[x] = company[x] \/ (x \in allTable /\ company'[x] = RootIn(parent, company[x]))
  PROVE  EmployerIn(parent', allTable', company', x) = EmployerIn(parent, allTable, company, x)
<1>1. CASE x \in allTable
  <2>1. company[x] \in Companies
    BY <1>1 DEF IInv, Shape, Employed
  <2>2. Root(company[x]) \in Companies /\ Root(Root(company[x])) = Root(company[x])
    BY <2>1, Heads
  <2>3. RootIn(parent', company'[x]) = RootIn(parent, company[x])
    BY <2>1, <2>2 DEF Quiet, SameForest, Root
  <2> QED BY <1>1, <2>3 DEF EmployerIn
<1>2. CASE x \notin allTable
  BY <1>2 DEF EmployerIn
<1> QED BY <1>1, <1>2

LEMMA RootsInt == ASSUME IInv PROVE \A d \in Companies : parent[d] = NoCompany => value[d] \in Int /\ purchaseFactor[d] \in Int
BY DEF IInv, RootsWorth, IsRoot

LEMMA CompanyRootQuiet ==
  ASSUME IInv, NEW c \in Companies, GetCompanyRoot(c), UNCHANGED <<purchaseFactor, worth>>
  PROVE  Quiet
<1> DEFINE F == Forest
<1>1. F.parent = parent /\ F.value = value
  BY DEF Forest
<1> HIDE DEF F
<1>2. Forested(F.parent) /\ F.value = [d \in Companies |-> F.value[d]]
  BY <1>1 DEF IInv, Shape
<1>3. \A d \in Companies : F.parent[d] = NoCompany => F.value[d] \in Int
  BY <1>1, RootsInt
<1>4. parent' = Shrink(F, c).parent /\ value' = Shrink(F, c).value
  BY DEF GetCompanyRoot, F
<1>5. Forested(parent') /\ SameForest(parent, parent') /\ SameAtRoots(parent, value, value')
  BY <1>1, <1>2, <1>3, <1>4, ShrinkSame
<1>6. SameAtRoots(parent, purchaseFactor, purchaseFactor')
  BY SameFunction DEF IInv, Shape
<1> QED BY <1>5, <1>6 DEF Quiet, Forested

LEMMA EmployerQuiet ==
  ASSUME IInv, NEW e \in Employees, e \in allTable,
         value' = [value EXCEPT ![company[e]] = @ + Passed(parent, company[e])],
         UNCHANGED <<parent, purchaseFactor, worth>>
  PROVE  Quiet
<1>1. company[e] \in Companies
  BY DEF IInv, Shape, Employed
<1>2. value = [d \in Companies |-> value[d]] /\ purchaseFactor = [d \in Companies |-> purchaseFactor[d]]
  BY DEF IInv, Shape
<1>3. SameAtRoots(parent, value, value')
  BY <1>1, <1>2, RootsInt, ChargeSame
<1>4. SameAtRoots(parent, purchaseFactor, purchaseFactor')
  BY <1>2, SameFunction
<1>5. Forested(parent') /\ SameForest(parent, parent')
  BY SameParents DEF IInv
<1> QED BY <1>3, <1>4, <1>5 DEF Quiet, Forested

LEMMA CompanyValueQuiet == ASSUME IInv, NEW c \in Companies, CompanyValue(c) PROVE Quiet
<1>1. /\ parent' = Shrunk(parent, c)
      /\ purchaseFactor' = [purchaseFactor EXCEPT ![c] = @ + Passed(parent, c)]
      /\ UNCHANGED <<value, worth>>
  BY DEF CompanyValue, Root, Shrunk
<1>2. value = [d \in Companies |-> value[d]] /\ purchaseFactor = [d \in Companies |-> purchaseFactor[d]]
  BY DEF IInv, Shape
<1>3. Forested(parent') /\ SameForest(parent, parent')
  BY <1>1, ShrunkForested DEF IInv, SameForest
<1>4. SameAtRoots(parent, purchaseFactor, purchaseFactor')
  BY <1>1, <1>2, RootsInt, ChargeSame
<1>5. SameAtRoots(parent, value, value')
  BY <1>1, <1>2, SameFunction
<1> QED BY <1>1, <1>3, <1>4, <1>5 DEF Quiet, Forested

\* A quiet step that changes no staff.
LEMMA UnstaffedIInv ==
  ASSUME IInv, Quiet, Shape', UNCHANGED <<tableVars, allVars, employeeVars>>
  PROVE  IInv' /\ \A x \in Employees : EmployerIn(parent', allTable', company', x) = EmployerIn(parent, allTable, company, x)
<1>1. UNCHANGED <<table, tree, allTable, allTree, company, salary>>
  BY DEF tableVars, allVars, employeeVars
<1>2. \A x \in Employees : EmployerIn(parent', allTable', company', x) = EmployerIn(parent, allTable, company, x)
  BY <1>1, EmployerKept
<1>3. StaffExact'
  <2>1. ASSUME NEW c \in Companies, parent'[c] = NoCompany
        PROVE  StaffedBy(parent', allTable', company', tree', table', salary', c)
    <3>1. StaffedBy(parent, allTable, company, tree, table, salary, c)
      BY <2>1, QuietHeads, StaffNow DEF IInv
    <3>2. StaffIn(parent', allTable', company', c) = StaffIn(parent, allTable, company, c)
      BY <1>1, <1>2 DEF StaffIn, IInv, Shape
    <3> QED BY <1>1, <3>1, <3>2 DEF StaffedBy
  <2>2. allTree' = {e \in allTable' : salary'[e] > 0}
    BY <1>1, StaffNow DEF IInv
  <2> QED BY <2>1, <2>2, StaffNext
<1>4. Employed'
  BY <1>1 DEF IInv, Employed
<1> QED BY <1>2, <1>3, <1>4, QuietRootsWorth DEF IInv, Quiet, Forested

LEMMA QuietShape ==
  ASSUME IInv, Quiet, table' \in [Companies -> SUBSET Employees], tree' \in [Companies -> SUBSET Employees],
         allTable' \subseteq Employees, company' \in [Employees -> Companies \cup {NoCompany}],
         salary' \in [Employees -> 0..MaxSalary]
  PROVE  Shape'
BY DEF IInv, Shape, Quiet, SameAtRoots

LEMMA QueryIInv ==
  ASSUME IInv, NEW c \in Companies, CompanyValue(c) \/ GroupQuery(c)
  PROVE  IInv' /\ Quiet /\ \A x \in Employees : EmployerIn(parent', allTable', company', x) = EmployerIn(parent, allTable, company, x)
<1>1. Quiet
  BY CompanyValueQuiet, CompanyRootQuiet DEF GroupQuery
<1>2. UNCHANGED <<tableVars, allVars, employeeVars>>
  BY DEF CompanyValue, GroupQuery
<1>3. Shape'
  BY <1>1, <1>2, QuietShape DEF IInv, Shape, tableVars, allVars, employeeVars
<1> QED BY <1>1, <1>2, <1>3, UnstaffedIInv

LEMMA AddEmployeeIInv ==
  ASSUME IInv, NEW e \in Employees, NEW c \in Companies, NEW g, AddEmployee(e, c, g)
  PROVE  /\ IInv' /\ Quiet /\ EmployerIn(parent', allTable', company', e) = Root(c)
         /\ \A x \in Employees : x # e => EmployerIn(parent', allTable', company', x) = EmployerIn(parent, allTable, company, x)
<1> DEFINE r == Root(c)
<1>1. /\ e \notin allTable /\ GetCompanyRoot(c) /\ UNCHANGED <<purchaseFactor, worth, tree, allTree, salary>>
      /\ company' = [company EXCEPT ![e] = r] /\ table' = [table EXCEPT ![r] = @ \cup {e}]
      /\ allTable' = allTable \cup {e}
  BY DEF AddEmployee
<1>2. r \in Companies /\ Root(r) = r /\ r # NoCompany
  BY Heads
<1> HIDE DEF r
<1>3. Quiet
  BY <1>1, CompanyRootQuiet
<1>4. Shape'
  BY <1>1, <1>2, <1>3, QuietShape DEF IInv, Shape
<1>5. Employed'
  BY <1>1, <1>2 DEF IInv, Employed, Shape
<1>6. EmployerIn(parent', allTable', company', e) = r
  <2>1. company'[e] = r /\ e \in allTable'
    BY <1>1 DEF IInv, Shape
  <2>2. RootIn(parent', r) = r
    BY <1>2, <1>3, QuietHeads DEF Root
  <2> QED BY <2>1, <2>2 DEF EmployerIn
<1>7. ASSUME NEW x \in Employees, x # e PROVE EmployerIn(parent', allTable', company', x) = EmployerIn(parent, allTable, company, x)
  <2>1. company'[x] = company[x] /\ (x \in allTable' <=> x \in allTable)
    BY <1>1, <1>7 DEF IInv, Shape
  <2> QED BY <1>3, <2>1, EmployerKept
<1>8. StaffExact'
  <2>1. ASSUME NEW k \in Companies, parent'[k] = NoCompany
        PROVE  StaffedBy(parent', allTable', company', tree', table', salary', k)
    <3> DEFINE staff  == StaffIn(parent, allTable, company, k)
               staff2 == StaffIn(parent', allTable', company', k)
    <3>2. tree[k] = {x \in staff : salary[x] > 0} /\ table[k] \subseteq staff
      BY <1>3, <2>1, QuietHeads, StaffNow DEF IInv, StaffedBy
    <3>3. ~(salary'[e] > 0)
      BY <1>1 DEF IInv, Employed
    <3>4. \A x \in Employees : x # e => (x \in staff2 <=> x \in staff)
      BY <1>1, <1>7 DEF StaffIn
    <3>5. staff2 \subseteq Employees /\ staff \subseteq Employees /\ e \notin staff
      BY <1>1, <1>4 DEF StaffIn, Shape, IInv
    <3>7. k = r => e \in staff2
      BY <1>1, <1>6 DEF StaffIn
    <3>8. table'[k] \subseteq table[k] \cup {e} /\ (k # r => table'[k] = table[k])
      BY <1>1, <1>2 DEF IInv, Shape
    <3> HIDE DEF staff, staff2
    <3>6. tree'[k] = {x \in staff2 : salary'[x] > 0}
      BY <1>1, <3>2, <3>3, <3>4, <3>5
    <3>9. table'[k] \subseteq staff2
      BY <3>2, <3>4, <3>5, <3>7, <3>8
    <3> QED BY <3>6, <3>9 DEF StaffedBy, staff2
  <2>2. allTree' = {x \in allTable' : salary'[x] > 0}
    BY <1>1, StaffNow DEF IInv, Employed
  <2> QED BY <2>1, <2>2, StaffNext
<1> QED BY <1>3, <1>4, <1>5, <1>6, <1>7, <1>8, QuietRootsWorth DEF IInv, Quiet, Forested, r

LEMMA RemoveEmployeeIInv ==
  ASSUME IInv, NEW e \in Employees, RemoveEmployee(e)
  PROVE  /\ IInv' /\ Quiet
         /\ EmployerIn(parent, allTable, company, e) # NoCompany
         /\ EmployerIn(parent', allTable', company', e) = NoCompany
         /\ \A x \in Employees : x # e =>
              EmployerIn(parent', allTable', company', x) = EmployerIn(parent, allTable, company, x)
<1> DEFINE r == Root(company[e])
<1>1. /\ e \in allTable /\ UNCHANGED <<parent, purchaseFactor, worth>>
      /\ value' = [value EXCEPT ![company[e]] = @ + Passed(parent, company[e])]
      /\ tree' = [tree EXCEPT ![r] = @ \ {e}] /\ table' = [table EXCEPT ![r] = @ \ {e}]
      /\ allTable' = allTable \ {e} /\ allTree' = allTree \ {e}
      /\ company' = [company EXCEPT ![e] = NoCompany] /\ salary' = [salary EXCEPT ![e] = 0]
  BY DEF RemoveEmployee, EntriesWithout
<1>2. company[e] \in Companies /\ r \in Companies /\ r # NoCompany
  <2>1. company[e] \in Companies
    BY <1>1 DEF IInv, Shape, Employed
  <2> QED BY <2>1, Heads
<1> HIDE DEF r
<1>3. Quiet
  BY <1>1, EmployerQuiet
<1>4. Shape'
  <2>1. 0 \in 0..MaxSalary
    BY ConstantAssumption
  <2> QED BY <1>1, <1>2, <1>3, <2>1, QuietShape DEF IInv, Shape
<1>5. Employed'
  BY <1>1 DEF IInv, Employed, Shape
<1>6. EmployerIn(parent', allTable', company', e) = NoCompany
  BY <1>1 DEF EmployerIn
<1>7. ASSUME NEW x \in Employees, x # e
      PROVE  EmployerIn(parent', allTable', company', x) = EmployerIn(parent, allTable, company, x)
  BY <1>1, <1>7 DEF IInv, Shape, EmployerIn
<1>8. EmployerIn(parent, allTable, company, e) = r
  BY <1>1 DEF EmployerIn, Root, r
<1>9. StaffExact'
  <2>1. ASSUME NEW k \in Companies, parent'[k] = NoCompany
        PROVE  StaffedBy(parent', allTable', company', tree', table', salary', k)
    <3> DEFINE staff  == StaffIn(parent, allTable, company, k)
               staff2 == StaffIn(parent', allTable', company', k)
    <3>1. tree[k] = {x \in staff : salary[x] > 0} /\ table[k] \subseteq staff
      BY <1>1, <2>1, StaffNow DEF IInv, StaffedBy
    <3>2. \A x \in Employees : x # e => (x \in staff2 <=> x \in staff)
      BY <1>1, <1>7 DEF StaffIn
    <3>3. staff2 \subseteq Employees /\ staff \subseteq Employees /\ e \notin staff2
      BY <1>1, <1>4 DEF StaffIn, Shape, IInv
    <3>4. k # r => e \notin staff
      BY <1>8 DEF StaffIn
    <3>5. /\ tree'[k] = IF k = r THEN tree[k] \ {e} ELSE tree[k]
          /\ table'[k] = IF k = r THEN table[k] \ {e} ELSE table[k]
      BY <1>1, <1>2 DEF IInv, Shape
    <3>6. \A x \in Employees : x # e => salary'[x] = salary[x]
      BY <1>1 DEF IInv, Shape
    <3> HIDE DEF staff, staff2
    <3>7. tree'[k] = {x \in staff2 : salary'[x] > 0}
      BY <3>1, <3>2, <3>3, <3>4, <3>5, <3>6
    <3>8. table'[k] \subseteq staff2
      BY <3>1, <3>2, <3>3, <3>4, <3>5
    <3> QED BY <3>7, <3>8 DEF StaffedBy, staff2
  <2>2. allTree' = {x \in allTable' : salary'[x] > 0}
    BY <1>1, StaffNow DEF IInv, Shape
  <2> QED BY <2>1, <2>2, StaffNext
<1> QED BY <1>1, <1>2, <1>3, <1>4, <1>5, <1>6, <1>7, <1>8, <1>9, QuietRootsWorth DEF IInv, Quiet, Forested

\* An employee's pointer brought up to date, and a salary raised, or not.
LEMMA PaidIInv ==
  ASSUME IInv, NEW e \in Employees, e \in allTable, GetEmployer(e), NEW n \in Nat,
         salary[e] + n <= MaxSalary, salary' = [salary EXCEPT ![e] = @ + n],
         UNCHANGED <<parent, purchaseFactor, table, allTable, worth>>,
         \/ n = 0 /\ UNCHANGED <<tree, allTree>>
         \/ /\ n # 0 /\ allTree' = allTree \cup {e}
            /\ tree' = [tree EXCEPT ![Root(company[e])] = @ \cup {e}]
  PROVE  /\ IInv' /\ Quiet
         /\ \A x \in Employees :
              EmployerIn(parent', allTable', company', x) = EmployerIn(parent, allTable, company, x)
<1> DEFINE r == Root(company[e])
<1>1. /\ value' = [value EXCEPT ![company[e]] = @ + Passed(parent, company[e])]
      /\ company' = [company EXCEPT ![e] = r]
  BY DEF GetEmployer
<1>2. company[e] \in Companies /\ r \in Companies /\ r # NoCompany
  <2>1. company[e] \in Companies
    BY DEF IInv, Shape, Employed
  <2> QED BY <2>1, Heads
<1>3. tree' = IF n = 0 THEN tree ELSE [tree EXCEPT ![r] = @ \cup {e}]
  OBVIOUS
<1>0. r = RootIn(parent, company[e])
  BY DEF Root
<1> HIDE DEF r
<1>4. Quiet
  BY <1>1, EmployerQuiet
<1>5. salary' \in [Employees -> 0..MaxSalary] /\ salary[e] \in 0..MaxSalary /\ salary'[e] = salary[e] + n
  BY ConstantAssumption DEF IInv, Shape
<1>6. Shape'
  BY <1>1, <1>2, <1>3, <1>4, <1>5, QuietShape DEF IInv, Shape
<1>7. Employed'
  BY <1>1, <1>2 DEF IInv, Employed, Shape
<1>8. ASSUME NEW x \in Employees
      PROVE  EmployerIn(parent', allTable', company', x) = EmployerIn(parent, allTable, company, x)
  <2>1. company'[x] = company[x] \/ (x \in allTable /\ company'[x] = RootIn(parent, company[x]))
    BY <1>0, <1>1 DEF IInv, Shape
  <2> QED BY <1>4, <2>1, EmployerKept
<1>9. EmployerIn(parent, allTable, company, e) = r
  BY <1>0 DEF EmployerIn
<1>10. StaffExact'
  <2>1. ASSUME NEW k \in Companies, parent'[k] = NoCompany
        PROVE  StaffedBy(parent', allTable', company', tree', table', salary', k)
    <3> DEFINE staff == StaffIn(parent, allTable, company, k)
    <3>1. tree[k] = {x \in staff : salary[x] > 0} /\ table[k] \subseteq staff /\ staff \subseteq Employees
      BY <2>1, StaffNow DEF IInv, StaffedBy, StaffIn, Shape
    <3>2. StaffIn(parent', allTable', company', k) = staff
      BY <1>8 DEF StaffIn, IInv, Shape
    <3>3. e \in staff <=> k = r
      BY <1>9 DEF StaffIn
    <3>4. tree'[k] = IF n # 0 /\ k = r THEN tree[k] \cup {e} ELSE tree[k]
      BY <1>2, <1>3 DEF IInv, Shape
    <3>5. \A x \in Employees : x # e => salary'[x] = salary[x]
      BY DEF IInv, Shape
    <3> HIDE DEF staff
    <3>6. tree'[k] = {x \in staff : salary'[x] > 0}
      BY <1>5, <3>1, <3>3, <3>4, <3>5
    <3> QED BY <3>1, <3>2, <3>6 DEF StaffedBy
  <2>2. allTree' = {x \in allTable' : salary'[x] > 0}
    <3>1. \A x \in Employees : x # e => salary'[x] = salary[x]
      BY DEF IInv, Shape
    <3>2. allTree = {x \in allTable : salary[x] > 0} /\ allTable \subseteq Employees
      BY StaffNow DEF IInv, Shape
    <3> QED BY <1>5, <3>1, <3>2
  <2> QED BY <2>1, <2>2, StaffNext
<1> QED BY <1>4, <1>6, <1>7, <1>8, <1>10, QuietRootsWorth DEF IInv, Quiet, Forested

LEMMA IncreaseIInv ==
  ASSUME IInv, NEW e \in Employees, NEW n \in 1..MaxSalary, EmployeeSalaryIncrease(e, n)
  PROVE  /\ IInv' /\ Quiet
         /\ \A x \in Employees :
              EmployerIn(parent', allTable', company', x) = EmployerIn(parent, allTable, company, x)
<1>1. n \in Nat /\ n # 0
  BY ConstantAssumption
<1>2. /\ e \in allTable /\ GetEmployer(e) /\ salary[e] + n <= MaxSalary
      /\ salary' = [salary EXCEPT ![e] = @ + n] /\ UNCHANGED <<parent, purchaseFactor, table, allTable, worth>>
      /\ allTree' = allTree \cup {e} /\ tree' = [tree EXCEPT ![Root(company[e])] = @ \cup {e}]
  BY DEF EmployeeSalaryIncrease
<1> QED BY <1>1, <1>2, PaidIInv

LEMMA PromoteIInv ==
  ASSUME IInv, NEW e \in Employees, NEW n, PromoteEmployee(e, n)
  PROVE  /\ IInv' /\ Quiet
         /\ \A x \in Employees :
              EmployerIn(parent', allTable', company', x) = EmployerIn(parent, allTable, company, x)
<1>1. /\ e \in allTable /\ GetEmployer(e)
      /\ UNCHANGED <<parent, purchaseFactor, table, allTable, worth, salary, tree, allTree>>
  BY DEF PromoteEmployee
<1>2. salary[e] \in 0..MaxSalary /\ salary = [salary EXCEPT ![e] = @ + 0] /\ salary[e] + 0 <= MaxSalary
  BY ConstantAssumption DEF IInv, Shape
<1> QED BY <1>1, <1>2, PaidIInv

-----------------------------------------------------------------------------
(* Acquisitions.                                                            *)

\* The acquirer's root is a and the target's t, of two corporations.
Joined(a, t, factor) ==
  /\ Forested(parent')
  /\ \A x \in Companies :
       /\ RootIn(parent', x) = IF RootIn(parent, x) = t THEN a ELSE RootIn(parent, x)
       /\ parent'[x] = NoCompany <=> parent[x] = NoCompany /\ x # t
  /\ SameAtRoots(parent, value, value')
  /\ purchaseFactor' = FactorsAfter(a, t, factor)
  /\ tree' = [tree EXCEPT ![a] = tree[a] \cup tree[t], ![t] = {}]
  /\ \E moved \in SUBSET table[t] : table' = [table EXCEPT ![a] = @ \cup moved, ![t] = {}]
  /\ company' = [e \in Employees |-> IF e \in table[t] THEN a ELSE company[e]]
  /\ worth' = [x \in Companies |-> IF RootIn(parent, x) = a THEN worth[x] + factor * worth[t] ELSE worth[x]]
  /\ UNCHANGED <<allTable, allTree, salary, grade>>

LEMMA AcquireJoins ==
  ASSUME IInv, NEW c \in Companies, NEW d \in Companies, NEW factor, AcquireCompany(c, d, factor)
  PROVE  IF Root(c) = Root(d)
         THEN Quiet /\ UNCHANGED <<size, purchaseFactor, tableVars, allVars, employeeVars>>
         ELSE Joined(Root(c), Root(d), factor) /\ Unite(Root(c), Root(d), factor)
<1>1. PICK first \in {c, d} :
        LET f == Shrink(Shrink(Forest, first), IF first = c THEN d ELSE c)
            a == RootIn(f.parent, c)
            t == RootIn(f.parent, d)
        IN /\ value' = f.value
           /\ IF OneCorporation(a, t)
              THEN /\ parent' = f.parent
                   /\ UNCHANGED <<size, purchaseFactor, tableVars, company, worth>>
              ELSE /\ parent' = ParentsAfter(f.parent, a, t)
                   /\ Unite(a, t, factor)
  BY DEF AcquireCompany
<1> DEFINE other == IF first = c THEN d ELSE c
           F == Forest
           f == Shrink(Shrink(F, first), other)
           a == Root(c)
           t == Root(d)
<1>2. F.parent = parent /\ F.value = value
  BY DEF Forest
<1>3. first \in Companies /\ other \in Companies
  OBVIOUS
<1> HIDE DEF F, other
<1>4. Forested(F.parent) /\ F.value = [x \in Companies |-> F.value[x]]
      /\ \A x \in Companies : F.parent[x] = NoCompany => F.value[x] \in Int
  BY <1>2, RootsInt DEF IInv, Shape
<1>5. Forested(f.parent) /\ SameForest(parent, f.parent) /\ SameAtRoots(parent, value, f.value)
  BY <1>2, <1>3, <1>4, ShrinkTwiceSame
<1> HIDE DEF f
<1>6. RootIn(f.parent, c) = a /\ RootIn(f.parent, d) = t
  BY <1>5 DEF SameForest, Root
<1>7. /\ value' = f.value
      /\ a = t => parent' = f.parent /\ UNCHANGED <<size, purchaseFactor, tableVars, company, worth>>
      /\ a # t => parent' = [f.parent EXCEPT ![t] = a] /\ Unite(a, t, factor)
      /\ UNCHANGED <<allVars, salary, grade>>
  <2>1. UNCHANGED <<allVars, salary, grade>>
    BY DEF AcquireCompany
  <2>2. f = Shrink(Shrink(Forest, first), IF first = c THEN d ELSE c)
    BY DEF f, F, other
  <2> HIDE DEF a, t
  <2> QED BY <1>1, <1>6, <2>1, <2>2 DEF OneCorporation, ParentsAfter
<1>8. /\ a \in Companies /\ t \in Companies
      /\ parent[a] = NoCompany /\ parent[t] = NoCompany
  BY Heads DEF IsRoot
<1>9. CASE a = t
  <2>1. SameAtRoots(parent, purchaseFactor, purchaseFactor')
    BY <1>7, <1>9, SameFunction DEF IInv, Shape
  <2>2. Quiet
    BY <1>5, <1>7, <1>9, <2>1 DEF Quiet, Forested
  <2> QED BY <1>7, <1>9, <2>2 DEF employeeVars
<1>10. CASE a # t
  <2>1. f.parent[a] = NoCompany /\ f.parent[t] = NoCompany
    BY <1>5, <1>8 DEF SameForest
  <2>2. /\ Forested(parent')
        /\ \A x \in Companies :
             /\ RootIn(parent', x) = IF RootIn(f.parent, x) = t THEN a ELSE RootIn(f.parent, x)
             /\ parent'[x] = NoCompany <=> f.parent[x] = NoCompany /\ x # t
    <3> HIDE DEF a, t
    <3> QED BY <1>5, <1>7, <1>8, <1>10, <2>1, LinkedForested
  <2>3. \A x \in Companies :
          /\ RootIn(parent', x) = IF RootIn(parent, x) = t THEN a ELSE RootIn(parent, x)
          /\ parent'[x] = NoCompany <=> parent[x] = NoCompany /\ x # t
    <3> HIDE DEF a, t
    <3> QED BY <1>5, <2>2 DEF SameForest
  <2>4. Unite(a, t, factor)
    BY <1>7, <1>10
  <2>5. /\ purchaseFactor' = FactorsAfter(a, t, factor)
        /\ tree' = [tree EXCEPT ![a] = tree[a] \cup tree[t], ![t] = {}]
        /\ \E moved \in SUBSET table[t] : table' = [table EXCEPT ![a] = @ \cup moved, ![t] = {}]
        /\ company' = [e \in Employees |-> IF e \in table[t] THEN a ELSE company[e]]
        /\ worth' = [x \in Companies |-> IF RootIn(parent, x) = a THEN worth[x] + factor * worth[t] ELSE worth[x]]
    <3> HIDE DEF a, t
    <3>1. IF size[a] >= size[t]
          THEN table' = [table EXCEPT ![a] = @ \cup table[t], ![t] = {}]
          ELSE table' = [table EXCEPT ![a] = @ \cup {}, ![t] = {}]
      BY <2>4 DEF Unite
    <3>2. \E moved \in SUBSET table[t] : table' = [table EXCEPT ![a] = @ \cup moved, ![t] = {}]
      BY <3>1
    <3> QED BY <2>4, <3>2 DEF Unite, TreeMerged, Root
  <2> QED BY <1>5, <1>7, <1>10, <2>2, <2>3, <2>4, <2>5 DEF Joined, allVars
<1> QED BY <1>9, <1>10

LEMMA JoinedIInv ==
  ASSUME IInv, NEW a \in Companies, NEW t \in Companies, a # t, IsRoot(a), IsRoot(t),
         NEW factor \in Nat, Joined(a, t, factor)
  PROVE  /\ IInv'
         /\ \A x \in Employees :
              EmployerIn(parent', allTable', company', x) =
                IF EmployerIn(parent, allTable, company, x) = t THEN a ELSE EmployerIn(parent, allTable, company, x)
<1>1. /\ parent[a] = NoCompany /\ parent[t] = NoCompany /\ RootIn(parent, a) = a /\ RootIn(parent, t) = t
      /\ a # NoCompany
  BY Heads DEF IsRoot, Root
<1>2. /\ Forested(parent')
      /\ \A x \in Companies :
           /\ RootIn(parent', x) = IF RootIn(parent, x) = t THEN a ELSE RootIn(parent, x)
           /\ parent'[x] = NoCompany <=> parent[x] = NoCompany /\ x # t
      /\ company' = [e \in Employees |-> IF e \in table[t] THEN a ELSE company[e]]
      /\ UNCHANGED <<allTable, allTree, salary, grade>>
  BY DEF Joined
<1>3. table[t] \subseteq StaffIn(parent, allTable, company, t)
  BY <1>1, StaffNow DEF IInv, StaffedBy
<1>4. ASSUME NEW x \in Employees
      PROVE  EmployerIn(parent', allTable', company', x) =
               IF EmployerIn(parent, allTable, company, x) = t THEN a ELSE EmployerIn(parent, allTable, company, x)
  <2>1. CASE x \notin allTable
    BY <1>2, <2>1 DEF EmployerIn, Companies, NoCompany
  <2>2. CASE x \in table[t]
    <3>1. x \in allTable /\ EmployerIn(parent, allTable, company, x) = t
      BY <1>3, <2>2 DEF StaffIn
    <3>2. company'[x] = a /\ RootIn(parent', a) = a
      BY <1>1, <1>2, <2>2
    <3> QED BY <1>2, <3>1, <3>2 DEF EmployerIn
  <2>3. CASE x \in allTable /\ x \notin table[t]
    <3>1. company'[x] = company[x] /\ company[x] \in Companies
      BY <1>2, <2>3 DEF IInv, Shape, Employed
    <3> QED BY <1>2, <2>3, <3>1 DEF EmployerIn
  <2> QED BY <2>1, <2>2, <2>3
<1>5. PICK moved \in SUBSET table[t] : table' = [table EXCEPT ![a] = @ \cup moved, ![t] = {}]
  BY DEF Joined
<1>6. tree' = [tree EXCEPT ![a] = tree[a] \cup tree[t], ![t] = {}]
  BY DEF Joined
<1>7. /\ table \in [Companies -> SUBSET Employees] /\ tree \in [Companies -> SUBSET Employees]
      /\ allTable \subseteq Employees
  BY DEF IInv, Shape
<1>8. StaffExact'
  <2>1. ASSUME NEW k \in Companies, parent'[k] = NoCompany
        PROVE  StaffedBy(parent', allTable', company', tree', table', salary', k)
    <3> DEFINE staff(x) == StaffIn(parent, allTable, company, x)
               staff2 == StaffIn(parent', allTable', company', k)
    <3>1. parent[k] = NoCompany /\ k # t
      BY <1>2, <2>1
    <3>2. tree[k] = {x \in staff(k) : salary[x] > 0} /\ table[k] \subseteq staff(k)
      BY <3>1, StaffNow DEF IInv, StaffedBy
    <3>3. tree[t] = {x \in staff(t) : salary[x] > 0} /\ table[t] \subseteq staff(t)
      BY <1>1, StaffNow DEF IInv, StaffedBy
    <3>4. staff2 = IF k = a THEN staff(a) \cup staff(t) ELSE staff(k)
      BY <1>2, <1>4, <1>7, <3>1 DEF StaffIn
    <3>5. tree'[k] = IF k = a THEN tree[a] \cup tree[t] ELSE tree[k]
      BY <1>6, <1>7, <3>1
    <3>6. table'[k] = IF k = a THEN table[a] \cup moved ELSE table[k]
      BY <1>5, <1>7, <3>1
    <3>7. moved \subseteq table[t] /\ salary' = salary
      BY <1>2, <1>5
    <3> HIDE DEF staff, staff2
    <3>8. tree'[k] = {x \in staff2 : salary'[x] > 0}
      BY <3>2, <3>3, <3>4, <3>5, <3>7
    <3>9. table'[k] \subseteq staff2
      BY <3>2, <3>3, <3>4, <3>6, <3>7
    <3> QED BY <3>8, <3>9 DEF StaffedBy, staff2
  <2>2. allTree' = {x \in allTable' : salary'[x] > 0}
    BY <1>2, StaffNow DEF IInv
  <2> QED BY <2>1, <2>2, StaffNext
<1>9. /\ SameAtRoots(parent, value, value') /\ purchaseFactor' = FactorsAfter(a, t, factor)
      /\ worth' = [x \in Companies |-> IF RootIn(parent, x) = a THEN worth[x] + factor * worth[t] ELSE worth[x]]
      /\ purchaseFactor = [x \in Companies |-> purchaseFactor[x]] /\ worth \in [Companies -> Nat]
  BY DEF Joined, IInv, Shape
<1>10. factor * worth[t] \in Nat
  BY <1>9
<1> DEFINE rise == factor * worth[t]
<1>11. \A x \in Companies : parent[x] = NoCompany =>
         value[x] \in Int /\ purchaseFactor[x] \in Int /\ value[x] + purchaseFactor[x] = worth[x]
  BY DEF IInv, RootsWorth, IsRoot
<1>12. purchaseFactor' = [purchaseFactor EXCEPT ![a] = @ + rise, ![t] = @ - (purchaseFactor[a] + rise)]
  <2>1. value[t] + purchaseFactor[t] = worth[t]
    BY <1>1, <1>11
  <2> QED BY <1>9, <2>1 DEF FactorsAfter
<1>13. worth' = [x \in Companies |-> IF RootIn(parent, x) = a THEN worth[x] + rise ELSE worth[x]]
  BY <1>9
<1>14. rise \in Nat
  BY <1>10
<1> HIDE DEF rise
<1>15. RootsWorth'
  <2>1. ASSUME NEW k \in Companies, parent'[k] = NoCompany
        PROVE  value'[k] \in Int /\ purchaseFactor'[k] \in Int /\ value'[k] + purchaseFactor'[k] = worth'[k]
    <3>1. parent[k] = NoCompany /\ k # t /\ RootIn(parent, k) = k
      BY <1>2, <2>1 DEF RootIn
    <3>2. value'[k] = value[k]
      BY <1>9, <3>1 DEF SameAtRoots
    <3>3. purchaseFactor'[k] = IF k = a THEN purchaseFactor[a] + rise ELSE purchaseFactor[k]
      BY <1>9, <1>12, <3>1
    <3>4. worth'[k] = IF k = a THEN worth[a] + rise ELSE worth[k]
      BY <1>13, <3>1
    <3> QED BY <1>9, <1>11, <1>14, <3>1, <3>2, <3>3, <3>4
  <2> QED BY <2>1 DEF RootsWorth, IsRoot
<1>16. Shape'
  <2>1. table' \in [Companies -> SUBSET Employees] /\ tree' \in [Companies -> SUBSET Employees]
    BY <1>5, <1>6, <1>7
  <2>2. value' = [x \in Companies |-> value'[x]]
    BY <1>9 DEF SameAtRoots
  <2>3. purchaseFactor' = [x \in Companies |-> purchaseFactor'[x]]
    BY <1>9, <1>12
  <2>4. worth' \in [Companies -> Nat]
    BY <1>9, <1>13, <1>14
  <2>5. company' \in [Employees -> Companies \cup {NoCompany}]
    BY <1>2 DEF IInv, Shape
  <2> QED BY <1>2, <2>1, <2>2, <2>3, <2>4, <2>5 DEF IInv, Shape
<1>17. Employed'
  <2>1. table[t] \subseteq allTable
    BY <1>3 DEF StaffIn
  <2> QED BY <1>1, <1>2, <2>1 DEF IInv, Employed
<1> QED BY <1>2, <1>4, <1>8, <1>15, <1>16, <1>17 DEF IInv, Forested

-----------------------------------------------------------------------------
(* Every step keeps the invariant.                                          *)

LEMMA AcquireIInv ==
  ASSUME IInv, NEW c \in Companies, NEW d \in Companies, NEW factor \in Factors, AcquireCompany(c, d, factor)
  PROVE  IInv'
<1>1. CASE Root(c) = Root(d)
  <2>1. Quiet /\ UNCHANGED <<tableVars, allVars, employeeVars>>
    BY <1>1, AcquireJoins
  <2>2. Shape'
    BY <2>1, QuietShape DEF IInv, Shape, tableVars, allVars, employeeVars
  <2> QED BY <2>1, <2>2, UnstaffedIInv
<1>2. CASE Root(c) # Root(d)
  <2> DEFINE a == Root(c)
             t == Root(d)
  <2>1. Joined(a, t, factor)
    BY <1>2, AcquireJoins
  <2>2. a \in Companies /\ t \in Companies /\ a # t /\ IsRoot(a) /\ IsRoot(t)
    BY <1>2, Heads
  <2>3. factor \in Nat
    BY ConstantAssumption
  <2> HIDE DEF a, t
  <2> QED BY <2>1, <2>2, <2>3, JoinedIInv
<1> QED BY <1>1, <1>2

LEMMA StutterIInv == ASSUME IInv, UNCHANGED vars PROVE IInv'
<1>1. UNCHANGED <<parent, value, purchaseFactor, table, tree, allTable, allTree, company, salary, worth>>
  BY DEF vars, treeVars, tableVars, allVars, employeeVars
<1>2. Quiet
  BY <1>1, SameFunction, SameParents DEF Quiet, IInv, Shape, Forested
<1>3. UNCHANGED <<tableVars, allVars, employeeVars>>
  BY DEF vars
<1>4. Shape'
  BY <1>1 DEF IInv, Shape
<1> QED BY <1>2, <1>3, <1>4, UnstaffedIInv

LEMMA NextIInv == IInv /\ [Next]_vars => IInv'
<1> SUFFICES ASSUME IInv, [Next]_vars PROVE IInv'
  OBVIOUS
<1>1. ASSUME NEW e \in Employees, NEW c \in Companies, NEW g \in 0..MaxGrade, AddEmployee(e, c, g) PROVE IInv'
  BY <1>1, AddEmployeeIInv
<1>2. ASSUME NEW e \in Employees, RemoveEmployee(e) PROVE IInv'
  BY <1>2, RemoveEmployeeIInv
<1>3. ASSUME NEW e \in Employees, NEW n \in 1..MaxSalary, EmployeeSalaryIncrease(e, n) PROVE IInv'
  BY <1>3, IncreaseIInv
<1>4. ASSUME NEW e \in Employees, NEW n \in 1..MaxGrade, PromoteEmployee(e, n) PROVE IInv'
  BY <1>4, PromoteIInv
<1>5. ASSUME NEW c \in Companies, CompanyValue(c) \/ GroupQuery(c) PROVE IInv'
  BY <1>5, QueryIInv
<1>6. ASSUME NEW c \in Companies, NEW d \in Companies, NEW factor \in Factors, AcquireCompany(c, d, factor) PROVE IInv'
  BY <1>6, AcquireIInv
<1>7. CASE UNCHANGED vars
  BY <1>7, StutterIInv
<1> QED BY <1>1, <1>2, <1>3, <1>4, <1>5, <1>6, <1>7 DEF Next

\* The upside-down tree is a forest, exact at its roots, and everyone employed
\* points into the corporation that has them, whatever calls of library2.cpp come
\* in whatever order.
THEOREM Invariance == Spec => []IInv
BY InitIInv, NextIInv, PTL DEF Spec

\* No chain of acquisitions and shrunk paths makes a cycle of parent pointers:
\* getRoot, which climbs until there is no parent, ends at a root.
THEOREM AcyclicCorrect == Spec => []Acyclic
<1>1. IInv => Acyclic
  BY Heads DEF Acyclic
<1> QED BY <1>1, Invariance, PTL

\* What getValue returns at a root, where CompanyValue and acquireCompany ask,
\* is the value the acquisitions gave the company.
THEOREM RootValueExactCorrect == Spec => []RootValueExact
<1>1. ASSUME IInv, NEW c \in Companies, IsRoot(c) PROVE RealValue(c) = worth[c]
  <2>1. Passed(parent, c) = 0 /\ Root(c) = c
    BY <1>1, PassedNone, Heads DEF IsRoot
  <2>2. value[c] \in Int /\ purchaseFactor[c] \in Int /\ value[c] + purchaseFactor[c] = worth[c]
    BY <1>1 DEF IInv, RootsWorth
  <2>3. RealValue(c) = value[c] + purchaseFactor[c] + 0 + 0
    BY <2>1 DEF RealValue
  <2> QED BY <2>2, <2>3
<1>2. IInv => RootValueExact
  BY <1>1 DEF RootValueExact
<1> QED BY <1>2, Invariance, PTL

\* Though Employee::getEmployer follows cached pointers to companies that are no
\* longer roots, every call finds the tree and the table its employee is in.
THEOREM StaffExactCorrect == Spec => []StaffExact
<1>1. IInv => StaffExact
  BY DEF IInv
<1> QED BY <1>1, Invariance, PTL

-----------------------------------------------------------------------------
(* The companies implement the corporations.                                *)

HeadsIn(par) == [c \in Companies |-> RootIn(par, c)]
EmployersIn(par, all, comp) == [e \in Employees |-> EmployerIn(par, all, comp, e)]

Head      == HeadsIn(parent)
Employers == EmployersIn(parent, allTable, company)
HeadNext  == HeadsIn(parent')
EmployersNext == EmployersIn(parent', allTable', company')

LEMMA EmployedHeads ==
  ASSUME IInv, NEW e \in Employees, e \in allTable
  PROVE  Employers[e] # NoCompany
<1>1. company[e] \in Companies
  BY DEF IInv, Shape, Employed
<1>2. RootIn(parent, company[e]) # NoCompany
  BY <1>1, Heads DEF Root
<1> QED BY <1>2 DEF Employers, EmployersIn, EmployerIn

LEMMA QuietHead == ASSUME Quiet PROVE HeadNext = Head
BY QuietHeads DEF Head, HeadNext, HeadsIn

LEMMA EmployersSame ==
  ASSUME \A x \in Employees : EmployerIn(parent', allTable', company', x) = EmployerIn(parent, allTable, company, x)
  PROVE  EmployersNext = Employers
BY DEF Employers, EmployersNext, EmployersIn

LEMMA AddEmployeeHires ==
  ASSUME IInv, NEW e \in Employees, NEW c \in Companies, NEW g, AddEmployee(e, c, g)
  PROVE  /\ Employers[e] = NoCompany /\ HeadNext = Head
         /\ EmployersNext = [Employers EXCEPT ![e] = Head[c]]
<1>1. /\ Quiet /\ EmployerIn(parent', allTable', company', e) = RootIn(parent, c)
      /\ \A x \in Employees : x # e => EmployerIn(parent', allTable', company', x) = EmployerIn(parent, allTable, company, x)
  BY AddEmployeeIInv DEF Root
<1>2. EmployersNext = [Employers EXCEPT ![e] = Head[c]]
  BY <1>1 DEF Employers, EmployersNext, EmployersIn, Head, HeadsIn
<1>3. Employers[e] = NoCompany
  BY DEF AddEmployee, Employers, EmployersIn, EmployerIn
<1> QED BY <1>1, <1>2, <1>3, QuietHead

LEMMA RemoveEmployeeLeaves ==
  ASSUME IInv, NEW e \in Employees, RemoveEmployee(e)
  PROVE  /\ Employers[e] # NoCompany /\ HeadNext = Head
         /\ EmployersNext = [Employers EXCEPT ![e] = NoCompany]
<1>1. /\ Quiet
      /\ EmployerIn(parent, allTable, company, e) # NoCompany
      /\ EmployerIn(parent', allTable', company', e) = NoCompany
      /\ \A x \in Employees : x # e =>
           EmployerIn(parent', allTable', company', x) = EmployerIn(parent, allTable, company, x)
  BY RemoveEmployeeIInv
<1>2. EmployersNext = [Employers EXCEPT ![e] = NoCompany] /\ Employers[e] # NoCompany
  BY <1>1 DEF Employers, EmployersNext, EmployersIn
<1> QED BY <1>1, <1>2, QuietHead

LEMMA AcquireMoves ==
  ASSUME IInv, NEW c \in Companies, NEW d \in Companies, NEW factor \in Factors, AcquireCompany(c, d, factor)
  PROVE  IF Head[c] = Head[d]
         THEN HeadNext = Head /\ EmployersNext = Employers /\ UNCHANGED <<salary, grade, worth>>
         ELSE /\ HeadNext = [x \in Companies |-> IF Head[x] = Head[d] THEN Head[c] ELSE Head[x]]
              /\ EmployersNext = [e \in Employees |-> IF Employers[e] = Head[d] THEN Head[c] ELSE Employers[e]]
              /\ worth' = [x \in Companies |->
                             IF Head[x] = Head[c] THEN worth[x] + factor * worth[Head[d]] ELSE worth[x]]
              /\ UNCHANGED <<salary, grade>>
<1> DEFINE a == Root(c)
           t == Root(d)
<1>1. a \in Companies /\ t \in Companies /\ IsRoot(a) /\ IsRoot(t)
  BY Heads
<1>2. Head[c] = a /\ Head[d] = t /\ \A x \in Companies : Head[x] = RootIn(parent, x)
  BY DEF Head, HeadsIn, Root
<1>3. IF a = t THEN Quiet /\ UNCHANGED <<tableVars, allVars, employeeVars>> ELSE Joined(a, t, factor)
  BY AcquireJoins
<1> HIDE DEF a, t
<1>4. CASE a = t
  <2>1. Quiet /\ UNCHANGED <<tableVars, allVars, employeeVars>>
    BY <1>3, <1>4
  <2>2. Shape'
    BY <2>1, QuietShape DEF IInv, Shape, tableVars, allVars, employeeVars
  <2>3. HeadNext = Head /\ EmployersNext = Employers
    BY <2>1, <2>2, UnstaffedIInv, QuietHead, EmployersSame
  <2> QED BY <1>2, <1>4, <2>1, <2>3 DEF Quiet, employeeVars
<1>5. CASE a # t
  <2>1. Joined(a, t, factor) /\ factor \in Nat
    BY <1>3, <1>5, ConstantAssumption
  <2>2. \A x \in Employees :
          EmployerIn(parent', allTable', company', x) =
            IF EmployerIn(parent, allTable, company, x) = t THEN a ELSE EmployerIn(parent, allTable, company, x)
    BY <1>1, <1>5, <2>1, JoinedIInv
  <2>3. EmployersNext = [e \in Employees |-> IF Employers[e] = t THEN a ELSE Employers[e]]
    BY <2>2 DEF Employers, EmployersNext, EmployersIn
  <2>4. /\ \A x \in Companies : RootIn(parent', x) = IF RootIn(parent, x) = t THEN a ELSE RootIn(parent, x)
        /\ worth' = [x \in Companies |-> IF RootIn(parent, x) = a THEN worth[x] + factor * worth[t] ELSE worth[x]]
        /\ UNCHANGED <<salary, grade>>
    BY <2>1 DEF Joined
  <2>5. HeadNext = [x \in Companies |-> IF Head[x] = t THEN a ELSE Head[x]]
    BY <2>4 DEF Head, HeadNext, HeadsIn
  <2>6. worth' = [x \in Companies |-> IF Head[x] = a THEN worth[x] + factor * worth[t] ELSE worth[x]]
    BY <1>2, <2>4
  <2> QED BY <1>2, <1>5, <2>3, <2>4, <2>5, <2>6
<1> QED BY <1>4, <1>5

LEMMA InitCorporations == Init => Corporation!Init
<1> SUFFICES ASSUME Init PROVE Corporation!Init
  OBVIOUS
<1>1. [c \in Companies |-> Root(c)] = [c \in Companies |-> c]
  BY DEF Init, Root, RootIn
<1>2. [e \in Employees |-> Employer(e)] = [e \in Employees |-> NoCompany]
  BY DEF Init, Employer
<1> QED BY <1>1, <1>2 DEF Init, Corporation!Init, Corporation!Companies, Companies, Corporation!NoCompany, NoCompany

\* An acquisition inside one corporation and the queries, which only shrink
\* paths, are steps that Corporations does not see.
LEMMA StepCorporations == IInv /\ [Next]_vars => [Corporation!Next]_(Corporation!vars)
<1> SUFFICES ASSUME IInv, [Next]_vars PROVE [Corporation!Next]_(Corporation!vars)
  OBVIOUS
<1>1. ASSUME HeadNext = Head, EmployersNext = Employers, UNCHANGED <<salary, grade, worth>>
      PROVE  UNCHANGED Corporation!vars
  BY <1>1 DEF Corporation!vars, Head, HeadNext, HeadsIn, Employers, EmployersNext, EmployersIn, EmployerIn, Root, Employer
<1>2. ASSUME NEW e \in Employees, NEW c \in Companies, NEW g \in 0..MaxGrade, AddEmployee(e, c, g)
      PROVE  Corporation!Hire(e, c, g)
  <2>1. grade' = [grade EXCEPT ![e] = g] /\ UNCHANGED <<salary, worth>>
    BY <1>2 DEF AddEmployee
  <2>2. /\ Employers[e] = NoCompany /\ HeadNext = Head
        /\ EmployersNext = [Employers EXCEPT ![e] = Head[c]]
    BY <1>2, AddEmployeeHires
  <2> QED BY <2>1, <2>2 DEF Corporation!Hire, Head, HeadNext, HeadsIn, Employers, EmployersNext, EmployersIn,
            EmployerIn, Root, Employer, Corporation!NoCompany, NoCompany
<1>3. ASSUME NEW e \in Employees, RemoveEmployee(e)
      PROVE  Corporation!Leave(e)
  <2>1. salary' = [salary EXCEPT ![e] = 0] /\ grade' = [grade EXCEPT ![e] = 0] /\ worth' = worth
    BY <1>3 DEF RemoveEmployee
  <2>2. /\ Employers[e] # NoCompany /\ HeadNext = Head
        /\ EmployersNext = [Employers EXCEPT ![e] = NoCompany]
    BY <1>3, RemoveEmployeeLeaves
  <2> QED BY <2>1, <2>2 DEF Corporation!Leave, Head, HeadNext, HeadsIn, Employers, EmployersNext, EmployersIn,
            EmployerIn, Root, Employer, Corporation!NoCompany, NoCompany
<1>4. ASSUME NEW e \in Employees, NEW n \in 1..MaxSalary, EmployeeSalaryIncrease(e, n)
      PROVE  Corporation!Raise(e, n)
  <2>1. /\ e \in allTable /\ salary[e] + n <= MaxSalary
        /\ salary' = [salary EXCEPT ![e] = @ + n] /\ UNCHANGED <<grade, worth>>
    BY <1>4 DEF EmployeeSalaryIncrease
  <2>2. Employers[e] # NoCompany /\ HeadNext = Head /\ EmployersNext = Employers
    BY <1>4, <2>1, EmployedHeads, IncreaseIInv, QuietHead, EmployersSame
  <2> QED BY <2>1, <2>2 DEF Corporation!Raise, Head, HeadNext, HeadsIn, Employers, EmployersNext, EmployersIn,
            EmployerIn, Root, Employer, Corporation!NoCompany, NoCompany
<1>5. ASSUME NEW e \in Employees, NEW n \in 1..MaxGrade, PromoteEmployee(e, n)
      PROVE  Corporation!Promote(e, n)
  <2>1. /\ e \in allTable /\ grade[e] + n <= MaxGrade
        /\ grade' = [grade EXCEPT ![e] = @ + n] /\ UNCHANGED <<salary, worth>>
    BY <1>5 DEF PromoteEmployee
  <2>2. Employers[e] # NoCompany /\ HeadNext = Head /\ EmployersNext = Employers
    BY <1>5, <2>1, EmployedHeads, PromoteIInv, QuietHead, EmployersSame
  <2> QED BY <2>1, <2>2 DEF Corporation!Promote, Head, HeadNext, HeadsIn, Employers, EmployersNext, EmployersIn,
            EmployerIn, Root, Employer, Corporation!NoCompany, NoCompany
<1>6. ASSUME NEW c \in Companies, CompanyValue(c) \/ GroupQuery(c)
      PROVE  UNCHANGED Corporation!vars
  <2>1. UNCHANGED <<salary, grade, worth>>
    BY <1>6 DEF CompanyValue, GroupQuery, employeeVars
  <2>2. HeadNext = Head /\ EmployersNext = Employers
    BY <1>6, QueryIInv, QuietHead, EmployersSame
  <2> QED BY <1>1, <2>1, <2>2
<1>7. ASSUME NEW c \in Companies, NEW d \in Companies, NEW factor \in Factors, AcquireCompany(c, d, factor)
      PROVE  Corporation!Acquire(c, d, factor) \/ UNCHANGED Corporation!vars
  <2>1. CASE Head[c] = Head[d]
    BY <1>1, <1>7, <2>1, AcquireMoves
  <2>2. CASE Head[c] # Head[d]
    <3>1. /\ HeadNext = [x \in Companies |-> IF Head[x] = Head[d] THEN Head[c] ELSE Head[x]]
          /\ EmployersNext = [e \in Employees |-> IF Employers[e] = Head[d] THEN Head[c] ELSE Employers[e]]
          /\ worth' = [x \in Companies |->
                         IF Head[x] = Head[c] THEN worth[x] + factor * worth[Head[d]] ELSE worth[x]]
          /\ UNCHANGED <<salary, grade>>
      BY <1>7, <2>2, AcquireMoves
    <3> QED BY <2>2, <3>1 DEF Corporation!Acquire, Head, HeadNext, HeadsIn, Employers, EmployersNext, EmployersIn,
              EmployerIn, Root, Employer, Corporation!Companies, Companies
  <2> QED BY <2>1, <2>2
<1>8. CASE UNCHANGED vars
  <2>1. UNCHANGED <<parent, allTable, company, salary, grade, worth>>
    BY <1>8 DEF vars, treeVars, allVars, employeeVars
  <2>2. HeadNext = Head /\ EmployersNext = Employers
    BY <2>1 DEF Head, HeadNext, Employers, EmployersNext
  <2> QED BY <1>1, <2>1, <2>2
<1> QED BY <1>2, <1>3, <1>4, <1>5, <1>6, <1>7, <1>8 DEF Next, Corporation!Next, Corporation!Companies, Companies

\* Union-find with its cached employer pointers, shrunk lazily and in any order
\* of calls, implements the corporations: everyone is found where the
\* acquisitions put them, whatever the number of companies.
THEOREM ImplementsCorporationsCorrect == Spec => ImplementsCorporations
<1>1. Spec => Corporation!Spec
  BY InitCorporations, StepCorporations, Invariance, PTL DEF Spec, Corporation!Spec
<1> QED BY <1>1 DEF ImplementsCorporations
-----------------------------------------------------------------------------
(* The counters.  Nothing that IInv says of the roots bounds the values of  *)
(* the other companies or the sizes; a second invariant does.               *)

CorporationIn(par, c) == {d \in Companies : RootIn(par, d) = RootIn(par, c)}
UnpaidIn(all, sal)    == {e \in all : sal[e] < 1}

\* A size is at most that of the corporation, though after an acquisition by the
\* smaller company it is the acquired one's size that grows.
Sized(par, sz) ==
  /\ sz \in [Companies -> Nat \ {0}]
  /\ \A c \in Companies : sz[c] <= Cardinality(CorporationIn(par, c))

Numbers ==
  /\ value \in [Companies -> Int] /\ purchaseFactor \in [Companies -> Int]
  /\ numNoSalary \in [Companies -> Int] /\ gradesNoSalary \in [Companies -> Int]
  /\ grade \in [Employees -> 0..MaxGrade]

Counts(num, grades, unpaid, g) == num = Cardinality(unpaid) /\ grades = SumOver(g, unpaid)

Counted ==
  /\ Numbers /\ Sized(parent, size)
  /\ Counts(allNumNoSalary, allGradesNoSalary, UnpaidIn(allTable, salary), grade)

CInv == IInv /\ Counted

LEMMA GradeSums == GradeSum(Unpaid(allTable)) = SumOver(grade, UnpaidIn(allTable, salary))
BY DEF GradeSum, Unpaid, UnpaidIn, SumOver, IsSum, Picked, MapThenSumSet, MapThenFoldSet

LEMMA CompaniesFinite == IsFiniteSet(Companies) /\ Cardinality(Companies) = NumCompanies /\ NumCompanies \in Nat
BY ConstantAssumption, FS_Interval DEF Companies

\* What is passed on the way to the root is a sum over companies.
LEMMA PassedInt ==
  ASSUME purchaseFactor \in [Companies -> Int], NEW par \in Parents, NEW c \in Companies
  PROVE  Passed(par, c) \in Int
<1>1. Between(par, c) \subseteq Companies
  <2> DEFINE s == Climb(par, c)
  <2>1. s \in [0..NumCompanies -> Companies]
    BY ClimbFacts
  <2>2. Between(par, c) \subseteq {s[k] : k \in 1..NumCompanies}
    BY DEF Between
  <2> HIDE DEF s
  <2>3. {s[k] : k \in 1..NumCompanies} \subseteq Companies
    BY <2>1
  <2> QED BY <2>2, <2>3
<1> DEFINE S == Between(par, c)
<1> HIDE DEF S
<1>2. S \subseteq Companies /\ IsFiniteSet(S)
  BY <1>1, CompaniesFinite, FS_Subset DEF S
<1>3. SumOver(purchaseFactor, S) \in Int
  BY <1>2, SumType
<1>4. MapThenSumSet(LAMBDA d : purchaseFactor[d], S) = SumOver(purchaseFactor, S)
  BY DEF SumOver, IsSum, Picked, MapThenSumSet, MapThenFoldSet
<1> QED BY <1>3, <1>4 DEF Passed, S

LEMMA ForestedParents == ASSUME NEW par, Forested(par) PROVE par \in Parents
BY DEF Forested, Ranked

LEMMA ChargeInt ==
  ASSUME NEW f \in [Companies -> Int], NEW c \in Companies, NEW n \in Int
  PROVE  [f EXCEPT ![c] = @ + n] \in [Companies -> Int]
OBVIOUS

LEMMA ShrinkInt ==
  ASSUME purchaseFactor \in [Companies -> Int], NEW F, F.parent \in Parents, F.value \in [Companies -> Int],
         NEW c \in Companies
  PROVE  Shrink(F, c).value \in [Companies -> Int]
<1>1. Passed(F.parent, c) \in Int
  BY PassedInt
<1>2. Shrink(F, c).value = [F.value EXCEPT ![c] = @ + Passed(F.parent, c)]
  BY DEF Shrink
<1> QED BY <1>1, <1>2, ChargeInt

LEMMA ShrinkTwiceInt ==
  ASSUME CInv, NEW c \in Companies, NEW d \in Companies
  PROVE  Shrink(Shrink(Forest, c), d).value \in [Companies -> Int]
<1> DEFINE F == Forest
           E == Shrink(F, c)
<1>1. F.parent = parent /\ F.value = value
  BY DEF Forest
<1>2. Forested(parent) /\ purchaseFactor \in [Companies -> Int] /\ value \in [Companies -> Int]
  BY DEF CInv, IInv, Counted, Numbers
<1>3. \A x \in Companies : F.parent[x] = NoCompany => F.value[x] \in Int
  BY <1>1, <1>2
<1> HIDE DEF F
<1>4. E.value \in [Companies -> Int]
  BY <1>1, <1>2, ForestedParents, ShrinkInt
<1>5. E.parent \in Parents
  BY <1>1, <1>2, <1>3, ShrinkSame, ForestedParents
<1> HIDE DEF E
<1>6. Shrink(E, d).value \in [Companies -> Int]
  BY <1>2, <1>4, <1>5, ShrinkInt
<1> QED BY <1>6 DEF E, F

LEMMA QuietSized ==
  ASSUME Quiet, Sized(parent, size), size' = size
  PROVE  Sized(parent', size')
<1>1. \A c \in Companies : CorporationIn(parent', c) = CorporationIn(parent, c)
  BY QuietHeads DEF CorporationIn
<1> QED BY <1>1 DEF Sized
LEMMA AcquireInt ==
  ASSUME CInv, NEW c \in Companies, NEW d \in Companies, NEW factor, AcquireCompany(c, d, factor)
  PROVE  value' \in [Companies -> Int]
<1>1. \E first \in {c, d} : value' = Shrink(Shrink(Forest, first), IF first = c THEN d ELSE c).value
  BY DEF AcquireCompany
<1> QED BY <1>1, ShrinkTwiceInt

LEMMA CorporationFinite ==
  ASSUME NEW par, NEW c
  PROVE  IsFiniteSet(CorporationIn(par, c)) /\ Cardinality(CorporationIn(par, c)) \in 0..NumCompanies
<1>1. CorporationIn(par, c) \subseteq Companies
  BY DEF CorporationIn
<1> QED BY <1>1, CompaniesFinite, FS_Subset, FS_CardinalityType

\* Whichever of the two sizes grows, the corporation has grown by as much.
LEMMA JoinedSized ==
  ASSUME CInv, NEW a \in Companies, NEW t \in Companies, a # t, IsRoot(a), IsRoot(t),
         NEW factor, Joined(a, t, factor), Unite(a, t, factor)
  PROVE  Sized(parent', size')
<1> DEFINE card(c)  == Cardinality(CorporationIn(parent, c))
           card2(c) == Cardinality(CorporationIn(parent', c))
<1>1. Root(a) = a /\ Root(t) = t
  BY Heads DEF CInv
<1>2. \A x \in Companies : RootIn(parent', x) = IF RootIn(parent, x) = t THEN a ELSE RootIn(parent, x)
  BY DEF Joined
<1>3. \A c \in Companies : CorporationIn(parent, c) \subseteq CorporationIn(parent', c)
  BY <1>2 DEF CorporationIn
<1>4. \A c \in Companies : card(c) <= card2(c) /\ card(c) \in Nat /\ card2(c) \in Nat
  BY <1>3, CorporationFinite, FS_Subset
<1>5. card2(a) = card(a) + card(t) /\ card2(t) = card(a) + card(t)
  <2> DEFINE A == CorporationIn(parent, a)
             T == CorporationIn(parent, t)
  <2>1. CorporationIn(parent', a) = A \cup T /\ CorporationIn(parent', t) = A \cup T /\ A \cap T = {}
    BY <1>1, <1>2 DEF CorporationIn, Root
  <2>2. IsFiniteSet(A) /\ IsFiniteSet(T) /\ Cardinality(A) \in Nat /\ Cardinality(T) \in Nat
    BY CorporationFinite
  <2>3. card(a) = Cardinality(A) /\ card(t) = Cardinality(T)
    OBVIOUS
  <2>4. card2(a) = Cardinality(A \cup T) /\ card2(t) = Cardinality(A \cup T)
    BY <2>1, Zenon
  <2>5. Cardinality(A \cap T) = 0
    BY <2>1, FS_EmptySet, Zenon
  <2> HIDE DEF A, T, card, card2
  <2>6. Cardinality(A \cup T) = Cardinality(A) + Cardinality(T) - Cardinality(A \cap T)
    BY <2>2, FS_Union
  <2> QED BY <2>2, <2>3, <2>4, <2>5, <2>6
<1>6. size \in [Companies -> Nat \ {0}] /\ \A c \in Companies : size[c] <= card(c)
  BY DEF CInv, Counted, Sized
<1>7. \/ size' = [size EXCEPT ![a] = @ + size[t]]
      \/ size' = [size EXCEPT ![t] = @ + size[a]]
  BY DEF Unite
<1> HIDE DEF card, card2
<1>8. size' \in [Companies -> Nat \ {0}] /\ \A c \in Companies : size'[c] <= card2(c)
  BY <1>4, <1>5, <1>6, <1>7
<1> QED BY <1>8 DEF Sized, card2

-----------------------------------------------------------------------------
(* The counters of the global table.                                        *)

LEMMA UnpaidFinite ==
  ASSUME CInv
  PROVE  /\ IsFiniteSet(UnpaidIn(allTable, salary)) /\ UnpaidIn(allTable, salary) \subseteq Employees
         /\ \A S \in SUBSET Employees : IsFiniteSet(S) /\ Cardinality(S) \in Nat
<1>1. UnpaidIn(allTable, salary) \subseteq Employees
  BY DEF CInv, IInv, Shape, UnpaidIn
<1>2. \A S \in SUBSET Employees : IsFiniteSet(S) /\ Cardinality(S) \in Nat
  BY ConstantAssumption, FS_Subset, FS_CardinalityType
<1> QED BY <1>1, <1>2

\* An employee without a salary comes, with a grade; leaves, or gets a salary;
\* gets another grade.
LEMMA CountsAdd ==
  ASSUME NEW S, IsFiniteSet(S), NEW num, NEW grades, NEW g, NEW h, Counts(num, grades, S, g),
         NEW e, e \notin S, \A x \in S : g[x] \in Int /\ h[x] = g[x], h[e] \in Int
  PROVE  Counts(num + 1, grades + h[e], S \cup {e}, h)
<1>1. Cardinality(S \cup {e}) = Cardinality(S) + 1
  BY FS_AddElement
<1>2. SumOver(g, S) = SumOver(h, S)
  BY SumSame
<1>3. SumOver(h, S \cup {e}) = SumOver(h, S) + h[e]
  <2>1. \A x \in S \cup {e} : h[x] \in Int
    OBVIOUS
  <2> QED BY <2>1, SumAdd
<1> QED BY <1>1, <1>2, <1>3 DEF Counts

LEMMA CountsRemove ==
  ASSUME NEW S, IsFiniteSet(S), NEW num, NEW grades, NEW g, NEW h, Counts(num, grades, S, g),
         NEW e \in S, \A x \in S : g[x] \in Int /\ (x # e => h[x] = g[x])
  PROVE  Counts(num - 1, grades - g[e], S \ {e}, h)
<1>1. Cardinality(S \ {e}) = Cardinality(S) - 1 /\ IsFiniteSet(S \ {e})
  BY FS_RemoveElement
<1>2. SumOver(g, S \ {e}) = SumOver(g, S) - g[e]
  BY SumRemove
<1>3. SumOver(g, S \ {e}) = SumOver(h, S \ {e})
  BY <1>1, SumSame
<1> QED BY <1>1, <1>2, <1>3 DEF Counts

LEMMA CountsSame ==
  ASSUME NEW S, IsFiniteSet(S), NEW num, NEW grades, NEW g, NEW h, Counts(num, grades, S, g), \A x \in S : h[x] = g[x]
  PROVE  Counts(num, grades, S, h)
BY SumSame DEF Counts

LEMMA CountsGrade ==
  ASSUME NEW S, IsFiniteSet(S), NEW num, NEW grades, NEW g, NEW h, Counts(num, grades, S, g),
         NEW e \in S, NEW n \in Int, \A x \in S : g[x] \in Int /\ h[x] = IF x = e THEN g[x] + n ELSE g[x]
  PROVE  Counts(num, grades + n, S, h)
<1>1. SumOver(g, S \ {e}) = SumOver(g, S) - g[e] /\ SumOver(h, S \ {e}) = SumOver(h, S) - h[e]
  <2>1. \A x \in S : h[x] \in Int
    OBVIOUS
  <2> QED BY <2>1, SumRemove
<1>2. SumOver(g, S \ {e}) = SumOver(h, S \ {e})
  <2>1. IsFiniteSet(S \ {e}) /\ \A x \in S \ {e} : g[x] = h[x]
    BY FS_RemoveElement
  <2> QED BY <2>1, SumSame
<1>3. SumOver(g, S) \in Int /\ SumOver(h, S) \in Int /\ h[e] = g[e] + n /\ g[e] \in Int
  BY SumType
<1>4. SumOver(h, S) = SumOver(g, S) + n
  <2>1. SumOver(g, S) - g[e] = SumOver(h, S) - h[e]
    BY <1>1, <1>2, Zenon
  <2> QED BY <1>3, <2>1
<1> QED BY <1>4 DEF Counts

Global == Counts(allNumNoSalary, allGradesNoSalary, UnpaidIn(allTable, salary), grade)

LEMMA AddEmployeeCounted ==
  ASSUME CInv, NEW e \in Employees, NEW c \in Companies, NEW g \in 0..MaxGrade, AddEmployee(e, c, g)
  PROVE  Counted'
<1> DEFINE r == Root(c)
           U == UnpaidIn(allTable, salary)
<1>1. /\ e \notin allTable /\ GetCompanyRoot(c) /\ UNCHANGED <<size, purchaseFactor, salary>>
      /\ numNoSalary' = [numNoSalary EXCEPT ![r] = @ + 1] /\ gradesNoSalary' = [gradesNoSalary EXCEPT ![r] = @ + g]
      /\ grade' = [grade EXCEPT ![e] = g] /\ allTable' = allTable \cup {e}
      /\ allNumNoSalary' = allNumNoSalary + 1 /\ allGradesNoSalary' = allGradesNoSalary + g
  BY DEF AddEmployee
<1>2. r \in Companies /\ Quiet
  BY Heads, AddEmployeeIInv DEF CInv
<1> HIDE DEF r
<1>3. /\ value \in [Companies -> Int] /\ purchaseFactor \in [Companies -> Int] /\ grade \in [Employees -> 0..MaxGrade]
      /\ numNoSalary \in [Companies -> Int] /\ gradesNoSalary \in [Companies -> Int] /\ MaxGrade \in Nat
      /\ Forested(parent) /\ Sized(parent, size) /\ Counts(allNumNoSalary, allGradesNoSalary, U, grade)
  BY ConstantAssumption DEF CInv, IInv, Counted, Numbers
<1>4. value' \in [Companies -> Int]
  <2> DEFINE F == Forest
  <2>1. F.parent = parent /\ F.value = value /\ value' = Shrink(F, c).value
    BY <1>1 DEF GetCompanyRoot, Forest
  <2> HIDE DEF F
  <2> QED BY <1>3, <2>1, ForestedParents, ShrinkInt
<1>5. Numbers'
  BY <1>1, <1>2, <1>3, <1>4 DEF Numbers
<1>6. Global'
  <2>1. UnpaidIn(allTable, salary)' = U \cup {e} /\ e \notin U
    <3>1. salary[e] = 0
      BY <1>1 DEF CInv, IInv, Employed
    <3> QED BY <1>1, <3>1 DEF UnpaidIn
  <2>2. IsFiniteSet(U) /\ U \subseteq Employees
    BY UnpaidFinite
  <2>3. grade'[e] = g /\ g \in Int /\ \A x \in U : grade[x] \in Int /\ grade'[x] = grade[x]
    BY <1>1, <1>3, <2>1, <2>2
  <2> HIDE DEF U
  <2>4. Counts(allNumNoSalary + 1, allGradesNoSalary + grade'[e], U \cup {e}, grade')
    BY <1>3, <2>1, <2>2, <2>3, CountsAdd
  <2>5. Counts(allNumNoSalary', allGradesNoSalary', UnpaidIn(allTable, salary)', grade')
    BY <1>1, <2>1, <2>3, <2>4, Zenon
  <2> QED BY <2>5 DEF Global
<1>7. Sized(parent', size')
  BY <1>1, <1>2, <1>3, QuietSized
<1> QED BY <1>5, <1>6, <1>7 DEF Counted, Global, Sized

LEMMA EmployerInt ==
  ASSUME CInv, NEW e \in Employees, e \in allTable
  PROVE  [value EXCEPT ![company[e]] = @ + Passed(parent, company[e])] \in [Companies -> Int]
<1>1. company[e] \in Companies
  BY DEF CInv, IInv, Shape, Employed
<1>2. value \in [Companies -> Int] /\ purchaseFactor \in [Companies -> Int] /\ parent \in Parents
  BY ForestedParents DEF CInv, IInv, Counted, Numbers
<1>3. Passed(parent, company[e]) \in Int
  BY <1>1, <1>2, PassedInt
<1> QED BY <1>1, <1>2, <1>3, ChargeInt

\* The three steps that change an employee: it is taken out of the counters with
\* its grade, or the grade counted changes, or nothing that is counted does.
LEMMA EmployeeCounted ==
  ASSUME CInv, NEW e \in Employees, e \in allTable, Quiet, UNCHANGED <<size, purchaseFactor>>,
         value' = [value EXCEPT ![company[e]] = @ + Passed(parent, company[e])],
         NEW found \in Int, NEW counted \in Int, NEW r \in Companies,
         numNoSalary' = [numNoSalary EXCEPT ![r] = @ - found],
         gradesNoSalary' = [gradesNoSalary EXCEPT ![r] = @ - counted],
         grade' \in [Employees -> 0..MaxGrade], Global'
  PROVE  Counted'
<1>1. numNoSalary \in [Companies -> Int] /\ gradesNoSalary \in [Companies -> Int] /\ Sized(parent, size)
      /\ purchaseFactor \in [Companies -> Int]
  BY DEF CInv, Counted, Numbers
<1>2. value' \in [Companies -> Int]
  BY EmployerInt
<1>3. Numbers'
  BY <1>1, <1>2 DEF Numbers
<1>4. Sized(parent', size')
  BY <1>1, QuietSized
<1> QED BY <1>3, <1>4 DEF Counted, Global, Sized

\* What an employee who leaves, or who is paid, had counted.
LEMMA TakenOut ==
  ASSUME CInv, NEW e \in Employees, e \in allTable,
         NEW n, n = (IF salary[e] < 1 THEN 1 ELSE 0),
         allNumNoSalary' = allNumNoSalary - n, allGradesNoSalary' = allGradesNoSalary - n * grade[e],
         UnpaidIn(allTable, salary)' = UnpaidIn(allTable, salary) \ {e},
         \A x \in Employees : x # e => grade'[x] = grade[x]
  PROVE  Global' /\ n * grade[e] \in Int /\ n \in Int
<1> DEFINE U == UnpaidIn(allTable, salary)
<1>1. /\ IsFiniteSet(U) /\ U \subseteq Employees /\ Counts(allNumNoSalary, allGradesNoSalary, U, grade)
      /\ grade \in [Employees -> 0..MaxGrade] /\ MaxGrade \in Nat
  BY UnpaidFinite, ConstantAssumption DEF CInv, Counted, Numbers
<1>2. e \in U <=> salary[e] < 1
  BY DEF UnpaidIn
<1>3. UnpaidIn(allTable, salary)' = U \ {e}
  OBVIOUS
<1> HIDE DEF U
<1>4. grade[e] \in Int /\ \A x \in U : grade[x] \in Int /\ (x # e => grade'[x] = grade[x])
  BY <1>1
<1>5. Cardinality(U) \in Int /\ SumOver(grade, U) \in Int
  BY <1>1, <1>4, FS_CardinalityType, SumType
<1>6. CASE salary[e] < 1
  <2>1. n = 1 /\ 1 * grade[e] = grade[e]
    BY <1>4, <1>6
  <2>2. Counts(allNumNoSalary - 1, allGradesNoSalary - grade[e], U \ {e}, grade')
    BY <1>1, <1>2, <1>4, <1>6, CountsRemove
  <2>3. Counts(allNumNoSalary', allGradesNoSalary', UnpaidIn(allTable, salary)', grade')
    <3>1. allNumNoSalary' = allNumNoSalary - 1 /\ allGradesNoSalary' = allGradesNoSalary - grade[e]
      BY <2>1
    <3> QED BY <1>3, <2>2, <3>1, Zenon
  <2> QED BY <1>4, <2>1, <2>3 DEF Global
<1>7. CASE ~(salary[e] < 1)
  <2>1. n = 0 /\ 0 * grade[e] = 0
    BY <1>4, <1>7
  <2>2. allNumNoSalary' = allNumNoSalary /\ allGradesNoSalary' = allGradesNoSalary
    BY <1>1, <1>5, <2>1 DEF Counts
  <2>3. U \ {e} = U /\ \A x \in U : grade'[x] = grade[x]
    BY <1>2, <1>4, <1>7
  <2>4. Counts(allNumNoSalary, allGradesNoSalary, U, grade')
    BY <1>1, <2>3, CountsSame
  <2>5. Counts(allNumNoSalary', allGradesNoSalary', UnpaidIn(allTable, salary)', grade')
    BY <1>3, <2>2, <2>3, <2>4, Zenon
  <2> QED BY <2>1, <2>5 DEF Global
<1> QED BY <1>6, <1>7

LEMMA RemoveEmployeeCounted == ASSUME CInv, NEW e \in Employees, RemoveEmployee(e) PROVE Counted'
<1> DEFINE r == Root(company[e])
           n == IF salary[e] < 1 THEN 1 ELSE 0
           found == IF e \in table[r] THEN n ELSE 0
           counted == found * grade[e]
<1>1. /\ e \in allTable /\ UNCHANGED <<size, purchaseFactor>>
      /\ value' = [value EXCEPT ![company[e]] = @ + Passed(parent, company[e])]
      /\ numNoSalary' = [numNoSalary EXCEPT ![r] = @ - found]
      /\ gradesNoSalary' = [gradesNoSalary EXCEPT ![r] = @ - counted]
      /\ allNumNoSalary' = allNumNoSalary - n /\ allGradesNoSalary' = allGradesNoSalary - n * grade[e]
      /\ allTable' = allTable \ {e} /\ salary' = [salary EXCEPT ![e] = 0] /\ grade' = [grade EXCEPT ![e] = 0]
  BY DEF RemoveEmployee
<1>2. r \in Companies /\ Quiet
  <2>1. company[e] \in Companies
    BY <1>1 DEF CInv, IInv, Shape, Employed
  <2> QED BY <2>1, Heads, RemoveEmployeeIInv DEF CInv
<1>3. grade \in [Employees -> 0..MaxGrade] /\ salary \in [Employees -> 0..MaxSalary] /\ MaxGrade \in Nat
  BY ConstantAssumption DEF CInv, IInv, Shape, Counted, Numbers
<1>4. found \in {0, 1} /\ grade[e] \in Int
  BY <1>3
<1>5. counted \in Int
  BY <1>4
<1>6. grade' \in [Employees -> 0..MaxGrade] /\ \A x \in Employees : x # e => grade'[x] = grade[x] /\ salary'[x] = salary[x]
  BY <1>1, <1>3
<1>7. UnpaidIn(allTable, salary)' = UnpaidIn(allTable, salary) \ {e}
  <2>1. allTable \subseteq Employees
    BY DEF CInv, IInv, Shape
  <2> QED BY <1>1, <1>6, <2>1 DEF UnpaidIn
<1>8. Global'
  <2> HIDE DEF r, counted, found
  <2>1. n = (IF salary[e] < 1 THEN 1 ELSE 0)
    OBVIOUS
  <2> HIDE DEF n
  <2> QED BY <1>1, <1>6, <1>7, <2>1, TakenOut
<1> HIDE DEF r, n, found, counted
<1>9. found \in Int
  BY <1>4
<1> QED BY <1>1, <1>2, <1>5, <1>6, <1>8, <1>9, EmployeeCounted

LEMMA IncreaseCounted ==
  ASSUME CInv, NEW e \in Employees, NEW i \in 1..MaxSalary, EmployeeSalaryIncrease(e, i)
  PROVE  Counted'
<1> DEFINE r == Root(company[e])
           n == IF salary[e] < 1 THEN 1 ELSE 0
           counted == n * grade[e]
<1>1. /\ e \in allTable /\ UNCHANGED <<size, purchaseFactor, allTable, grade>>
      /\ value' = [value EXCEPT ![company[e]] = @ + Passed(parent, company[e])]
      /\ numNoSalary' = [numNoSalary EXCEPT ![r] = @ - n]
      /\ gradesNoSalary' = [gradesNoSalary EXCEPT ![r] = @ - counted]
      /\ allNumNoSalary' = allNumNoSalary - n /\ allGradesNoSalary' = allGradesNoSalary - counted
      /\ salary' = [salary EXCEPT ![e] = @ + i]
  BY DEF EmployeeSalaryIncrease, GetEmployer
<1>2. r \in Companies /\ Quiet
  <2>1. company[e] \in Companies
    BY <1>1 DEF CInv, IInv, Shape, Employed
  <2> QED BY <2>1, Heads, IncreaseIInv DEF CInv
<1>3. /\ grade \in [Employees -> 0..MaxGrade] /\ salary \in [Employees -> 0..MaxSalary] /\ MaxSalary \in Nat
      /\ allTable \subseteq Employees
  BY ConstantAssumption DEF CInv, IInv, Shape, Counted, Numbers
<1>4. UnpaidIn(allTable, salary)' = UnpaidIn(allTable, salary) \ {e}
  <2>1. ~(salary'[e] < 1) /\ \A x \in Employees : x # e => salary'[x] = salary[x]
    BY <1>1, <1>3
  <2> QED BY <1>1, <1>3, <2>1 DEF UnpaidIn
<1>5. Global' /\ counted \in Int /\ n \in Int
  <2> HIDE DEF r
  <2>1. n = (IF salary[e] < 1 THEN 1 ELSE 0) /\ counted = n * grade[e]
    OBVIOUS
  <2>2. allNumNoSalary' = allNumNoSalary - n /\ allGradesNoSalary' = allGradesNoSalary - n * grade[e]
    BY <1>1
  <2> HIDE DEF n, counted
  <2>3. Global' /\ n * grade[e] \in Int /\ n \in Int
    BY <1>1, <1>4, <2>1, <2>2, TakenOut
  <2> QED BY <2>1, <2>3
<1>6. grade' \in [Employees -> 0..MaxGrade]
  BY <1>1, <1>3
<1> HIDE DEF r, n, counted
<1> QED BY <1>1, <1>2, <1>5, <1>6, EmployeeCounted

LEMMA PromoteCounted ==
  ASSUME CInv, NEW e \in Employees, NEW bump \in 1..MaxGrade, PromoteEmployee(e, bump)
  PROVE  Counted'
<1> DEFINE r == Root(company[e])
           n == IF salary[e] < 1 THEN bump ELSE 0
           U == UnpaidIn(allTable, salary)
<1>1. /\ e \in allTable /\ UNCHANGED <<size, purchaseFactor, allTable, salary, numNoSalary, allNumNoSalary>>
      /\ value' = [value EXCEPT ![company[e]] = @ + Passed(parent, company[e])]
      /\ gradesNoSalary' = [gradesNoSalary EXCEPT ![r] = @ + n] /\ allGradesNoSalary' = allGradesNoSalary + n
      /\ grade' = [grade EXCEPT ![e] = @ + bump] /\ grade[e] + bump <= MaxGrade
  BY DEF PromoteEmployee, GetEmployer, GradeCounted
<1>2. r \in Companies /\ Quiet
  <2>1. company[e] \in Companies
    BY <1>1 DEF CInv, IInv, Shape, Employed
  <2> QED BY <2>1, Heads, PromoteIInv DEF CInv
<1>3. /\ grade \in [Employees -> 0..MaxGrade] /\ MaxGrade \in Nat /\ bump \in Int
      /\ IsFiniteSet(U) /\ U \subseteq Employees /\ Counts(allNumNoSalary, allGradesNoSalary, U, grade)
      /\ numNoSalary \in [Companies -> Int] /\ gradesNoSalary \in [Companies -> Int]
  BY UnpaidFinite, ConstantAssumption DEF CInv, Counted, Numbers
<1>4. n \in Int /\ grade' \in [Employees -> 0..MaxGrade] /\ \A x \in Employees : grade[x] \in Int
  BY <1>1, <1>3
<1>5. Global'
  <2>1. UnpaidIn(allTable, salary)' = U
    BY <1>1 DEF UnpaidIn
  <2>2. e \in U <=> salary[e] < 1
    BY <1>1 DEF UnpaidIn
  <2> HIDE DEF U, r
  <2>3. \A x \in U : grade[x] \in Int /\ grade'[x] = IF x = e THEN grade[x] + bump ELSE grade[x]
    BY <1>1, <1>3
  <2>4. SumOver(grade, U) \in Int
    BY <1>3, <2>3, SumType
  <2>5. Counts(allNumNoSalary, allGradesNoSalary + n, U, grade')
    <3>1. CASE salary[e] < 1
      BY <1>3, <2>2, <2>3, <3>1, CountsGrade
    <3>2. CASE ~(salary[e] < 1)
      <4>1. \A x \in U : grade'[x] = grade[x]
        BY <2>2, <2>3, <3>2
      <4>2. Counts(allNumNoSalary, allGradesNoSalary, U, grade')
        BY <1>3, <4>1, CountsSame
      <4>3. allGradesNoSalary + n = allGradesNoSalary
        BY <1>3, <2>4, <3>2 DEF Counts
      <4> QED BY <4>2, <4>3
    <3> QED BY <3>1, <3>2
  <2> HIDE DEF n
  <2>6. Counts(allNumNoSalary', allGradesNoSalary', UnpaidIn(allTable, salary)', grade')
    BY <1>1, <2>1, <2>5, Zenon
  <2> QED BY <2>6 DEF Global
<1> HIDE DEF r, n, U
<1>6. /\ numNoSalary' = [numNoSalary EXCEPT ![r] = @ - 0] /\ gradesNoSalary' = [gradesNoSalary EXCEPT ![r] = @ - (0 - n)]
      /\ 0 - n \in Int /\ 0 \in Int
  <2>1. numNoSalary[r] - 0 = numNoSalary[r] /\ [numNoSalary EXCEPT ![r] = numNoSalary[r]] = numNoSalary
    BY <1>2, <1>3
  <2>2. numNoSalary' = [numNoSalary EXCEPT ![r] = @ - 0]
    BY <1>1, <2>1
  <2>3. gradesNoSalary[r] - (0 - n) = gradesNoSalary[r] + n
    BY <1>2, <1>3, <1>4
  <2>4. gradesNoSalary' = [gradesNoSalary EXCEPT ![r] = @ - (0 - n)]
    BY <1>1, <2>3
  <2> QED BY <1>4, <2>2, <2>4
<1> QED BY <1>1, <1>2, <1>4, <1>5, <1>6, EmployeeCounted

LEMMA SameGlobal == ASSUME CInv, UNCHANGED <<allVars, salary, grade>> PROVE Global'
<1>1. UNCHANGED <<allTable, allNumNoSalary, allGradesNoSalary, salary, grade>>
  BY DEF allVars
<1>2. UnpaidIn(allTable, salary)' = UnpaidIn(allTable, salary)
  BY <1>1 DEF UnpaidIn
<1> QED BY <1>1, <1>2 DEF CInv, Counted, Global, Counts

LEMMA QueryCounted ==
  ASSUME CInv, NEW c \in Companies, CompanyValue(c) \/ GroupQuery(c)
  PROVE  Counted'
<1>1. Quiet /\ UNCHANGED <<size, numNoSalary, gradesNoSalary, grade>> /\ Global'
  BY QueryIInv, SameGlobal DEF CInv, CompanyValue, GroupQuery, tableVars, employeeVars
<1>2. /\ value \in [Companies -> Int] /\ purchaseFactor \in [Companies -> Int] /\ parent \in Parents
      /\ Numbers /\ Sized(parent, size)
  BY ForestedParents DEF CInv, IInv, Counted, Numbers
<1>3. value' \in [Companies -> Int] /\ purchaseFactor' \in [Companies -> Int]
  <2>1. CASE CompanyValue(c)
    <3>1. Passed(parent, c) \in Int
      BY <1>2, PassedInt
    <3>2. purchaseFactor' = [purchaseFactor EXCEPT ![c] = @ + Passed(parent, c)] /\ value' = value
      BY <2>1 DEF CompanyValue
    <3> QED BY <1>2, <3>1, <3>2, ChargeInt
  <2>2. CASE GroupQuery(c)
    <3> DEFINE F == Forest
    <3>1. F.parent = parent /\ F.value = value /\ value' = Shrink(F, c).value /\ purchaseFactor' = purchaseFactor
      BY <2>2 DEF GroupQuery, GetCompanyRoot, Forest
    <3> HIDE DEF F
    <3> QED BY <1>2, <3>1, ShrinkInt
  <2> QED BY <2>1, <2>2
<1>4. Sized(parent', size')
  BY <1>1, <1>2, QuietSized
<1> QED BY <1>1, <1>2, <1>3, <1>4 DEF Counted, Global, Sized, Numbers

LEMMA UnpaidSums ==
  ASSUME CInv, NEW S \in SUBSET Employees
  PROVE  Cardinality(Unpaid(S)) \in Int /\ GradeSum(Unpaid(S)) \in Int
<1> DEFINE U == Unpaid(S)
<1>1. U \subseteq Employees
  BY DEF Unpaid
<1>2. IsFiniteSet(U) /\ Cardinality(U) \in Int
  BY <1>1, UnpaidFinite
<1> HIDE DEF U
<1>3. \A x \in U : grade[x] \in Int
  BY <1>1, ConstantAssumption DEF CInv, Counted, Numbers
<1>4. SumOver(grade, U) \in Int
  BY <1>2, <1>3, SumType
<1>5. GradeSum(U) = SumOver(grade, U)
  BY DEF GradeSum, SumOver, IsSum, Picked, MapThenSumSet, MapThenFoldSet
<1> QED BY <1>2, <1>4, <1>5 DEF U

LEMMA UniteNumbers ==
  ASSUME CInv, NEW a \in Companies, NEW t \in Companies, a # t, NEW factor \in Int, Unite(a, t, factor)
  PROVE  /\ purchaseFactor' \in [Companies -> Int]
         /\ numNoSalary' \in [Companies -> Int] /\ gradesNoSalary' \in [Companies -> Int]
<1> DEFINE moved == IF size[a] >= size[t] THEN table[t] ELSE {}
           m == Cardinality(Unpaid(moved))
           s == GradeSum(Unpaid(moved))
           rise == factor * (value[t] + purchaseFactor[t])
<1>1. /\ value \in [Companies -> Int] /\ purchaseFactor \in [Companies -> Int]
      /\ numNoSalary \in [Companies -> Int] /\ gradesNoSalary \in [Companies -> Int]
      /\ table \in [Companies -> SUBSET Employees]
  BY DEF CInv, IInv, Shape, Counted, Numbers
<1>2. moved \in SUBSET Employees
  BY <1>1
<1>3. /\ purchaseFactor' = [purchaseFactor EXCEPT ![a] = @ + rise, ![t] = @ - (purchaseFactor[a] + rise)]
      /\ numNoSalary' = [numNoSalary EXCEPT ![a] = @ + m, ![t] = 0]
      /\ gradesNoSalary' = [gradesNoSalary EXCEPT ![a] = @ + s, ![t] = 0]
  BY DEF Unite, FactorsAfter
<1>4. rise \in Int
  BY <1>1
<1> HIDE DEF moved, rise
<1>5. m \in Int /\ s \in Int
  BY <1>2, UnpaidSums
<1> HIDE DEF m, s
<1> QED BY <1>1, <1>3, <1>4, <1>5

LEMMA AcquireCounted ==
  ASSUME CInv, NEW c \in Companies, NEW d \in Companies, NEW factor \in Factors, AcquireCompany(c, d, factor)
  PROVE  Counted'
<1> DEFINE a == Root(c)
           t == Root(d)
<1>1. IF a = t
      THEN Quiet /\ UNCHANGED <<size, purchaseFactor, tableVars, allVars, employeeVars>>
      ELSE Joined(a, t, factor) /\ Unite(a, t, factor)
  BY AcquireJoins DEF CInv
<1>2. a \in Companies /\ t \in Companies /\ IsRoot(a) /\ IsRoot(t)
  BY Heads DEF CInv
<1>3. value' \in [Companies -> Int] /\ factor \in Int
  BY AcquireInt, ConstantAssumption
<1>4. UNCHANGED <<allVars, salary, grade>> /\ Global'
  BY SameGlobal DEF AcquireCompany
<1>5. Numbers /\ Sized(parent, size)
  BY DEF CInv, Counted
<1> HIDE DEF a, t
<1>6. Numbers' /\ Sized(parent', size')
  <2>1. CASE a = t
    <3>1. Quiet /\ UNCHANGED <<size, purchaseFactor, numNoSalary, gradesNoSalary, grade>>
      BY <1>1, <2>1 DEF tableVars, employeeVars
    <3> QED BY <1>3, <1>5, <3>1, QuietSized DEF Numbers
  <2>2. CASE a # t
    <3>1. Joined(a, t, factor) /\ Unite(a, t, factor)
      BY <1>1, <2>2
    <3>2. Sized(parent', size')
      BY <1>2, <2>2, <3>1, JoinedSized
    <3>3. /\ purchaseFactor' \in [Companies -> Int]
          /\ numNoSalary' \in [Companies -> Int] /\ gradesNoSalary' \in [Companies -> Int]
      BY <1>2, <1>3, <2>2, <3>1, UniteNumbers
    <3> QED BY <1>3, <1>4, <1>5, <3>2, <3>3 DEF Numbers
  <2> QED BY <2>1, <2>2
<1> QED BY <1>4, <1>6 DEF Counted, Global, Sized

LEMMA InitCounted == Init => Counted
<1> SUFFICES ASSUME Init PROVE Counted
  OBVIOUS
<1>1. Numbers
  BY ConstantAssumption DEF Init, Numbers, Companies
<1>2. Sized(parent, size)
  <2>1. ASSUME NEW c \in Companies PROVE size[c] <= Cardinality(CorporationIn(parent, c))
    <3>1. CorporationIn(parent, c) # {} /\ size[c] = 1
      BY <2>1 DEF Init, CorporationIn
    <3> QED BY <3>1, CorporationFinite, FS_EmptySet
  <2>2. size \in [Companies -> Nat \ {0}]
    BY DEF Init
  <2> QED BY <2>1, <2>2 DEF Sized
<1>3. Counts(allNumNoSalary, allGradesNoSalary, UnpaidIn(allTable, salary), grade)
  <2>1. UnpaidIn(allTable, salary) = {} /\ allNumNoSalary = 0 /\ allGradesNoSalary = 0
    BY DEF Init, UnpaidIn
  <2>2. SumOver(grade, {}) = 0 /\ Cardinality({}) = 0
    BY SumEmpty, FS_EmptySet
  <2> QED BY <2>1, <2>2, Zenon DEF Counts
<1> QED BY <1>1, <1>2, <1>3 DEF Counted

LEMMA NextCounted == CInv /\ [Next]_vars => Counted'
<1> SUFFICES ASSUME CInv, [Next]_vars PROVE Counted'
  OBVIOUS
<1>1. ASSUME NEW e \in Employees, NEW c \in Companies, NEW g \in 0..MaxGrade, AddEmployee(e, c, g) PROVE Counted'
  BY <1>1, AddEmployeeCounted
<1>2. ASSUME NEW e \in Employees, RemoveEmployee(e) PROVE Counted'
  BY <1>2, RemoveEmployeeCounted
<1>3. ASSUME NEW e \in Employees, NEW n \in 1..MaxSalary, EmployeeSalaryIncrease(e, n) PROVE Counted'
  BY <1>3, IncreaseCounted
<1>4. ASSUME NEW e \in Employees, NEW n \in 1..MaxGrade, PromoteEmployee(e, n) PROVE Counted'
  BY <1>4, PromoteCounted
<1>5. ASSUME NEW c \in Companies, CompanyValue(c) \/ GroupQuery(c) PROVE Counted'
  BY <1>5, QueryCounted
<1>6. ASSUME NEW c \in Companies, NEW d \in Companies, NEW factor \in Factors, AcquireCompany(c, d, factor) PROVE Counted'
  BY <1>6, AcquireCounted
<1>7. CASE UNCHANGED vars
  <2>1. UNCHANGED <<parent, size, value, purchaseFactor, numNoSalary, gradesNoSalary, grade>> /\ Global'
    BY <1>7, SameGlobal DEF vars, treeVars, tableVars, employeeVars
  <2> QED BY <2>1 DEF CInv, Counted, Global, Numbers, Sized, CorporationIn
<1> QED BY <1>1, <1>2, <1>3, <1>4, <1>5, <1>6, <1>7 DEF Next

\* The counters of the global table, which AddEmployee, RemoveEmployee,
\* EmployeeSalaryIncrease and PromoteEmployee each change in their own way, are
\* the number of the employees without a salary and the sum of their grades,
\* whatever happens to the tables of the companies.
THEOREM CountersExactCorrect == Spec => []CountersExact
<1>1. Spec => []CInv
  BY InitIInv, InitCounted, NextIInv, NextCounted, PTL DEF Spec, CInv
<1>2. ASSUME CInv PROVE TypeOK
  <2>1. parent \in [Companies -> Companies \cup {NoCompany}]
    BY <1>2, ForestedParents DEF CInv, IInv, Parents
  <2>2. size \in [Companies -> Companies]
    <3>1. ASSUME NEW c \in Companies PROVE size[c] \in 1..NumCompanies
      <4>1. size[c] \in Nat \ {0} /\ size[c] <= Cardinality(CorporationIn(parent, c))
        BY <1>2 DEF CInv, Counted, Sized
      <4> QED BY <4>1, CorporationFinite, CompaniesFinite
    <3> QED BY <1>2, <3>1 DEF CInv, Counted, Sized, Companies
  <2>3. allTree \subseteq Employees
    BY <1>2 DEF CInv, IInv, Shape, StaffExact
  <2>4. allNumNoSalary \in Int /\ allGradesNoSalary \in Int
    <3> DEFINE U == UnpaidIn(allTable, salary)
    <3>1. IsFiniteSet(U) /\ U \subseteq Employees /\ Cardinality(U) \in Int
      BY <1>2, UnpaidFinite
    <3>2. Counts(allNumNoSalary, allGradesNoSalary, U, grade)
      BY <1>2 DEF CInv, Counted
    <3> HIDE DEF U
    <3>3. \A x \in U : grade[x] \in Int
      BY <1>2, <3>1, ConstantAssumption DEF CInv, Counted, Numbers
    <3> QED BY <3>1, <3>2, <3>3, SumType DEF Counts
  <2> QED BY <1>2, <2>1, <2>2, <2>3, <2>4 DEF TypeOK, CInv, IInv, Shape, Counted, Numbers
<1>3. ASSUME CInv PROVE CountersExact
  <2>1. Unpaid(allTable) = UnpaidIn(allTable, salary)
    BY DEF Unpaid, UnpaidIn
  <2>2. allNumNoSalary = Cardinality(Unpaid(allTable))
    BY <1>3, <2>1, Zenon DEF CInv, Counted, Counts
  <2>3. allGradesNoSalary = GradeSum(Unpaid(allTable))
    BY <1>3, GradeSums DEF CInv, Counted, Counts
  <2> QED BY <1>2, <1>3, <2>2, <2>3 DEF CountersExact
<1> QED BY <1>1, <1>3, PTL
=============================================================================
