----------------------------- MODULE SetLemmas -----------------------------
(***************************************************************************)
(* Lemmas that the proofs about several components rest on: induction over *)
(* sets of naturals and over the subsets of a finite set, and the sum of a *)
(* function over a finite set, which MapThenSumSet computes element by     *)
(* element in an order that nobody knows.                                  *)
(***************************************************************************)
EXTENDS Integers, FiniteSetsExt, FiniteSetTheorems, WellFoundedInduction, TLAPS

-----------------------------------------------------------------------------
(* Induction.  What is asked of every number, or of every subset, is a set.  *)

LEMMA SetInduction ==
  ASSUME NEW S, 0 \in S, \A n \in Nat : n \in S => n + 1 \in S
  PROVE  Nat \subseteq S
<1>1. SUFFICES ASSUME Nat \ S # {} PROVE FALSE
  OBVIOUS
<1> DEFINE less == OpToRel(<, Nat)
<1>2. PICK n \in Nat \ S : \A k \in Nat \ S : <<k, n>> \notin less
  <2> HIDE DEF less
  <2> QED BY <1>1, NatLessThanWellFounded, WFMin, Zenon DEF less
<1>3. \A k \in Nat \ S : ~(k < n)
  BY <1>2 DEF OpToRel
<1>4. n # 0 /\ n - 1 \in Nat /\ n - 1 < n
  OBVIOUS
<1> QED BY <1>3, <1>4

LEMMA SubsetInduction ==
  ASSUME NEW S, IsFiniteSet(S), NEW F, {} \in F,
         \A T \in SUBSET S : T \in F => \A x \in S \ T : T \cup {x} \in F
  PROVE  SUBSET S \subseteq F
<1> DEFINE N == {n \in Nat : \A T \in SUBSET S : Cardinality(T) = n => T \in F}
<1>1. \A T \in SUBSET S : IsFiniteSet(T) /\ Cardinality(T) \in Nat
  BY FS_Subset, FS_CardinalityType
<1>2. 0 \in N
  BY <1>1, FS_EmptySet
<1>3. ASSUME NEW n \in Nat, n \in N PROVE n + 1 \in N
  <2>1. ASSUME NEW T \in SUBSET S, Cardinality(T) = n + 1 PROVE T \in F
    <3>0. T # {}
      BY <2>1, FS_EmptySet
    <3>1. PICK x \in T : TRUE
      BY <3>0
    <3>2. T \ {x} \in SUBSET S /\ Cardinality(T \ {x}) = n
      BY <1>1, <2>1, FS_RemoveElement
    <3>3. T \ {x} \in F
      BY <1>3, <3>2
    <3>4. (T \ {x}) \cup {x} = T
      OBVIOUS
    <3> QED BY <3>2, <3>3, <3>4
  <2> QED BY <2>1
<1> HIDE DEF N
<1>4. Nat \subseteq N
  BY <1>2, <1>3, SetInduction
<1> QED BY <1>1, <1>4 DEF N

-----------------------------------------------------------------------------
(* Sums.  MapThenSumSet adds the members one at a time, each time the one    *)
(* that CHOOSE picks of those left.                                          *)

Picked(s) == CHOOSE x \in s : TRUE

IsSum(it, f, S) ==
  it = [s \in SUBSET S |-> IF s = {} THEN 0 ELSE f[Picked(s)] + it[s \ {Picked(s)}]]

SumOver(f, S) == (CHOOSE it : IsSum(it, f, S))[S]

LEMMA SumExists ==
  ASSUME NEW f, NEW S, IsFiniteSet(S)
  PROVE  \E it : IsSum(it, f, S)
<1> DEFINE Sub(n) == {s \in SUBSET S : Cardinality(s) <= n}
           Upto(g, n) == g = [s \in Sub(n) |-> IF s = {} THEN 0 ELSE f[Picked(s)] + g[s \ {Picked(s)}]]
           N == {n \in Nat : \E g : Upto(g, n)}
<1>1. \A s \in SUBSET S : /\ IsFiniteSet(s) /\ Cardinality(s) \in Nat /\ Cardinality(s) <= Cardinality(S)
                          /\ Cardinality(s) = 0 <=> s = {}
  BY FS_Subset, FS_CardinalityType, FS_EmptySet
<1>2. \A s \in SUBSET S : s # {} => /\ Picked(s) \in s /\ s \ {Picked(s)} \in SUBSET S
                                    /\ Cardinality(s \ {Picked(s)}) = Cardinality(s) - 1
  BY <1>1, FS_RemoveElement DEF Picked
<1>3. 0 \in N
  <2> DEFINE g == [s \in Sub(0) |-> 0]
  <2>1. \A s \in Sub(0) : s = {}
    BY <1>1
  <2>2. Upto(g, 0)
    BY <2>1
  <2> QED BY <2>2
<1>4. ASSUME NEW n \in Nat, n \in N PROVE n + 1 \in N
  <2>1. PICK g : Upto(g, n)
    BY <1>4
  <2> DEFINE h == [s \in Sub(n + 1) |->
                     IF Cardinality(s) = n + 1 THEN f[Picked(s)] + g[s \ {Picked(s)}] ELSE g[s]]
  <2>2. ASSUME NEW s \in Sub(n + 1)
        PROVE  h[s] = IF s = {} THEN 0 ELSE f[Picked(s)] + h[s \ {Picked(s)}]
    <3>1. s # {} => /\ s \ {Picked(s)} \in Sub(n)
                    /\ Cardinality(s \ {Picked(s)}) # n + 1 /\ h[s \ {Picked(s)}] = g[s \ {Picked(s)}]
      BY <1>1, <1>2
    <3>2. CASE Cardinality(s) = n + 1
      BY <1>1, <3>1, <3>2
    <3>3. CASE Cardinality(s) # n + 1
      <4>1. s \in Sub(n) /\ h[s] = g[s]
        BY <1>1, <3>3
      <4>2. g[s] = IF s = {} THEN 0 ELSE f[Picked(s)] + g[s \ {Picked(s)}]
        BY <2>1, <4>1
      <4> QED BY <3>1, <4>1, <4>2
    <3> QED BY <3>2, <3>3
  <2>3. h = [s \in Sub(n + 1) |-> h[s]]
    OBVIOUS
  <2> HIDE DEF h, Sub
  <2>4. Upto(h, n + 1)
    BY <2>2, <2>3
  <2> HIDE DEF Upto
  <2> QED BY <2>4
<1>5. Nat \subseteq N
  <2> HIDE DEF N
  <2> QED BY <1>3, <1>4, SetInduction
<1>6. PICK it : Upto(it, Cardinality(S))
  BY <1>1, <1>5
<1>7. Sub(Cardinality(S)) = SUBSET S
  BY <1>1
<1> HIDE DEF Sub
<1> QED BY <1>6, <1>7 DEF IsSum

\* Of the members of a set any can be added last.
LEMMA SumStep ==
  ASSUME NEW f, NEW S, IsFiniteSet(S), NEW it, IsSum(it, f, S), \A x \in S : f[x] \in Int
  PROVE  /\ it[{}] = 0
         /\ \A s \in SUBSET S : it[s] \in Int /\ \A x \in s : it[s] = f[x] + it[s \ {x}]
<1> DEFINE P(s) == \A x \in s : it[s] = f[x] + it[s \ {x}]
           I == {n \in Nat : \A s \in SUBSET S : Cardinality(s) = n => it[s] \in Int}
           N == {n \in Nat : \A s \in SUBSET S : Cardinality(s) = n => P(s)}
<1>0. \A s \in SUBSET S : it[s] = IF s = {} THEN 0 ELSE f[Picked(s)] + it[s \ {Picked(s)}]
  BY DEF IsSum
<1>1. \A s \in SUBSET S : IsFiniteSet(s) /\ Cardinality(s) \in Nat /\ (Cardinality(s) = 0 <=> s = {})
  BY FS_Subset, FS_CardinalityType, FS_EmptySet
<1>2. \A s \in SUBSET S : \A x \in s : s \ {x} \in SUBSET S /\ Cardinality(s \ {x}) = Cardinality(s) - 1
  BY <1>1, FS_RemoveElement
<1>3. Nat \subseteq I
  <2>1. 0 \in I
    BY <1>0, <1>1
  <2>2. ASSUME NEW n \in Nat, n \in I PROVE n + 1 \in I
    <3>1. ASSUME NEW s \in SUBSET S, Cardinality(s) = n + 1 PROVE it[s] \in Int
      <4>1. s # {} /\ Picked(s) \in s
        BY <1>1, <3>1 DEF Picked
      <4>2. it[s \ {Picked(s)}] \in Int
        BY <1>2, <2>2, <3>1, <4>1
      <4>3. f[Picked(s)] \in Int
        BY <4>1
      <4> QED BY <1>0, <4>1, <4>2, <4>3
    <3> QED BY <3>1
  <2> HIDE DEF I
  <2> QED BY <2>1, <2>2, SetInduction
<1>4. \A s \in SUBSET S : it[s] \in Int
  BY <1>1, <1>3
<1>5. 0 \in N
  BY <1>1
<1>6. ASSUME NEW n \in Nat, n \in N PROVE n + 1 \in N
  <2>1. ASSUME NEW s \in SUBSET S, Cardinality(s) = n + 1 PROVE P(s)
    <3> DEFINE c == Picked(s)
    <3>1. s # {} /\ c \in s
      BY <1>1, <2>1 DEF Picked
    <3>2. it[s] = f[c] + it[s \ {c}]
      BY <1>0, <3>1
    <3> HIDE DEF c
    <3>3. \A x \in s : P(s \ {x}) /\ s \ {x} \in SUBSET S /\ f[x] \in Int
      BY <1>2, <1>6, <2>1
    <3>4. ASSUME NEW x \in s, x # c PROVE it[s] = f[x] + it[s \ {x}]
      <4>1. it[s \ {c}] = f[x] + it[(s \ {c}) \ {x}] /\ it[s \ {x}] = f[c] + it[(s \ {x}) \ {c}]
        BY <3>1, <3>3, <3>4
      <4>2. (s \ {c}) \ {x} = (s \ {x}) \ {c}
        OBVIOUS
      <4>3. it[(s \ {x}) \ {c}] \in Int /\ f[x] \in Int /\ f[c] \in Int
        BY <1>4, <3>1, <3>3
      <4>4. it[s \ {c}] = f[x] + it[(s \ {x}) \ {c}]
        BY <4>1, <4>2
      <4> QED BY <3>2, <4>1, <4>3, <4>4
    <3> QED BY <3>2, <3>4
  <2> HIDE DEF P
  <2> QED BY <2>1
<1>7. Nat \subseteq N
  <2> HIDE DEF N
  <2> QED BY <1>5, <1>6, SetInduction
<1>8. \A s \in SUBSET S : P(s)
  BY <1>1, <1>7
<1> QED BY <1>0, <1>4, <1>8

\* Two ways of adding the same values of the same set.
LEMMA SumUnique ==
  ASSUME NEW f, NEW g, NEW S, NEW T, IsFiniteSet(S), IsFiniteSet(T), NEW it, NEW jt,
         IsSum(it, f, S), IsSum(jt, g, T), \A x \in S \cap T : f[x] = g[x]
  PROVE  \A s \in SUBSET (S \cap T) : it[s] = jt[s]
<1> DEFINE N == {n \in Nat : \A s \in SUBSET (S \cap T) : Cardinality(s) = n => it[s] = jt[s]}
<1>0. \A s \in SUBSET (S \cap T) : /\ it[s] = IF s = {} THEN 0 ELSE f[Picked(s)] + it[s \ {Picked(s)}]
                                   /\ jt[s] = IF s = {} THEN 0 ELSE g[Picked(s)] + jt[s \ {Picked(s)}]
  BY DEF IsSum
<1>1. \A s \in SUBSET (S \cap T) : IsFiniteSet(s) /\ Cardinality(s) \in Nat /\ (Cardinality(s) = 0 <=> s = {})
  <2>1. \A s \in SUBSET (S \cap T) : IsFiniteSet(s)
    BY FS_Subset
  <2> QED BY <2>1, FS_CardinalityType, FS_EmptySet
<1>2. \A s \in SUBSET (S \cap T) : s # {} =>
        Picked(s) \in s /\ s \ {Picked(s)} \in SUBSET (S \cap T) /\ Cardinality(s \ {Picked(s)}) = Cardinality(s) - 1
  BY <1>1, FS_RemoveElement DEF Picked
<1>3. 0 \in N
  BY <1>0, <1>1
<1>4. ASSUME NEW n \in Nat, n \in N PROVE n + 1 \in N
  <2>1. ASSUME NEW s \in SUBSET (S \cap T), Cardinality(s) = n + 1 PROVE it[s] = jt[s]
    <3>1. s # {}
      BY <1>1, <2>1
    <3>2. it[s \ {Picked(s)}] = jt[s \ {Picked(s)}] /\ f[Picked(s)] = g[Picked(s)]
      BY <1>2, <1>4, <2>1, <3>1
    <3> QED BY <1>0, <3>1, <3>2
  <2> QED BY <2>1
<1>5. Nat \subseteq N
  <2> HIDE DEF N
  <2> QED BY <1>3, <1>4, SetInduction
<1> QED BY <1>1, <1>5

LEMMA SumSame ==
  ASSUME NEW S, IsFiniteSet(S), NEW f, NEW g, \A x \in S : f[x] = g[x]
  PROVE  SumOver(f, S) = SumOver(g, S)
<1> DEFINE it == CHOOSE i : IsSum(i, f, S)
           jt == CHOOSE j : IsSum(j, g, S)
<1>1. IsSum(it, f, S) /\ IsSum(jt, g, S)
  BY SumExists
<1> HIDE DEF it, jt
<1>2. it[S] = jt[S]
  BY <1>1, SumUnique
<1> QED BY <1>2 DEF SumOver, it, jt

LEMMA SumEmpty ==
  ASSUME NEW f
  PROVE  SumOver(f, {}) = 0
<1> DEFINE it == CHOOSE i : IsSum(i, f, {})
<1>1. IsSum(it, f, {})
  BY SumExists, FS_EmptySet
<1> HIDE DEF it
<1>2. it[{}] = 0
  BY <1>1 DEF IsSum
<1> QED BY <1>2 DEF SumOver, it

LEMMA SumAdd ==
  ASSUME NEW S, IsFiniteSet(S), NEW x, x \notin S, NEW f, \A y \in S \cup {x} : f[y] \in Int
  PROVE  SumOver(f, S) \in Int /\ SumOver(f, S \cup {x}) = SumOver(f, S) + f[x]
<1> DEFINE T == S \cup {x}
           it == CHOOSE i : IsSum(i, f, S)
           jt == CHOOSE j : IsSum(j, f, T)
<1>1. IsFiniteSet(T) /\ T \ {x} = S /\ x \in T /\ S \cap T = S
  BY FS_AddElement
<1>2. IsSum(it, f, S) /\ IsSum(jt, f, T)
  BY <1>1, SumExists
<1>3. SumOver(f, S) = it[S] /\ SumOver(f, T) = jt[T]
  BY DEF SumOver
<1> HIDE DEF it, jt, T
<1>4. it[S] = jt[S]
  BY <1>1, <1>2, SumUnique
<1>5. it[S] \in Int
  BY <1>2, SumStep
<1>6. jt[T] = f[x] + jt[T \ {x}]
  BY <1>1, <1>2, SumStep DEF T
<1>7. f[x] \in Int
  OBVIOUS
<1>8. jt[T] = it[S] + f[x]
  <2>1. jt[T \ {x}] = it[S]
    BY <1>1, <1>4, Zenon
  <2> QED BY <1>5, <1>6, <1>7, <2>1
<1> QED BY <1>3, <1>5, <1>8 DEF T

LEMMA SumRemove ==
  ASSUME NEW S, IsFiniteSet(S), NEW x \in S, NEW f, \A y \in S : f[y] \in Int
  PROVE  SumOver(f, S \ {x}) = SumOver(f, S) - f[x]
<1>1. IsFiniteSet(S \ {x}) /\ x \notin S \ {x} /\ (S \ {x}) \cup {x} = S
  BY FS_RemoveElement
<1>2. SumOver(f, S \ {x}) \in Int /\ SumOver(f, S) = SumOver(f, S \ {x}) + f[x]
  BY <1>1, SumAdd
<1> QED BY <1>2

LEMMA SumType ==
  ASSUME NEW S, IsFiniteSet(S), NEW f
  PROVE  /\ (\A y \in S : f[y] \in Int) => SumOver(f, S) \in Int
         /\ (\A y \in S : f[y] \in Nat) => SumOver(f, S) \in Nat
<1>1. ASSUME NEW D \in {Int, Nat}, \A y \in S : f[y] \in D PROVE SumOver(f, S) \in D
  <2> DEFINE F == {T \in SUBSET S : SumOver(f, T) \in D}
  <2>1. {} \in F
    BY SumEmpty
  <2>2. ASSUME NEW T \in SUBSET S, T \in F, NEW x \in S \ T PROVE T \cup {x} \in F
    <3>1. IsFiniteSet(T) /\ \A y \in T \cup {x} : f[y] \in D /\ f[y] \in Int
      BY <1>1, <2>2, FS_Subset
    <3>2. SumOver(f, T \cup {x}) = SumOver(f, T) + f[x]
      BY <3>1, <2>2, SumAdd
    <3> QED BY <2>2, <3>1, <3>2
  <2> HIDE DEF F
  <2>3. SUBSET S \subseteq F
    BY <2>1, <2>2, SubsetInduction
  <2> QED BY <2>3 DEF F
<1> QED BY <1>1

LEMMA SumUnion ==
  ASSUME NEW S, IsFiniteSet(S), NEW T, IsFiniteSet(T), S \cap T = {}, NEW f, \A y \in S \cup T : f[y] \in Int
  PROVE  SumOver(f, S \cup T) = SumOver(f, S) + SumOver(f, T)
<1> DEFINE F == {U \in SUBSET T : SumOver(f, S \cup U) = SumOver(f, S) + SumOver(f, U)}
<1>0. SumOver(f, S) \in Int
  BY SumType
<1>1. {} \in F
  BY <1>0, SumEmpty
<1>2. ASSUME NEW U \in SUBSET T, U \in F, NEW x \in T \ U PROVE U \cup {x} \in F
  <2>1. IsFiniteSet(U) /\ IsFiniteSet(S \cup U)
    BY FS_Subset, FS_Union
  <2>2. SumOver(f, U \cup {x}) = SumOver(f, U) + f[x] /\ SumOver(f, U) \in Int
    BY <2>1, <1>2, SumAdd
  <2>3. SumOver(f, (S \cup U) \cup {x}) = SumOver(f, S \cup U) + f[x]
    <3>1. x \notin S \cup U /\ \A y \in (S \cup U) \cup {x} : f[y] \in Int
      BY <1>2
    <3> QED BY <2>1, <3>1, SumAdd
  <2>4. S \cup (U \cup {x}) = (S \cup U) \cup {x} /\ f[x] \in Int
    OBVIOUS
  <2>5. SumOver(f, S \cup U) = SumOver(f, S) + SumOver(f, U)
    BY <1>2
  <2>6. SumOver(f, S \cup (U \cup {x})) = SumOver(f, S) + SumOver(f, U \cup {x})
    <3>1. SumOver(f, S \cup (U \cup {x})) = SumOver(f, (S \cup U) \cup {x})
      BY <2>4, Zenon
    <3> QED BY <1>0, <2>2, <2>3, <2>4, <2>5, <3>1
  <2> QED BY <2>6
<1> HIDE DEF F
<1>3. SUBSET T \subseteq F
  BY <1>1, <1>2, SubsetInduction
<1> QED BY <1>3 DEF F
====
