------------------------- MODULE AmountSetStrProofs -------------------------
(***************************************************************************)
(* Proofs about the amount sets of strings, for any heap, names and        *)
(* amounts: no node is lost or shared, and the linked lists implement the  *)
(* amount sets of the header.                                              *)
(***************************************************************************)
EXTENDS AmountSetStr, SetLemmas, SequenceTheorems

Addresses == Nodes \cup {Null}
Links     == [Nodes -> Addresses]

LEMMA Constants ==
  /\ NumNodes \in Nat \ {0} /\ NumNames \in Nat /\ MaxAmount \in Nat
  /\ Nodes \subseteq Nat \ {0} /\ Null \notin Nodes /\ NoName \notin Names /\ Names \subseteq Nat \ {0}
  /\ IsFiniteSet(Nodes) /\ Cardinality(Nodes) = NumNodes
  /\ IsFiniteSet(Names)
<1>1. NumNodes \in Nat \ {0} /\ NumNames \in Nat /\ MaxAmount \in Nat
  BY ConstantAssumption
<1> QED BY <1>1, FS_Interval DEF Nodes, Names, Null, NoName

-----------------------------------------------------------------------------
(* Lists.  Chain is a recursive function of the heap; a list is described by *)
(* the sequence of its nodes.                                                *)

IsFrom(f, link, m) ==
  f = [k \in 0..m |-> [x \in Addresses |-> IF k = 0 \/ x = Null THEN <<>> ELSE <<x>> \o f[k - 1][link[x]]]]

LEMMA FromExists ==
  ASSUME NEW link, NEW m \in Nat
  PROVE  \E f : IsFrom(f, link, m)
<1> DEFINE Row(g, k) == [x \in Addresses |-> IF k = 0 \/ x = Null THEN <<>> ELSE <<x>> \o g[k - 1][link[x]]]
           S == {n \in Nat : \E f : f = [k \in 0..n |-> Row(f, k)]}
<1>1. 0 \in S
  <2> DEFINE f == [k \in 0..0 |-> [x \in Addresses |-> <<>>]]
  <2>1. \A k \in 0..0 : Row(f, k) = [x \in Addresses |-> <<>>]
    OBVIOUS
  <2> HIDE DEF Row
  <2>2. f = [k \in 0..0 |-> Row(f, k)]
    BY <2>1
  <2> QED BY <2>2
<1>2. ASSUME NEW n \in Nat, n \in S PROVE n + 1 \in S
  <2>1. PICK f : f = [k \in 0..n |-> Row(f, k)]
    BY <1>2
  <2> DEFINE g == [k \in 0..n + 1 |-> IF k = n + 1 THEN Row(f, n + 1) ELSE f[k]]
  <2>2. ASSUME NEW k \in 0..n + 1 PROVE g[k] = Row(g, k)
    <3>1. CASE k = 0
      <4>1. g[k] = f[k] /\ f[k] = Row(f, k)
        <5> HIDE DEF Row
        <5> QED BY <2>1, <3>1
      <4> QED BY <3>1, <4>1
    <3>2. CASE k # 0
      <4>1. k - 1 \in 0..n /\ g[k - 1] = f[k - 1]
        <5> HIDE DEF Row
        <5> QED BY <3>2
      <4>2. Row(g, k) = Row(f, k)
        BY <4>1
      <4>3. g[k] = Row(f, k)
        <5> HIDE DEF Row
        <5>1. CASE k = n + 1
          BY <5>1
        <5>2. CASE k # n + 1
          <6>1. k \in 0..n /\ g[k] = f[k]
            BY <5>2
          <6> QED BY <2>1, <6>1
        <5> QED BY <5>1, <5>2
      <4> HIDE DEF g, Row
      <4> QED BY <4>2, <4>3
    <3> QED BY <3>1, <3>2
  <2>3. g = [k \in 0..n + 1 |-> g[k]]
    <3> HIDE DEF Row
    <3> QED OBVIOUS
  <2> HIDE DEF g, Row
  <2>4. g = [k \in 0..n + 1 |-> Row(g, k)]
    BY <2>2, <2>3
  <2> QED BY <2>4
<1> HIDE DEF S
<1>3. Nat \subseteq S
  BY <1>1, <1>2, SetInduction
<1> QED BY <1>3 DEF S, IsFrom

LEMMA ChainFrom ==
  ASSUME NEW link
  PROVE  \E f : IsFrom(f, link, NumNodes) /\ \A h : ChainIn(link, h) = f[NumNodes][h]
<1> DEFINE f == CHOOSE f : IsFrom(f, link, NumNodes)
<1>1. IsFrom(f, link, NumNodes)
  BY FromExists, Constants
<1>2. \A h : ChainIn(link, h) = f[NumNodes][h]
  BY DEF ChainIn, IsFrom, Addresses
<1> QED BY <1>1, <1>2

\* The list whose nodes are c: each once, each linked to the next, the last to none.
IsList(link, c) ==
  /\ c \in Seq(Nodes) /\ Len(c) > 0
  /\ \A j, k \in 1..Len(c) : c[j] = c[k] => j = k
  /\ \A k \in 1..Len(c) : link[c[k]] = IF k = Len(c) THEN Null ELSE c[k + 1]

\* What comes after the first j.
Rest(c, j) == [i \in 1..Len(c) - j |-> c[j + i]]

LEMMA FunctionSeq ==
  ASSUME NEW S, NEW n \in Nat, NEW s \in [1..n -> S]
  PROVE  s \in Seq(S) /\ Len(s) = n
OBVIOUS

LEMMA RestPrepends ==
  ASSUME NEW S, NEW c \in Seq(S), NEW j \in 1..Len(c)
  PROVE  <<c[j]>> \o Rest(c, j) = Rest(c, j - 1)
<1>1. Rest(c, j) \in Seq(S) /\ Len(Rest(c, j)) = Len(c) - j
  <2>1. Len(c) - j \in Nat /\ Rest(c, j) \in [1..Len(c) - j -> S]
    BY DEF Rest
  <2> QED BY <2>1, FunctionSeq
<1>2. Rest(c, j - 1) \in Seq(S) /\ Len(Rest(c, j - 1)) = Len(c) - j + 1
  <2>1. Len(c) - (j - 1) \in Nat /\ Rest(c, j - 1) \in [1..Len(c) - (j - 1) -> S]
    BY DEF Rest
  <2> QED BY <2>1, FunctionSeq
<1> DEFINE s == <<c[j]>> \o Rest(c, j)
<1>3. s \in Seq(S) /\ Len(s) = Len(c) - j + 1 /\ s[1] = c[j]
      /\ \A i \in 1..Len(c) - j : s[i + 1] = Rest(c, j)[i]
  BY <1>1
<1> HIDE DEF s
<1>4. \A i \in 1..Len(s) : s[i] = Rest(c, j - 1)[i]
  <2>1. Rest(c, j - 1)[1] = c[j]
    BY DEF Rest
  <2>2. ASSUME NEW i \in 1..Len(c) - j PROVE s[i + 1] = Rest(c, j - 1)[i + 1]
    BY <1>3 DEF Rest
  <2>3. Len(c) \in Nat
    OBVIOUS
  <2>4. \A i \in 1..Len(s) : i = 1 \/ (i - 1 \in 1..Len(c) - j /\ (i - 1) + 1 = i)
    BY <1>3, <2>3
  <2> QED BY <1>3, <2>1, <2>2, <2>4
<1> QED BY <1>2, <1>3, <1>4, SeqEqual DEF s

LEMMA ListFrom ==
  ASSUME NEW link \in Links, NEW c, IsList(link, c), NEW f, IsFrom(f, link, NumNodes)
  PROVE  \A k \in 0..NumNodes : \A j \in 1..Len(c) : Len(c) - j < k => f[k][c[j]] = Rest(c, j - 1)
<1> DEFINE S == {k \in Nat : k \in 0..NumNodes =>
                   \A j \in 1..Len(c) : Len(c) - j < k => f[k][c[j]] = Rest(c, j - 1)}
<1>0. Len(c) \in Nat /\ c \in Seq(Nodes) /\ \A j \in 1..Len(c) : c[j] \in Nodes /\ c[j] # Null
  BY Constants DEF IsList
<1>1. \A k \in 0..NumNodes, x \in Addresses :
         f[k][x] = IF k = 0 \/ x = Null THEN <<>> ELSE <<x>> \o f[k - 1][link[x]]
  <2>1. ASSUME NEW k \in 0..NumNodes
        PROVE  f[k] = [x \in Addresses |-> IF k = 0 \/ x = Null THEN <<>> ELSE <<x>> \o f[k - 1][link[x]]]
    BY DEF IsFrom
  <2> QED BY <2>1
<1>2. 0 \in S
  BY <1>0
<1>3. ASSUME NEW n \in Nat, n \in S PROVE n + 1 \in S
  <2> SUFFICES ASSUME n + 1 \in 0..NumNodes, NEW j \in 1..Len(c), Len(c) - j < n + 1
               PROVE  f[n + 1][c[j]] = Rest(c, j - 1)
    OBVIOUS
  <2>1. n \in 0..NumNodes /\ c[j] \in Addresses /\ Null \in Addresses
    BY <1>0, Constants DEF Addresses
  <2>2. f[n + 1][c[j]] = <<c[j]>> \o f[n][link[c[j]]]
    <3>1. n + 1 # 0 /\ (n + 1) - 1 = n
      OBVIOUS
    <3> QED BY <1>0, <1>1, <2>1, <3>1
  <2>3. f[n][link[c[j]]] = Rest(c, j)
    <3>1. CASE j = Len(c)
      <4>1. link[c[j]] = Null /\ Rest(c, j) = <<>>
        BY <1>0, <3>1 DEF IsList, Rest
      <4> QED BY <1>1, <2>1, <4>1
    <3>2. CASE j # Len(c)
      <4>1. link[c[j]] = c[j + 1] /\ j + 1 \in 1..Len(c) /\ Len(c) - (j + 1) < n /\ (j + 1) - 1 = j
        BY <1>0, <3>2 DEF IsList
      <4> QED BY <1>3, <2>1, <4>1
    <3> QED BY <3>1, <3>2
  <2> QED BY <1>0, <2>2, <2>3, RestPrepends
<1> HIDE DEF S
<1>4. Nat \subseteq S
  BY <1>2, <1>3, SetInduction
<1>5. \A k \in 0..NumNodes : k \in Nat
  BY Constants
<1> QED BY <1>4, <1>5 DEF S

LEMMA ListFits ==
  ASSUME NEW link, NEW c, IsList(link, c)
  PROVE  Len(c) <= NumNodes
<1>1. c \in Injection(1..Len(c), Nodes)
  BY DEF IsList, Injection, IsInjective
<1>2. IsFiniteSet(1..Len(c)) /\ Cardinality(1..Len(c)) = Len(c)
  <2>1. Len(c) \in Nat
    BY DEF IsList
  <2> QED BY <2>1, FS_Interval
<1> QED BY <1>1, <1>2, Constants, FS_Injection DEF ExistsInjection

LEMMA ChainIs ==
  ASSUME NEW link \in Links, NEW c, IsList(link, c)
  PROVE  ChainIn(link, c[1]) = c
<1>1. PICK f : IsFrom(f, link, NumNodes) /\ \A h : ChainIn(link, h) = f[NumNodes][h]
  BY ChainFrom
<1>2. Len(c) \in Nat \ {0} /\ Len(c) <= NumNodes /\ NumNodes \in 0..NumNodes /\ c \in Seq(Nodes)
  BY ListFits, Constants DEF IsList
<1>3. f[NumNodes][c[1]] = Rest(c, 0)
  <2>1. 1 \in 1..Len(c) /\ Len(c) - 1 < NumNodes /\ 1 - 1 = 0
    BY <1>2, Constants
  <2> QED BY <1>1, <1>2, <2>1, ListFrom
<1>4. Rest(c, 0) = c
  BY <1>2 DEF Rest
<1> QED BY <1>1, <1>3, <1>4

-----------------------------------------------------------------------------
(* The inductive invariant, of the fields themselves: a step is about two    *)
(* heaps, and most of each is the same.                                      *)

\* An empty set is its head alone, without name and amount; any other is sorted.
Named(nm, am, c) ==
  \/ Len(c) = 1 /\ nm[c[1]] = NoName /\ am[c[1]] = 0
  \/ /\ \A k \in 1..Len(c) : nm[c[k]] \in Names
     /\ \A j, k \in 1..Len(c) : j < k => nm[c[j]] < nm[c[k]]

SetAt(nm, am, nx, h) ==
  /\ IsList(nx, ChainIn(nx, h)) /\ ChainIn(nx, h)[1] = h
  /\ Named(nm, am, ChainIn(nx, h))

Typed(nm, am, nx) ==
  nm \in [Nodes -> Names \cup {NoName}] /\ am \in [Nodes -> 0..MaxAmount] /\ nx \in Links

\* What is free is blank: asCreate relies on it.
Good(hs, al, nm, am, nx) ==
  /\ al \subseteq Nodes /\ Typed(nm, am, nx)
  /\ \A h \in hs : SetAt(nm, am, nx, h)
  /\ al = UNION {Range(ChainIn(nx, h)) : h \in hs}
  /\ \A g, h \in hs : g # h => Range(ChainIn(nx, g)) \cap Range(ChainIn(nx, h)) = {}
  /\ \A x \in Nodes \ al : nm[x] = NoName /\ am[x] = 0 /\ nx[x] = Null

\* An iterator that the header defines is at the end or at a named node of its set.
GoodCursor(hs, nm, nx, it, df) ==
  /\ df \subseteq hs /\ it \in [Nodes -> Addresses]
  /\ \A h \in df : it[h] # Null => it[h] \in Range(ChainIn(nx, h)) /\ nm[it[h]] \in Names

IInv == Good(heads, allocated, name, amount, next) /\ GoodCursor(heads, name, next, iterator, defined)

-----------------------------------------------------------------------------
(* What one heap says of the amount sets.                                    *)

NoAmounts == [n \in {} |-> 0]

DictionaryOf(nm, am, c) ==
  [n \in {nm[c[k]] : k \in DOMAIN c} \ {NoName} |-> am[c[CHOOSE k \in DOMAIN c : nm[c[k]] = n]]]

AmountsOf(hs, nm, am, nx) == [h \in Nodes |-> IF h \in hs THEN DictionaryOf(nm, am, ChainIn(nx, h)) ELSE NoAmounts]
CursorsOf(nm, it, df) == [h \in Nodes |-> IF h \notin df THEN -1 ELSE IF it[h] = Null THEN NoName ELSE nm[it[h]]]

Amounts == AmountsOf(heads, name, amount, next)
Cursors == CursorsOf(name, iterator, defined)

\* The abstract amount sets, by these names.
LEMMA Mapped ==
  /\ [h \in Nodes |-> IF h \in heads THEN Dictionary(h) ELSE [n \in {} |-> 0]] = Amounts
  /\ [h \in Nodes |-> Cursor(h)] = Cursors
  /\ [h \in Nodes |-> IF h \in heads THEN Dictionary(h) ELSE [n \in {} |-> 0]]' = Amounts'
  /\ [h \in Nodes |-> Cursor(h)]' = Cursors'
BY DEF Amounts, Cursors, AmountsOf, CursorsOf, DictionaryOf, Dictionary, Chain, Cursor, NoAmounts

LEMMA Becoming ==
  ASSUME NEW h, NEW d, NEW c, answer' = Code(c), heads' = heads,
         Amounts' = [Amounts EXCEPT ![h] = d], Cursors' = [Cursors EXCEPT ![h] = -1]
  PROVE  Promised!Becomes(h, d, c)
BY Mapped DEF Promised!Becomes, Promised!Code, Code, Promised!Undefined

-----------------------------------------------------------------------------
(* A call changes one list, and the other lists stay what they were.         *)

LEMMA ListFacts ==
  ASSUME NEW link, NEW c, IsList(link, c)
  PROVE  /\ Len(c) \in Nat \ {0} /\ DOMAIN c = 1..Len(c) /\ \A k \in 1..Len(c) : c[k] \in Nodes
         /\ Range(c) = {c[k] : k \in 1..Len(c)} /\ Range(c) \subseteq Nodes
         /\ link[Last(c)] = Null
BY DEF IsList, Range, Last

LEMMA SameList ==
  ASSUME NEW nx \in Links, NEW nx2 \in Links, NEW h,
         IsList(nx, ChainIn(nx, h)), ChainIn(nx, h)[1] = h,
         \A x \in Range(ChainIn(nx, h)) : nx2[x] = nx[x]
  PROVE  ChainIn(nx2, h) = ChainIn(nx, h) /\ IsList(nx2, ChainIn(nx2, h))
<1> DEFINE c == ChainIn(nx, h)
<1>1. IsList(nx2, c)
  <2>1. \A k \in 1..Len(c) : c[k] \in Range(c)
    BY ListFacts
  <2> HIDE DEF c
  <2> QED BY <2>1 DEF IsList, c
<1> QED BY <1>1, ChainIs

\* The nodes of h, old before, are new after; h may be a set only before, or only after.
Moves(hs, al, nm, am, nx, hs2, al2, nm2, am2, nx2, h, old, new) ==
  /\ Typed(nm2, am2, nx2)
  /\ h \in Nodes /\ hs2 \ {h} = hs \ {h}
  /\ old = (IF h \in hs THEN Range(ChainIn(nx, h)) ELSE {})
  /\ new \subseteq Nodes /\ new \cap al \subseteq old
  /\ IF h \in hs2 THEN SetAt(nm2, am2, nx2, h) /\ Range(ChainIn(nx2, h)) = new ELSE new = {}
  /\ al2 = (al \ old) \cup new
  /\ \A x \in Nodes \ (old \cup new) : nm2[x] = nm[x] /\ am2[x] = am[x] /\ nx2[x] = nx[x]
  /\ \A x \in old \ new : nm2[x] = NoName /\ am2[x] = 0 /\ nx2[x] = Null

\* What does not change for another set.
Keeps(nm, am, nx, nm2, am2, nx2, g) ==
  /\ ChainIn(nx2, g) = ChainIn(nx, g)
  /\ \A x \in Range(ChainIn(nx, g)) : nm2[x] = nm[x] /\ am2[x] = am[x]

LEMMA OneList ==
  ASSUME NEW hs, NEW al, NEW nm, NEW am, NEW nx, Good(hs, al, nm, am, nx),
         NEW hs2, NEW al2, NEW nm2, NEW am2, NEW nx2, NEW h, NEW old, NEW new,
         Moves(hs, al, nm, am, nx, hs2, al2, nm2, am2, nx2, h, old, new)
  PROVE  /\ Good(hs2, al2, nm2, am2, nx2)
         /\ \A g \in hs \ {h} : Keeps(nm, am, nx, nm2, am2, nx2, g)
<1>0. /\ Typed(nm2, am2, nx2) /\ h \in Nodes /\ hs2 \ {h} = hs \ {h}
      /\ old = (IF h \in hs THEN Range(ChainIn(nx, h)) ELSE {})
      /\ new \subseteq Nodes /\ new \cap al \subseteq old
      /\ IF h \in hs2 THEN SetAt(nm2, am2, nx2, h) /\ Range(ChainIn(nx2, h)) = new ELSE new = {}
      /\ al2 = (al \ old) \cup new
      /\ \A x \in Nodes \ (old \cup new) : nm2[x] = nm[x] /\ am2[x] = am[x] /\ nx2[x] = nx[x]
      /\ \A x \in old \ new : nm2[x] = NoName /\ am2[x] = 0 /\ nx2[x] = Null
  BY DEF Moves
<1> DEFINE R(g)  == Range(ChainIn(nx, g))
           R2(g) == Range(ChainIn(nx2, g))
<1>1. /\ al \subseteq Nodes /\ nx \in Links /\ nx2 \in Links
      /\ al = UNION {R(g) : g \in hs}
      /\ \A f, g \in hs : f # g => R(f) \cap R(g) = {}
      /\ \A g \in hs : SetAt(nm, am, nx, g) /\ IsList(nx, ChainIn(nx, g)) /\ ChainIn(nx, g)[1] = g
  BY <1>0 DEF Good, Typed, SetAt
<1>2. \A g \in hs : R(g) \subseteq al /\ R(g) \subseteq Nodes
  BY <1>0, <1>1
<1>3. old \subseteq al
  BY <1>0, <1>2
<1>4. ASSUME NEW g \in hs \ {h}
      PROVE  R(g) \cap old = {} /\ R(g) \cap new = {}
  <2>1. R(g) \subseteq al
    BY <1>0, <1>2
  <2>2. R(g) \cap old = {}
    <3>1. h \in hs => R(g) \cap R(h) = {}
      BY <1>0, <1>1
    <3> QED BY <1>0, <3>1
  <2> HIDE DEF R
  <2> QED BY <1>0, <2>1, <2>2
<1>5. ASSUME NEW g \in hs \ {h}
      PROVE  /\ ChainIn(nx2, g) = ChainIn(nx, g) /\ IsList(nx2, ChainIn(nx2, g)) /\ R2(g) = R(g)
             /\ \A x \in R(g) : nm2[x] = nm[x] /\ am2[x] = am[x] /\ nx2[x] = nx[x]
  <2>1. \A x \in R(g) : nm2[x] = nm[x] /\ am2[x] = am[x] /\ nx2[x] = nx[x]
    BY <1>0, <1>2, <1>4
  <2>2. ChainIn(nx2, g) = ChainIn(nx, g) /\ IsList(nx2, ChainIn(nx2, g))
    BY <1>0, <1>1, <2>1, SameList
  <2> QED BY <1>0, <2>1, <2>2
<1>6. ASSUME NEW g \in hs2 PROVE SetAt(nm2, am2, nx2, g)
  <2>1. CASE g = h
    BY <1>0, <1>6, <2>1
  <2>2. CASE g # h
    <3>1. g \in hs \ {h}
      BY <1>0, <1>6, <2>2
    <3>2. \A k \in 1..Len(ChainIn(nx, g)) : ChainIn(nx, g)[k] \in R(g)
      BY <1>0, <1>1, <3>1, ListFacts
    <3>3. Len(ChainIn(nx, g)) \in Nat \ {0}
      BY <1>0, <1>1, <3>1, ListFacts
    <3>4. Named(nm2, am2, ChainIn(nx, g))
      <4>1. Named(nm, am, ChainIn(nx, g))
        BY <1>0, <1>1, <3>1 DEF SetAt
      <4> QED BY <1>0, <1>5, <3>1, <3>2, <3>3, <4>1 DEF Named
    <3> QED BY <1>0, <1>1, <1>5, <3>1, <3>4 DEF SetAt
  <2> QED BY <1>0, <2>1, <2>2
<1>7. \A f, g \in hs2 : f # g => R2(f) \cap R2(g) = {}
  <2>1. \A f \in hs2 : f # h => f \in hs \ {h} /\ R2(f) = R(f) /\ R(f) \cap new = {}
    BY <1>0, <1>4, <1>5
  <2>2. h \in hs2 => R2(h) = new
    BY <1>0
  <2> HIDE DEF R, R2
  <2> QED BY <1>0, <1>1, <2>1, <2>2
<1>8. al2 = UNION {R2(g) : g \in hs2}
  <2>1. ASSUME NEW x \in al2 PROVE \E g \in hs2 : x \in R2(g)
    <3>1. CASE x \in new
      BY <1>0, <3>1
    <3>2. CASE x \in al \ old
      <4>1. PICK g \in hs : x \in R(g)
        BY <1>0, <1>1, <3>2
      <4>2. g # h
        BY <1>0, <3>2, <4>1
      <4> QED BY <1>0, <1>5, <4>1, <4>2
    <3> QED BY <1>0, <2>1, <3>1, <3>2
  <2>2. ASSUME NEW g \in hs2, NEW x \in R2(g) PROVE x \in al2
    <3>1. CASE g = h
      BY <1>0, <2>2, <3>1
    <3>2. CASE g # h
      <4>1. g \in hs \ {h}
        BY <1>0, <2>2, <3>2
      <4>2. x \in R(g)
        BY <1>0, <1>5, <2>2, <4>1
      <4> QED BY <1>0, <1>2, <1>4, <4>1, <4>2
    <3> QED BY <1>0, <3>1, <3>2
  <2> HIDE DEF R2
  <2> QED BY <1>0, <2>1, <2>2
<1>9. \A x \in Nodes \ al2 : nm2[x] = NoName /\ am2[x] = 0 /\ nx2[x] = Null
  <2>1. \A x \in Nodes \ al : nm[x] = NoName /\ am[x] = 0 /\ nx[x] = Null
    BY <1>0 DEF Good
  <2>2. \A x \in Nodes \ al2 : x \in old \ new \/ (x \notin al /\ x \notin old \cup new)
    BY <1>0, <1>3
  <2> QED BY <1>0, <2>1, <2>2
<1>10. al2 \subseteq Nodes
  BY <1>0, <1>1
<1>11. Good(hs2, al2, nm2, am2, nx2)
  BY <1>0, <1>6, <1>7, <1>8, <1>9, <1>10 DEF Good
<1> QED BY <1>5, <1>11 DEF Keeps

\* The dictionary of a list, by what it says of each node.
Says(nm, am, c, d) ==
  /\ d = [n \in DOMAIN d |-> d[n]]
  /\ DOMAIN d = {nm[c[k]] : k \in 1..Len(c)} \ {NoName}
  /\ \A k \in 1..Len(c) : nm[c[k]] # NoName => d[nm[c[k]]] = am[c[k]]

\* In a set no two nodes have one name.
LEMMA NamesDiffer ==
  ASSUME NEW nm, NEW am, NEW c, Len(c) \in Nat \ {0}, Named(nm, am, c)
  PROVE  \A j, k \in 1..Len(c) : nm[c[j]] = nm[c[k]] => j = k
<1>1. CASE Len(c) = 1
  BY <1>1
<1>2. CASE Len(c) # 1
  <2>1. \A k \in 1..Len(c) : nm[c[k]] \in Nat
    BY <1>2, Constants DEF Named
  <2>2. \A j, k \in 1..Len(c) : j < k => nm[c[j]] < nm[c[k]]
    BY <1>2 DEF Named
  <2>3. ASSUME NEW j \in 1..Len(c), NEW k \in 1..Len(c), nm[c[j]] = nm[c[k]] PROVE j = k
    <3>1. ~(j < k) /\ ~(k < j)
      BY <2>1, <2>2, <2>3
    <3> QED BY <3>1
  <2> QED BY <2>3
<1> QED BY <1>1, <1>2

LEMMA DictionaryIs ==
  ASSUME NEW nm, NEW am, NEW c, Len(c) \in Nat \ {0}, DOMAIN c = 1..Len(c), Named(nm, am, c), NEW d
  PROVE  Says(nm, am, c, d) <=> d = DictionaryOf(nm, am, c)
<1> DEFINE e == DictionaryOf(nm, am, c)
           At(n) == CHOOSE k \in DOMAIN c : nm[c[k]] = n
<1>1. \A k \in 1..Len(c) : At(nm[c[k]]) = k
  <2>1. \A k \in 1..Len(c) : At(nm[c[k]]) \in 1..Len(c) /\ nm[c[At(nm[c[k]])]] = nm[c[k]]
    OBVIOUS
  <2> HIDE DEF At
  <2>2. \A j, k \in 1..Len(c) : nm[c[j]] = nm[c[k]] => j = k
    BY NamesDiffer
  <2>3. ASSUME NEW k \in 1..Len(c) PROVE At(nm[c[k]]) = k
    <3>1. At(nm[c[k]]) \in 1..Len(c) /\ nm[c[At(nm[c[k]])]] = nm[c[k]]
      BY <2>1
    <3> QED BY <2>2, <3>1
  <2> QED BY <2>3
<1>2. e = [n \in {nm[c[k]] : k \in 1..Len(c)} \ {NoName} |-> am[c[At(n)]]]
  BY DEF DictionaryOf
<1> HIDE DEF At
<1>3. Says(nm, am, c, e)
  <2> HIDE DEF e
  <2> QED BY <1>1, <1>2 DEF Says
<1>4. ASSUME Says(nm, am, c, d) PROVE d = e
  <2>1. DOMAIN d = DOMAIN e /\ d = [n \in DOMAIN d |-> d[n]] /\ e = [n \in DOMAIN e |-> e[n]]
    BY <1>3, <1>4 DEF Says
  <2>2. \A n \in DOMAIN d : d[n] = e[n]
    <3> HIDE DEF e
    <3> QED BY <1>3, <1>4 DEF Says
  <2> HIDE DEF e
  <2> QED BY <2>1, <2>2
<1> QED BY <1>3, <1>4

\* Then the amounts of that set change, and no others.
Tells(hs, nm, am, nx, hs2, nm2, am2, nx2, h, d) ==
  /\ h \in Nodes /\ hs2 \ {h} = hs \ {h}
  /\ \A g \in hs \ {h} : Keeps(nm, am, nx, nm2, am2, nx2, g)
  /\ IF h \in hs2 THEN Says(nm2, am2, ChainIn(nx2, h), d) ELSE d = NoAmounts

LEMMA OneDictionary ==
  ASSUME NEW hs, NEW al, NEW nm, NEW am, NEW nx, Good(hs, al, nm, am, nx),
         NEW hs2, NEW al2, NEW nm2, NEW am2, NEW nx2, Good(hs2, al2, nm2, am2, nx2),
         NEW h, NEW d, Tells(hs, nm, am, nx, hs2, nm2, am2, nx2, h, d)
  PROVE  AmountsOf(hs2, nm2, am2, nx2) = [AmountsOf(hs, nm, am, nx) EXCEPT ![h] = d]
<1>0. /\ \A g \in hs : SetAt(nm, am, nx, g)
      /\ \A g \in hs2 : SetAt(nm2, am2, nx2, g)
      /\ h \in Nodes /\ hs2 \ {h} = hs \ {h}
      /\ \A g \in hs \ {h} : Keeps(nm, am, nx, nm2, am2, nx2, g)
      /\ IF h \in hs2 THEN Says(nm2, am2, ChainIn(nx2, h), d) ELSE d = NoAmounts
  BY DEF Good, Tells
<1> DEFINE A(g) == IF g \in hs THEN DictionaryOf(nm, am, ChainIn(nx, g)) ELSE NoAmounts
           A2(g) == IF g \in hs2 THEN DictionaryOf(nm2, am2, ChainIn(nx2, g)) ELSE NoAmounts
<1>1. \A g \in hs : /\ Len(ChainIn(nx, g)) \in Nat \ {0} /\ DOMAIN ChainIn(nx, g) = 1..Len(ChainIn(nx, g))
                    /\ Named(nm, am, ChainIn(nx, g))
                    /\ \A k \in 1..Len(ChainIn(nx, g)) : ChainIn(nx, g)[k] \in Range(ChainIn(nx, g))
  BY <1>0, ListFacts DEF SetAt
<1>2. \A g \in hs2 : /\ Len(ChainIn(nx2, g)) \in Nat \ {0} /\ DOMAIN ChainIn(nx2, g) = 1..Len(ChainIn(nx2, g))
                     /\ Named(nm2, am2, ChainIn(nx2, g))
  BY <1>0, ListFacts DEF SetAt
<1>3. A2(h) = d
  BY <1>0, <1>2, DictionaryIs
<1>4. ASSUME NEW g \in Nodes \ {h} PROVE A2(g) = A(g)
  <2>1. CASE g \in hs
    <3> DEFINE c == ChainIn(nx, g)
    <3>0. Keeps(nm, am, nx, nm2, am2, nx2, g)
      BY <1>0, <2>1
    <3>1. g \in hs2 /\ ChainIn(nx2, g) = c
      BY <1>0, <2>1, <3>0 DEF Keeps
    <3>2. Says(nm, am, c, DictionaryOf(nm, am, c))
      BY <1>1, <2>1, DictionaryIs
    <3>3. \A k \in 1..Len(c) : nm2[c[k]] = nm[c[k]] /\ am2[c[k]] = am[c[k]]
      BY <1>1, <2>1, <3>0 DEF Keeps
    <3>4. Says(nm2, am2, c, DictionaryOf(nm, am, c))
      <4> HIDE DEF c
      <4>1. {nm2[c[k]] : k \in 1..Len(c)} = {nm[c[k]] : k \in 1..Len(c)}
        BY <3>3
      <4> QED BY <3>2, <3>3, <4>1 DEF Says
    <3>5. DictionaryOf(nm2, am2, c) = DictionaryOf(nm, am, c)
      BY <1>2, <3>1, <3>4, DictionaryIs
    <3> QED BY <2>1, <3>1, <3>5
  <2>2. CASE g \notin hs
    BY <1>0, <2>2
  <2> QED BY <2>1, <2>2
<1>5. AmountsOf(hs, nm, am, nx) = [g \in Nodes |-> A(g)] /\ AmountsOf(hs2, nm2, am2, nx2) = [g \in Nodes |-> A2(g)]
  BY DEF AmountsOf
<1> HIDE DEF A, A2
<1> QED BY <1>0, <1>3, <1>4, <1>5

\* An iterator stays defined while its list and the names do not change.
Follows(nm, nx, it, df, hs2, nm2, nx2, it2, df2) ==
  /\ it2 \in [Nodes -> Addresses]
  /\ df2 \subseteq df /\ df2 \subseteq hs2
  /\ \A g \in df2 : /\ it2[g] = it[g] /\ ChainIn(nx2, g) = ChainIn(nx, g)
                    /\ \A x \in Range(ChainIn(nx, g)) : nm2[x] = nm[x]

LEMMA SameCursors ==
  ASSUME NEW hs, NEW nm, NEW nx, NEW it, NEW df, GoodCursor(hs, nm, nx, it, df),
         NEW hs2, NEW nm2, NEW nx2, NEW it2, NEW df2, Follows(nm, nx, it, df, hs2, nm2, nx2, it2, df2)
  PROVE  /\ GoodCursor(hs2, nm2, nx2, it2, df2)
         /\ CursorsOf(nm2, it2, df2) = [g \in Nodes |-> IF g \in df2 THEN CursorsOf(nm, it, df)[g] ELSE -1]
<1>1. \A g \in df2 : it[g] # Null => it[g] \in Range(ChainIn(nx, g)) /\ nm[it[g]] \in Names
  BY DEF GoodCursor, Follows
<1>2. GoodCursor(hs2, nm2, nx2, it2, df2)
  BY <1>1 DEF GoodCursor, Follows
<1>3. \A g \in df2 : it2[g] = it[g] /\ (it[g] # Null => nm2[it[g]] = nm[it[g]]) /\ g \in df
  BY <1>1 DEF Follows
<1> QED BY <1>2, <1>3 DEF CursorsOf

-----------------------------------------------------------------------------
(* What an operation reads of its set.                                       *)

LEMMA FreeFacts ==
  ASSUME allocated \subseteq Nodes
  PROVE  /\ Len(Free) \in Nat
         /\ \A k \in 1..Len(Free) : Free[k] \in Nodes \ allocated
         /\ \A j, k \in 1..Len(Free) : Free[j] = Free[k] => j = k
<1> DEFINE S == Nodes \ allocated
           n == Cardinality(S)
<1>1. IsFiniteSet(S) /\ n \in Nat
  <2>1. IsFiniteSet(S)
    BY Constants, FS_Subset
  <2> QED BY <2>1, FS_CardinalityType
<1>2. \E f \in [1..n -> S] : IsInjective(f)
  <2>1. PICK m \in Nat : ExistsBijection(1..m, S)
    BY <1>1, FS_NatBijection
  <2>2. m = n
    BY <2>1, FS_CountingElements
  <2> QED BY <2>1, <2>2 DEF ExistsBijection, Bijection, Injection
<1>3. Free \in [1..n -> S] /\ IsInjective(Free)
  BY <1>2 DEF Free, SetToSeq
<1> HIDE DEF S, n
<1>4. Free \in Seq(S) /\ Len(Free) = n
  BY <1>1, <1>3, FunctionSeq
<1> QED BY <1>1, <1>3, <1>4 DEF IsInjective, S

LEMMA SetFacts ==
  ASSUME IInv, NEW h \in heads
  PROVE  /\ h \in Nodes /\ h # Null
         /\ IsList(next, Chain(h)) /\ Chain(h)[1] = h /\ Named(name, amount, Chain(h))
         /\ Len(Chain(h)) \in Nat \ {0} /\ DOMAIN Chain(h) = 1..Len(Chain(h))
         /\ \A k \in 1..Len(Chain(h)) : Chain(h)[k] \in Nodes /\ Chain(h)[k] \in allocated /\ Chain(h)[k] # Null
         /\ Range(Chain(h)) = {Chain(h)[k] : k \in 1..Len(Chain(h))}
         /\ Range(Chain(h)) \subseteq allocated /\ allocated \subseteq Nodes
         /\ Says(name, amount, Chain(h), Amounts[h])
<1> DEFINE c == Chain(h)
<1>1. IsList(next, c) /\ c[1] = h /\ Named(name, amount, c) /\ Range(c) \subseteq allocated /\ allocated \subseteq Nodes
  BY DEF IInv, Good, SetAt, Chain
<1>2. /\ Len(c) \in Nat \ {0} /\ DOMAIN c = 1..Len(c) /\ \A k \in 1..Len(c) : c[k] \in Nodes
      /\ Range(c) = {c[k] : k \in 1..Len(c)}
  BY <1>1, ListFacts
<1>3. h \in Nodes /\ \A k \in 1..Len(c) : c[k] \in allocated
  BY <1>1, <1>2
<1>4. Amounts[h] = DictionaryOf(name, amount, c)
  BY <1>3 DEF Amounts, AmountsOf, Chain
<1>5. Says(name, amount, c, Amounts[h])
  BY <1>1, <1>2, <1>4, DictionaryIs
<1> QED BY <1>1, <1>2, <1>3, <1>5, Constants

\* The names of a set that is not empty are those of its nodes, in order.
LEMMA Sorted ==
  ASSUME IInv, NEW h \in heads
  PROVE  IF IsEmpty(h)
         THEN Len(Chain(h)) = 1 /\ amount[h] = 0 /\ Range(Chain(h)) = {h} /\ DOMAIN Amounts[h] = {}
         ELSE /\ \A k \in 1..Len(Chain(h)) : name[Chain(h)[k]] \in Names
              /\ \A j, k \in 1..Len(Chain(h)) : j < k => name[Chain(h)[j]] < name[Chain(h)[k]]
              /\ DOMAIN Amounts[h] = {name[Chain(h)[k]] : k \in 1..Len(Chain(h))}
<1> DEFINE c == Chain(h)
<1>1. /\ Named(name, amount, c) /\ c[1] = h /\ Len(c) \in Nat \ {0} /\ Says(name, amount, c, Amounts[h])
      /\ Range(c) = {c[k] : k \in 1..Len(c)}
  BY SetFacts
<1> HIDE DEF c
<1>2. CASE IsEmpty(h)
  <2>1. ~(name[c[1]] \in Names)
    BY <1>1, <1>2, Constants DEF IsEmpty
  <2>2. Len(c) = 1 /\ amount[h] = 0
    BY <1>1, <2>1 DEF Named
  <2> QED BY <1>1, <1>2, <2>2 DEF Says, IsEmpty, c
<1>3. CASE ~IsEmpty(h)
  <2>1. /\ \A k \in 1..Len(c) : name[c[k]] \in Names
        /\ \A j, k \in 1..Len(c) : j < k => name[c[j]] < name[c[k]]
    BY <1>1, <1>3 DEF Named, IsEmpty
  <2>2. DOMAIN Amounts[h] = {name[c[k]] : k \in 1..Len(c)}
    BY <1>1, <2>1, Constants DEF Says
  <2> QED BY <1>3, <2>1, <2>2 DEF c
<1> QED BY <1>2, <1>3

\* The search finds the node of that name if there is one.
LEMMA Found ==
  ASSUME IInv, NEW h \in heads, NEW n \in Names
  PROVE  /\ Find(h, n) = Null <=> n \notin DOMAIN Amounts[h]
         /\ Find(h, n) # Null =>
              /\ ~IsEmpty(h) /\ Amounts[h][n] = amount[Find(h, n)]
              /\ \E k \in 1..Len(Chain(h)) : Find(h, n) = Chain(h)[k] /\ name[Chain(h)[k]] = n
<1> DEFINE c == Chain(h)
           found == {k \in DOMAIN c : name[c[k]] = n}
           first == CHOOSE k \in found : \A j \in found : k <= j
<1>1. /\ Named(name, amount, c) /\ Len(c) \in Nat \ {0} /\ DOMAIN c = 1..Len(c) /\ Says(name, amount, c, Amounts[h])
      /\ \A k \in 1..Len(c) : c[k] # Null
  BY SetFacts
<1>2. n \in DOMAIN Amounts[h] <=> found # {}
  BY <1>1, Constants DEF Says
<1>3. ASSUME found # {}
      PROVE  /\ Find(h, n) = c[first] /\ first \in 1..Len(c) /\ name[c[first]] = n
  <2>1. PICK k \in found : TRUE
    BY <1>3
  <2>2. \A j \in found : j = k
    BY <1>1, <2>1, NamesDiffer
  <2>3. first \in found
    <3>1. \A j \in found : k <= j
      BY <1>1, <2>1, <2>2
    <3> HIDE DEF found
    <3> QED BY <2>1, <3>1
  <2> QED BY <1>1, <1>3, <2>3 DEF Find
<1>4. found = {} => Find(h, n) = Null
  BY DEF Find
<1>5. ASSUME found # {}
      PROVE  ~IsEmpty(h) /\ Amounts[h][n] = amount[Find(h, n)]
  <2>1. n # NoName
    BY Constants
  <2>2. Amounts[h][n] = amount[c[first]]
    BY <1>1, <1>3, <1>5, <2>1 DEF Says
  <2>3. DOMAIN Amounts[h] # {}
    BY <1>2, <1>5
  <2> QED BY <1>3, <1>5, <2>2, <2>3, Sorted
<1> HIDE DEF found, first
<1> QED BY <1>1, <1>2, <1>3, <1>4, <1>5

\* A set of positions that with each has all before it.
LEMMA Prefix ==
  ASSUME NEW m \in Nat, NEW P \in SUBSET (1..m), \A k \in P : \A j \in 1..k : j \in P
  PROVE  Cardinality(P) \in 0..m /\ P = 1..Cardinality(P)
<1> DEFINE S == {n \in Nat : n <= m => 1..n \subseteq P}
<1>1. CASE \A n \in Nat : n \in S
  <2>1. P = 1..m
    <3>1. 1..m \subseteq P
      BY <1>1
    <3> QED BY <3>1
  <2>2. Cardinality(1..m) = m
    BY FS_Interval
  <2> QED BY <2>1, <2>2
<1>2. CASE ~\A n \in Nat : n \in S
  <2>1. 0 \in S
    OBVIOUS
  <2>2. PICK n \in Nat : n \in S /\ n + 1 \notin S
    <3>1. (\A n \in Nat : n \in S => n + 1 \in S) => Nat \subseteq S
      <4> HIDE DEF S
      <4> QED BY <2>1, SetInduction
    <3> HIDE DEF S
    <3> QED BY <1>2, <3>1
  <2>3. n + 1 <= m /\ 1..n \subseteq P /\ ~(1..n + 1 \subseteq P)
    BY <2>2
  <2>4. n + 1 \notin P
    BY <2>3
  <2>5. \A k \in P : k <= n
    <3>1. ASSUME NEW k \in P, n < k PROVE FALSE
      <4>1. n + 1 \in 1..k
        BY <3>1
      <4> QED BY <2>4, <4>1
    <3> QED BY <3>1
  <2>6. P = 1..n
    <3>1. ASSUME NEW k \in P PROVE k \in 1..n
      <4>1. k \in 1..m
        OBVIOUS
      <4> QED BY <2>5, <4>1
    <3> HIDE DEF S
    <3> QED BY <2>3, <3>1
  <2>7. Cardinality(1..n) = n
    BY FS_Interval
  <2> QED BY <2>3, <2>6, <2>7
<1> QED BY <1>1, <1>2

LEMMA LessFacts ==
  ASSUME IInv, NEW h \in heads, NEW n \in Names, ~IsEmpty(h), Find(h, n) = Null
  PROVE  /\ Less(h, n) \in 0..Len(Chain(h))
         /\ \A k \in 1..Len(Chain(h)) : IF k <= Less(h, n) THEN name[Chain(h)[k]] < n ELSE n < name[Chain(h)[k]]
<1> DEFINE c == Chain(h)
           P == {k \in DOMAIN c : \A j \in 1..k : name[c[j]] < n}
<1>1. /\ Len(c) \in Nat \ {0} /\ DOMAIN c = 1..Len(c)
      /\ \A k \in 1..Len(c) : name[c[k]] \in Names
      /\ \A j, k \in 1..Len(c) : j < k => name[c[j]] < name[c[k]]
  BY SetFacts, Sorted
<1>2. \A k \in 1..Len(c) : name[c[k]] # n
  <2>1. n \notin DOMAIN Amounts[h] /\ DOMAIN Amounts[h] = {name[c[k]] : k \in 1..Len(c)}
    BY Found, Sorted
  <2> QED BY <2>1
<1>3. Less(h, n) = Cardinality(P)
  BY DEF Less
<1> HIDE DEF c
<1>4. P \in SUBSET (1..Len(c)) /\ \A k \in P : \A j \in 1..k : j \in P
  BY <1>1
<1>5. Less(h, n) \in 0..Len(c) /\ P = 1..Less(h, n)
  <2> HIDE DEF P
  <2> QED BY <1>1, <1>3, <1>4, Prefix
<1>6. n \in Nat /\ \A k \in 1..Len(c) : name[c[k]] \in Nat
  BY <1>1, Constants
<1>7. ASSUME NEW k \in 1..Len(c), name[c[k]] < n PROVE k \in P
  <2>1. \A j \in 1..k : j \in 1..Len(c) /\ name[c[j]] < n
    <3>1. ASSUME NEW j \in 1..k PROVE j \in 1..Len(c) /\ name[c[j]] < n
      <4>1. j \in 1..Len(c) /\ (j = k \/ j < k)
        BY <1>1
      <4>2. j < k => name[c[j]] < name[c[k]]
        BY <1>1, <4>1
      <4> QED BY <1>6, <1>7, <4>1, <4>2
    <3> QED BY <3>1
  <2> QED BY <1>1, <2>1
<1>8. ASSUME NEW k \in 1..Len(c), k \in P PROVE name[c[k]] < n
  BY <1>8
<1>9. \A k \in 1..Len(c) : k \in P <=> k <= Less(h, n)
  <2> HIDE DEF P
  <2> QED BY <1>1, <1>5
<1> HIDE DEF P
<1> QED BY <1>2, <1>5, <1>6, <1>7, <1>8, <1>9 DEF c

-----------------------------------------------------------------------------
(* The operations on one set.                                                *)

\* A call that gives the set h the list c, and the dictionary d by it.
LEMMA OneSet ==
  ASSUME IInv, NEW h \in heads, NEW code, NEW c, NEW d,
         heads' = heads, answer' = Code(code), defined' = defined \ {h},
         iterator' \in [Nodes -> Addresses], \A g \in Nodes \ {h} : iterator'[g] = iterator[g],
         Typed(name', amount', next'), IsList(next', c), c[1] = h, Named(name', amount', c),
         Range(c) \cap allocated \subseteq Range(Chain(h)),
         allocated' = (allocated \ Range(Chain(h))) \cup Range(c),
         \A x \in Nodes \ (Range(Chain(h)) \cup Range(c)) :
           name'[x] = name[x] /\ amount'[x] = amount[x] /\ next'[x] = next[x],
         \A x \in Range(Chain(h)) \ Range(c) : name'[x] = NoName /\ amount'[x] = 0 /\ next'[x] = Null,
         Says(name', amount', c, d)
  PROVE  IInv' /\ Promised!Becomes(h, d, code)
<1>1. h \in Nodes /\ Good(heads, allocated, name, amount, next) /\ GoodCursor(heads, name, next, iterator, defined)
  BY SetFacts DEF IInv
<1>2. ChainIn(next', h) = c
  BY ChainIs DEF Typed
<1>3. SetAt(name', amount', next', h)
  BY <1>2 DEF SetAt
<1>4. Range(c) \subseteq Nodes
  BY ListFacts
<1>5. /\ Good(heads', allocated', name', amount', next')
      /\ \A g \in heads \ {h} : Keeps(name, amount, next, name', amount', next', g)
  <2> DEFINE old == Range(Chain(h))
             new == Range(c)
  <2>1. /\ h \in heads' /\ SetAt(name', amount', next', h) /\ Range(ChainIn(next', h)) = new
        /\ old = Range(ChainIn(next, h)) /\ new \subseteq Nodes
    BY <1>2, <1>3, <1>4 DEF Chain
  <2>2. /\ new \cap allocated \subseteq old
        /\ allocated' = (allocated \ old) \cup new
        /\ \A x \in Nodes \ (old \cup new) : name'[x] = name[x] /\ amount'[x] = amount[x] /\ next'[x] = next[x]
        /\ \A x \in old \ new : name'[x] = NoName /\ amount'[x] = 0 /\ next'[x] = Null
    OBVIOUS
  <2> HIDE DEF old, new
  <2>3. Moves(heads, allocated, name, amount, next, heads', allocated', name', amount', next', h, old, new)
    BY <1>1, <2>1, <2>2 DEF Moves
  <2> QED BY <1>1, <2>3, OneList
<1>6. Amounts' = [Amounts EXCEPT ![h] = d]
  <2>1. Tells(heads, name, amount, next, heads', name', amount', next', h, d)
    BY <1>1, <1>2, <1>5 DEF Tells
  <2> QED BY <1>1, <1>5, <2>1, OneDictionary DEF Amounts
<1>7. GoodCursor(heads', name', next', iterator', defined')
      /\ Cursors' = [g \in Nodes |-> IF g \in defined \ {h} THEN Cursors[g] ELSE -1]
  <2>1. defined' \subseteq defined /\ defined' \subseteq heads' /\ defined' \subseteq Nodes
    BY <1>1, SetFacts DEF GoodCursor
  <2>2. Follows(name, next, iterator, defined, heads', name', next', iterator', defined')
    BY <1>5, <2>1 DEF Follows, Keeps
  <2> QED BY <1>1, <2>2, SameCursors DEF Cursors
<1>8. Cursors' = [Cursors EXCEPT ![h] = -1]
  <2>1. Cursors = [g \in Nodes |-> Cursors[g]] /\ \A g \in Nodes : g \notin defined => Cursors[g] = -1
    BY DEF Cursors, CursorsOf
  <2> HIDE DEF Cursors
  <2> QED BY <1>7, <2>1
<1>9. IInv'
  BY <1>5, <1>7 DEF IInv
<1> QED BY <1>6, <1>8, <1>9, Becoming

\* A call that leaves the lists as they are.
LEMMA SameSets ==
  ASSUME IInv, UNCHANGED <<heads, nodeVars>>
  PROVE  /\ Good(heads', allocated', name', amount', next')
         /\ Amounts' = Amounts /\ \A h : Chain(h)' = Chain(h)
BY DEF IInv, nodeVars, Amounts, Chain

\* asClear, and what asDelete does with the last name.
LEMMA Clearing ==
  ASSUME IInv, NEW h \in heads, Clear(h), answer' = Code("done"), defined' = defined \ {h}, heads' = heads
  PROVE  IInv' /\ Promised!Becomes(h, NoAmounts, "done")
<1> DEFINE c == Chain(h)
           c2 == <<h>>
<1>1. /\ h \in Nodes /\ h # Null /\ Range(c) \subseteq allocated /\ allocated \subseteq Nodes /\ h \in Range(c)
  BY SetFacts
<1>2. Range(c2) = {h} /\ Len(c2) = 1 /\ c2[1] = h /\ c2 \in Seq(Nodes)
  BY <1>1 DEF Range
<1>3. Typed(name, amount, next) /\ iterator \in [Nodes -> Addresses]
  BY DEF IInv, Good, GoodCursor
<1>4. /\ allocated' = (allocated \ Range(c)) \cup {h}
      /\ \A x \in Nodes : /\ name'[x] = IF x \in Range(c) THEN NoName ELSE name[x]
                          /\ amount'[x] = IF x \in Range(c) THEN 0 ELSE amount[x]
                          /\ next'[x] = IF x \in Range(c) THEN Null ELSE next[x]
      /\ iterator' = [iterator EXCEPT ![h] = Null]
  BY DEF Clear, Blank
<1>5. Typed(name', amount', next')
  <2>1. 0 \in 0..MaxAmount /\ Null \in Addresses
    BY Constants DEF Addresses
  <2> QED BY <1>3, <2>1 DEF Typed, Clear, Blank, Links
<1>6. iterator' \in [Nodes -> Addresses] /\ \A g \in Nodes \ {h} : iterator'[g] = iterator[g]
  BY <1>3, <1>4 DEF Addresses
<1>7. IsList(next', c2) /\ Named(name', amount', c2)
  BY <1>1, <1>2, <1>4 DEF IsList, Named
<1>8. Says(name', amount', c2, NoAmounts)
  BY <1>1, <1>2, <1>4 DEF Says, NoAmounts
<1> HIDE DEF c, c2
<1>9. /\ Range(c2) \cap allocated \subseteq Range(c) /\ allocated' = (allocated \ Range(c)) \cup Range(c2)
      /\ \A x \in Nodes \ (Range(c) \cup Range(c2)) :
           name'[x] = name[x] /\ amount'[x] = amount[x] /\ next'[x] = next[x]
      /\ \A x \in Range(c) \ Range(c2) : name'[x] = NoName /\ amount'[x] = 0 /\ next'[x] = Null
  BY <1>1, <1>2, <1>4
<1> QED BY <1>2, <1>5, <1>6, <1>7, <1>8, <1>9, OneSet DEF c

\* A call that finds nothing to do: the set and its list stay.
LEMMA Declining ==
  ASSUME IInv, NEW h \in heads, NEW code, UNCHANGED <<heads, nodeVars>>, answer' = Code(code), defined' = defined \ {h},
         iterator' \in [Nodes -> Addresses], \A g \in Nodes \ {h} : iterator'[g] = iterator[g]
  PROVE  IInv' /\ Promised!Becomes(h, Amounts[h], code)
<1>1. /\ IsList(next, Chain(h)) /\ Chain(h)[1] = h /\ Named(name, amount, Chain(h))
      /\ Range(Chain(h)) \subseteq allocated /\ Says(name, amount, Chain(h), Amounts[h])
  BY SetFacts
<1>2. Typed(name, amount, next)
  BY DEF IInv, Good
<1>3. /\ IsList(next', Chain(h)) /\ Named(name', amount', Chain(h)) /\ Typed(name', amount', next')
      /\ Says(name', amount', Chain(h), Amounts[h])
      /\ heads' = heads /\ allocated' = (allocated \ Range(Chain(h))) \cup Range(Chain(h))
      /\ \A x : name'[x] = name[x] /\ amount'[x] = amount[x] /\ next'[x] = next[x]
  BY <1>1, <1>2 DEF nodeVars
<1> QED BY <1>1, <1>3, OneSet

\* A sorted list with a name put in after position l, and one with position p taken out.
With(d, n)    == [k \in DOMAIN d \cup {n} |-> IF k = n THEN 0 ELSE d[k]]
Without(d, n) == [k \in DOMAIN d \ {n} |-> d[k]]

InsertedAt(nm, am, c, n, l, nm2, am2, c2) ==
  /\ l \in 0..Len(c) /\ Len(c2) = Len(c) + 1
  /\ \A k \in 1..Len(c) : IF k <= l THEN nm[c[k]] < n ELSE n < nm[c[k]]
  /\ \A k \in 1..l : nm2[c2[k]] = nm[c[k]] /\ am2[c2[k]] = am[c[k]]
  /\ nm2[c2[l + 1]] = n /\ am2[c2[l + 1]] = 0
  /\ \A k \in l + 1..Len(c) : nm2[c2[k + 1]] = nm[c[k]] /\ am2[c2[k + 1]] = am[c[k]]

RemovedAt(nm, am, c, p, nm2, am2, c2) ==
  /\ p \in 1..Len(c) /\ Len(c2) = Len(c) - 1
  /\ \A k \in 1..Len(c2) : LET o == IF k < p THEN k ELSE k + 1 IN nm2[c2[k]] = nm[c[o]] /\ am2[c2[k]] = am[c[o]]

LEMMA Inserted ==
  ASSUME NEW nm, NEW am, NEW c, NEW d, Says(nm, am, c, d), Len(c) \in Nat \ {0},
         \A k \in 1..Len(c) : nm[c[k]] \in Names,
         \A j, k \in 1..Len(c) : j < k => nm[c[j]] < nm[c[k]],
         NEW n \in Names, NEW l, NEW nm2, NEW am2, NEW c2, InsertedAt(nm, am, c, n, l, nm2, am2, c2)
  PROVE  Named(nm2, am2, c2) /\ Says(nm2, am2, c2, With(d, n))
<1>0. /\ l \in 0..Len(c) /\ Len(c2) = Len(c) + 1
      /\ \A k \in 1..Len(c) : IF k <= l THEN nm[c[k]] < n ELSE n < nm[c[k]]
      /\ \A k \in 1..l : nm2[c2[k]] = nm[c[k]] /\ am2[c2[k]] = am[c[k]]
      /\ nm2[c2[l + 1]] = n /\ am2[c2[l + 1]] = 0
      /\ \A k \in l + 1..Len(c) : nm2[c2[k + 1]] = nm[c[k]] /\ am2[c2[k + 1]] = am[c[k]]
  BY DEF InsertedAt
<1> USE <1>0
<1> DEFINE a(k) == nm[c[k]]
           b(k) == nm2[c2[k]]
<1>1. Names \subseteq Nat /\ NoName \notin Names
  BY Constants
<1>2. /\ \A k \in 1..Len(c2) : k \in 1..l \/ k = l + 1 \/ (k - 1 \in l + 1..Len(c) /\ (k - 1) + 1 = k)
      /\ \A k \in 1..l : k \in 1..Len(c2) /\ k \in 1..Len(c)
      /\ \A k \in l + 1..Len(c) : k + 1 \in 1..Len(c2) /\ k \in 1..Len(c)
      /\ l + 1 \in 1..Len(c2)
  OBVIOUS
<1>3. ASSUME NEW k \in 1..Len(c2) PROVE b(k) \in Names /\ (b(k) = n \/ \E j \in 1..Len(c) : b(k) = a(j))
  <2>1. k \in 1..l => b(k) = a(k) /\ k \in 1..Len(c)
    BY <1>2
  <2>2. k - 1 \in l + 1..Len(c) /\ (k - 1) + 1 = k => b(k) = a(k - 1) /\ k - 1 \in 1..Len(c)
    BY <1>2
  <2> QED BY <1>2, <2>1, <2>2
<1>4. ASSUME NEW j \in 1..Len(c2), NEW k \in 1..Len(c2), j < k PROVE b(j) < b(k)
  <2>1. \A i \in 1..Len(c) : a(i) \in Nat /\ n \in Nat
    BY <1>1
  <2>2. CASE k \in 1..l
    <3>1. j \in 1..l
      BY <1>4, <2>2
    <3> QED BY <1>2, <1>4, <2>2, <3>1
  <2>3. CASE k = l + 1
    <3>1. j \in 1..l /\ j \in 1..Len(c) /\ j <= l
      BY <1>4, <2>3
    <3> QED BY <2>3, <3>1
  <2>4. CASE k - 1 \in l + 1..Len(c)
    <3>1. b(k) = a(k - 1) /\ k - 1 \in 1..Len(c) /\ ~(k - 1 <= l)
      <4>1. (k - 1) + 1 = k
        OBVIOUS
      <4> QED BY <1>2, <2>4, <4>1
    <3>2. CASE j \in 1..l
      <4>1. b(j) = a(j) /\ j \in 1..Len(c) /\ j < k - 1
        BY <1>4, <2>4, <3>2
      <4> QED BY <3>1, <4>1
    <3>3. CASE j = l + 1
      BY <3>1, <3>3
    <3>4. CASE j - 1 \in l + 1..Len(c)
      <4>1. (j - 1) + 1 = j /\ j - 1 < k - 1
        BY <1>4
      <4>2. b(j) = a(j - 1) /\ j - 1 \in 1..Len(c)
        BY <1>2, <3>4, <4>1
      <4> QED BY <3>1, <4>1, <4>2
    <3> QED BY <1>2, <3>2, <3>3, <3>4
  <2> QED BY <1>2, <2>2, <2>3, <2>4
<1>5. Named(nm2, am2, c2)
  BY <1>3, <1>4 DEF Named
<1>6. DOMAIN d = {a(k) : k \in 1..Len(c)} /\ \A k \in 1..Len(c) : d[a(k)] = am[c[k]] /\ a(k) # n
  <2>1. \A k \in 1..Len(c) : a(k) # NoName /\ a(k) \in Nat /\ n \in Nat
    BY <1>1
  <2>2. ASSUME NEW k \in 1..Len(c) PROVE a(k) # n
    <3>1. a(k) < n \/ n < a(k)
      OBVIOUS
    <3> QED BY <2>1, <3>1
  <2>3. \A k \in 1..Len(c) : d[a(k)] = am[c[k]]
    BY <2>1 DEF Says
  <2>4. DOMAIN d = {a(k) : k \in 1..Len(c)}
    BY <2>1 DEF Says
  <2> QED BY <2>2, <2>3, <2>4
<1>7. {b(k) : k \in 1..Len(c2)} = DOMAIN d \cup {n}
  <2>1. \A k \in 1..Len(c2) : b(k) = n \/ \E j \in 1..Len(c) : b(k) = a(j)
    BY <1>3
  <2>2. \A j \in 1..Len(c) : \E k \in 1..Len(c2) : b(k) = a(j)
    <3>1. ASSUME NEW j \in 1..Len(c) PROVE \E k \in 1..Len(c2) : b(k) = a(j)
      <4>1. CASE j \in 1..l
        BY <1>2, <4>1
      <4>2. CASE j \in l + 1..Len(c)
        BY <1>2, <4>2
      <4> QED BY <4>1, <4>2
    <3> QED BY <3>1
  <2>3. \E k \in 1..Len(c2) : b(k) = n
    BY <1>2
  <2> HIDE DEF a, b
  <2> QED BY <1>6, <2>1, <2>2, <2>3
<1>8. ASSUME NEW k \in 1..Len(c2) PROVE With(d, n)[b(k)] = am2[c2[k]]
  <2>1. b(k) \in DOMAIN d \cup {n}
    BY <1>7
  <2>2. With(d, n)[b(k)] = IF b(k) = n THEN 0 ELSE d[b(k)]
    BY <2>1 DEF With
  <2>3. CASE k = l + 1
    BY <2>2, <2>3
  <2>4. CASE k \in 1..l
    BY <1>2, <1>6, <2>2, <2>4
  <2>5. CASE k - 1 \in l + 1..Len(c)
    <3>1. (k - 1) + 1 = k
      OBVIOUS
    <3>2. b(k) = a(k - 1) /\ k - 1 \in 1..Len(c) /\ am2[c2[k]] = am[c[k - 1]]
      BY <1>2, <2>5, <3>1
    <3> QED BY <1>6, <2>2, <3>2
  <2> QED BY <1>2, <2>3, <2>4, <2>5
<1>9. DOMAIN With(d, n) = {b(k) : k \in 1..Len(c2)} \ {NoName}
  <2>1. NoName \notin {b(k) : k \in 1..Len(c2)}
    BY <1>1, <1>3
  <2> QED BY <1>7, <2>1 DEF With
<1> QED BY <1>5, <1>8, <1>9 DEF Says, With

LEMMA Removed ==
  ASSUME NEW nm, NEW am, NEW c, NEW d, Says(nm, am, c, d), Len(c) \in Nat, Len(c) > 1,
         \A k \in 1..Len(c) : nm[c[k]] \in Names,
         \A j, k \in 1..Len(c) : j < k => nm[c[j]] < nm[c[k]],
         NEW p, NEW nm2, NEW am2, NEW c2, RemovedAt(nm, am, c, p, nm2, am2, c2)
  PROVE  Named(nm2, am2, c2) /\ Says(nm2, am2, c2, Without(d, nm[c[p]]))
<1>0. /\ p \in 1..Len(c) /\ Len(c2) = Len(c) - 1
      /\ \A k \in 1..Len(c2) :
           LET o == IF k < p THEN k ELSE k + 1 IN nm2[c2[k]] = nm[c[o]] /\ am2[c2[k]] = am[c[o]]
  BY DEF RemovedAt
<1> USE <1>0
<1> DEFINE a(k) == nm[c[k]]
           b(k) == nm2[c2[k]]
           o(k) == IF k < p THEN k ELSE k + 1
<1>1. Names \subseteq Nat /\ NoName \notin Names
  BY Constants
<1>2. \A k \in 1..Len(c2) : o(k) \in 1..Len(c) /\ o(k) # p /\ b(k) = a(o(k)) /\ am2[c2[k]] = am[c[o(k)]]
  OBVIOUS
<1>3. \A j, k \in 1..Len(c2) : j < k => o(j) < o(k)
  OBVIOUS
<1>4. \A j \in 1..Len(c) : j # p => \E k \in 1..Len(c2) : o(k) = j
  <2>1. ASSUME NEW j \in 1..Len(c), j # p PROVE \E k \in 1..Len(c2) : o(k) = j
    <3>1. CASE j < p
      <4>1. j \in 1..Len(c2) /\ o(j) = j
        BY <3>1
      <4> QED BY <4>1
    <3>2. CASE j > p
      <4>1. j - 1 \in 1..Len(c2) /\ o(j - 1) = j
        BY <3>2
      <4> QED BY <4>1
    <3> QED BY <2>1, <3>1, <3>2
  <2> QED BY <2>1
<1> HIDE DEF o
<1>5. \A k \in 1..Len(c2) : b(k) \in Names
  BY <1>2
<1>6. \A j, k \in 1..Len(c2) : j < k => b(j) < b(k)
  BY <1>2, <1>3
<1>7. Named(nm2, am2, c2)
  BY <1>5, <1>6 DEF Named
<1>8. DOMAIN d = {a(k) : k \in 1..Len(c)} /\ \A k \in 1..Len(c) : d[a(k)] = am[c[k]] /\ (a(k) = a(p) => k = p)
  <2>1. \A k \in 1..Len(c) : a(k) # NoName /\ a(k) \in Nat
    BY <1>1
  <2>2. \A k \in 1..Len(c) : a(k) = a(p) => k = p
    <3>1. ASSUME NEW k \in 1..Len(c), k # p PROVE a(k) # a(p)
      <4>1. k < p => a(k) < a(p)
        OBVIOUS
      <4>2. p < k => a(p) < a(k)
        OBVIOUS
      <4>3. k < p \/ p < k
        BY <3>1
      <4> QED BY <2>1, <4>1, <4>2, <4>3
    <3> QED BY <3>1
  <2>3. \A k \in 1..Len(c) : d[a(k)] = am[c[k]]
    BY <2>1 DEF Says
  <2>4. DOMAIN d = {a(k) : k \in 1..Len(c)}
    BY <2>1 DEF Says
  <2> QED BY <2>2, <2>3, <2>4
<1>9. {b(k) : k \in 1..Len(c2)} = DOMAIN d \ {a(p)}
  <2>1. \A k \in 1..Len(c2) : b(k) # a(p) /\ \E j \in 1..Len(c) : b(k) = a(j)
    BY <1>2, <1>8
  <2>2. \A j \in 1..Len(c) : a(j) # a(p) => \E k \in 1..Len(c2) : b(k) = a(j)
    BY <1>2, <1>4
  <2> HIDE DEF a, b
  <2> QED BY <1>8, <2>1, <2>2
<1>10. \A k \in 1..Len(c2) : Without(d, a(p))[b(k)] = am2[c2[k]]
  <2>1. ASSUME NEW k \in 1..Len(c2) PROVE Without(d, a(p))[b(k)] = am2[c2[k]]
    <3>1. b(k) \in DOMAIN d \ {a(p)}
      BY <1>9
    <3>2. Without(d, a(p))[b(k)] = d[b(k)]
      BY <3>1 DEF Without
    <3>3. o(k) \in 1..Len(c) /\ b(k) = a(o(k)) /\ am2[c2[k]] = am[c[o(k)]]
      BY <1>2
    <3>4. d[a(o(k))] = am[c[o(k)]]
      BY <1>8, <3>3
    <3> HIDE DEF a, b
    <3> QED BY <3>2, <3>3, <3>4
  <2> QED BY <2>1
<1>11. DOMAIN Without(d, a(p)) = {b(k) : k \in 1..Len(c2)} \ {NoName}
  <2>1. NoName \notin {b(k) : k \in 1..Len(c2)}
    BY <1>1, <1>5
  <2> QED BY <1>9, <2>1 DEF Without
<1> QED BY <1>7, <1>10, <1>11 DEF Says, Without

-----------------------------------------------------------------------------
(* asRegister.                                                               *)

LEMMA Registering ==
  ASSUME NEW h \in heads, NEW n \in Names,
         IF n \in DOMAIN Amounts[h]
         THEN Promised!Becomes(h, Amounts[h], "AS_ITEM_ALREADY_EXISTS")
         ELSE Promised!Becomes(h, With(Amounts[h], n), "done")
  PROVE  Promised!Next
<1>1. Promised!Register(h, Amounts[h], n)
  BY DEF Promised!Register, With
<1> QED BY <1>1, Mapped DEF Promised!Next

\* What is copied and how the copies are linked; the rest of the heap stays.
LEMMA Copies ==
  ASSUME allocated \subseteq Nodes, NEW c \in Seq(Nodes), Fits(Len(c)), NEW f
  PROVE  /\ \A k \in 1..Len(c) : /\ Free[k] \in Nodes \ allocated
                                 /\ Copied(f, c)[Free[k]] = f[c[k]]
                                 /\ Linked(f, c)[Free[k]] = IF k = Len(c) THEN Null ELSE Free[k + 1]
         /\ \A j, k \in 1..Len(c) : Free[j] = Free[k] => j = k
         /\ \A x \in Nodes \ {Free[k] : k \in 1..Len(c)} : Copied(f, c)[x] = f[x] /\ Linked(f, c)[x] = f[x]
<1>1. /\ \A k \in 1..Len(c) : Free[k] \in Nodes \ allocated
      /\ \A j, k \in 1..Len(c) : Free[j] = Free[k] => j = k
  <2>1. \A k \in 1..Len(c) : k \in 1..Len(Free)
    BY FreeFacts DEF Fits
  <2> QED BY <2>1, FreeFacts
<1>2. ASSUME NEW k \in 1..Len(c)
      PROVE  /\ Copied(f, c)[Free[k]] = f[c[k]]
             /\ Linked(f, c)[Free[k]] = IF k = Len(c) THEN Null ELSE Free[k + 1]
  <2> DEFINE at == CHOOSE i \in DOMAIN c : Free[i] = Free[k]
  <2>1. at \in 1..Len(c) /\ Free[at] = Free[k]
    OBVIOUS
  <2>2. at = k
    <3> HIDE DEF at
    <3> QED BY <1>1, <2>1
  <2>3. Copied(f, c)[Free[k]] = f[c[at]]
    BY <1>1 DEF Copied
  <2>4. Linked(f, c)[Free[k]] = IF at < Len(c) THEN Free[at + 1] ELSE Null
    BY <1>1 DEF Linked
  <2> HIDE DEF at
  <2> QED BY <2>2, <2>3, <2>4
<1>3. \A x \in Nodes \ {Free[k] : k \in 1..Len(c)} : Copied(f, c)[x] = f[x] /\ Linked(f, c)[x] = f[x]
  BY DEF Copied, Linked
<1> QED BY <1>1, <1>2, <1>3

LEMMA CopiesTyped ==
  ASSUME allocated \subseteq Nodes, NEW c \in Seq(Nodes), Fits(Len(c)), NEW f, NEW S
  PROVE  /\ f \in [Nodes -> S] => Copied(f, c) \in [Nodes -> S]
         /\ f \in Links => Linked(f, c) \in Links
<1> DEFINE new == {Free[k] : k \in 1..Len(c)}
<1>1. /\ \A k \in 1..Len(c) : /\ Copied(f, c)[Free[k]] = f[c[k]]
                              /\ Linked(f, c)[Free[k]] = IF k = Len(c) THEN Null ELSE Free[k + 1]
      /\ \A x \in Nodes \ new : Copied(f, c)[x] = f[x] /\ Linked(f, c)[x] = f[x]
  BY Copies
<1>2. \A k \in 1..Len(c) : Free[k] \in Nodes
  BY Copies
<1>3. ASSUME f \in [Nodes -> S] PROVE Copied(f, c) \in [Nodes -> S]
  <2>1. ASSUME NEW x \in Nodes PROVE Copied(f, c)[x] \in S
    <3>1. CASE x \in new
      <4>1. PICK k \in 1..Len(c) : x = Free[k]
        BY <3>1
      <4> QED BY <1>1, <1>3, <4>1
    <3>2. CASE x \notin new
      BY <1>1, <1>3, <3>2
    <3> QED BY <3>1, <3>2
  <2>2. Copied(f, c) = [x \in Nodes |-> Copied(f, c)[x]]
    BY DEF Copied
  <2> QED BY <2>1, <2>2
<1>4. ASSUME f \in Links PROVE Linked(f, c) \in Links
  <2>1. ASSUME NEW x \in Nodes PROVE Linked(f, c)[x] \in Addresses
    <3>1. CASE x \in new
      <4>1. PICK k \in 1..Len(c) : x = Free[k]
        BY <3>1
      <4>2. k # Len(c) => k + 1 \in 1..Len(c)
        OBVIOUS
      <4> QED BY <1>1, <1>2, <4>1, <4>2 DEF Addresses
    <3>2. CASE x \notin new
      BY <1>1, <1>4, <3>2 DEF Links
    <3> QED BY <3>1, <3>2
  <2>2. Linked(f, c) = [x \in Nodes |-> Linked(f, c)[x]]
    BY DEF Linked
  <2> QED BY <2>1, <2>2 DEF Links
<1> QED BY <1>3, <1>4

\* The first name of an empty set.
LEMMA RegisteringEmpty ==
  ASSUME IInv, NEW h \in heads, NEW n \in Names, Find(h, n) = Null, IsEmpty(h),
         name' = [name EXCEPT ![h] = n], UNCHANGED <<allocated, amount, next, iterator, heads>>,
         answer' = Code("done"), defined' = defined \ {h}
  PROVE  IInv' /\ Promised!Becomes(h, With(Amounts[h], n), "done")
<1> DEFINE c == Chain(h)
<1>1. /\ h \in Nodes /\ IsList(next, c) /\ c[1] = h /\ Range(c) \subseteq allocated /\ Len(c) = 1 /\ amount[h] = 0
      /\ Range(c) = {h} /\ DOMAIN Amounts[h] = {}
  BY SetFacts, Sorted
<1>2. Typed(name, amount, next) /\ iterator \in [Nodes -> Addresses]
  BY DEF IInv, Good, GoodCursor
<1>3. /\ name'[h] = n /\ amount'[h] = 0 /\ \A x \in Nodes \ {h} : name'[x] = name[x]
      /\ amount' = amount /\ next' = next /\ allocated' = allocated /\ heads' = heads /\ iterator' = iterator
  BY <1>1, <1>2 DEF Typed
<1>4. Typed(name', amount', next')
  BY <1>1, <1>2, <1>3 DEF Typed
<1> HIDE DEF c
<1>5. Named(name', amount', c)
  BY <1>1, <1>3 DEF Named
<1>6. Says(name', amount', c, With(Amounts[h], n))
  <2>1. n # NoName
    BY Constants
  <2>2. With(Amounts[h], n) = [k \in {n} |-> IF k = n THEN 0 ELSE Amounts[h][k]]
    BY <1>1 DEF With
  <2> QED BY <1>1, <1>3, <2>1, <2>2 DEF Says
<1>7. /\ Range(c) \cap allocated \subseteq Range(c) /\ allocated' = (allocated \ Range(c)) \cup Range(c)
      /\ \A x \in Nodes \ (Range(c) \cup Range(c)) :
           name'[x] = name[x] /\ amount'[x] = amount[x] /\ next'[x] = next[x]
      /\ \A x \in Range(c) \ Range(c) : name'[x] = NoName /\ amount'[x] = 0 /\ next'[x] = Null
      /\ iterator' \in [Nodes -> Addresses] /\ \A g \in Nodes \ {h} : iterator'[g] = iterator[g]
      /\ IsList(next', c)
  BY <1>1, <1>2, <1>3
<1> QED BY <1>1, <1>3, <1>4, <1>5, <1>6, <1>7, OneSet DEF c

\* Before the first: what was there moves to the copy, and the head takes the name.
LEMMA RegisteringFirst ==
  ASSUME IInv, NEW h \in heads, NEW n \in Names, Find(h, n) = Null, ~IsEmpty(h), Less(h, n) = 0, RegisterFirst(h, n),
         heads' = heads, answer' = Code("done"), defined' = defined \ {h}
  PROVE  IInv' /\ Promised!Becomes(h, With(Amounts[h], n), "done")
<1> DEFINE c == Chain(h)
           m == Len(c)
           fresh == {Free[k] : k \in 1..m}
           gone == Range(c) \ {h}
           c2 == [k \in 1..m + 1 |-> IF k = 1 THEN h ELSE Free[k - 1]]
<1>1. /\ h \in Nodes /\ IsList(next, c) /\ c[1] = h /\ m \in Nat \ {0} /\ c \in Seq(Nodes)
      /\ h \in Range(c) /\ Range(c) \subseteq allocated /\ allocated \subseteq Nodes
      /\ Says(name, amount, c, Amounts[h])
  BY SetFacts DEF IsList
<1>2. Typed(name, amount, next) /\ iterator \in [Nodes -> Addresses]
  BY DEF IInv, Good, GoodCursor
<1>3. Fits(m)
  BY DEF RegisterFirst
<1>4. /\ \A k \in 1..m : /\ Free[k] \in Nodes \ allocated
                         /\ Copied(name, c)[Free[k]] = name[c[k]] /\ Copied(amount, c)[Free[k]] = amount[c[k]]
                         /\ Linked(next, c)[Free[k]] = IF k = m THEN Null ELSE Free[k + 1]
      /\ \A j, k \in 1..m : Free[j] = Free[k] => j = k
      /\ \A x \in Nodes \ fresh : /\ Copied(name, c)[x] = name[x] /\ Copied(amount, c)[x] = amount[x]
                                  /\ Linked(next, c)[x] = next[x]
  <2> HIDE DEF c
  <2>1. \A f : /\ \A k \in 1..m : /\ Free[k] \in Nodes \ allocated
                                  /\ Copied(f, c)[Free[k]] = f[c[k]]
                                  /\ Linked(f, c)[Free[k]] = IF k = m THEN Null ELSE Free[k + 1]
               /\ \A j, k \in 1..m : Free[j] = Free[k] => j = k
               /\ \A x \in Nodes \ fresh : Copied(f, c)[x] = f[x] /\ Linked(f, c)[x] = f[x]
    BY <1>1, <1>3, Copies
  <2> HIDE DEF m, fresh
  <2> QED BY <2>1
<1>5. /\ Copied(name, c) \in [Nodes -> Names \cup {NoName}] /\ Copied(amount, c) \in [Nodes -> 0..MaxAmount]
      /\ Linked(next, c) \in Links
  <2> HIDE DEF c
  <2> QED BY <1>1, <1>2, <1>3, CopiesTyped DEF Typed
<1>6. /\ allocated' = (allocated \cup fresh) \ gone
      /\ \A x \in Nodes :
           /\ name'[x] = IF x = h THEN n ELSE IF x \in gone THEN NoName ELSE Copied(name, c)[x]
           /\ amount'[x] = IF x = h THEN 0 ELSE IF x \in gone THEN 0 ELSE Copied(amount, c)[x]
           /\ next'[x] = IF x = h THEN Free[1] ELSE IF x \in gone THEN Null ELSE Linked(next, c)[x]
      /\ iterator' = [iterator EXCEPT ![h] = Null]
  <2>1. DOMAIN c = 1..m
    BY <1>1
  <2>2. allocated' = (allocated \cup fresh) \ gone /\ iterator' = [iterator EXCEPT ![h] = Null]
    BY <2>1 DEF RegisterFirst
  <2>3. /\ name' = [Blank(Copied(name, c), gone, NoName) EXCEPT ![h] = n]
        /\ amount' = [Blank(Copied(amount, c), gone, 0) EXCEPT ![h] = 0]
        /\ next' = [Blank(Linked(next, c), gone, Null) EXCEPT ![h] = Free[1]]
    BY DEF RegisterFirst, AmountReset
  <2> HIDE DEF gone, c, fresh
  <2> QED BY <1>1, <2>2, <2>3 DEF Blank
<1>7. Typed(name', amount', next')
  <2>1. /\ name' = [x \in Nodes |-> name'[x]] /\ amount' = [x \in Nodes |-> amount'[x]]
        /\ next' = [x \in Nodes |-> next'[x]]
    BY DEF RegisterFirst, Blank
  <2>2. 1 \in 1..m /\ 0 \in 0..MaxAmount /\ n \in Names
    BY <1>1, Constants
  <2>3. Free[1] \in Addresses /\ Null \in Addresses
    BY <1>4, <2>2 DEF Addresses
  <2> HIDE DEF gone, c, m, fresh
  <2>4. \A x \in Nodes : /\ name'[x] \in Names \cup {NoName} /\ amount'[x] \in 0..MaxAmount
                         /\ next'[x] \in Addresses
    BY <1>5, <1>6, <2>2, <2>3 DEF Links
  <2> QED BY <2>1, <2>4 DEF Typed, Links
<1>8. c2 \in Seq(Nodes) /\ Len(c2) = m + 1 /\ c2[1] = h /\ \A k \in 1..m : c2[k + 1] = Free[k]
  <2>1. m + 1 \in Nat /\ \A k \in 1..m + 1 : k # 1 => k - 1 \in 1..m
    BY <1>1
  <2>2. c2 \in [1..m + 1 -> Nodes]
    <3> HIDE DEF c, m
    <3> QED BY <1>1, <1>4, <2>1
  <2>3. c2[1] = h
    BY <1>1
  <2>4. \A k \in 1..m : c2[k + 1] = Free[k]
    <3> HIDE DEF c
    <3> QED BY <1>1
  <2> HIDE DEF c2
  <2> QED BY <2>1, <2>2, <2>3, <2>4, FunctionSeq
<1> HIDE DEF c2
<1>9. \A k \in 1..m + 1 : k = 1 \/ \E j \in 1..m : k = j + 1
  <2>1. \A k \in 1..m + 1 : k = 1 \/ (k - 1 \in 1..m /\ k = (k - 1) + 1)
    BY <1>1
  <2> QED BY <2>1
<1> HIDE DEF c, m
<1>10. Range(c2) = {h} \cup fresh
  <2>1. \A k \in 1..m : k + 1 \in 1..m + 1
    BY <1>1
  <2>2. DOMAIN c2 = 1..m + 1 /\ 1 \in 1..m + 1
    BY <1>1, <1>8
  <2> QED BY <1>8, <1>9, <2>1, <2>2 DEF Range
<1>11. /\ h \notin fresh /\ fresh \cap gone = {} /\ fresh \cap allocated = {}
       /\ \A k \in 1..m : Free[k] \in fresh /\ Free[k] # h /\ Free[k] \notin gone /\ Free[k] \in Nodes
  BY <1>1, <1>4
<1>12. /\ name'[c2[0 + 1]] = n /\ amount'[c2[0 + 1]] = 0
       /\ \A k \in 0 + 1..m : name'[c2[k + 1]] = name[c[k]] /\ amount'[c2[k + 1]] = amount[c[k]]
  <2>1. name'[h] = n /\ amount'[h] = 0 /\ c2[0 + 1] = h
    BY <1>1, <1>6, <1>8
  <2>2. \A k \in 1..m : name'[Free[k]] = name[c[k]] /\ amount'[Free[k]] = amount[c[k]]
    <3> HIDE DEF gone, fresh
    <3> QED BY <1>4, <1>6, <1>11
  <2> QED BY <1>8, <2>1, <2>2
<1>13. Named(name', amount', c2) /\ Says(name', amount', c2, With(Amounts[h], n))
  <2>1. /\ \A k \in 1..m : name[c[k]] \in Names
        /\ \A j, k \in 1..m : j < k => name[c[j]] < name[c[k]]
    BY Sorted DEF c, m
  <2>2. \A k \in 1..m : IF k <= 0 THEN name[c[k]] < n ELSE n < name[c[k]]
    BY LessFacts DEF c, m
  <2>3. 0 \in 0..Len(c) /\ \A k \in 1..0 : name'[c2[k]] = name[c[k]] /\ amount'[c2[k]] = amount[c[k]]
    BY <1>1 DEF m
  <2>4. Len(c2) = Len(c) + 1
    BY <1>8 DEF m
  <2>5. InsertedAt(name, amount, c, n, 0, name', amount', c2)
    BY <1>12, <2>2, <2>3, <2>4 DEF InsertedAt, m
  <2> QED BY <1>1, <2>1, <2>5, Inserted DEF m
<1>14. IsList(next', c2)
  <2>1. \A k \in 1..m : next'[Free[k]] = IF k = m THEN Null ELSE Free[k + 1]
    <3> HIDE DEF gone, fresh
    <3> QED BY <1>4, <1>6, <1>11
  <2>2. next'[h] = Free[1]
    BY <1>1, <1>6
  <2>3. ASSUME NEW k \in 1..m + 1
        PROVE  next'[c2[k]] = IF k = m + 1 THEN Null ELSE c2[k + 1]
    <3>1. CASE k = 1
      <4>1. 1 \in 1..m /\ k # m + 1
        BY <1>1, <3>1
      <4> QED BY <1>8, <2>2, <3>1, <4>1
    <3>2. CASE k # 1
      <4>1. PICK j \in 1..m : k = j + 1
        BY <1>9, <3>2
      <4>2. c2[k] = Free[j] /\ (k = m + 1 <=> j = m)
        BY <1>1, <1>8, <4>1
      <4>3. j # m => j + 1 \in 1..m /\ c2[k + 1] = Free[j + 1]
        BY <1>1, <1>8, <4>1
      <4> QED BY <2>1, <4>1, <4>2, <4>3
    <3> QED BY <3>1, <3>2
  <2>4. ASSUME NEW j \in 1..m + 1, NEW k \in 1..m + 1, c2[j] = c2[k] PROVE j = k
    <3>1. \A i \in 1..m : c2[i + 1] = Free[i] /\ Free[i] # h
      BY <1>8, <1>11
    <3>2. CASE j = 1
      <4>1. k = 1
        BY <1>8, <1>9, <2>4, <3>1, <3>2
      <4> QED BY <3>2, <4>1
    <3>3. CASE j # 1
      <4>1. PICK i \in 1..m : j = i + 1
        BY <1>9, <3>3
      <4>2. k # 1
        BY <1>8, <2>4, <3>1, <4>1
      <4>3. PICK l \in 1..m : k = l + 1
        BY <1>9, <4>2
      <4>4. i = l
        BY <1>4, <2>4, <3>1, <4>1, <4>3
      <4> QED BY <4>1, <4>3, <4>4
    <3> QED BY <3>2, <3>3
  <2> QED BY <1>1, <1>8, <2>3, <2>4 DEF IsList
<1>15. /\ Range(c2) \cap allocated \subseteq Range(c) /\ allocated' = (allocated \ Range(c)) \cup Range(c2)
       /\ \A x \in Nodes \ (Range(c) \cup Range(c2)) :
            name'[x] = name[x] /\ amount'[x] = amount[x] /\ next'[x] = next[x]
       /\ \A x \in Range(c) \ Range(c2) : name'[x] = NoName /\ amount'[x] = 0 /\ next'[x] = Null
  <2>1. Range(c2) \cap allocated \subseteq Range(c) /\ allocated' = (allocated \ Range(c)) \cup Range(c2)
    <3> HIDE DEF fresh
    <3> QED BY <1>1, <1>6, <1>10, <1>11
  <2>2. ASSUME NEW x \in Nodes \ (Range(c) \cup Range(c2))
        PROVE  name'[x] = name[x] /\ amount'[x] = amount[x] /\ next'[x] = next[x]
    <3>1. x # h /\ x \notin gone /\ x \notin fresh
      BY <1>10
    <3> HIDE DEF fresh, gone
    <3> QED BY <1>4, <1>6, <3>1
  <2>3. ASSUME NEW x \in Range(c) \ Range(c2)
        PROVE  name'[x] = NoName /\ amount'[x] = 0 /\ next'[x] = Null
    <3>1. x # h /\ x \in gone /\ x \in Nodes
      BY <1>1, <1>10
    <3> HIDE DEF fresh, gone
    <3> QED BY <1>6, <3>1
  <2> QED BY <2>1, <2>2, <2>3
<1>16. iterator' \in [Nodes -> Addresses] /\ \A g \in Nodes \ {h} : iterator'[g] = iterator[g]
  BY <1>2, <1>6 DEF Addresses
<1> QED BY <1>7, <1>8, <1>13, <1>14, <1>15, <1>16, OneSet DEF c

\* After the last smaller name: a new node is linked in.
LEMMA RegisteringAfter ==
  ASSUME IInv, NEW h \in heads, NEW n \in Names, Find(h, n) = Null, ~IsEmpty(h), Less(h, n) > 0,
         RegisterAfter(h, n, Chain(h)[Less(h, n)]),
         heads' = heads, answer' = Code("done"), defined' = defined \ {h}
  PROVE  IInv' /\ Promised!Becomes(h, With(Amounts[h], n), "done")
<1> DEFINE c == Chain(h)
           m == Len(c)
           l == Less(h, n)
           y == Free[1]
           c2 == [k \in 1..m + 1 |-> IF k <= l THEN c[k] ELSE IF k = l + 1 THEN y ELSE c[k - 1]]
<1>1. /\ h \in Nodes /\ IsList(next, c) /\ c[1] = h /\ m \in Nat \ {0} /\ c \in Seq(Nodes)
      /\ h \in Range(c) /\ Range(c) \subseteq allocated /\ allocated \subseteq Nodes
      /\ Range(c) = {c[k] : k \in 1..m} /\ \A k \in 1..m : c[k] \in Nodes /\ c[k] \in allocated
      /\ \A j, k \in 1..m : c[j] = c[k] => j = k
      /\ \A k \in 1..m : next[c[k]] = IF k = m THEN Null ELSE c[k + 1]
      /\ Says(name, amount, c, Amounts[h])
  BY SetFacts DEF IsList
<1>2. Typed(name, amount, next) /\ iterator \in [Nodes -> Addresses]
  BY DEF IInv, Good, GoodCursor
<1>3. l \in 1..m /\ \A k \in 1..m : IF k <= l THEN name[c[k]] < n ELSE n < name[c[k]]
  <2>1. Less(h, n) \in 0..Len(Chain(h)) /\ Less(h, n) > 0
    BY LessFacts
  <2> QED BY <2>1, LessFacts
<1>4. y \in Nodes \ allocated
  <2>1. 1 \in 1..Len(Free)
    BY <1>1, FreeFacts DEF RegisterAfter, Fits
  <2> QED BY <1>1, <2>1, FreeFacts
<1>5. \A k \in 1..m : c[k] # y
  BY <1>1, <1>4
<1> DEFINE x == c[l]
<1>6. x \in Nodes /\ x # y /\ next[x] \in Addresses
  <2> HIDE DEF c, y, l
  <2> QED BY <1>1, <1>2, <1>3, <1>5 DEF Typed, Links
<1>7. /\ allocated' = allocated \cup {y}
      /\ name' = [name EXCEPT ![y] = n] /\ amount' = [amount EXCEPT ![y] = 0]
      /\ next' = [next EXCEPT ![y] = next[x], ![x] = y]
      /\ iterator' = [iterator EXCEPT ![h] = next[x]]
  BY DEF RegisterAfter
<1> HIDE DEF x, y
<1>8. /\ name'[y] = n /\ amount'[y] = 0 /\ next'[y] = next[x] /\ next'[x] = y
      /\ \A z \in Nodes \ {y} : name'[z] = name[z] /\ amount'[z] = amount[z] /\ (z # x => next'[z] = next[z])
  BY <1>2, <1>4, <1>6, <1>7 DEF Typed, Links
<1>9. /\ Typed(name', amount', next')
      /\ iterator' \in [Nodes -> Addresses]
      /\ \A g \in Nodes \ {h} : iterator'[g] = iterator[g]
  <2>1. 0 \in 0..MaxAmount /\ y \in Addresses
    BY <1>4, Constants DEF Addresses
  <2> QED BY <1>2, <1>6, <1>7, <2>1 DEF Typed, Links
<1>10. /\ c2 \in Seq(Nodes) /\ Len(c2) = m + 1 /\ c2[l + 1] = y
       /\ \A k \in 1..l : c2[k] = c[k]
       /\ \A k \in l + 1..m : c2[k + 1] = c[k]
  <2> HIDE DEF c, m, l
  <2>1. m + 1 \in Nat /\ l \in 1..m
    BY <1>1, <1>3
  <2>2. c2 \in [1..m + 1 -> Nodes]
    <3>1. ASSUME NEW k \in 1..m + 1 PROVE c2[k] \in Nodes
      <4>1. \/ k <= l /\ k \in 1..m
            \/ ~(k <= l) /\ k = l + 1
            \/ ~(k <= l) /\ k # l + 1 /\ k - 1 \in 1..m
        BY <1>1, <2>1
      <4> QED BY <1>1, <1>4, <4>1
    <3> QED BY <3>1
  <2>3. c2[l + 1] = y /\ (\A k \in 1..l : c2[k] = c[k])
    BY <1>1, <2>1
  <2>4. \A k \in l + 1..m : c2[k + 1] = c[k]
    BY <1>1, <2>1
  <2> HIDE DEF c2
  <2> QED BY <2>1, <2>2, <2>3, <2>4, FunctionSeq
<1> HIDE DEF c2
<1>11. /\ \A k \in 1..m + 1 : k \in 1..l \/ k = l + 1 \/ \E j \in l + 1..m : k = j + 1
       /\ \A k \in 1..m : k \in 1..l \/ k \in l + 1..m
       /\ \A k \in 1..l : k \in 1..m /\ k \in 1..m + 1 /\ k # m + 1
       /\ \A k \in l + 1..m : k \in 1..m /\ k + 1 \in 1..m + 1
       /\ l + 1 \in 1..m + 1 /\ m \in Nat /\ l \in Nat
  <2> HIDE DEF c, m, l
  <2>1. m \in Nat /\ l \in 1..m
    BY <1>1, <1>3
  <2>2. \A k \in 1..m + 1 : k \in 1..l \/ k = l + 1 \/ (k - 1 \in l + 1..m /\ k = (k - 1) + 1)
    BY <2>1
  <2>3. \A k \in 1..m + 1 : k \in 1..l \/ k = l + 1 \/ \E j \in l + 1..m : k = j + 1
    BY <2>2
  <2> QED BY <2>1, <2>3
<1> HIDE DEF l, m, c
<1>12. Range(c2) = Range(c) \cup {y}
  <2>1. Range(c2) = {c2[k] : k \in 1..m + 1}
    BY <1>10, <1>11 DEF Range
  <2>2. ASSUME NEW k \in 1..m + 1 PROVE c2[k] = y \/ \E j \in 1..m : c2[k] = c[j]
    BY <1>10, <1>11
  <2>3. ASSUME NEW j \in 1..m PROVE \E k \in 1..m + 1 : c2[k] = c[j]
    BY <1>10, <1>11
  <2>4. \E k \in 1..m + 1 : c2[k] = y
    BY <1>10, <1>11
  <2> QED BY <1>1, <2>1, <2>2, <2>3, <2>4
<1>13. Named(name', amount', c2) /\ Says(name', amount', c2, With(Amounts[h], n))
  <2>1. /\ \A k \in 1..m : name[c[k]] \in Names
        /\ \A j, k \in 1..m : j < k => name[c[j]] < name[c[k]]
    BY Sorted DEF c, m
  <2>2. \A k \in 1..m : name'[c[k]] = name[c[k]] /\ amount'[c[k]] = amount[c[k]]
    BY <1>1, <1>5, <1>8
  <2>3. InsertedAt(name, amount, c, n, l, name', amount', c2)
    <3>1. \A k \in 1..l : name'[c2[k]] = name[c[k]] /\ amount'[c2[k]] = amount[c[k]]
      BY <1>10, <1>11, <2>2
    <3>2. \A k \in l + 1..m : name'[c2[k + 1]] = name[c[k]] /\ amount'[c2[k + 1]] = amount[c[k]]
      BY <1>10, <1>11, <2>2
    <3>3. l \in 0..m
      BY <1>3, <1>11
    <3> QED BY <1>3, <1>8, <1>10, <3>1, <3>2, <3>3 DEF InsertedAt, m
  <2> QED BY <1>1, <2>1, <2>3, Inserted DEF m
<1>14. IsList(next', c2)
  <2>1. \A k \in 1..m : next'[c[k]] = IF k = l THEN y ELSE IF k = m THEN Null ELSE c[k + 1]
    <3>1. ASSUME NEW k \in 1..m PROVE next'[c[k]] = IF k = l THEN y ELSE IF k = m THEN Null ELSE c[k + 1]
      <4>1. c[k] # y /\ c[k] \in Nodes /\ (c[k] = x <=> k = l)
        BY <1>1, <1>3, <1>5 DEF x
      <4> QED BY <1>1, <1>8, <4>1
    <3> QED BY <3>1
  <2>2. next'[y] = IF l = m THEN Null ELSE c[l + 1]
    BY <1>1, <1>3, <1>8 DEF x
  <2>3. ASSUME NEW k \in 1..m + 1 PROVE next'[c2[k]] = IF k = m + 1 THEN Null ELSE c2[k + 1]
    <3>1. CASE k \in 1..l
      <4>1. c2[k] = c[k] /\ k \in 1..m /\ k # m + 1
        BY <1>10, <1>11, <3>1
      <4>2. CASE k = l
        BY <1>10, <2>1, <4>1, <4>2
      <4>3. CASE k # l
        <5>1. k + 1 \in 1..l /\ k # m
          BY <1>3, <1>11, <3>1, <4>3
        <5>2. c2[k + 1] = c[k + 1]
          BY <1>10, <5>1
        <5> QED BY <2>1, <4>1, <4>3, <5>1, <5>2
      <4> QED BY <4>2, <4>3
    <3>2. CASE k = l + 1
      <4>1. CASE l = m
        BY <1>10, <2>2, <3>2, <4>1
      <4>2. CASE l # m
        <5>1. l + 1 \in l + 1..m /\ k # m + 1
          BY <1>3, <1>11, <3>2, <4>2
        <5>2. c2[k + 1] = c[l + 1]
          BY <1>10, <3>2, <5>1
        <5> QED BY <1>10, <2>2, <3>2, <4>2, <5>1, <5>2
      <4> QED BY <4>1, <4>2
    <3>3. ASSUME NEW j \in l + 1..m, k = j + 1 PROVE next'[c2[k]] = IF k = m + 1 THEN Null ELSE c2[k + 1]
      <4>1. c2[k] = c[j] /\ j \in 1..m /\ j # l
        BY <1>10, <1>11, <3>3
      <4>2. CASE j = m
        BY <1>11, <2>1, <3>3, <4>1, <4>2
      <4>3. CASE j # m
        <5>1. j + 1 \in l + 1..m /\ k # m + 1
          BY <1>11, <3>3, <4>3
        <5>2. c2[k + 1] = c[j + 1]
          BY <1>10, <3>3, <5>1
        <5> QED BY <2>1, <4>1, <4>3, <5>1, <5>2
      <4> QED BY <4>2, <4>3
    <3> QED BY <1>11, <3>1, <3>2, <3>3
  <2>4. ASSUME NEW j \in 1..m + 1, NEW k \in 1..m + 1, c2[j] = c2[k] PROVE j = k
    <3>1. \A i \in 1..m + 1 : i = l + 1 \/ (\E o \in 1..m : c2[i] = c[o] /\ i = IF o <= l THEN o ELSE o + 1)
      <4>1. ASSUME NEW i \in 1..m + 1, i # l + 1 PROVE \E o \in 1..m : c2[i] = c[o] /\ i = IF o <= l THEN o ELSE o + 1
        <5>1. CASE i \in 1..l
          BY <1>10, <1>11, <5>1
        <5>2. ASSUME NEW o \in l + 1..m, i = o + 1 PROVE c2[i] = c[o] /\ o \in 1..m /\ ~(o <= l)
          BY <1>10, <1>11, <5>2
        <5> QED BY <1>11, <4>1, <5>1, <5>2
      <4> QED BY <4>1
    <3>2. c2[l + 1] = y
      BY <1>10
    <3> QED BY <1>1, <1>5, <2>4, <3>1, <3>2
  <2> QED BY <1>10, <1>11, <2>3, <2>4 DEF IsList
<1>15. c2[1] = h
  <2>1. 1 \in 1..l
    BY <1>3, <1>11
  <2> QED BY <1>1, <1>10, <2>1
<1>16. /\ Range(c2) \cap allocated \subseteq Range(c) /\ allocated' = (allocated \ Range(c)) \cup Range(c2)
       /\ \A z \in Nodes \ (Range(c) \cup Range(c2)) :
            name'[z] = name[z] /\ amount'[z] = amount[z] /\ next'[z] = next[z]
       /\ \A z \in Range(c) \ Range(c2) : name'[z] = NoName /\ amount'[z] = 0 /\ next'[z] = Null
  <2>1. x \in Range(c)
    BY <1>1, <1>3 DEF x
  <2> QED BY <1>1, <1>4, <1>7, <1>8, <1>12, <2>1
<1> QED BY <1>9, <1>13, <1>14, <1>15, <1>16, OneSet DEF c

\* asRegister.
LEMMA RegisterStep ==
  ASSUME IInv, NEW h \in heads, NEW n \in Names, AsRegister(h, n)
  PROVE  IInv' /\ Promised!Next
<1>1. CASE Find(h, n) # Null
  <2>1. /\ UNCHANGED <<heads, nodeVars>> /\ answer' = Code("AS_ITEM_ALREADY_EXISTS") /\ defined' = defined \ {h}
        /\ iterator' \in [Nodes -> Addresses] /\ \A g \in Nodes \ {h} : iterator'[g] = iterator[g]
    BY <1>1 DEF AsRegister, IInv, GoodCursor
  <2>2. IInv' /\ Promised!Becomes(h, Amounts[h], "AS_ITEM_ALREADY_EXISTS")
    BY <2>1, Declining
  <2>3. n \in DOMAIN Amounts[h]
    BY <1>1, Found
  <2> QED BY <2>2, <2>3, Registering
<1>2. CASE Find(h, n) = Null
  <2>1. n \notin DOMAIN Amounts[h] /\ heads' = heads /\ answer' = Code("done") /\ defined' = defined \ {h}
    BY <1>2, Found DEF AsRegister
  <2>2. \/ IsEmpty(h) /\ name' = [name EXCEPT ![h] = n] /\ UNCHANGED <<allocated, amount, next, iterator>>
        \/ ~IsEmpty(h) /\ Less(h, n) = 0 /\ RegisterFirst(h, n)
        \/ ~IsEmpty(h) /\ Less(h, n) > 0 /\ RegisterAfter(h, n, Chain(h)[Less(h, n)])
    BY <1>2 DEF AsRegister
  <2>3. IInv' /\ Promised!Becomes(h, With(Amounts[h], n), "done")
    BY <1>2, <2>1, <2>2, RegisteringEmpty, RegisteringFirst, RegisteringAfter
  <2> QED BY <2>1, <2>3, Registering
<1> QED BY <1>1, <1>2

-----------------------------------------------------------------------------
(* asDelete.                                                                 *)

\* The node takes over its successor.
LEMMA TakingOver ==
  ASSUME IInv, NEW h \in heads, ~IsEmpty(h), NEW p \in 1..Len(Chain(h)), next[Chain(h)[p]] # Null,
         TakeOver(h, Chain(h)[p], next[Chain(h)[p]]),
         heads' = heads, answer' = Code("done"), defined' = defined \ {h}
  PROVE  IInv' /\ Promised!Becomes(h, Without(Amounts[h], name[Chain(h)[p]]), "done")
<1> DEFINE c == Chain(h)
           m == Len(c)
           x == c[p]
           y == next[x]
           c2 == [k \in 1..m - 1 |-> IF k <= p THEN c[k] ELSE c[k + 1]]
<1>1. /\ h \in Nodes /\ IsList(next, c) /\ c[1] = h /\ m \in Nat \ {0} /\ c \in Seq(Nodes)
      /\ h \in Range(c) /\ Range(c) \subseteq allocated /\ allocated \subseteq Nodes
      /\ Range(c) = {c[k] : k \in 1..m} /\ \A k \in 1..m : c[k] \in Nodes /\ c[k] \in allocated
      /\ \A j, k \in 1..m : c[j] = c[k] => j = k
      /\ \A k \in 1..m : next[c[k]] = IF k = m THEN Null ELSE c[k + 1]
      /\ Says(name, amount, c, Amounts[h])
  BY SetFacts DEF IsList
<1>2. Typed(name, amount, next) /\ iterator \in [Nodes -> Addresses]
  BY DEF IInv, Good, GoodCursor
<1>3. p \in 1..m /\ p # m /\ p + 1 \in 1..m /\ y = c[p + 1] /\ m - 1 \in Nat /\ m \in Nat
  <2>1. p \in 1..m /\ next[c[p]] # Null
    OBVIOUS
  <2> HIDE DEF c, m
  <2> QED BY <1>1, <2>1
<1>4. x \in Nodes /\ y \in Nodes /\ x # y /\ next[y] \in Addresses
  <2> HIDE DEF c, m
  <2>1. c[p] \in Nodes /\ c[p + 1] \in Nodes /\ (c[p] = c[p + 1] => p = p + 1)
    BY <1>1, <1>3
  <2> QED BY <1>2, <1>3, <2>1 DEF Typed, Links
<1>5. /\ allocated' = allocated \ {y}
      /\ name' = [name EXCEPT ![x] = name[y], ![y] = NoName] /\ amount' = [amount EXCEPT ![x] = amount[y], ![y] = 0]
      /\ next' = [next EXCEPT ![x] = next[y], ![y] = Null]
      /\ iterator' = [iterator EXCEPT ![h] = x]
  BY DEF TakeOver, LinkTaken
<1> HIDE DEF x, y
<1>6. /\ name'[x] = name[y] /\ amount'[x] = amount[y] /\ next'[x] = next[y]
      /\ name'[y] = NoName /\ amount'[y] = 0 /\ next'[y] = Null
      /\ \A z \in Nodes \ {x, y} : name'[z] = name[z] /\ amount'[z] = amount[z] /\ next'[z] = next[z]
  BY <1>2, <1>4, <1>5 DEF Typed, Links
<1>7. /\ Typed(name', amount', next')
      /\ iterator' \in [Nodes -> Addresses]
      /\ \A g \in Nodes \ {h} : iterator'[g] = iterator[g]
  <2>1. 0 \in 0..MaxAmount /\ x \in Addresses /\ Null \in Addresses
    BY <1>4, Constants DEF Addresses
  <2> QED BY <1>2, <1>4, <1>5, <2>1 DEF Typed, Links
<1>8. c2 \in Seq(Nodes) /\ Len(c2) = m - 1 /\ \A k \in 1..m - 1 : c2[k] = IF k <= p THEN c[k] ELSE c[k + 1]
  <2> HIDE DEF c, m
  <2>1. c2 \in [1..m - 1 -> Nodes]
    <3>1. \A k \in 1..m - 1 : k \in 1..m /\ k + 1 \in 1..m
      BY <1>3
    <3> QED BY <1>1, <3>1
  <2>2. \A k \in 1..m - 1 : c2[k] = IF k <= p THEN c[k] ELSE c[k + 1]
    OBVIOUS
  <2> HIDE DEF c2
  <2> QED BY <1>3, <2>1, <2>2, FunctionSeq
<1> HIDE DEF c, m, c2
<1>9. /\ \A k \in 1..m - 1 : k \in 1..m /\ k + 1 \in 1..m /\ k # m
      /\ m \in Nat /\ 1 \in 1..m - 1 /\ p \in 1..m - 1
      /\ \A j \in 1..m : \/ j = p + 1
                         \/ j <= p /\ j \in 1..m - 1
                         \/ (~(j - 1 <= p) /\ j - 1 \in 1..m - 1 /\ (j - 1) + 1 = j)
  BY <1>1, <1>3
<1>10. \A k \in 1..m : (c[k] = x <=> k = p) /\ (c[k] = y <=> k = p + 1)
  BY <1>1, <1>3 DEF x
<1>11. Range(c2) = Range(c) \ {y}
  <2>1. Range(c2) = {c2[k] : k \in 1..m - 1}
    BY <1>8 DEF Range
  <2>2. ASSUME NEW k \in 1..m - 1 PROVE c2[k] # y /\ \E j \in 1..m : c2[k] = c[j]
    <3>1. CASE k <= p
      <4>1. c2[k] = c[k] /\ k \in 1..m /\ k # p + 1
        BY <1>3, <1>8, <1>9, <3>1
      <4> QED BY <1>10, <4>1
    <3>2. CASE ~(k <= p)
      <4>1. c2[k] = c[k + 1] /\ k + 1 \in 1..m /\ k + 1 # p + 1
        BY <1>3, <1>8, <1>9, <3>2
      <4> QED BY <1>10, <4>1
    <3> QED BY <3>1, <3>2
  <2>3. ASSUME NEW j \in 1..m, c[j] # y PROVE \E k \in 1..m - 1 : c2[k] = c[j]
    <3>1. j # p + 1
      BY <1>3, <2>3
    <3> QED BY <1>8, <1>9, <3>1
  <2>4. Range(c) = {c[k] : k \in 1..m}
    BY <1>1
  <2> QED BY <2>1, <2>2, <2>3, <2>4
<1>12. Named(name', amount', c2) /\ Says(name', amount', c2, Without(Amounts[h], name[c[p]]))
  <2>1. /\ \A k \in 1..m : name[c[k]] \in Names
        /\ \A j, k \in 1..m : j < k => name[c[j]] < name[c[k]]
    BY Sorted DEF c, m
  <2>2. ASSUME NEW k \in 1..m - 1
        PROVE  LET o == IF k < p THEN k ELSE k + 1 IN name'[c2[k]] = name[c[o]] /\ amount'[c2[k]] = amount[c[o]]
    <3>1. CASE k = p
      <4>1. c2[k] = x /\ y = c[k + 1]
        BY <1>3, <1>8, <3>1 DEF x
      <4> QED BY <1>3, <1>6, <3>1, <4>1
    <3>2. CASE k # p
      <4> DEFINE o == IF k < p THEN k ELSE k + 1
      <4>1. c2[k] = c[o] /\ o \in 1..m /\ o # p /\ o # p + 1
        BY <1>3, <1>8, <1>9, <3>2
      <4> HIDE DEF o
      <4>2. c[o] \in Nodes \ {x, y}
        BY <1>1, <1>10, <4>1
      <4>3. name'[c2[k]] = name[c[o]] /\ amount'[c2[k]] = amount[c[o]]
        BY <1>6, <4>1, <4>2
      <4> QED BY <4>3 DEF o
    <3> QED BY <3>1, <3>2
  <2>3. RemovedAt(name, amount, c, p, name', amount', c2)
    BY <1>3, <1>8, <2>2 DEF RemovedAt, m
  <2>4. Len(c) \in Nat /\ Len(c) > 1
    BY <1>1, <1>3 DEF m
  <2> QED BY <1>1, <2>1, <2>3, <2>4, Removed DEF m
<1>13. IsList(next', c2)
  <2>1. ASSUME NEW k \in 1..m - 1 PROVE next'[c2[k]] = IF k = m - 1 THEN Null ELSE c2[k + 1]
    <3>1. k # m - 1 => k + 1 \in 1..m - 1
      BY <1>3
    <3>2. CASE k < p
      <4>1. c2[k] = c[k] /\ k \in 1..m /\ k # m /\ k # m - 1 /\ k # p /\ k # p + 1 /\ k + 1 <= p
        BY <1>3, <1>8, <1>9, <3>2
      <4>2. c[k] \in Nodes \ {x, y}
        BY <1>1, <1>10, <4>1
      <4>3. c2[k + 1] = c[k + 1]
        BY <1>8, <3>1, <4>1
      <4> QED BY <1>1, <1>6, <4>1, <4>2, <4>3
    <3>3. CASE k = p
      <4>1. c2[k] = x /\ next'[x] = next[c[p + 1]]
        BY <1>3, <1>6, <1>8, <3>3 DEF x
      <4>2. next[c[p + 1]] = IF p + 1 = m THEN Null ELSE c[(p + 1) + 1]
        BY <1>1, <1>3
      <4>3. k # m - 1 => c2[k + 1] = c[(p + 1) + 1]
        BY <1>3, <1>8, <3>1, <3>3
      <4> QED BY <1>3, <3>3, <4>1, <4>2, <4>3
    <3>4. CASE k > p
      <4>1. c2[k] = c[k + 1] /\ k + 1 \in 1..m /\ k + 1 # p /\ k + 1 # p + 1
        BY <1>3, <1>8, <1>9, <3>4
      <4>2. c[k + 1] \in Nodes \ {x, y}
        BY <1>1, <1>10, <4>1
      <4>3. next'[c2[k]] = IF k + 1 = m THEN Null ELSE c[(k + 1) + 1]
        BY <1>1, <1>6, <4>1, <4>2
      <4>4. k # m - 1 => c2[k + 1] = c[(k + 1) + 1]
        BY <1>3, <1>8, <3>1, <3>4
      <4> QED BY <1>3, <4>3, <4>4
    <3> QED BY <1>3, <3>2, <3>3, <3>4
  <2>2. ASSUME NEW j \in 1..m - 1, NEW k \in 1..m - 1, c2[j] = c2[k] PROVE j = k
    <3> DEFINE o(i) == IF i <= p THEN i ELSE i + 1
    <3>1. \A i \in 1..m - 1 : c2[i] = c[o(i)] /\ o(i) \in 1..m
      BY <1>8, <1>9
    <3>2. o(j) = o(k) => j = k
      BY <1>3
    <3> HIDE DEF o
    <3>3. o(j) \in 1..m /\ o(k) \in 1..m /\ c[o(j)] = c[o(k)]
      BY <2>2, <3>1
    <3>4. \A i, l \in 1..m : c[i] = c[l] => i = l
      BY <1>1
    <3> QED BY <3>2, <3>3, <3>4
  <2>3. m - 1 > 0
    BY <1>3
  <2> QED BY <1>8, <2>1, <2>2, <2>3 DEF IsList
<1>14. c2[1] = h
  BY <1>1, <1>3, <1>8, <1>9
<1>15. /\ Range(c2) \cap allocated \subseteq Range(c) /\ allocated' = (allocated \ Range(c)) \cup Range(c2)
       /\ \A z \in Nodes \ (Range(c) \cup Range(c2)) :
            name'[z] = name[z] /\ amount'[z] = amount[z] /\ next'[z] = next[z]
       /\ \A z \in Range(c) \ Range(c2) : name'[z] = NoName /\ amount'[z] = 0 /\ next'[z] = Null
  <2>1. x \in Range(c) /\ y \in Range(c)
    BY <1>1, <1>3 DEF x
  <2> QED BY <1>1, <1>5, <1>6, <1>11, <2>1
<1> QED BY <1>7, <1>12, <1>13, <1>14, <1>15, OneSet DEF c

\* The last node goes; it is not the head.
LEMMA CuttingLast ==
  ASSUME IInv, NEW h \in heads, ~IsEmpty(h), Chain(h)[Len(Chain(h))] # h, CutLast(h, Chain(h)[Len(Chain(h))]),
         heads' = heads, answer' = Code("done"), defined' = defined \ {h}
  PROVE  IInv' /\ Promised!Becomes(h, Without(Amounts[h], name[Chain(h)[Len(Chain(h))]]), "done")
<1> DEFINE c == Chain(h)
           m == Len(c)
           x == c[m]
           y == c[m - 1]
           c2 == [k \in 1..m - 1 |-> c[k]]
<1>1. /\ h \in Nodes /\ IsList(next, c) /\ c[1] = h /\ m \in Nat \ {0} /\ c \in Seq(Nodes)
      /\ Range(c) \subseteq allocated /\ allocated \subseteq Nodes
      /\ Range(c) = {c[k] : k \in 1..m} /\ \A k \in 1..m : c[k] \in Nodes /\ c[k] \in allocated
      /\ \A j, k \in 1..m : c[j] = c[k] => j = k
      /\ \A k \in 1..m : next[c[k]] = IF k = m THEN Null ELSE c[k + 1]
      /\ Says(name, amount, c, Amounts[h])
  BY SetFacts DEF IsList
<1>2. Typed(name, amount, next) /\ iterator \in [Nodes -> Addresses]
  BY DEF IInv, Good, GoodCursor
<1>3. m - 1 \in 1..m /\ m \in 1..m /\ m \in Nat
  <2>1. m # 1
    BY <1>1
  <2> HIDE DEF c, m
  <2> QED BY <1>1, <2>1
<1>4. x \in Nodes /\ y \in Nodes /\ x # y /\ next[x] = Null
  <2> HIDE DEF c, m
  <2>1. c[m] = c[m - 1] => m = m - 1
    BY <1>1, <1>3
  <2> QED BY <1>1, <1>3, <2>1
<1>5. /\ allocated' = allocated \ {x}
      /\ name' = [name EXCEPT ![x] = NoName] /\ amount' = [amount EXCEPT ![x] = 0]
      /\ next' = [next EXCEPT ![y] = Null]
      /\ iterator' = [iterator EXCEPT ![h] = x]
  BY DEF CutLast
<1> HIDE DEF x, y
<1>6. /\ name'[x] = NoName /\ amount'[x] = 0 /\ next'[x] = Null /\ next'[y] = Null
      /\ \A z \in Nodes \ {x} : name'[z] = name[z] /\ amount'[z] = amount[z] /\ (z # y => next'[z] = next[z])
  BY <1>2, <1>4, <1>5 DEF Typed, Links
<1>7. /\ Typed(name', amount', next')
      /\ iterator' \in [Nodes -> Addresses]
      /\ \A g \in Nodes \ {h} : iterator'[g] = iterator[g]
  <2>1. 0 \in 0..MaxAmount /\ x \in Addresses /\ Null \in Addresses
    BY <1>4, Constants DEF Addresses
  <2> QED BY <1>2, <1>4, <1>5, <2>1 DEF Typed, Links
<1>8. c2 \in Seq(Nodes) /\ Len(c2) = m - 1 /\ \A k \in 1..m - 1 : c2[k] = c[k]
  <2> HIDE DEF c, m
  <2>1. \A k \in 1..m - 1 : k \in 1..m
    BY <1>3
  <2>2. c2 \in [1..m - 1 -> Nodes] /\ \A k \in 1..m - 1 : c2[k] = c[k]
    BY <1>1, <2>1
  <2>3. m - 1 \in Nat
    BY <1>3
  <2> HIDE DEF c2
  <2> QED BY <2>2, <2>3, FunctionSeq
<1> HIDE DEF c, m, c2
<1>9. /\ \A k \in 1..m - 1 : k \in 1..m /\ k # m
      /\ \A k \in 1..m : k = m \/ k \in 1..m - 1
      /\ 1 \in 1..m - 1 /\ m - 1 > 0
  BY <1>3
<1>10. \A k \in 1..m : (c[k] = x <=> k = m) /\ (c[k] = y <=> k = m - 1)
  BY <1>1, <1>3 DEF x, y
<1>11. Range(c2) = Range(c) \ {x}
  <2>1. Range(c2) = {c2[k] : k \in 1..m - 1}
    BY <1>8 DEF Range
  <2>2. \A k \in 1..m - 1 : c2[k] # x /\ \E j \in 1..m : c2[k] = c[j]
    BY <1>8, <1>9, <1>10
  <2>3. \A j \in 1..m : c[j] # x => \E k \in 1..m - 1 : c2[k] = c[j]
    BY <1>8, <1>9, <1>10
  <2>4. Range(c) = {c[k] : k \in 1..m}
    BY <1>1
  <2> QED BY <2>1, <2>2, <2>3, <2>4
<1>12. Named(name', amount', c2) /\ Says(name', amount', c2, Without(Amounts[h], name[c[m]]))
  <2>1. /\ \A k \in 1..m : name[c[k]] \in Names
        /\ \A j, k \in 1..m : j < k => name[c[j]] < name[c[k]]
    BY Sorted DEF c, m
  <2>2. ASSUME NEW k \in 1..m - 1
        PROVE  LET o == IF k < m THEN k ELSE k + 1 IN name'[c2[k]] = name[c[o]] /\ amount'[c2[k]] = amount[c[o]]
    <3>1. k < m /\ c2[k] = c[k] /\ k \in 1..m /\ k # m
      BY <1>3, <1>8, <1>9
    <3>2. c[k] \in Nodes \ {x}
      BY <1>1, <1>10, <3>1
    <3>3. name'[c2[k]] = name[c[k]] /\ amount'[c2[k]] = amount[c[k]]
      BY <1>6, <3>1, <3>2
    <3> QED BY <3>1, <3>3
  <2>3. RemovedAt(name, amount, c, m, name', amount', c2)
    BY <1>3, <1>8, <2>2 DEF RemovedAt, m
  <2>4. Len(c) \in Nat /\ Len(c) > 1
    BY <1>1, <1>3 DEF m
  <2> QED BY <1>1, <2>1, <2>3, <2>4, Removed DEF m
<1>13. IsList(next', c2)
  <2>1. ASSUME NEW k \in 1..m - 1 PROVE next'[c2[k]] = IF k = m - 1 THEN Null ELSE c2[k + 1]
    <3>1. c2[k] = c[k] /\ k \in 1..m /\ k # m
      BY <1>8, <1>9
    <3>2. CASE k = m - 1
      BY <1>6, <1>10, <3>1, <3>2
    <3>3. CASE k # m - 1
      <4>1. k + 1 \in 1..m - 1
        BY <1>3, <3>3
      <4>2. c[k] \in Nodes \ {x, y}
        BY <1>1, <1>10, <3>1, <3>3
      <4>3. next'[c[k]] = c[k + 1] /\ c2[k + 1] = c[k + 1]
        BY <1>1, <1>6, <1>8, <3>1, <4>1, <4>2
      <4> QED BY <3>1, <3>3, <4>3
    <3> QED BY <3>2, <3>3
  <2>2. \A j, k \in 1..m - 1 : c2[j] = c2[k] => j = k
    BY <1>1, <1>8, <1>9
  <2> QED BY <1>8, <1>9, <2>1, <2>2 DEF IsList
<1>14. c2[1] = h
  BY <1>1, <1>8, <1>9
<1>15. /\ Range(c2) \cap allocated \subseteq Range(c) /\ allocated' = (allocated \ Range(c)) \cup Range(c2)
       /\ \A z \in Nodes \ (Range(c) \cup Range(c2)) :
            name'[z] = name[z] /\ amount'[z] = amount[z] /\ next'[z] = next[z]
       /\ \A z \in Range(c) \ Range(c2) : name'[z] = NoName /\ amount'[z] = 0 /\ next'[z] = Null
  <2>1. x \in Range(c) /\ y \in Range(c)
    BY <1>1, <1>3 DEF x, y
  <2> QED BY <1>1, <1>5, <1>6, <1>11, <2>1
<1> QED BY <1>7, <1>12, <1>13, <1>14, <1>15, OneSet DEF c, m

\* asDelete.
LEMMA DeleteStep ==
  ASSUME IInv, NEW h \in heads, NEW n \in Names, AsDelete(h, n)
  PROVE  IInv' /\ Promised!Next
<1> DEFINE x == Find(h, n)
<1>1. heads' = heads /\ defined' = defined \ {h} /\ ~IsEmpty(h)
  BY DEF AsDelete
<1>2. iterator \in [Nodes -> Addresses] /\ Null \in Addresses
  BY DEF IInv, GoodCursor, Addresses
<1>3. CASE x = Null
  <2>1. UNCHANGED <<heads, nodeVars>> /\ answer' = Code("AS_ITEM_DOES_NOT_EXIST")
        /\ iterator' \in [Nodes -> Addresses] /\ \A g \in Nodes \ {h} : iterator'[g] = iterator[g]
    BY <1>1, <1>2, <1>3 DEF AsDelete
  <2>2. IInv' /\ Promised!Becomes(h, Amounts[h], "AS_ITEM_DOES_NOT_EXIST")
    BY <1>1, <2>1, Declining
  <2>3. Promised!Delete(h, Amounts[h], n)
    BY <1>3, <2>2, Found DEF Promised!Delete
  <2> QED BY <2>2, <2>3, Mapped DEF Promised!Next
<1>4. CASE x # Null
  <2>1. n \in DOMAIN Amounts[h]
    BY <1>4, Found
  <2>2. PICK p \in 1..Len(Chain(h)) : x = Chain(h)[p] /\ name[Chain(h)[p]] = n
    BY <1>4, Found
  <2>3. answer' = Code("done") /\ \/ next[x] # Null /\ TakeOver(h, x, next[x])
                                  \/ next[x] = Null /\ x # h /\ CutLast(h, x)
                                  \/ next[x] = Null /\ x = h /\ Clear(h)
    BY <1>4 DEF AsDelete
  <2> HIDE DEF x
  <2>4. next[x] = Null => p = Len(Chain(h))
    <3>1. IsList(next, Chain(h)) /\ Len(Chain(h)) \in Nat
      BY SetFacts
    <3>2. p # Len(Chain(h)) => next[x] = Chain(h)[p + 1] /\ p + 1 \in 1..Len(Chain(h))
      BY <2>2, <3>1 DEF IsList
    <3> QED BY <3>2, SetFacts
  <2>5. IInv' /\ Promised!Becomes(h, Without(Amounts[h], n), "done")
    <3>1. CASE next[x] # Null /\ TakeOver(h, x, next[x])
      BY <1>1, <2>2, <2>3, <3>1, TakingOver
    <3>2. CASE next[x] = Null /\ x # h /\ CutLast(h, x)
      BY <1>1, <2>2, <2>3, <2>4, <3>2, CuttingLast
    <3>3. CASE next[x] = Null /\ x = h /\ Clear(h)
      <4>1. IInv' /\ Promised!Becomes(h, NoAmounts, "done")
        BY <1>1, <2>3, <3>3, Clearing
      <4>2. Len(Chain(h)) = 1 /\ Chain(h)[1] = h
        <5>1. /\ IsList(next, Chain(h)) /\ Chain(h)[1] = h /\ Len(Chain(h)) \in Nat \ {0}
          BY SetFacts
        <5>2. 1 \in 1..Len(Chain(h))
          BY <5>1
        <5> QED BY <2>2, <2>4, <3>3, <5>1, <5>2 DEF IsList
      <4>3. DOMAIN Amounts[h] = {n}
        BY <1>1, <2>2, <3>3, <4>2, Sorted
      <4>4. Without(Amounts[h], n) = NoAmounts
        BY <4>3 DEF Without, NoAmounts
      <4> QED BY <4>1, <4>4
    <3> QED BY <2>3, <3>1, <3>2, <3>3
  <2>6. Promised!Delete(h, Amounts[h], n)
    BY <2>1, <2>5 DEF Promised!Delete, Without
  <2> QED BY <2>5, <2>6, Mapped DEF Promised!Next
<1> QED BY <1>3, <1>4

-----------------------------------------------------------------------------
(* The operations that make and end sets.                                    *)

\* What follows when the heap moves for one set and the iterators of others stay.
LEMMA OtherSets ==
  ASSUME IInv, NEW h, NEW old, NEW new, NEW d,
         Moves(heads, allocated, name, amount, next, heads', allocated', name', amount', next', h, old, new),
         h \in heads' => Says(name', amount', ChainIn(next', h), d), h \notin heads' => d = NoAmounts,
         iterator' \in [Nodes -> Addresses], h \notin defined', defined' \subseteq defined,
         \A g \in defined' : iterator'[g] = iterator[g]
  PROVE  /\ IInv' /\ Amounts' = [Amounts EXCEPT ![h] = d]
         /\ Cursors' = [g \in Nodes |-> IF g \in defined' THEN Cursors[g] ELSE -1]
<1>1. Good(heads, allocated, name, amount, next) /\ GoodCursor(heads, name, next, iterator, defined)
  BY DEF IInv
<1>2. /\ Good(heads', allocated', name', amount', next')
      /\ \A g \in heads \ {h} : Keeps(name, amount, next, name', amount', next', g)
  BY <1>1, OneList
<1>3. h \in Nodes /\ heads' \ {h} = heads \ {h}
  BY DEF Moves
<1>4. Tells(heads, name, amount, next, heads', name', amount', next', h, d)
  BY <1>2, <1>3 DEF Tells
<1>5. Amounts' = [Amounts EXCEPT ![h] = d]
  BY <1>1, <1>2, <1>4, OneDictionary DEF Amounts
<1>6. Follows(name, next, iterator, defined, heads', name', next', iterator', defined')
  <2>1. \A g \in defined' : g \in heads \ {h} /\ g \in heads'
    BY <1>1, <1>3 DEF GoodCursor
  <2> QED BY <1>2, <2>1 DEF Follows, Keeps
<1>7. GoodCursor(heads', name', next', iterator', defined')
      /\ Cursors' = [g \in Nodes |-> IF g \in defined' THEN Cursors[g] ELSE -1]
  BY <1>1, <1>6, SameCursors DEF Cursors
<1> QED BY <1>2, <1>5, <1>7 DEF IInv

\* Of a node that is no set nothing is said.
LEMMA Elsewhere ==
  /\ Amounts = [g \in Nodes |-> Amounts[g]] /\ \A g \in Nodes \ heads : Amounts[g] = NoAmounts
  /\ Cursors = [g \in Nodes |-> Cursors[g]] /\ \A g \in Nodes \ defined : Cursors[g] = -1
BY DEF Amounts, AmountsOf, Cursors, CursorsOf

LEMMA CreateStep ==
  ASSUME IInv, AsCreate
  PROVE  IInv' /\ Promised!Next
<1> DEFINE g == Free[1]
           c2 == <<g>>
<1>1. /\ heads' = heads \cup {g} /\ allocated' = allocated \cup {g} /\ answer' = Value(g)
      /\ name' = name /\ amount' = amount /\ next' = next /\ iterator' = iterator /\ defined' = defined
  BY DEF AsCreate
<1>2. /\ Good(heads, allocated, name, amount, next) /\ GoodCursor(heads, name, next, iterator, defined)
      /\ allocated \subseteq Nodes /\ Typed(name, amount, next) /\ iterator \in [Nodes -> Addresses]
      /\ defined \subseteq heads
  BY DEF IInv, Good, GoodCursor
<1>3. g \in Nodes \ allocated
  <2>1. 1 \in 1..Len(Free)
    BY <1>2, FreeFacts DEF AsCreate, Fits
  <2> QED BY <1>2, <2>1, FreeFacts
<1>4. heads \subseteq allocated
  <2>1. ASSUME NEW h \in heads PROVE h \in allocated
    <3>1. h = Chain(h)[1] /\ 1 \in 1..Len(Chain(h))
      BY SetFacts
    <3> QED BY <3>1, SetFacts
  <2> QED BY <2>1
<1>5. name[g] = NoName /\ amount[g] = 0 /\ next[g] = Null
  BY <1>2, <1>3 DEF Good
<1> HIDE DEF g
<1>6. c2 \in Seq(Nodes) /\ Len(c2) = 1 /\ c2[1] = g /\ Range(c2) = {g}
  BY <1>3 DEF Range
<1> HIDE DEF c2
<1>7. IsList(next, c2) /\ Named(name, amount, c2)
  BY <1>5, <1>6 DEF IsList, Named
<1>8. ChainIn(next, g) = c2
  BY <1>2, <1>6, <1>7, ChainIs DEF Typed
<1>9. Says(name, amount, c2, NoAmounts)
  BY <1>5, <1>6 DEF Says, NoAmounts
<1>10. Moves(heads, allocated, name, amount, next, heads', allocated', name', amount', next', g, {}, {g})
  <2>1. SetAt(name, amount, next, g)
    BY <1>6, <1>7, <1>8 DEF SetAt
  <2>2. g \notin heads /\ g \in heads'
    BY <1>1, <1>3, <1>4
  <2> QED BY <1>1, <1>2, <1>3, <1>6, <1>8, <2>1, <2>2 DEF Moves
<1>11. g \notin defined' /\ defined' \subseteq defined /\ \A x \in defined' : iterator'[x] = iterator[x]
  BY <1>1, <1>2, <1>3, <1>4
<1>12. g \in heads' => Says(name', amount', ChainIn(next', g), NoAmounts)
  BY <1>1, <1>8, <1>9
<1>13. /\ IInv' /\ Amounts' = [Amounts EXCEPT ![g] = NoAmounts]
       /\ Cursors' = [x \in Nodes |-> IF x \in defined' THEN Cursors[x] ELSE -1]
  BY <1>1, <1>2, <1>8, <1>9, <1>10, <1>11, OtherSets
<1>14. Amounts' = Amounts
  BY <1>3, <1>4, <1>13, Elsewhere
<1>15. Cursors' = Cursors
  BY <1>1, <1>13, Elsewhere
<1>16. Promised!Create(g)
  <2>1. g \notin heads
    BY <1>3, <1>4
  <2> QED BY <1>1, <1>14, <1>15, <2>1, Mapped DEF Promised!Create, Promised!Value, Value
<1> QED BY <1>3, <1>13, <1>16 DEF Promised!Next

LEMMA DestroyStep ==
  ASSUME IInv, NEW h \in heads, AsDestroy(h)
  PROVE  IInv' /\ Promised!Next
<1> DEFINE gone == Range(Chain(h))
<1>1. /\ heads' = heads \ {h} /\ allocated' = allocated \ gone /\ defined' = defined \ {h} /\ answer' = Code("done")
      /\ name' = Blank(name, gone, NoName) /\ amount' = Blank(amount, gone, 0) /\ next' = Blank(next, gone, Null)
      /\ iterator' = [iterator EXCEPT ![h] = Null]
  BY DEF AsDestroy
<1>2. /\ Typed(name, amount, next) /\ iterator \in [Nodes -> Addresses] /\ defined \subseteq heads
      /\ h \in Nodes /\ gone \subseteq Nodes /\ Null \in Addresses /\ 0 \in 0..MaxAmount
  <2>1. h \in Nodes /\ gone \subseteq Nodes
    BY SetFacts
  <2> QED BY <2>1, Constants DEF IInv, Good, GoodCursor, Addresses
<1>3. gone = Range(ChainIn(next, h))
  BY DEF Chain
<1> HIDE DEF gone
<1>4. Typed(name', amount', next')
  BY <1>1, <1>2 DEF Typed, Blank, Links
<1>5. Moves(heads, allocated, name, amount, next, heads', allocated', name', amount', next', h, gone, {})
  <2>1. /\ \A x \in Nodes \ gone : name'[x] = name[x] /\ amount'[x] = amount[x] /\ next'[x] = next[x]
        /\ \A x \in gone : name'[x] = NoName /\ amount'[x] = 0 /\ next'[x] = Null
    BY <1>1, <1>2 DEF Blank
  <2> QED BY <1>1, <1>2, <1>3, <1>4, <2>1 DEF Moves
<1>6. /\ iterator' \in [Nodes -> Addresses] /\ h \notin defined' /\ defined' \subseteq defined
      /\ \A g \in defined' : iterator'[g] = iterator[g]
  BY <1>1, <1>2
<1>7. /\ IInv' /\ Amounts' = [Amounts EXCEPT ![h] = NoAmounts]
      /\ Cursors' = [g \in Nodes |-> IF g \in defined' THEN Cursors[g] ELSE -1]
  BY <1>1, <1>5, <1>6, OtherSets
<1>8. Cursors' = [Cursors EXCEPT ![h] = -1]
  BY <1>1, <1>2, <1>7, Elsewhere
<1>9. Promised!Destroy(h)
  BY <1>1, <1>7, <1>8, Mapped DEF Promised!Destroy, Promised!Empty, NoAmounts, Promised!Undefined, Promised!Code, Code
<1> QED BY <1>7, <1>9 DEF Promised!Next

LEMMA Copying ==
  ASSUME NEW h \in heads, NEW g \in Nodes, Promised!Copy(h, g)
  PROVE  Promised!Next
BY DEF Promised!Next

LEMMA CopyStep ==
  ASSUME IInv, NEW h \in heads, AsCopy(h)
  PROVE  IInv' /\ Promised!Next
<1>0. PICK g : g = Free[1]
  OBVIOUS
<1> DEFINE c == Chain(h)
           m == Len(c)
           fresh == {Free[k] : k \in 1..m}
           c2 == [k \in 1..m |-> Free[k]]
<1>1. /\ h \in Nodes /\ IsList(next, c) /\ m \in Nat \ {0} /\ c \in Seq(Nodes) /\ DOMAIN c = 1..m
      /\ \A k \in 1..m : c[k] \in Nodes
      /\ Named(name, amount, c) /\ Says(name, amount, c, Amounts[h])
  BY SetFacts DEF IsList
<1>2. /\ Typed(name, amount, next) /\ iterator \in [Nodes -> Addresses] /\ defined \subseteq heads
      /\ allocated \subseteq Nodes
  BY DEF IInv, Good, GoodCursor
<1>3. /\ Fits(m) /\ heads' = heads \cup {g} /\ allocated' = allocated \cup fresh
      /\ name' = Copied(name, c) /\ amount' = Copied(amount, c) /\ next' = Linked(next, c)
      /\ iterator' = [iterator EXCEPT ![h] = Null, ![g] = Free[m]]
      /\ defined' = defined \ {h} /\ answer' = Value(g)
  <2>1. DOMAIN c = 1..m
    BY <1>1
  <2> QED BY <1>0, <2>1 DEF AsCopy
<1> HIDE DEF c
<1>4. \A f : /\ \A k \in 1..m : /\ Free[k] \in Nodes \ allocated
                                /\ Copied(f, c)[Free[k]] = f[c[k]]
                                /\ Linked(f, c)[Free[k]] = IF k = m THEN Null ELSE Free[k + 1]
             /\ \A j, k \in 1..m : Free[j] = Free[k] => j = k
             /\ \A x \in Nodes \ fresh : Copied(f, c)[x] = f[x] /\ Linked(f, c)[x] = f[x]
  BY <1>1, <1>2, <1>3, Copies
<1>5. Typed(name', amount', next')
  BY <1>1, <1>2, <1>3, CopiesTyped DEF Typed
<1>6. c2 \in Seq(Nodes) /\ Len(c2) = m /\ \A k \in 1..m : c2[k] = Free[k]
  <2> HIDE DEF m, fresh
  <2>1. c2 \in [1..m -> Nodes] /\ \A k \in 1..m : c2[k] = Free[k]
    BY <1>4
  <2> HIDE DEF c2
  <2> QED BY <1>1, <2>1, FunctionSeq
<1> HIDE DEF c2, m
<1>7. Range(c2) = fresh
  BY <1>6 DEF Range
<1>8. g \in Nodes \ allocated /\ Free[m] \in Nodes /\ c2[1] = g /\ 1 \in 1..m
  <2>1. 1 \in 1..m /\ m \in 1..m
    BY <1>1
  <2> HIDE DEF fresh
  <2> QED BY <1>0, <1>4, <1>6, <2>1
<1>9. \A k \in 1..m : /\ name'[c2[k]] = name[c[k]] /\ amount'[c2[k]] = amount[c[k]]
                      /\ next'[c2[k]] = IF k = m THEN Null ELSE c2[k + 1]
  <2>1. \A k \in 1..m : k # m => k + 1 \in 1..m
    BY <1>1
  <2> HIDE DEF fresh
  <2> QED BY <1>3, <1>4, <1>6, <2>1
<1>10. IsList(next', c2)
  <2>1. \A j, k \in 1..m : c2[j] = c2[k] => j = k
    <3> HIDE DEF fresh
    <3> QED BY <1>4, <1>6
  <2>2. Len(c2) > 0 /\ \A k \in 1..m : next'[c2[k]] = IF k = Len(c2) THEN Null ELSE c2[k + 1]
    BY <1>1, <1>6, <1>9
  <2>3. c2 \in Seq(Nodes) /\ Len(c2) = m
    BY <1>6
  <2> HIDE DEF fresh
  <2> QED BY <2>1, <2>2, <2>3 DEF IsList
<1>11. ChainIn(next', g) = c2
  BY <1>5, <1>8, <1>10, ChainIs DEF Typed
<1>12. Named(name', amount', c2)
  BY <1>1, <1>6, <1>8, <1>9 DEF Named, m
<1>13. Says(name', amount', c2, Amounts[h])
  <2>1. {name'[c2[k]] : k \in 1..m} = {name[c[k]] : k \in 1..m}
    BY <1>9
  <2> QED BY <1>1, <1>6, <1>9, <2>1 DEF Says, m
<1>14. heads \subseteq allocated
  <2>1. ASSUME NEW x \in heads PROVE x \in allocated
    <3>1. x = Chain(x)[1] /\ 1 \in 1..Len(Chain(x))
      BY SetFacts
    <3> QED BY <3>1, SetFacts
  <2> QED BY <2>1
<1>15. g \notin heads /\ g \in heads' /\ g \notin defined /\ g # h
  BY <1>2, <1>3, <1>8, <1>14
<1>16. fresh \subseteq Nodes /\ fresh \cap allocated = {}
  BY <1>4
<1>17. Moves(heads, allocated, name, amount, next, heads', allocated', name', amount', next', g, {}, fresh)
  <2>1. SetAt(name', amount', next', g)
    BY <1>8, <1>10, <1>11, <1>12 DEF SetAt
  <2>2. \A x \in Nodes \ fresh : name'[x] = name[x] /\ amount'[x] = amount[x] /\ next'[x] = next[x]
    BY <1>3, <1>4
  <2> HIDE DEF fresh
  <2> QED BY <1>3, <1>5, <1>7, <1>8, <1>11, <1>15, <1>16, <2>1, <2>2 DEF Moves
<1> HIDE DEF fresh
<1>18. /\ iterator' \in [Nodes -> Addresses] /\ g \notin defined' /\ defined' \subseteq defined
       /\ \A x \in defined' : iterator'[x] = iterator[x]
  <2>1. iterator' \in [Nodes -> Addresses]
    BY <1>2, <1>3, <1>8 DEF Addresses
  <2>2. ASSUME NEW x \in defined' PROVE iterator'[x] = iterator[x]
    <3>1. x \in defined /\ x # h /\ x # g /\ x \in Nodes
      BY <1>2, <1>3, <1>14, <1>15
    <3> QED BY <1>2, <1>3, <3>1
  <2> QED BY <1>3, <1>15, <2>1, <2>2
<1>19. /\ IInv' /\ Amounts' = [Amounts EXCEPT ![g] = Amounts[h]]
       /\ Cursors' = [x \in Nodes |-> IF x \in defined' THEN Cursors[x] ELSE -1]
  BY <1>11, <1>13, <1>15, <1>17, <1>18, OtherSets
<1>20. Cursors' = [Cursors EXCEPT ![h] = -1, ![g] = -1]
  BY <1>1, <1>2, <1>3, <1>8, <1>15, <1>19, Elsewhere
<1>21. Promised!Copy(h, g)
  BY <1>3, <1>15, <1>19, <1>20, Mapped DEF Promised!Copy, Promised!Value, Value, Promised!Undefined
<1>22. g \in Nodes
  BY <1>8
<1>23. Promised!Next
  BY <1>21, <1>22, Copying
<1> QED BY <1>19, <1>23

-----------------------------------------------------------------------------
(* The operations that leave the lists as they are.                          *)

LEMMA ChangeAmountStep ==
  ASSUME IInv, NEW h \in heads, NEW n \in Names, NEW d \in -MaxAmount..MaxAmount, AsChangeAmount(h, n, d)
  PROVE  IInv' /\ Promised!Next
<1> DEFINE c == Chain(h)
           x == Find(h, n)
<1>1. UNCHANGED <<heads, allocated, name, next, iterator, defined>>
  BY DEF AsChangeAmount
<1>2. Cursors' = Cursors
  BY <1>1 DEF Cursors, CursorsOf
<1>3. ASSUME \/ n \notin DOMAIN Amounts[h] /\ answer' = Code("AS_ITEM_DOES_NOT_EXIST") /\ Amounts' = Amounts
             \/ /\ n \in DOMAIN Amounts[h] /\ Amounts[h][n] + d < 0 /\ answer' = Code("AS_INSUFFICIENT_AMOUNT")
                /\ Amounts' = Amounts
             \/ /\ n \in DOMAIN Amounts[h] /\ Amounts[h][n] + d >= 0 /\ answer' = Code("done")
                /\ Amounts' = [Amounts EXCEPT ![h] = [Amounts[h] EXCEPT ![n] = @ + d]]
      PROVE  Promised!Next
  <2>1. Promised!ChangeAmount(h, Amounts[h], n, d)
    BY <1>1, <1>2, <1>3, Mapped DEF Promised!ChangeAmount, Promised!Code, Code
  <2> QED BY <2>1, Mapped DEF Promised!Next
<1>4. CASE UNCHANGED amount
  <2>1. UNCHANGED <<heads, nodeVars>>
    BY <1>1, <1>4 DEF nodeVars
  <2>2. Amounts' = Amounts
    BY <2>1, SameSets
  <2>3. IInv'
    BY <1>1, <2>1 DEF IInv, nodeVars
  <2>4. \/ x = Null /\ answer' = Code("AS_ITEM_DOES_NOT_EXIST")
        \/ x # Null /\ amount[x] + d < 0 /\ answer' = Code("AS_INSUFFICIENT_AMOUNT")
        \/ x # Null /\ amount[x] + d \in 0..MaxAmount
           /\ answer' = Code("done") /\ amount' = [amount EXCEPT ![x] = @ + d]
    BY DEF AsChangeAmount
  <2>5. CASE x = Null
    <3>1. n \notin DOMAIN Amounts[h] /\ answer' = Code("AS_ITEM_DOES_NOT_EXIST")
      BY <2>4, <2>5, Found
    <3> QED BY <1>3, <2>2, <2>3, <3>1
  <2>6. CASE x # Null
    <3>1. n \in DOMAIN Amounts[h] /\ Amounts[h][n] = amount[x]
      BY <2>6, Found
    <3>2. CASE amount[x] + d < 0 /\ answer' = Code("AS_INSUFFICIENT_AMOUNT")
      BY <1>3, <2>2, <2>3, <3>1, <3>2
    <3>3. CASE amount[x] + d \in 0..MaxAmount /\ answer' = Code("done") /\ amount' = [amount EXCEPT ![x] = @ + d]
      <4>1. x \in Nodes /\ amount \in [Nodes -> 0..MaxAmount]
        BY <2>6, Found, SetFacts DEF IInv, Good, Typed
      <4>2. amount[x] + d = amount[x]
        BY <1>4, <3>3, <4>1
      <4>3. amount[x] + d >= 0
        BY <3>3, Constants
      <4>4. Amounts = [Amounts EXCEPT ![h] = [Amounts[h] EXCEPT ![n] = @ + d]]
        <5>1. Amounts[h] = [k \in DOMAIN Amounts[h] |-> Amounts[h][k]]
          BY SetFacts DEF Says
        <5>2. Amounts[h] = [Amounts[h] EXCEPT ![n] = @ + d]
          BY <3>1, <4>2, <5>1
        <5> QED BY <5>2, Elsewhere
      <4> QED BY <1>3, <2>2, <2>3, <3>1, <3>3, <4>3, <4>4
    <3> QED BY <2>4, <2>6, <3>2, <3>3
  <2> QED BY <2>5, <2>6
<1>5. CASE /\ x # Null /\ amount[x] + d \in 0..MaxAmount
           /\ answer' = Code("done") /\ amount' = [amount EXCEPT ![x] = @ + d]
  <2>1. n \in DOMAIN Amounts[h] /\ Amounts[h][n] = amount[x] /\ ~IsEmpty(h)
    BY <1>5, Found
  <2>2. PICK p \in 1..Len(c) : x = c[p] /\ name[c[p]] = n
    BY <1>5, Found
  <2> DEFINE D == [Amounts[h] EXCEPT ![n] = @ + d]
  <2>3. /\ h \in Nodes /\ IsList(next, c) /\ c[1] = h /\ Named(name, amount, c) /\ Len(c) \in Nat \ {0}
        /\ \A k \in 1..Len(c) : c[k] \in Nodes
        /\ Range(c) = {c[k] : k \in 1..Len(c)} /\ Range(c) \subseteq allocated /\ allocated \subseteq Nodes
        /\ Says(name, amount, c, Amounts[h])
    BY SetFacts
  <2>4. /\ Good(heads, allocated, name, amount, next) /\ Typed(name, amount, next)
        /\ GoodCursor(heads, name, next, iterator, defined)
    BY DEF IInv, Good
  <2>5. x \in Nodes /\ Typed(name', amount', next')
    BY <1>1, <1>5, <2>2, <2>3, <2>4 DEF Typed
  <2>6. amount'[x] = amount[x] + d /\ \A z \in Nodes \ {x} : amount'[z] = amount[z]
    BY <1>5, <2>4, <2>5 DEF Typed
  <2>7. c = ChainIn(next, h)
    BY DEF Chain
  <2> HIDE DEF c, x
  <2>8. \A j, k \in 1..Len(c) : name[c[j]] = name[c[k]] => j = k
    BY <2>3, NamesDiffer
  <2>9. Named(name', amount', c)
    <3>1. /\ \A k \in 1..Len(c) : name[c[k]] \in Names
          /\ \A j, k \in 1..Len(c) : j < k => name[c[j]] < name[c[k]]
      BY <2>1, Sorted DEF c
    <3> QED BY <1>1, <3>1 DEF Named
  <2>10. Says(name', amount', c, D)
    <3>1. D = [k \in DOMAIN D |-> D[k]] /\ DOMAIN D = {name'[c[k]] : k \in 1..Len(c)} \ {NoName}
      BY <1>1, <2>3 DEF Says
    <3>2. ASSUME NEW k \in 1..Len(c), name'[c[k]] # NoName PROVE D[name'[c[k]]] = amount'[c[k]]
      <4>1. Amounts[h][name[c[k]]] = amount[c[k]] /\ name[c[k]] \in DOMAIN Amounts[h]
        BY <1>1, <2>3, <3>2 DEF Says
      <4>2. CASE k = p
        BY <1>1, <2>1, <2>2, <2>6, <4>1, <4>2
      <4>3. CASE k # p
        <5>1. name[c[k]] # n
          BY <2>2, <2>8, <4>3
        <5>2. c[k] # x
          BY <2>2, <5>1
        <5>3. D[name[c[k]]] = Amounts[h][name[c[k]]]
          BY <4>1, <5>1
        <5>4. amount'[c[k]] = amount[c[k]]
          BY <2>3, <2>6, <5>2
        <5> QED BY <1>1, <4>1, <5>3, <5>4
      <4> QED BY <4>2, <4>3
    <3> QED BY <3>1, <3>2 DEF Says
  <2>11. Moves(heads, allocated, name, amount, next, heads', allocated', name', amount', next', h, Range(c), Range(c))
    <3>1. SetAt(name', amount', next', h) /\ Range(ChainIn(next', h)) = Range(c) /\ Range(c) = Range(ChainIn(next, h))
      BY <1>1, <2>3, <2>7, <2>9 DEF SetAt
    <3>2. \A z \in Nodes \ (Range(c) \cup Range(c)) : amount'[z] = amount[z]
      BY <2>2, <2>3, <2>6
    <3>3. allocated' = (allocated \ Range(c)) \cup Range(c)
      BY <1>1, <2>3
    <3> QED BY <1>1, <2>3, <2>5, <3>1, <3>2, <3>3 DEF Moves
  <2>12. /\ Good(heads', allocated', name', amount', next')
         /\ \A g \in heads \ {h} : Keeps(name, amount, next, name', amount', next', g)
    BY <2>4, <2>11, OneList
  <2>13. Tells(heads, name, amount, next, heads', name', amount', next', h, D)
    <3> HIDE DEF D
    <3> QED BY <1>1, <2>3, <2>7, <2>10, <2>12 DEF Tells
  <2>14. Amounts' = [Amounts EXCEPT ![h] = D]
    <3> HIDE DEF D
    <3> QED BY <2>4, <2>12, <2>13, OneDictionary DEF Amounts
  <2>15. GoodCursor(heads', name', next', iterator', defined')
    BY <1>1, <2>4
  <2>16. Amounts[h][n] + d >= 0
    BY <1>5, <2>1, Constants DEF x
  <2> QED BY <1>3, <1>5, <2>1, <2>12, <2>14, <2>15, <2>16 DEF IInv
<1> QED BY <1>4, <1>5 DEF AsChangeAmount

LEMMA GetAmountStep ==
  ASSUME IInv, NEW h \in heads, NEW n \in Names, AsGetAmount(h, n)
  PROVE  IInv' /\ Promised!Next
<1>1. UNCHANGED <<heads, nodeVars, iterator, defined>>
  BY DEF AsGetAmount
<1>2. IInv' /\ Amounts' = Amounts /\ Cursors' = Cursors
  BY <1>1, SameSets DEF nodeVars, IInv, Cursors, CursorsOf
<1>3. answer' = IF n \in DOMAIN Amounts[h] THEN Value(Amounts[h][n]) ELSE Code("AS_ITEM_DOES_NOT_EXIST")
  BY Found DEF AsGetAmount
<1>4. Promised!GetAmount(Amounts[h], n)
  BY <1>1, <1>2, <1>3, Mapped
  DEF Promised!GetAmount, Promised!Answers, Promised!Value, Value, Promised!Code, Code
<1> QED BY <1>2, <1>4, Mapped DEF Promised!Next

LEMMA PromisedCardinality == \A S : Promised!Cardinality(S) = Cardinality(S)
BY DEF Promised!Cardinality, Cardinality

LEMMA GetSizeStep ==
  ASSUME IInv, NEW h \in heads, AsGetSize(h)
  PROVE  IInv' /\ Promised!Next
<1> DEFINE c == Chain(h)
           S == DOMAIN Amounts[h]
<1>1. UNCHANGED <<heads, nodeVars, iterator, defined>>
  BY DEF AsGetSize
<1>2. IInv' /\ Amounts' = Amounts /\ Cursors' = Cursors
  BY <1>1, SameSets DEF nodeVars, IInv, Cursors, CursorsOf
<1>3. Cardinality(S) = IF IsEmpty(h) THEN 0 ELSE Len(c)
  <2>1. CASE IsEmpty(h)
    BY <2>1, Sorted, FS_EmptySet
  <2>2. CASE ~IsEmpty(h)
    <3> DEFINE f == [k \in 1..Len(c) |-> name[c[k]]]
    <3>1. S = {name[c[k]] : k \in 1..Len(c)}
      BY <2>2, Sorted
    <3>2. Len(c) \in Nat /\ \A j, k \in 1..Len(c) : name[c[j]] = name[c[k]] => j = k
      BY SetFacts, NamesDiffer
    <3> HIDE DEF c, S
    <3>3. f \in Bijection(1..Len(c), S)
      BY <3>1, <3>2 DEF Bijection, Injection, Surjection, IsInjective
    <3>4. ExistsBijection(1..Len(c), S)
      BY <3>3 DEF ExistsBijection
    <3>5. Cardinality(S) = Len(c)
      BY <3>2, <3>4, FS_CountingElements
    <3> QED BY <2>2, <3>5
  <2> QED BY <2>1, <2>2
<1>4. answer' = Value(Cardinality(S))
  BY <1>3 DEF AsGetSize
<1>5. Promised!GetSize(Amounts[h])
  BY <1>1, <1>2, <1>4, Mapped, PromisedCardinality DEF Promised!GetSize, Promised!Answers, Promised!Value, Value
<1> QED BY <1>2, <1>5, Mapped DEF Promised!Next

\* The name after one is that of the next node, and the least is that of the head.
LEMMA Following ==
  ASSUME IInv, NEW h \in heads
  PROVE  /\ Promised!Least(DOMAIN Amounts[h]) = name[h]
         /\ IsEmpty(h) => Promised!After(Amounts[h], name[h]) = NoName /\ next[h] = Null
         /\ ~IsEmpty(h) => \A k \in 1..Len(Chain(h)) :
              LET y == next[Chain(h)[k]]
              IN /\ Promised!After(Amounts[h], name[Chain(h)[k]]) = IF y = Null THEN NoName ELSE name[y]
                 /\ y \in Addresses /\ (y # Null => y \in Range(Chain(h)) /\ name[y] \in Names)
<1> DEFINE c == Chain(h)
<1>1. /\ IsList(next, c) /\ c[1] = h /\ Len(c) \in Nat \ {0} /\ Range(c) = {c[k] : k \in 1..Len(c)}
      /\ \A k \in 1..Len(c) : c[k] \in Nodes /\ c[k] # Null
      /\ \A k \in 1..Len(c) : next[c[k]] = IF k = Len(c) THEN Null ELSE c[k + 1]
  BY SetFacts DEF IsList
<1>2. \A S : S # {} => \A n \in S : S \subseteq Nat /\ (\A k \in S : n <= k) => Promised!Least(S) = n
  <2>1. ASSUME NEW S, S \subseteq Nat, NEW n \in S, \A k \in S : n <= k PROVE Promised!Least(S) = n
    <3> DEFINE l == CHOOSE i \in S : \A k \in S : i <= k
    <3>1. l \in S /\ \A k \in S : l <= k
      BY <2>1
    <3>2. Promised!Least(S) = l
      BY DEF Promised!Least
    <3> HIDE DEF l
    <3>3. l <= n /\ n <= l /\ l \in Nat /\ n \in Nat
      BY <2>1, <3>1
    <3> QED BY <3>2, <3>3
  <2> QED BY <2>1
<1>3. Promised!Least({}) = NoName
  BY DEF Promised!Least, Promised!NoName, NoName
<1>4. CASE IsEmpty(h)
  <2>1. DOMAIN Amounts[h] = {} /\ Len(c) = 1 /\ name[h] = NoName
    BY <1>4, Sorted DEF IsEmpty
  <2>2. Promised!After(Amounts[h], name[h]) = Promised!Least({})
    <3>1. {k \in DOMAIN Amounts[h] : k > name[h]} = {}
      BY <2>1
    <3> QED BY <3>1 DEF Promised!After
  <2>3. next[h] = Null
    BY <1>1, <2>1
  <2> QED BY <1>3, <1>4, <2>1, <2>2, <2>3
<1>5. CASE ~IsEmpty(h)
  <2>1. /\ \A k \in 1..Len(c) : name[c[k]] \in Names
        /\ \A j, k \in 1..Len(c) : j < k => name[c[j]] < name[c[k]]
        /\ DOMAIN Amounts[h] = {name[c[k]] : k \in 1..Len(c)}
    BY <1>5, Sorted
  <2>2. \A k \in 1..Len(c) : name[c[k]] \in Nat
    BY <2>1, Constants
  <2>3. \A n \in DOMAIN Amounts[h] : n \in Nat /\ \E k \in 1..Len(c) : n = name[c[k]]
    BY <2>1, <2>2
  <2> HIDE DEF c
  <2>4. Promised!Least(DOMAIN Amounts[h]) = name[h]
    <3>1. 1 \in 1..Len(c)
      BY <1>1
    <3>2. \A k \in 1..Len(c) : name[c[1]] <= name[c[k]]
      <4>1. ASSUME NEW k \in 1..Len(c) PROVE name[c[1]] <= name[c[k]]
        <5>1. k = 1 \/ 1 < k
          BY <1>1
        <5> QED BY <2>1, <2>2, <3>1, <5>1
      <4> QED BY <4>1
    <3>3. name[h] \in DOMAIN Amounts[h] /\ DOMAIN Amounts[h] \subseteq Nat /\ \A n \in DOMAIN Amounts[h] : name[h] <= n
      BY <1>1, <2>1, <2>3, <3>1, <3>2
    <3> QED BY <1>2, <3>3
  <2>5. ASSUME NEW k \in 1..Len(c)
        PROVE  LET y == next[c[k]]
               IN /\ Promised!After(Amounts[h], name[c[k]]) = IF y = Null THEN NoName ELSE name[y]
                  /\ y \in Addresses /\ (y # Null => y \in Range(c) /\ name[y] \in Names)
    <3> DEFINE S == {n \in DOMAIN Amounts[h] : n > name[c[k]]}
    <3>1. Promised!After(Amounts[h], name[c[k]]) = Promised!Least(S)
      BY DEF Promised!After
    <3>2. \A n \in S : n \in Nat /\ \E j \in 1..Len(c) : n = name[c[j]] /\ k < j
      <4>1. ASSUME NEW n \in S PROVE n \in Nat /\ \E j \in 1..Len(c) : n = name[c[j]] /\ k < j
        <5>1. PICK j \in 1..Len(c) : n = name[c[j]]
          BY <2>3
        <5>2. ~(j < k) /\ j # k
          <6>1. n > name[c[k]] /\ n \in Nat /\ name[c[k]] \in Nat
            BY <2>2, <2>3
          <6> QED BY <2>1, <5>1, <6>1
        <5>3. k < j
          BY <5>2
        <5> QED BY <2>3, <5>1, <5>3
      <4> QED BY <4>1
    <3>3. CASE k = Len(c)
      <4>1. next[c[k]] = Null
        BY <1>1, <3>3
      <4>2. S = {}
        BY <3>2, <3>3
      <4> QED BY <1>3, <3>1, <4>1, <4>2 DEF Addresses
    <3>4. CASE k # Len(c)
      <4>1. k + 1 \in 1..Len(c) /\ next[c[k]] = c[k + 1]
        BY <1>1, <3>4
      <4>2. name[c[k + 1]] \in S
        <5>1. k < k + 1
          OBVIOUS
        <5>2. name[c[k]] < name[c[k + 1]] /\ name[c[k + 1]] \in DOMAIN Amounts[h]
          BY <2>1, <4>1, <5>1
        <5> QED BY <2>2, <4>1, <5>2
      <4>3. ASSUME NEW n \in S PROVE name[c[k + 1]] <= n
        <5>1. PICK j \in 1..Len(c) : n = name[c[j]] /\ k < j
          BY <3>2
        <5>2. j = k + 1 \/ k + 1 < j
          BY <5>1
        <5> QED BY <2>1, <2>2, <4>1, <5>1, <5>2
      <4>4. S \subseteq Nat /\ S # {}
        BY <3>2, <4>2
      <4> HIDE DEF S
      <4>5. Promised!Least(S) = name[c[k + 1]]
        BY <1>2, <4>2, <4>3, <4>4
      <4>6. c[k + 1] \in Range(c) /\ c[k + 1] \in Addresses /\ c[k + 1] # Null /\ name[c[k + 1]] \in Names
        BY <1>1, <2>1, <4>1 DEF Addresses
      <4> QED BY <3>1, <4>1, <4>5, <4>6
    <3> QED BY <3>3, <3>4
  <2> QED BY <1>5, <2>4, <2>5 DEF c
<1> QED BY <1>4, <1>5

\* An iterator moves within its set.
LEMMA CursorMoves ==
  ASSUME IInv, NEW h \in heads, UNCHANGED <<heads, nodeVars>>, defined' = defined \cup {h},
         NEW y \in Addresses, y # Null => y \in Range(Chain(h)) /\ name[y] \in Names,
         iterator' = [iterator EXCEPT ![h] = y]
  PROVE  /\ IInv' /\ Amounts' = Amounts
         /\ Cursors' = [Cursors EXCEPT ![h] = IF y = Null THEN NoName ELSE name[y]]
<1>1. h \in Nodes /\ allocated \subseteq Nodes
  BY SetFacts
<1>2. /\ GoodCursor(heads, name, next, iterator, defined)
      /\ iterator \in [Nodes -> Addresses] /\ heads' = heads /\ name' = name /\ next' = next
  BY DEF IInv, GoodCursor, nodeVars
<1>3. \A g \in heads : g \in Nodes
  BY SetFacts
<1>4. /\ iterator' \in [Nodes -> Addresses] /\ iterator'[h] = y
      /\ \A g \in Nodes \ {h} : iterator'[g] = iterator[g]
  BY <1>1, <1>2
<1>5. GoodCursor(heads', name', next', iterator', defined')
  <2>1. defined' \subseteq heads
    BY <1>2 DEF GoodCursor
  <2>2. ASSUME NEW g \in defined', iterator'[g] # Null
        PROVE  iterator'[g] \in Range(ChainIn(next, g)) /\ name[iterator'[g]] \in Names
    <3>1. CASE g = h
      BY <1>4, <2>2, <3>1 DEF Chain
    <3>2. CASE g # h
      <4>1. g \in defined /\ g \in Nodes /\ iterator'[g] = iterator[g]
        BY <1>3, <1>4, <2>1, <3>2
      <4> QED BY <1>2, <2>2, <4>1 DEF GoodCursor
    <3> QED BY <3>1, <3>2
  <2> QED BY <1>2, <1>4, <2>1, <2>2 DEF GoodCursor
<1>6. Cursors' = [Cursors EXCEPT ![h] = IF y = Null THEN NoName ELSE name[y]]
  BY <1>1, <1>2, <1>4 DEF Cursors, CursorsOf
<1> QED BY <1>5, <1>6, SameSets DEF IInv

LEMMA GetFirstStep ==
  ASSUME IInv, NEW h \in heads, AsGetFirst(h)
  PROVE  IInv' /\ Promised!Next
<1> DEFINE y == next[h]
           e == IF y = Null THEN NoName ELSE name[y]
<1>1. /\ UNCHANGED <<heads, nodeVars>> /\ answer' = Value(name[h]) /\ defined' = defined \cup {h}
      /\ iterator' = [iterator EXCEPT ![h] = y]
  BY DEF AsGetFirst
<1>2. /\ Promised!Least(DOMAIN Amounts[h]) = name[h] /\ Promised!After(Amounts[h], name[h]) = e
      /\ y \in Addresses /\ (y # Null => y \in Range(Chain(h)) /\ name[y] \in Names)
  <2>1. 1 \in 1..Len(Chain(h)) /\ Chain(h)[1] = h
    BY SetFacts
  <2>2. CASE IsEmpty(h)
    BY <2>2, Following DEF Addresses
  <2>3. CASE ~IsEmpty(h)
    BY <2>1, <2>3, Following
  <2> QED BY <2>2, <2>3
<1>3. IInv' /\ Amounts' = Amounts /\ Cursors' = [Cursors EXCEPT ![h] = e]
  <2> HIDE DEF y
  <2> QED BY <1>1, <1>2, CursorMoves
<1> HIDE DEF e
<1>4. Promised!GetFirst(h, Amounts[h])
  BY <1>1, <1>2, <1>3, Mapped DEF Promised!GetFirst, Promised!Answers, Promised!Value, Value
<1> QED BY <1>3, <1>4, Mapped DEF Promised!Next

LEMMA GetNextStep ==
  ASSUME IInv, NEW h \in heads, AsGetNext(h)
  PROVE  IInv' /\ Promised!Next
<1> DEFINE x == iterator[h]
           y == IF x = Null THEN Null ELSE next[x]
           e == IF y = Null THEN NoName ELSE name[y]
<1>1. UNCHANGED <<heads, nodeVars, defined>> /\ h \in defined /\ h \in Nodes /\ iterator \in [Nodes -> Addresses]
  BY SetFacts DEF AsGetNext, IInv, GoodCursor
<1>2. Cursors[h] = IF x = Null THEN NoName ELSE name[x]
  BY <1>1 DEF Cursors, CursorsOf
<1>3. /\ answer' = Value(Cursors[h]) /\ iterator' = [iterator EXCEPT ![h] = y]
      /\ y \in Addresses /\ (y # Null => y \in Range(Chain(h)) /\ name[y] \in Names)
      /\ Cursors[h] # -1 /\ e = IF Cursors[h] = NoName THEN NoName ELSE Promised!After(Amounts[h], Cursors[h])
  <2>1. CASE x = Null
    <3>1. iterator' = [iterator EXCEPT ![h] = y]
      BY <1>1, <2>1 DEF AsGetNext
    <3> QED BY <1>2, <2>1, <3>1 DEF AsGetNext, Addresses, NoName
  <2>2. CASE x # Null
    <3>1. x \in Range(Chain(h)) /\ name[x] \in Names
      BY <1>1, <2>2 DEF IInv, GoodCursor, Chain
    <3>2. PICK k \in 1..Len(Chain(h)) : x = Chain(h)[k]
      BY <3>1, SetFacts
    <3>3. ~IsEmpty(h)
      <4>1. CASE IsEmpty(h)
        <5>1. x = h
          BY <3>1, <4>1, Sorted
        <5> QED BY <3>1, <4>1, <5>1, Constants DEF IsEmpty
      <4> QED BY <4>1
    <3>4. /\ Promised!After(Amounts[h], name[x]) = e
          /\ y \in Addresses /\ (y # Null => y \in Range(Chain(h)) /\ name[y] \in Names)
      BY <2>2, <3>2, <3>3, Following
    <3>5. name[x] # NoName /\ name[x] # -1
      BY <3>1, Constants DEF NoName
    <3>6. answer' = Value(name[x]) /\ iterator' = [iterator EXCEPT ![h] = y]
      BY <2>2 DEF AsGetNext
    <3> HIDE DEF x, y, e
    <3> QED BY <1>2, <2>2, <3>4, <3>5, <3>6
  <2> QED BY <2>1, <2>2
<1>4. IInv' /\ Amounts' = Amounts /\ Cursors' = [Cursors EXCEPT ![h] = e]
  <2>1. defined' = defined \cup {h} /\ UNCHANGED <<heads, nodeVars>>
    BY <1>1
  <2> HIDE DEF x, y
  <2> QED BY <1>3, <2>1, CursorMoves
<1> HIDE DEF e, x, y
<1>5. Cursors' = [Cursors EXCEPT ![h] = IF @ = NoName THEN NoName ELSE Promised!After(Amounts[h], @)]
  BY <1>3, <1>4
<1>6. Promised!GetNext(h, Amounts[h])
  BY <1>1, <1>3, <1>4, <1>5, Mapped
  DEF Promised!GetNext, Promised!Answers, Promised!Value, Value, Promised!NoName, NoName, Promised!Undefined
<1> QED BY <1>4, <1>6, Mapped DEF Promised!Next

-----------------------------------------------------------------------------
(* The theorems.                                                             *)

LEMMA InitialState == Init => IInv /\ Promised!Init
<1> SUFFICES ASSUME Init PROVE IInv /\ Promised!Init
  OBVIOUS
<1>1. Null \in Addresses /\ 0 \in 0..MaxAmount
  BY Constants DEF Addresses
<1>2. IInv
  BY <1>1 DEF Init, IInv, Good, GoodCursor, Typed, Links
<1>3. Promised!Init
  BY DEF Init, Promised!Init, Promised!Empty, Promised!Undefined, Promised!Code, Code, Cursor
<1> QED BY <1>2, <1>3

LEMMA Step == IInv /\ [Next]_vars => IInv' /\ [Promised!Next]_Promised!vars
<1> SUFFICES ASSUME IInv, [Next]_vars PROVE IInv' /\ [Promised!Next]_Promised!vars
  OBVIOUS
<1>1. CASE AsCreate
  BY <1>1, CreateStep
<1>2. ASSUME NEW h \in heads,
             AsDestroy(h) \/ AsCopy(h) \/ AsClear(h) \/ AsGetSize(h) \/ AsGetFirst(h) \/ AsGetNext(h)
      PROVE  IInv' /\ Promised!Next
  <2>1. CASE AsDestroy(h)
    BY <2>1, DestroyStep
  <2>2. CASE AsCopy(h)
    BY <2>2, CopyStep
  <2>3. CASE AsClear(h)
    <3>1. IInv' /\ Promised!Becomes(h, NoAmounts, "done")
      BY <2>3, Clearing DEF AsClear
    <3> QED BY <3>1 DEF Promised!Next, Promised!Empty, NoAmounts
  <2>4. CASE AsGetSize(h)
    BY <2>4, GetSizeStep
  <2>5. CASE AsGetFirst(h)
    BY <2>5, GetFirstStep
  <2>6. CASE AsGetNext(h)
    BY <2>6, GetNextStep
  <2> QED BY <1>2, <2>1, <2>2, <2>3, <2>4, <2>5, <2>6
<1>3. ASSUME NEW h \in heads, NEW n \in Names, AsRegister(h, n) \/ AsDelete(h, n) \/ AsGetAmount(h, n)
      PROVE  IInv' /\ Promised!Next
  BY <1>3, RegisterStep, DeleteStep, GetAmountStep
<1>4. ASSUME NEW h \in heads, NEW n \in Names, NEW d \in -MaxAmount..MaxAmount, AsChangeAmount(h, n, d)
      PROVE  IInv' /\ Promised!Next
  BY <1>4, ChangeAmountStep
<1>5. CASE UNCHANGED vars
  <2>1. UNCHANGED <<heads, nodeVars>> /\ iterator' = iterator /\ defined' = defined /\ answer' = answer
    BY <1>5 DEF vars
  <2>2. IInv' /\ Amounts' = Amounts /\ Cursors' = Cursors
    BY <2>1, SameSets DEF nodeVars, IInv, Cursors, CursorsOf
  <2> QED BY <2>1, <2>2, Mapped DEF Promised!vars
<1> QED BY <1>1, <1>2, <1>3, <1>4, <1>5 DEF Next

\* The inductive invariant holds in every state.
THEOREM Invariance == Spec => []IInv
<1>1. Init => IInv
  BY InitialState
<1>2. IInv /\ [Next]_vars => IInv'
  BY Step
<1> QED BY <1>1, <1>2, PTL DEF Spec

\* Whatever is registered, deleted, copied and destroyed, and in whatever order, every list
\* ends, and the nodes given out are those of the lists, each node in one: amount_set_str.c
\* neither leaks a node, nor frees one that is linked, nor links one twice.
THEOREM HeapExactCorrect == Spec => []HeapExact
<1>1. IInv => HeapExact
  <2> SUFFICES ASSUME IInv PROVE HeapExact
    OBVIOUS
  <2>1. TypeOK
    <3>1. \A h \in heads : h \in allocated
      <4>1. ASSUME NEW h \in heads PROVE h \in allocated
        <5>1. h = Chain(h)[1] /\ 1 \in 1..Len(Chain(h))
          BY SetFacts
        <5> QED BY <5>1, SetFacts
      <4> QED BY <4>1
    <3> QED BY <3>1 DEF IInv, Good, GoodCursor, Typed, Links, Addresses, TypeOK
  <2>2. \A h \in heads : next[Last(Chain(h))] = Null
    BY SetFacts, ListFacts
  <2>3. allocated = UNION {Range(Chain(h)) : h \in heads}
    BY DEF IInv, Good, Chain
  <2>4. \A g, h \in heads : g # h => Range(Chain(g)) \cap Range(Chain(h)) = {}
    BY DEF IInv, Good, Chain
  <2> QED BY <2>1, <2>2, <2>3, <2>4 DEF HeapExact
<1> QED BY <1>1, Invariance, PTL

\* The linked lists of amount_set_str.c do what amount_set_str.h promises of sets of names
\* with amounts and one iterator each: every call is a call on those sets, with its answer.
THEOREM ImplementsAmountSetCorrect == Spec => ImplementsAmountSet
<1>1. Init => IInv /\ Promised!Init
  BY InitialState
<1>2. IInv /\ [Next]_vars => IInv'
  BY Step
<1>3. IInv /\ [Next]_vars => [Promised!Next]_Promised!vars
  BY Step
<1> QED BY <1>1, <1>2, <1>3, PTL DEF Spec, ImplementsAmountSet, Promised!Spec

=============================================================================
