---------------------------- MODULE AmountSetStr ----------------------------
(***************************************************************************)
(* amount_set_str.c: amount sets of strings as linked lists on the heap.    *)
(* The head is a node like the others and stays where it is for the life of *)
(* the set, so that an element before the first goes in by copying the set, *)
(* and one that is not the last goes out by taking over its successor.      *)
(*                                                                          *)
(* An action is one function; `answer' is what it returned.  Names are      *)
(* numbers in the order of strcmp.  Allocation takes the free addresses in  *)
(* some order and always succeeds; a node and its name are one allocation.  *)
(* asCopy and asDelete are not called on an empty set, whose null name they *)
(* would read, and asGetNext only while the header defines the iterator.    *)
(***************************************************************************)
EXTENDS Integers, Sequences, FiniteSets, SequencesExt

CONSTANTS
  NumNodes,   \* bound: how many nodes the heap has
  MaxLinked,  \* bound: how many are in use between two calls before asCopy is called
  MaxSets,    \* bound: how many sets the caller holds
  NumNames,   \* the names are 1..NumNames
  MaxAmount   \* bound: the largest amount

ASSUME ConstantAssumption == NumNodes \in Nat \ {0} /\ MaxLinked \in Nat /\ MaxSets \in Nat /\ NumNames \in Nat /\ MaxAmount \in Nat

Null   == 0
NoName == 0
Nodes  == 1..NumNodes
Names  == 1..NumNames

VARIABLES
  heads,      \* the sets the caller holds
  allocated,  \* the nodes malloc gave out
  name, amount, next,  \* the fields of a node
  iterator,   \* the field of that name, of heads
  answer,
  defined     \* history: the sets whose iterator the header defines

nodeVars == <<allocated, name, amount, next>>
vars     == <<heads, nodeVars, iterator, answer, defined>>

\* What a function returns: a code, or a value.
Code(c)  == <<c, 0>>
Value(v) == <<"value", v>>

-----------------------------------------------------------------------------
(* Lists.                                                                    *)

\* The nodes of the list that starts at h, in order; from[k][x]: at most k, from x on.
ChainIn(link, h) ==
  LET from[k \in 0..NumNodes] ==
        [x \in Nodes \cup {Null} |-> IF k = 0 \/ x = Null THEN <<>> ELSE <<x>> \o from[k - 1][link[x]]]
  IN from[NumNodes][h]
Chain(h) == ChainIn(next, h)

\* How many nodes come before the first whose name is not less.
Less(h, n) ==
  LET c == Chain(h) IN Cardinality({k \in DOMAIN c : \A j \in 1..k : name[c[j]] < n})

\* The node of that name, or Null.
Find(h, n) ==
  LET c == Chain(h)
      found == {k \in DOMAIN c : name[c[k]] = n}
  IN IF found = {} THEN Null ELSE c[CHOOSE k \in found : \A j \in found : k <= j]

IsEmpty(h) == name[h] = NoName

\* The free addresses, in the order in which they are given out.
Free == SetToSeq(Nodes \ allocated)
Fits(k) == k <= Len(Free)                  \* bound
OneMoreSet == Cardinality(heads) < MaxSets  \* bound
Room(k) == Cardinality(allocated) + k <= MaxLinked  \* bound

\* What is left of freed nodes is never read: their fields return to these.
Blank(f, gone, blank) == [x \in Nodes |-> IF x \in gone THEN blank ELSE f[x]]

-----------------------------------------------------------------------------
AsCreate ==
  /\ OneMoreSet /\ Room(1) /\ Fits(1)
  /\ heads' = heads \cup {Free[1]}
  /\ allocated' = allocated \cup {Free[1]}
  /\ answer' = Value(Free[1])
  /\ UNCHANGED <<name, amount, next, iterator, defined>>

AsDestroy(h) ==
  LET gone == Range(Chain(h)) IN
  /\ heads' = heads \ {h}
  /\ allocated' = allocated \ gone
  /\ name' = Blank(name, gone, NoName)
  /\ amount' = Blank(amount, gone, 0)
  /\ next' = Blank(next, gone, Null)
  /\ iterator' = [iterator EXCEPT ![h] = Null]
  /\ defined' = defined \ {h}
  /\ answer' = Code("done")

\* The copy of a list, node by node; position k of the list goes to new node k.
Copied(f, c) ==
  [x \in Nodes |-> IF \E k \in DOMAIN c : Free[k] = x
                   THEN f[c[CHOOSE k \in DOMAIN c : Free[k] = x]] ELSE f[x]]
Linked(f, c) ==
  [x \in Nodes |-> IF \E k \in DOMAIN c : Free[k] = x
                   THEN LET k == CHOOSE k \in DOMAIN c : Free[k] = x IN IF k < Len(c) THEN Free[k + 1] ELSE Null
                   ELSE f[x]]

AsCopy(h) ==
  LET c == Chain(h) IN
  /\ ~IsEmpty(h)
  /\ OneMoreSet /\ Fits(Len(c))
  /\ heads' = heads \cup {Free[1]}
  /\ allocated' = allocated \cup {Free[k] : k \in DOMAIN c}
  /\ name' = Copied(name, c)
  /\ amount' = Copied(amount, c)
  /\ next' = Linked(next, c)
  /\ iterator' = [iterator EXCEPT ![h] = Null, ![Free[1]] = Free[Len(c)]]
  /\ defined' = defined \ {h}
  /\ answer' = Value(Free[1])

-----------------------------------------------------------------------------
(* asRegister.                                                               *)

\* The set is copied, cleared, and given the new name; the copy follows it.
\* Fault: the amount of the old first element stays.
AmountKept(h)  == amount[h]
AmountReset(h) == 0

RegisterFirst(h, n) ==
  LET c == Chain(h)
      gone == Range(c) \ {h}
  IN
  /\ Room(1) /\ Fits(Len(c))
  /\ allocated' = (allocated \cup {Free[k] : k \in DOMAIN c}) \ gone
  /\ name' = [Blank(Copied(name, c), gone, NoName) EXCEPT ![h] = n]
  /\ amount' = [Blank(Copied(amount, c), gone, 0) EXCEPT ![h] = AmountReset(h)]
  /\ next' = [Blank(Linked(next, c), gone, Null) EXCEPT ![h] = Free[1]]
  /\ iterator' = [iterator EXCEPT ![h] = Null]

RegisterAfter(h, n, previous) ==
  /\ Room(1) /\ Fits(1)
  /\ allocated' = allocated \cup {Free[1]}
  /\ name' = [name EXCEPT ![Free[1]] = n]
  /\ amount' = [amount EXCEPT ![Free[1]] = 0]
  /\ next' = [next EXCEPT ![Free[1]] = next[previous], ![previous] = Free[1]]
  /\ iterator' = [iterator EXCEPT ![h] = next[previous]]

AsRegister(h, n) ==
  /\ IF Find(h, n) # Null
     THEN answer' = Code("AS_ITEM_ALREADY_EXISTS") /\ UNCHANGED <<nodeVars, iterator>>
     ELSE /\ answer' = Code("done")
          /\ \/ IsEmpty(h) /\ name' = [name EXCEPT ![h] = n] /\ UNCHANGED <<allocated, amount, next, iterator>>
             \/ ~IsEmpty(h) /\ Less(h, n) = 0 /\ RegisterFirst(h, n)
             \/ ~IsEmpty(h) /\ Less(h, n) > 0 /\ RegisterAfter(h, n, Chain(h)[Less(h, n)])
  /\ defined' = defined \ {h}
  /\ UNCHANGED heads

-----------------------------------------------------------------------------
(* asDelete and asClear.                                                     *)

Clear(h) ==
  LET gone == Range(Chain(h)) IN
  /\ allocated' = (allocated \ gone) \cup {h}
  /\ name' = Blank(name, gone, NoName)
  /\ amount' = Blank(amount, gone, 0)
  /\ next' = Blank(next, gone, Null)
  /\ iterator' = [iterator EXCEPT ![h] = Null]

AsClear(h) ==
  /\ Clear(h)
  /\ answer' = Code("done")
  /\ defined' = defined \ {h}
  /\ UNCHANGED heads

\* Node x takes over its successor y, which is freed.  Fault: but for the link.
LinkKept(x, y)  == y
LinkTaken(x, y) == next[y]

TakeOver(h, x, y) ==
  /\ allocated' = allocated \ {y}
  /\ name' = [name EXCEPT ![x] = name[y], ![y] = NoName]
  /\ amount' = [amount EXCEPT ![x] = amount[y], ![y] = 0]
  /\ next' = [next EXCEPT ![x] = LinkTaken(x, y), ![y] = Null]
  /\ iterator' = [iterator EXCEPT ![h] = x]

\* The last node is freed, and the iterator is left at it.
CutLast(h, x) ==
  LET c == Chain(h)
      previous == c[Len(c) - 1]
  IN
  /\ allocated' = allocated \ {x}
  /\ name' = [name EXCEPT ![x] = NoName]
  /\ amount' = [amount EXCEPT ![x] = 0]
  /\ next' = [next EXCEPT ![previous] = Null]
  /\ iterator' = [iterator EXCEPT ![h] = x]

AsDelete(h, n) ==
  LET x == Find(h, n) IN
  /\ ~IsEmpty(h)
  /\ \/ /\ x = Null
        /\ answer' = Code("AS_ITEM_DOES_NOT_EXIST")
        /\ iterator' = [iterator EXCEPT ![h] = Null]
        /\ UNCHANGED nodeVars
     \/ /\ x # Null
        /\ answer' = Code("done")
        /\ \/ next[x] # Null /\ TakeOver(h, x, next[x])
           \/ next[x] = Null /\ x # h /\ CutLast(h, x)
           \/ next[x] = Null /\ x = h /\ Clear(h)
  /\ defined' = defined \ {h}
  /\ UNCHANGED heads

-----------------------------------------------------------------------------
(* What leaves the list as it is.                                            *)

AsChangeAmount(h, n, d) ==
  LET x == Find(h, n) IN
  /\ \/ x = Null /\ answer' = Code("AS_ITEM_DOES_NOT_EXIST") /\ UNCHANGED amount
     \/ x # Null /\ amount[x] + d < 0 /\ answer' = Code("AS_INSUFFICIENT_AMOUNT") /\ UNCHANGED amount
     \/ /\ x # Null
        /\ amount[x] + d \in 0..MaxAmount     \* bound
        /\ answer' = Code("done")
        /\ amount' = [amount EXCEPT ![x] = @ + d]
  /\ UNCHANGED <<heads, allocated, name, next, iterator, defined>>

\* asContains searches in the same way.
AsGetAmount(h, n) ==
  /\ answer' = IF Find(h, n) = Null THEN Code("AS_ITEM_DOES_NOT_EXIST") ELSE Value(amount[Find(h, n)])
  /\ UNCHANGED <<heads, nodeVars, iterator, defined>>

AsGetSize(h) ==
  /\ answer' = Value(IF IsEmpty(h) THEN 0 ELSE Len(Chain(h)))
  /\ UNCHANGED <<heads, nodeVars, iterator, defined>>

AsGetFirst(h) ==
  /\ answer' = Value(name[h])
  /\ iterator' = [iterator EXCEPT ![h] = next[h]]
  /\ defined' = defined \cup {h}
  /\ UNCHANGED <<heads, nodeVars>>

AsGetNext(h) ==
  /\ h \in defined
  /\ IF iterator[h] = Null
     THEN answer' = Value(NoName) /\ UNCHANGED iterator
     ELSE answer' = Value(name[iterator[h]]) /\ iterator' = [iterator EXCEPT ![h] = next[iterator[h]]]
  /\ UNCHANGED <<heads, nodeVars, defined>>

-----------------------------------------------------------------------------
Init ==
  /\ heads = {} /\ allocated = {} /\ defined = {}
  /\ name = [x \in Nodes |-> NoName]
  /\ amount = [x \in Nodes |-> 0]
  /\ next = [x \in Nodes |-> Null]
  /\ iterator = [x \in Nodes |-> Null]
  /\ answer = Code("done")

Next ==
  \/ AsCreate
  \/ \E h \in heads : AsDestroy(h) \/ AsCopy(h) \/ AsClear(h) \/ AsGetSize(h) \/ AsGetFirst(h) \/ AsGetNext(h)
  \/ \E h \in heads, n \in Names : AsRegister(h, n) \/ AsDelete(h, n) \/ AsGetAmount(h, n)
  \/ \E h \in heads, n \in Names, d \in -MaxAmount..MaxAmount : AsChangeAmount(h, n, d)

Spec == Init /\ [][Next]_vars

-----------------------------------------------------------------------------
TypeOK ==
  /\ heads \subseteq allocated /\ allocated \subseteq Nodes /\ defined \subseteq heads
  /\ name \in [Nodes -> Names \cup {NoName}]
  /\ amount \in [Nodes -> 0..MaxAmount]
  /\ next \in [Nodes -> Nodes \cup {Null}]
  /\ iterator \in [Nodes -> Nodes \cup {Null}]

\* Every variable has its type, every list ends, and no node is leaked, freed while
\* it is linked, or linked twice: the nodes given out are those of the lists, each in
\* one list, though a head can neither move nor be freed and insertion and deletion
\* move the contents around it instead.
HeapExact ==
  /\ TypeOK
  /\ \A h \in heads : next[Last(Chain(h))] = Null
  /\ allocated = UNION {Range(Chain(h)) : h \in heads}
  /\ \A g, h \in heads : g # h => Range(Chain(g)) \cap Range(Chain(h)) = {}

\* The lists implement the amount sets of the header, an iteration in progress
\* over one set among them while the other sets and amounts change.
Dictionary(h) ==
  LET c == Chain(h)
  IN [n \in {name[c[k]] : k \in DOMAIN c} \ {NoName} |-> amount[c[CHOOSE k \in DOMAIN c : name[c[k]] = n]]]
Cursor(h) == IF h \notin defined THEN -1 ELSE IF iterator[h] = Null THEN NoName ELSE name[iterator[h]]

Promised == INSTANCE AmountSet WITH
  Handles <- Nodes,
  open    <- heads,
  amounts <- [h \in Nodes |-> IF h \in heads THEN Dictionary(h) ELSE [n \in {} |-> 0]],
  cursor  <- [h \in Nodes |-> Cursor(h)],
  reply   <- answer
ImplementsAmountSet == Promised!Spec
=============================================================================
