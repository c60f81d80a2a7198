------------------------------ MODULE RankTree ------------------------------
(***************************************************************************)
(* The rank tree of "Companies Management 2": an AVL tree of the employees *)
(* with a salary, ordered by salary and id, whose nodes carry the height,  *)
(* the number and the sum of grades of their subtree.  Two of them are     *)
(* modelled, for an acquisition merges the trees of two companies.         *)
(*                                                                         *)
(* A tree is a record nested in a record; the pointer to the parent is the *)
(* nesting.  `smallest', which nobody reads, is left out, and so are the   *)
(* queries nobody calls (getInRange, getNodePlacedK, findNumOfLeftest).    *)
(***************************************************************************)
EXTENDS Integers, Sequences, FiniteSets, FiniteSetsExt, SequencesExt

CONSTANTS
  Trees,       \* the companies' trees
  MaxKey,      \* bound: the keys are 1..MaxKey
  MaxPromoted, \* bound: how many employees are promoted at a time
  MergeSizes   \* bound: how many employees a tree built by a merge may have

ASSUME ConstantAssumption ==
  /\ IsFiniteSet(Trees)
  /\ MaxKey \in Nat /\ MaxPromoted \in Nat
  /\ MergeSizes \subseteq Nat

\* A key stands for the pair of a salary and an id, in their order; two
\* employees earn each salary.
Keys == 1..MaxKey
Salary(k) == (k + 1) \div 2
FirstGrade(k) == k
InOrderOf(S) == SelectSeq([k \in Keys |-> k], LAMBDA k : k \in S)

VARIABLES
  root,      \* RankTree::root
  numNodes,  \* RankTree::num_of_nodes
  grade,     \* Employee::grade
  paid       \* history: the employees whose tree this is

vars == <<root, numNodes, grade, paid>>

-----------------------------------------------------------------------------
(* Nodes. *)

Nil == [height |-> 0, rank |-> 0, sum |-> 0]

NewNode(k, l, r) ==
  [key |-> k, left |-> l, right |-> r, height |-> 1, rank |-> 1, sum |-> grade[k]]

IsLeaf(t)     == t.left = Nil /\ t.right = Nil
HasTwoSons(t) == t.left # Nil /\ t.right # Nil
Balance(t)    == t.left.height - t.right.height

RECURSIVE InOrder(_)
InOrder(t) == IF t = Nil THEN << >> ELSE InOrder(t.left) \o <<t.key>> \o InOrder(t.right)

UpdateSum(t) == [t EXCEPT !.sum = t.left.sum + t.right.sum + grade[t.key]]

\* updateHeights, updateRanks and updateSums of one node.
Update(t) ==
  [UpdateSum(t) EXCEPT
     !.height = 1 + IF t.left.height > t.right.height THEN t.left.height ELSE t.right.height,
     !.rank   = 1 + t.left.rank + t.right.rank]

RotateRight(t) ==
  Update([t.left EXCEPT !.right = Update([t EXCEPT !.left = t.left.right])])

RotateLeft(t) ==
  Update([t.right EXCEPT !.left  = Update([t EXCEPT !.right = t.right.left]),
                         !.right = IF @ = Nil THEN Nil ELSE Update(@)])

\* rebalance: a son that leans to neither side is rotated first as well.
Rebalance(t) ==
  CASE Balance(t) > 1  -> RotateRight(IF Balance(t.left) > 0 THEN t
                                      ELSE [t EXCEPT !.left = RotateLeft(@)])
    [] Balance(t) < -1 -> RotateLeft(IF Balance(t.right) < 0 THEN t
                                     ELSE [t EXCEPT !.right = RotateRight(@)])
    [] OTHER           -> t

\* One node on the way up after a change.  A rotation moves the node down, and
\* its parent, where the loop goes on, is then the root of the same subtree.
RECURSIVE Fix(_)
Fix(t) == LET u == Update(t) IN IF Balance(u) \in -1..1 THEN u ELSE Fix(Rebalance(u))

-----------------------------------------------------------------------------
(* Insertion and removal below a node. *)

RECURSIVE Inserted(_, _)
Inserted(t, k) ==
  IF t = Nil THEN NewNode(k, Nil, Nil)
  ELSE IF k < t.key THEN Fix([t EXCEPT !.left = Inserted(@, k)])
  ELSE Fix([t EXCEPT !.right = Inserted(@, k)])

RECURSIVE MinKey(_)
MinKey(t) == IF t.left = Nil THEN t.key ELSE MinKey(t.left)

\* The successor of a node with two sons leaves its place to its right son.
\* Fault: it is cut off with that son.
RECURSIVE SuccessorCutOff(_)
SuccessorCutOff(t) == IF t.left = Nil THEN Nil ELSE Fix([t EXCEPT !.left = SuccessorCutOff(@)])
RECURSIVE WithoutMin(_)
WithoutMin(t) == IF t.left = Nil THEN t.right ELSE Fix([t EXCEPT !.left = WithoutMin(@)])

\* A node with one son takes its employee over and deletes it: whatever hangs
\* below the son is lost.
SonTakenOver(t) ==
  [t EXCEPT !.key = IF t.left # Nil THEN t.left.key ELSE t.right.key, !.left = Nil, !.right = Nil]

RECURSIVE Without(_, _)
Without(t, k) ==
  CASE k < t.key                 -> Fix([t EXCEPT !.left  = Without(@, k)])
    [] k > t.key                 -> Fix([t EXCEPT !.right = Without(@, k)])
    [] k = t.key /\ IsLeaf(t)     -> Nil
    [] k = t.key /\ HasTwoSons(t) -> Fix([t EXCEPT !.key   = MinKey(t.right),
                                                   !.right = WithoutMin(@)])
    [] OTHER                     -> Fix(SonTakenOver(t))

\* removeNode: a root with one son is not updated, unless n < 2 nodes are left.
\* Fault: not then either.
RemovedUnfixed(t, k, n) ==
  IF t.key = k /\ ~IsLeaf(t) /\ ~HasTwoSons(t) THEN SonTakenOver(t) ELSE Without(t, k)
Removed(t, k, n) ==
  LET u == IF t.key = k /\ ~IsLeaf(t) /\ ~HasTwoSons(t) THEN SonTakenOver(t) ELSE Without(t, k)
  IN IF n < 2 /\ u # Nil THEN Update(u) ELSE u

-----------------------------------------------------------------------------
(* Merging two trees: an almost whole tree of the right size, filled in order. *)

\* createEmptyTreeNodes: node i and what is below it, in an array of n nodes.
RECURSIVE Heap(_, _)
Heap(i, n) == IF i >= n THEN Nil ELSE [key |-> i, left |-> Heap(2*i + 1, n), right |-> Heap(2*i + 2, n)]

WholeTreeSize(n) == 2 ^ (CHOOSE e \in 0..n : 2^e >= n /\ \A d \in 0..n : 2^d >= n => e <= d)

\* leavesTrimmer: removes leaves, from the right, while there are more than n.
RECURSIVE Trimmed(_, _, _)
Trimmed(t, num, n) ==
  CASE num <= n \/ t = Nil -> [tree |-> t, num |-> num]
    [] num > n /\ t # Nil /\ IsLeaf(t) -> [tree |-> Nil, num |-> num - 1]
    [] OTHER ->
         LET r == Trimmed(t.right, num, n)
             l == Trimmed(t.left, r.num, n)
         IN [tree |-> [t EXCEPT !.left = l.tree, !.right = r.tree], num |-> l.num]

\* The keys of s put into t in order, and the fields updated bottom up.
RECURSIVE Filled(_, _)
Filled(t, s) ==
  IF t = Nil THEN Nil
  ELSE LET i == Len(InOrder(t.left)) + 1
       IN Update(NewNode(s[i], Filled(t.left, SubSeq(s, 1, i - 1)),
                               Filled(t.right, SubSeq(s, i + 1, Len(s)))))

Whole(n) == Trimmed(Heap(0, WholeTreeSize(n)), WholeTreeSize(n), n).tree

Merged(s, t) ==
  LET all == InOrderOf(ToSet(InOrder(s)) \cup ToSet(InOrder(t)))
  IN Filled(Whole(Len(all)), all)

-----------------------------------------------------------------------------
(* The queries of library2.cpp. *)

\* getSumGrades(m): from the greatest key down, until m grades are summed.
RECURSIVE Summed(_, _)
Summed(t, s) ==
  IF t = Nil \/ s.m <= 0 THEN s
  ELSE LET r == Summed(t.right, s)
           own == IF r.m > 0 THEN [m |-> r.m - 1, sum |-> r.sum + grade[t.key]] ELSE r
       IN Summed(t.left, own)

SumGrades(t, m) == Summed(t, [m |-> m, sum |-> 0]).sum

\* removeNotInRange: what the walk subtracts from the root's sum or rank.  Fault:
\* who earns exactly the lower salary is subtracted too.
Own(t, field) == IF field = "sum" THEN grade[t.key] ELSE 1

RECURSIVE NotGreater(_, _, _)
NotGreater(t, field, lower) ==
  CASE t = Nil               -> 0
    [] t # Nil /\ Salary(t.key) <= lower ->
         t.left[field] + Own(t, field) + NotGreater(t.right, field, lower)
    [] OTHER                 -> NotGreater(t.left, field, lower)
RECURSIVE Smaller(_, _, _)
Smaller(t, field, lower) ==
  CASE t = Nil               -> 0
    [] t # Nil /\ Salary(t.key) < lower ->
         t.left[field] + Own(t, field) + Smaller(t.right, field, lower)
    [] OTHER                 -> Smaller(t.left, field, lower)

RECURSIVE Greater(_, _, _)
Greater(t, field, higher) ==
  CASE t = Nil               -> 0
    [] t # Nil /\ Salary(t.key) > higher ->
         t.right[field] + Own(t, field) + Greater(t.left, field, higher)
    [] OTHER                 -> Greater(t.right, field, higher)

RECURSIVE NotInRange(_, _, _, _)
NotInRange(t, field, lower, higher) ==
  CASE t = Nil -> 0
    [] t # Nil /\ Salary(t.key) < lower ->
         t.left[field] + Own(t, field) + NotInRange(t.right, field, lower, higher)
    [] t # Nil /\ Salary(t.key) > higher ->
         t.right[field] + Own(t, field) + NotInRange(t.left, field, lower, higher)
    [] OTHER -> Smaller(t, field, lower) + Greater(t, field, higher)

\* AverageBumpGradeBetweenSalaryByGroup: the sum or the number it divides.
InRange(t, field, lower, higher) ==
  IF t = Nil THEN 0 ELSE t[field] - NotInRange(t, field, lower, higher)

-----------------------------------------------------------------------------
(* Operations. *)

Init ==
  /\ root     = [t \in Trees |-> Nil]
  /\ numNodes = [t \in Trees |-> 0]
  /\ grade    = [k \in Keys |-> FirstGrade(k)]
  /\ paid     = [t \in Trees |-> {}]

\* insertNode.  The salary and id are in no tree (AddEmployee and
\* EmployeeSalaryIncrease see to it).
InsertNode(t, k) ==
  /\ \A u \in Trees : k \notin paid[u]
  /\ root'     = [root EXCEPT ![t] = Inserted(@, k)]
  /\ numNodes' = [numNodes EXCEPT ![t] = @ + 1]
  /\ paid'     = [paid EXCEPT ![t] = @ \cup {k}]
  /\ UNCHANGED grade

\* removeNode, also of a key that is not in the tree: UDCompanyTree removes
\* employees without a salary as well.  Who returns starts anew.
RemoveNode(t, k) ==
  /\ IF Contains(InOrder(root[t]), k)
     THEN /\ numNodes' = [numNodes EXCEPT ![t] = @ - 1]
          /\ root'     = [root EXCEPT ![t] = Removed(@, k, numNodes[t] - 1)]
     ELSE UNCHANGED <<root, numNodes>>
  /\ paid'  = [paid EXCEPT ![t] = @ \ {k}]
  /\ grade' = IF k \in paid[t] THEN [grade EXCEPT ![k] = FirstGrade(k)] ELSE grade

\* PromoteEmployee: the employee's grade, and then the sums from the employee's
\* node to the root.
RECURSIVE SumsUpdated(_, _, _)
SumsUpdated(t, k, g) ==
  LET below == CASE k < t.key -> [t EXCEPT !.left  = SumsUpdated(@, k, g)]
                 [] k > t.key -> [t EXCEPT !.right = SumsUpdated(@, k, g)]
                 [] OTHER     -> t
  IN [below EXCEPT !.sum = below.left.sum + below.right.sum + g[t.key]]

PromoteEmployee(t, k) ==
  /\ k \in paid[t]
  /\ grade[k] = FirstGrade(k)
  /\ Cardinality({j \in Keys : grade[j] # FirstGrade(j)}) < MaxPromoted
  /\ grade' = [grade EXCEPT ![k] = @ + 1]
  /\ root'  = IF Contains(InOrder(root[t]), k)
              THEN [root EXCEPT ![t] = SumsUpdated(@, k, grade')]
              ELSE root
  /\ UNCHANGED <<numNodes, paid>>

\* mergeWithEmployeesOf: an empty tree takes the other one.  The tree of the
\* company acquired is gone; in its place comes the empty one of a company that
\* has not hired yet.  The merge of trees that have lost nodes, which leaves
\* nodes of nobody in the new tree, is not modelled.
IsNumNodesOk(t) == numNodes[t] = Len(InOrder(root[t]))

MergeWithEmployeesOf(t, u) ==
  /\ t # u /\ IsNumNodesOk(t) /\ IsNumNodesOk(u)
  /\ numNodes[u] > 0
  /\ numNodes[t] > 0 => numNodes[t] + numNodes[u] \in MergeSizes
  /\ root'     = [root EXCEPT ![t] = IF @ = Nil THEN Filled(root[u], InOrder(root[u]))
                                     ELSE Merged(@, root[u]),
                              ![u] = Nil]
  /\ numNodes' = [numNodes EXCEPT ![t] = @ + numNodes[u], ![u] = 0]
  /\ paid'     = [paid EXCEPT ![t] = @ \cup paid[u], ![u] = {}]
  /\ UNCHANGED grade

Next ==
  \/ \E t \in Trees, k \in Keys :
       InsertNode(t, k) \/ RemoveNode(t, k) \/ PromoteEmployee(t, k)
  \/ \E t, u \in Trees : MergeWithEmployeesOf(t, u)

Spec == Init /\ [][Next]_vars

-----------------------------------------------------------------------------
(* Properties. *)

\* Every tree has nodes with a key and a grade sum, a counter that is never
\* negative, and a set of employees of its own.
RECURSIVE IsTree(_)
IsTree(t) ==
  \/ t = Nil
  \/ /\ t.key \in Keys /\ t.height \in 1..MaxKey /\ t.rank \in 1..MaxKey /\ t.sum \in Nat
     /\ IsTree(t.left) /\ IsTree(t.right)
TypeOK ==
  /\ \A t \in Trees : IsTree(root[t])
  /\ numNodes \in [Trees -> 0..MaxKey]
  /\ \A k \in Keys : grade[k] \in {FirstGrade(k), FirstGrade(k) + 1}
  /\ paid \in [Trees -> SUBSET Keys]

\* After any sequence of insertions, removals and merges a tree holds, in
\* order, exactly the employees put there and not removed, and as many as
\* num_of_nodes says (rankTreeActual.h, insertNode, removeNode; isNumNodesOk).
Contents ==
  \A t \in Trees :
    /\ InOrder(root[t]) = InOrderOf(paid[t])
    /\ numNodes[t] = Cardinality(paid[t])

\* Every variable has its type, and the height, rank and sum kept in every node
\* are those of its subtree, through rotations, removals, promotions and merges
\* (isSumAndRankOk).
RECURSIVE Height(_)
Height(t) == IF t = Nil THEN 0 ELSE 1 + Max({Height(t.left), Height(t.right)})
GradesOf(S) == MapThenSumSet(LAMBDA k : grade[k], S)
RECURSIVE FieldsOk(_)
FieldsOk(t) ==
  t # Nil => /\ t.height = Height(t)
             /\ t.rank = Len(InOrder(t))
             /\ t.sum = GradesOf(ToSet(InOrder(t)))
             /\ FieldsOk(t.left) /\ FieldsOk(t.right)
FieldsExact == TypeOK /\ \A t \in Trees : FieldsOk(root[t])

\* What the two queries answer is what the set of employees says.  What
\* AverageBumpGradeBetweenSalaryByGroup divides is the sum of grades and
\* the number of the company's employees in the range of salaries, though it
\* only walks down to the ends of the range (removeNotInRange); and what
\* SumOfBumpGradeBetweenTopWorkersByGroup answers is the grades of the m best
\* paid, ties won by the greater id (getSumGrades).
RangeExact ==
  \A t \in Trees, lower, higher \in 1..Salary(MaxKey) :
    lower <= higher =>
      LET within == {k \in paid[t] : Salary(k) \in lower..higher}
      IN /\ InRange(root[t], "sum", lower, higher) = GradesOf(within)
         /\ InRange(root[t], "rank", lower, higher) = Cardinality(within)
TopExact ==
  \A t \in Trees : \A m \in 1..numNodes[t] :
    \E best \in kSubset(m, paid[t]) :
      /\ \A k \in best, j \in paid[t] \ best : k > j
      /\ SumGrades(root[t], m) = GradesOf(best)
AnswersExact == RangeExact /\ TopExact
=============================================================================
