----------------------------- MODULE AmountSet ------------------------------
(***************************************************************************)
(* What amount_set_str.h promises: sets of names with amounts, sorted, each *)
(* with an iterator that is defined between asGetFirst and the next call    *)
(* the header does not say to keep it.                                      *)
(***************************************************************************)
EXTENDS Integers, FiniteSets

CONSTANTS Handles, Names, MaxAmount

NoName    == 0
Undefined == -1

VARIABLES
  open,     \* the sets there are
  amounts,  \* the amounts of a set, by name
  cursor,   \* the name asGetNext returns next, NoName at the end, or Undefined
  reply

vars == <<open, amounts, cursor, reply>>

Code(c)  == <<c, 0>>
Value(v) == <<"value", v>>

Empty == [n \in {} |-> 0]
Least(S)    == IF S = {} THEN NoName ELSE CHOOSE n \in S : \A k \in S : n <= k
After(d, n) == Least({k \in DOMAIN d : k > n})

Init ==
  /\ open = {}
  /\ amounts = [h \in Handles |-> Empty]
  /\ cursor = [h \in Handles |-> Undefined]
  /\ reply = Code("done")

\* What a call comes to that leaves the iterator of h undefined.
Becomes(h, dictionary, code) ==
  /\ reply' = Code(code)
  /\ open' = open
  /\ amounts' = [amounts EXCEPT ![h] = dictionary]
  /\ cursor' = [cursor EXCEPT ![h] = Undefined]

Answers(value) == reply' = value /\ UNCHANGED <<open, amounts>>

Create(h) ==
  /\ h \notin open
  /\ open' = open \cup {h}
  /\ reply' = Value(h)
  /\ UNCHANGED <<amounts, cursor>>

Destroy(h) ==
  /\ open' = open \ {h}
  /\ amounts' = [amounts EXCEPT ![h] = Empty]
  /\ cursor' = [cursor EXCEPT ![h] = Undefined]
  /\ reply' = Code("done")

Copy(h, g) ==
  /\ g \notin open
  /\ open' = open \cup {g}
  /\ reply' = Value(g)
  /\ amounts' = [amounts EXCEPT ![g] = amounts[h]]
  /\ cursor' = [cursor EXCEPT ![h] = Undefined, ![g] = Undefined]

\* The operations on a set h whose dictionary is d.
Register(h, d, n) ==
  IF n \in DOMAIN d
  THEN Becomes(h, d, "AS_ITEM_ALREADY_EXISTS")
  ELSE Becomes(h, [k \in DOMAIN d \cup {n} |-> IF k = n THEN 0 ELSE d[k]], "done")

Delete(h, d, n) ==
  IF n \in DOMAIN d
  THEN Becomes(h, [k \in DOMAIN d \ {n} |-> d[k]], "done")
  ELSE Becomes(h, d, "AS_ITEM_DOES_NOT_EXIST")

ChangeAmount(h, d, n, change) ==
  /\ \/ n \notin DOMAIN d /\ reply' = Code("AS_ITEM_DOES_NOT_EXIST") /\ amounts' = amounts
     \/ n \in DOMAIN d /\ d[n] + change < 0 /\ reply' = Code("AS_INSUFFICIENT_AMOUNT") /\ amounts' = amounts
     \/ /\ n \in DOMAIN d /\ d[n] + change >= 0
        /\ reply' = Code("done")
        /\ amounts' = [amounts EXCEPT ![h] = [d EXCEPT ![n] = @ + change]]
  /\ UNCHANGED <<open, cursor>>

GetAmount(d, n) ==
  /\ Answers(IF n \in DOMAIN d THEN Value(d[n]) ELSE Code("AS_ITEM_DOES_NOT_EXIST"))
  /\ UNCHANGED cursor

GetSize(d) == Answers(Value(Cardinality(DOMAIN d))) /\ UNCHANGED cursor

GetFirst(h, d) ==
  /\ Answers(Value(Least(DOMAIN d)))
  /\ cursor' = [cursor EXCEPT ![h] = After(d, Least(DOMAIN d))]

GetNext(h, d) ==
  /\ cursor[h] # Undefined
  /\ Answers(Value(cursor[h]))
  /\ cursor' = [cursor EXCEPT ![h] = IF @ = NoName THEN NoName ELSE After(d, @)]

Next ==
  \/ \E h \in Handles : Create(h)
  \/ \E h \in open :
       \/ Destroy(h)
       \/ Becomes(h, Empty, "done")     \* asClear
       \/ \E g \in Handles : Copy(h, g)
       \/ LET d == amounts[h] IN
          \/ GetSize(d)
          \/ GetFirst(h, d)
          \/ GetNext(h, d)
          \/ \E n \in Names : Register(h, d, n) \/ Delete(h, d, n) \/ GetAmount(d, n)
          \/ \E n \in Names, change \in -MaxAmount..MaxAmount : ChangeAmount(h, d, n, change)

Spec == Init /\ [][Next]_vars
=============================================================================
