-------------------------- MODULE MatamikyaProofs --------------------------
(***************************************************************************)
(* Proofs about the warehouse, for any products, orders and amounts.       *)
(***************************************************************************)
EXTENDS MatamikyaProperties, WellFoundedInduction, TLAPS

Stocked    == [scale : AllScales, quantity : Nat, profit : Int, price : Prices]
IsStock(w) == w = [p \in DOMAIN w |-> w[p]] /\ \A p \in DOMAIN w : w[p] \in Stocked
IsItems(f) == f = [p \in DOMAIN f |-> f[p]] /\ \A p \in DOMAIN f : f[p] \in Nat

\* The inductive invariant: what is ordered is in the warehouse, and nothing is
\* below zero.
OrderOK(w, f) == IsItems(f) /\ DOMAIN f \subseteq DOMAIN w

WarehouseOK == IsStock(warehouse) /\ DOMAIN warehouse \subseteq Products
OrdersOK ==
  /\ DOMAIN orders \subseteq 1..MaxOrder
  /\ orders = [o \in DOMAIN orders |-> orders[o]]
  /\ \A o \in DOMAIN orders : OrderOK(warehouse, orders[o])

IInv == WarehouseOK /\ OrdersOK /\ answer \in Answers

-----------------------------------------------------------------------------
(* The operators.                                                           *)
LEMMA PriceInt ==
  ASSUME NEW price, NEW amount \in Int
  PROVE  Price(price, amount) \in Int
BY ConstantAssumption DEF Price

LEMMA WithoutItems ==
  ASSUME NEW w, NEW f, OrderOK(w, f), NEW id
  PROVE  OrderOK(Restrict(w, DOMAIN w \ {id}), Without(f, id)) /\ OrderOK(w, Without(f, id))
BY DEF OrderOK, IsItems, Without, Restrict

LEMMA ChangedItems ==
  ASSUME NEW w, NEW f, OrderOK(w, f), NEW p \in DOMAIN w, NEW amount \in Int
  PROVE  OrderOK(w, Changed(f, p, amount))
<1>1. CASE AmountIn(f, p) + amount < 0
  BY <1>1, WithoutItems DEF Changed
<1>2. CASE ~(AmountIn(f, p) + amount < 0)
  <2>1. AmountIn(f, p) \in Nat
    BY DEF AmountIn, OrderOK, IsItems
  <2>2. AmountIn(f, p) + amount \in Nat
    BY <1>2, <2>1
  <2> QED
    BY <1>2, <2>2 DEF Changed, OrderOK, IsItems
<1> QED
  BY <1>1, <1>2

\* The loop of mtmShipOrder keeps a stock a stock when each product has enough.
LEMMA TakenStock ==
  ASSUME NEW w, IsStock(w), NEW f, OrderOK(w, f), NEW P \in SUBSET DOMAIN f,
         \A p \in P : f[p] <= w[p].quantity
  PROVE  IsStock(Taken(w, f, P)) /\ DOMAIN Taken(w, f, P) = DOMAIN w
<1> DEFINE t == Taken(w, f, P)
<1>1. DOMAIN t = DOMAIN w /\ t = [p \in DOMAIN t |-> t[p]]
  BY DEF Taken
<1>2. ASSUME NEW p \in DOMAIN w PROVE t[p] \in Stocked
  <2>1. w[p] \in Stocked
    BY DEF IsStock
  <2>2. CASE p \in P
    <3>1. f[p] \in Nat /\ f[p] <= w[p].quantity
      BY <2>2 DEF OrderOK, IsItems
    <3>2. Price(w[p].price, f[p]) \in Int
      BY <3>1, PriceInt
    <3>3. t[p] = [w[p] EXCEPT !.quantity = @ - f[p], !.profit = @ + Price(w[p].price, f[p])]
      BY <2>2 DEF Taken
    <3>4. w[p].quantity - f[p] \in Nat /\ w[p].profit + Price(w[p].price, f[p]) \in Int
      BY <2>1, <3>1, <3>2 DEF Stocked
    <3> QED
      BY <2>1, <3>3, <3>4 DEF Stocked
  <2>3. CASE p \notin P
    BY <2>1, <2>3 DEF Taken
  <2> QED
    BY <2>2, <2>3
<1> HIDE DEF t
<1> QED
  BY <1>1, <1>2 DEF IsStock, t

LEMMA GivenBackStock ==
  ASSUME NEW w, IsStock(w), NEW f, OrderOK(w, f), NEW P \in SUBSET DOMAIN f
  PROVE  IsStock(GivenBack(w, f, P)) /\ DOMAIN GivenBack(w, f, P) = DOMAIN w
<1> DEFINE t == GivenBack(w, f, P)
<1>1. DOMAIN t = DOMAIN w /\ t = [p \in DOMAIN t |-> t[p]]
  BY DEF GivenBack
<1>2. ASSUME NEW p \in DOMAIN w PROVE t[p] \in Stocked
  <2>1. w[p] \in Stocked
    BY DEF IsStock
  <2>2. CASE p \in P
    <3>1. f[p] \in Nat
      BY <2>2 DEF OrderOK, IsItems
    <3>2. Price(w[p].price, -f[p]) \in Int
      BY <3>1, PriceInt
    <3>3. t[p] = [w[p] EXCEPT !.quantity = @ + f[p], !.profit = @ + Price(w[p].price, -f[p])]
      BY <2>2 DEF GivenBack
    <3>4. w[p].quantity + f[p] \in Nat /\ w[p].profit + Price(w[p].price, -f[p]) \in Int
      BY <2>1, <3>1, <3>2 DEF Stocked
    <3> QED
      BY <2>1, <3>3, <3>4 DEF Stocked
  <2>3. CASE p \notin P
    BY <2>1, <2>3 DEF GivenBack
  <2> QED
    BY <2>2, <2>3
<1> HIDE DEF t
<1> QED
  BY <1>1, <1>2 DEF IsStock, t

\* With linear prices a rollback of what the loop took restores every product:
\* the price of the negated amount is the negated price.
LEMMA RollbackExact ==
  ASSUME NEW w, IsStock(w), \A p \in DOMAIN w : w[p].price = "linear",
         NEW f, OrderOK(w, f), NEW P \in SUBSET DOMAIN f
  PROVE  GivenBack(Taken(w, f, P), f, P) = w
<1> DEFINE t == Taken(w, f, P)
           g == GivenBack(t, f, P)
<1>1. DOMAIN g = DOMAIN w /\ g = [p \in DOMAIN g |-> g[p]] /\ w = [p \in DOMAIN w |-> w[p]]
  BY DEF GivenBack, Taken, IsStock
<1>2. ASSUME NEW p \in DOMAIN w PROVE g[p] = w[p]
  <2>1. w[p] \in Stocked
    BY DEF IsStock
  <2>2. CASE p \in P
    <3>1. f[p] \in Nat /\ -f[p] \in Int
      BY <2>2 DEF OrderOK, IsItems
    <3>2. Price("linear", f[p]) = f[p] /\ Price("linear", -f[p]) = -f[p]
      BY DEF Price
    <3>3. t[p] = [w[p] EXCEPT !.quantity = @ - f[p], !.profit = @ + f[p]]
      BY <2>2, <3>2 DEF Taken
    <3>4. /\ t[p].price = "linear" /\ t[p].scale = w[p].scale
          /\ t[p].quantity = w[p].quantity - f[p] /\ t[p].profit = w[p].profit + f[p]
          /\ t[p] = [scale |-> w[p].scale, quantity |-> w[p].quantity - f[p],
                     profit |-> w[p].profit + f[p], price |-> w[p].price]
      BY <2>1, <3>3 DEF Stocked
    <3>5. DOMAIN t = DOMAIN w
      BY DEF Taken
    <3>6. g[p] = [t[p] EXCEPT !.quantity = @ + f[p], !.profit = @ + (-f[p])]
      BY <2>2, <3>2, <3>4, <3>5 DEF GivenBack
    <3>7. /\ (w[p].quantity - f[p]) + f[p] = w[p].quantity
          /\ (w[p].profit + f[p]) + (-f[p]) = w[p].profit
      BY <2>1, <3>1 DEF Stocked
    <3> HIDE DEF t, g
    <3>8. g[p] = [scale |-> w[p].scale, quantity |-> w[p].quantity,
                  profit |-> w[p].profit, price |-> w[p].price]
      BY <3>4, <3>6, <3>7
    <3> QED
      BY <2>1, <3>8 DEF Stocked
  <2>3. CASE p \notin P
    BY <2>3 DEF Taken, GivenBack
  <2> QED
    BY <2>2, <2>3
<1> HIDE DEF t, g
<1>3. g = w
  BY <1>1, <1>2
<1> QED
  BY <1>3 DEF t, g

\* A product that does not fail can be decreased by the amount ordered.
LEMMA EnoughStock ==
  ASSUME WarehouseOK, NEW f, OrderOK(warehouse, f), NEW p \in DOMAIN f, p \notin Failing(f)
  PROVE  f[p] <= warehouse[p].quantity
<1>1. p \in DOMAIN warehouse /\ f[p] \in Nat /\ warehouse[p].quantity \in Nat
  BY DEF OrderOK, IsItems, WarehouseOK, IsStock, Stocked
<1>2. ChangeAnswer(p, -f[p]) = "SUCCESS"
  BY DEF Failing
<1>3. ~(warehouse[p].quantity + (-f[p]) < 0)
  BY <1>1, <1>2 DEF ChangeAnswer
<1> QED
  BY <1>1, <1>3

LEMMA RefuseInv ==
  ASSUME IInv, NEW code \in Answers, Refuse(code)
  PROVE  IInv'
BY DEF IInv, Refuse, WarehouseOK, OrdersOK

LEMMA ChangeAnswers ==
  ASSUME NEW p, NEW amount
  PROVE  ChangeAnswer(p, amount) \in Answers
BY DEF ChangeAnswer, Answers

\* A bounded set of numbers that is not empty has a largest member.
LEMMA LargestOf ==
  ASSUME NEW S, NEW m \in Nat, S \subseteq 1..m, S # {}
  PROVE  Max(S) \in S /\ \A x \in S : x <= Max(S)
<1> DEFINE R == OpToRel(<, Nat)
           T == {m - x : x \in S}
<1>0. \A x \in S : x \in Nat /\ m - x \in Nat
  OBVIOUS
<1>1. T \subseteq Nat /\ T # {}
  BY <1>0
<1>2. \E t \in T : \A y \in T : ~(<<y, t>> \in R)
  BY <1>1, WFMin, NatLessThanWellFounded
<1>3. PICK t \in T : \A y \in T : ~(y < t)
  BY <1>1, <1>2 DEF OpToRel
<1>4. PICK x \in S : t = m - x
  BY <1>3
<1>5. ASSUME NEW y \in S PROVE x >= y
  <2>1. ~(m - y < m - x)
    BY <1>3, <1>4
  <2> HIDE DEF T
  <2> QED
    BY <2>1, <1>0
<1>6. Max(S) \in S /\ \A y \in S : Max(S) >= y
  BY <1>5 DEF Max
<1> QED
  BY <1>6

\* getAvailableId gives a positive id that no order has.
LEMMA AvailableIdFresh ==
  ASSUME IInv, AvailableId <= MaxOrder
  PROVE  AvailableId \in 1..MaxOrder /\ AvailableId \notin DOMAIN orders
<1> DEFINE ids == DOMAIN orders
<1>0. MaxOrder \in Nat /\ ids \subseteq 1..MaxOrder /\ orders = [o \in ids |-> orders[o]]
  BY ConstantAssumption DEF IInv, OrdersOK
<1>1. CASE orders = << >>
  BY <1>0, <1>1 DEF AvailableId
<1>2. CASE orders # << >>
  <2>1. ids # {}
    BY <1>0, <1>2
  <2>2. Max(ids) \in ids /\ \A x \in ids : x <= Max(ids)
    BY <1>0, <2>1, LargestOf
  <2>3. AvailableId = Max(ids) + 1
    BY <1>2 DEF AvailableId
  <2> QED
    BY <1>0, <2>2, <2>3
<1> QED
  BY <1>1, <1>2

-----------------------------------------------------------------------------
(* The inductive invariant.                                                 *)
LEMMA InitInv == Init => IInv
BY DEF Init, IInv, WarehouseOK, OrdersOK, IsStock, Answers

LEMMA NewProductInv ==
  ASSUME IInv, NEW id \in Products, NEW scale \in Scales, NEW amount \in Amounts, NEW price \in Prices,
         MtmNewProduct(id, scale, amount, price)
  PROVE  IInv'
<1>1. CASE Refuse("INVALID_AMOUNT") \/ Refuse("PRODUCT_ALREADY_EXIST")
  BY <1>1, RefuseInv DEF Answers
<1>2. CASE /\ amount >= 0 /\ id \notin DOMAIN warehouse
           /\ warehouse' = [p \in DOMAIN warehouse \cup {id} |->
                              IF p = id THEN [scale |-> scale, quantity |-> amount, profit |-> 0, price |-> price]
                              ELSE warehouse[p]]
           /\ answer' = "SUCCESS"
           /\ UNCHANGED orders
  <2>1. amount \in Nat /\ scale \in AllScales
    BY <1>2, ConstantAssumption
  <2>2. IsStock(warehouse')
    BY <1>2, <2>1 DEF IInv, WarehouseOK, IsStock, Stocked
  <2>3. DOMAIN warehouse \subseteq DOMAIN warehouse' /\ DOMAIN warehouse' \subseteq Products
    BY <1>2 DEF IInv, WarehouseOK
  <2>4. OrdersOK'
    BY <1>2, <2>3 DEF IInv, OrdersOK, OrderOK
  <2> QED
    BY <1>2, <2>2, <2>3, <2>4 DEF IInv, WarehouseOK, Answers
<1> QED
  BY <1>1, <1>2 DEF MtmNewProduct

LEMMA ChangeProductAmountInv ==
  ASSUME IInv, NEW id \in Products, NEW amount \in Amounts, MtmChangeProductAmount(id, amount)
  PROVE  IInv'
<1>1. CASE Refuse(ChangeAnswer(id, amount))
  BY <1>1, RefuseInv, ChangeAnswers
<1>2. CASE /\ ChangeAnswer(id, amount) = "SUCCESS"
           /\ warehouse' = [warehouse EXCEPT ![id].quantity = @ + amount]
           /\ answer' = "SUCCESS"
           /\ UNCHANGED orders
  <2>1. id \in DOMAIN warehouse /\ ~(warehouse[id].quantity + amount < 0) /\ amount \in Int
    BY <1>2, ConstantAssumption DEF ChangeAnswer
  <2>2. warehouse[id] \in Stocked /\ warehouse[id].quantity \in Nat
    BY <2>1 DEF IInv, WarehouseOK, IsStock, Stocked
  <2>3. warehouse[id].quantity + amount \in Nat
    BY <2>1, <2>2
  <2>4. [warehouse[id] EXCEPT !.quantity = @ + amount] \in Stocked
    BY <2>2, <2>3 DEF Stocked
  <2>5. warehouse' = [warehouse EXCEPT ![id] = [warehouse[id] EXCEPT !.quantity = @ + amount]]
    BY <1>2, <2>1
  <2>6. IsStock(warehouse') /\ DOMAIN warehouse' = DOMAIN warehouse
    BY <2>1, <2>4, <2>5 DEF IInv, WarehouseOK, IsStock
  <2>7. OrdersOK'
    BY <1>2, <2>6 DEF IInv, OrdersOK, OrderOK
  <2> QED
    BY <1>2, <2>6, <2>7 DEF IInv, WarehouseOK, Answers
<1> QED
  BY <1>1, <1>2 DEF MtmChangeProductAmount

LEMMA ClearProductInv ==
  ASSUME IInv, NEW id \in Products, MtmClearProduct(id)
  PROVE  IInv'
<1>1. CASE Refuse("PRODUCT_NOT_EXIST")
  BY <1>1, RefuseInv DEF Answers
<1>2. CASE /\ orders' = DeletedFromOrders(id)
           /\ warehouse' = Restrict(warehouse, DOMAIN warehouse \ {id})
           /\ answer' = "SUCCESS"
  <2>1. WarehouseOK'
    BY <1>2 DEF IInv, WarehouseOK, IsStock, Restrict
  <2>2. DOMAIN orders' = DOMAIN orders /\ orders' = [o \in DOMAIN orders' |-> orders'[o]]
    BY <1>2 DEF DeletedFromOrders
  <2>3. ASSUME NEW o \in DOMAIN orders PROVE OrderOK(warehouse', orders'[o])
    <3>1. OrderOK(warehouse, orders[o])
      BY DEF IInv, OrdersOK
    <3> QED
      BY <1>2, <3>1, WithoutItems DEF DeletedFromOrders
  <2>4. OrdersOK'
    BY <2>2, <2>3 DEF IInv, OrdersOK
  <2> QED
    BY <1>2, <2>1, <2>4 DEF IInv, Answers
<1> QED
  BY <1>1, <1>2 DEF MtmClearProduct

LEMMA CreateNewOrderInv ==
  ASSUME IInv, MtmCreateNewOrder
  PROVE  IInv'
<1>1. AvailableId \in 1..MaxOrder
  BY AvailableIdFresh DEF MtmCreateNewOrder
<1> DEFINE new == AvailableId
<1>2. /\ orders' = [o \in DOMAIN orders \cup {new} |-> IF o \in DOMAIN orders THEN orders[o] ELSE << >>]
      /\ answer' = "SUCCESS" /\ warehouse' = warehouse
  BY DEF MtmCreateNewOrder
<1> HIDE DEF new
<1>3. OrderOK(warehouse, << >>)
  BY DEF OrderOK, IsItems
<1>4. ASSUME NEW o \in DOMAIN orders' PROVE OrderOK(warehouse', orders'[o])
  BY <1>2, <1>3 DEF IInv, OrdersOK
<1>5. OrdersOK'
  BY <1>1, <1>2, <1>4 DEF IInv, OrdersOK, new
<1> QED
  BY <1>2, <1>5 DEF IInv, WarehouseOK, Answers

LEMMA ChangeProductAmountInOrderInv ==
  ASSUME IInv, NEW o \in 1..MaxOrder, NEW p \in Products, NEW amount \in Amounts,
         MtmChangeProductAmountInOrder(o, p, amount)
  PROVE  IInv'
<1>1. CASE \E code \in {"ORDER_NOT_EXIST", "PRODUCT_NOT_EXIST", "INVALID_AMOUNT"} : Refuse(code)
  BY <1>1, RefuseInv DEF Answers
<1>2. CASE /\ o \in DOMAIN orders /\ p \in DOMAIN warehouse
           /\ orders' = [orders EXCEPT ![o] = Changed(@, p, amount)]
           /\ answer' = "SUCCESS"
           /\ UNCHANGED warehouse
  <2>1. amount \in Int /\ OrderOK(warehouse, orders[o])
    BY <1>2, ConstantAssumption DEF IInv, OrdersOK
  <2>2. OrderOK(warehouse, Changed(orders[o], p, amount))
    BY <1>2, <2>1, ChangedItems
  <2>3. OrdersOK'
    BY <1>2, <2>2 DEF IInv, OrdersOK
  <2> QED
    BY <1>2, <2>3 DEF IInv, WarehouseOK, Answers
<1> QED
  BY <1>1, <1>2 DEF MtmChangeProductAmountInOrder

\* The orders that are left when one is shipped or cancelled.
LEMMA RemovedOrder ==
  ASSUME OrdersOK, NEW o, orders' = Restrict(orders, DOMAIN orders \ {o}),
         DOMAIN warehouse' = DOMAIN warehouse
  PROVE  OrdersOK'
BY DEF OrdersOK, OrderOK, Restrict

LEMMA CancelOrderInv ==
  ASSUME IInv, NEW o \in 1..MaxOrder, MtmCancelOrder(o)
  PROVE  IInv'
<1>1. CASE Refuse("ORDER_NOT_EXIST")
  BY <1>1, RefuseInv DEF Answers
<1>2. CASE /\ orders' = Restrict(orders, DOMAIN orders \ {o})
           /\ answer' = "SUCCESS" /\ warehouse' = warehouse
  <2>1. OrdersOK'
    BY <1>2, RemovedOrder DEF IInv
  <2> QED
    BY <1>2, <2>1 DEF IInv, WarehouseOK, Answers
<1> QED
  BY <1>1, <1>2 DEF MtmCancelOrder

LEMMA ShipOrderInv ==
  ASSUME IInv, NEW o \in 1..MaxOrder, MtmShipOrder(o)
  PROVE  IInv'
<1> DEFINE items == orders[o]
<1>1. CASE Refuse("ORDER_NOT_EXIST")
  BY <1>1, RefuseInv DEF Answers
<1>2. CASE /\ o \in DOMAIN orders
           /\ Failing(items) = {}
           /\ warehouse' = Taken(warehouse, items, DOMAIN items)
           /\ orders' = Restrict(orders, DOMAIN orders \ {o})
           /\ answer' = "SUCCESS"
  <2>1. OrderOK(warehouse, items) /\ IsStock(warehouse)
    BY <1>2 DEF IInv, OrdersOK, WarehouseOK
  <2>2. \A p \in DOMAIN items : items[p] <= warehouse[p].quantity
    BY <1>2, <2>1, EnoughStock DEF IInv
  <2>3. IsStock(warehouse') /\ DOMAIN warehouse' = DOMAIN warehouse
    BY <1>2, <2>1, <2>2, TakenStock
  <2>4. OrdersOK'
    BY <1>2, <2>3, RemovedOrder DEF IInv
  <2> QED
    BY <1>2, <2>3, <2>4 DEF IInv, WarehouseOK, Answers
<1>3. CASE \E f \in (IF o \in DOMAIN orders THEN Failing(items) ELSE {}) :
             LET taken == Taken(warehouse, items, {p \in DOMAIN items : p < f})
             IN /\ \A p \in Failing(items) : f <= p
                /\ warehouse' = GivenBack(taken, items, RolledBack(items, f))
                /\ answer' = ChangeAnswer(f, -items[f])
                /\ UNCHANGED orders
  <2>1. PICK f \in Failing(items) :
          /\ o \in DOMAIN orders
          /\ \A p \in Failing(items) : f <= p
          /\ warehouse' = GivenBack(Taken(warehouse, items, {p \in DOMAIN items : p < f}),
                                    items, RolledBack(items, f))
          /\ answer' = ChangeAnswer(f, -items[f])
          /\ UNCHANGED orders
    BY <1>3
  <2> DEFINE P == {p \in DOMAIN items : p < f}
             taken == Taken(warehouse, items, P)
  <2>2. OrderOK(warehouse, items) /\ IsStock(warehouse)
    BY <2>1 DEF IInv, OrdersOK, WarehouseOK
  <2>3. \A p \in P : items[p] <= warehouse[p].quantity
    <3>1. ASSUME NEW p \in P PROVE p \notin Failing(items)
      <4>1. p \in Nat /\ f \in Nat /\ p < f
        BY <2>1, <2>2, ConstantAssumption DEF IInv, WarehouseOK, OrderOK, Failing
      <4> QED
        BY <2>1, <4>1
    <3> QED
      BY <2>2, <3>1, EnoughStock DEF IInv
  <2>4. IsStock(taken) /\ DOMAIN taken = DOMAIN warehouse
    BY <2>2, <2>3, TakenStock
  <2>5. OrderOK(taken, items) /\ RolledBack(items, f) = P
    BY <2>2, <2>4 DEF OrderOK, RolledBack
  <2> HIDE DEF P, taken
  <2>6. warehouse' = GivenBack(taken, items, P) /\ P \in SUBSET DOMAIN items
    BY <2>1, <2>5 DEF P, taken
  <2>7. IsStock(warehouse') /\ DOMAIN warehouse' = DOMAIN warehouse
    BY <2>4, <2>5, <2>6, GivenBackStock
  <2>8. OrdersOK'
    BY <2>1, <2>7 DEF IInv, OrdersOK, OrderOK
  <2> QED
    BY <2>1, <2>7, <2>8, ChangeAnswers DEF IInv, WarehouseOK
<1> QED
  BY <1>1, <1>2, <1>3 DEF MtmShipOrder

LEMMA NextInv ==
  ASSUME IInv, [Next]_vars
  PROVE  IInv'
<1>1. CASE UNCHANGED vars
  BY <1>1 DEF IInv, vars, WarehouseOK, OrdersOK
<1>2. CASE Next
  BY <1>2, NewProductInv, ChangeProductAmountInv, ClearProductInv, CreateNewOrderInv,
     ChangeProductAmountInOrderInv, ShipOrderInv, CancelOrderInv DEF Next
<1> QED
  BY <1>1, <1>2

\* The inductive invariant holds in every state.
THEOREM Invariance == Spec => []IInv
<1>1. IInv /\ [Next]_vars => IInv'
  BY NextInv
<1> QED
  BY InitInv, <1>1, PTL DEF Spec

\* No order names a product that is not in the warehouse: mtmClearProduct takes a
\* product out of every order.
THEOREM OrderedExistCorrect == Spec => []OrderedExist
<1>1. IInv => OrderedExist
  BY DEF IInv, OrdersOK, OrderOK, OrderedExist
<1> QED
  BY Invariance, <1>1, PTL

\* No stock and no ordered amount is below zero, through shipments and rollbacks.
THEOREM NeverNegativeCorrect == Spec => []NeverNegative
<1>1. IInv => NeverNegative
  BY DEF IInv, WarehouseOK, IsStock, Stocked, OrdersOK, OrderOK, IsItems, NeverNegative
<1> QED
  BY Invariance, <1>1, PTL

\* The warehouse has its type.
THEOREM TypeCorrect == Spec => []TypeOK
<1>1. IInv => TypeOK
  BY ConstantAssumption
     DEF IInv, WarehouseOK, IsStock, Stocked, OrdersOK, OrderOK, IsItems, TypeOK, Product
<1> QED
  BY Invariance, <1>1, PTL

\* mtmCreateNewOrder always adds an empty order under an id of its own.
THEOREM OrderAddedCorrect == Spec => OrderAdded
<1>1. IInv /\ [Next]_vars =>
        [MtmCreateNewOrder => \E o \in DOMAIN orders' : o \notin DOMAIN orders /\ orders'[o] = << >>]_vars
  <2> SUFFICES ASSUME IInv, MtmCreateNewOrder
               PROVE  \E o \in DOMAIN orders' : o \notin DOMAIN orders /\ orders'[o] = << >>
    OBVIOUS
  <2>1. AvailableId \notin DOMAIN orders
    BY AvailableIdFresh DEF MtmCreateNewOrder
  <2>2. AvailableId \in DOMAIN orders' /\ orders'[AvailableId] = << >>
    BY <2>1 DEF MtmCreateNewOrder
  <2> QED
    BY <2>1, <2>2
<1> QED
  BY Invariance, <1>1, PTL DEF Spec, OrderAdded

\* With linear prices a call that fails changes nothing: the rollback of a
\* shipment restores the stock and the profit of every product.
THEOREM FailureChangesNothingCorrect ==
  ASSUME Prices = {"linear"}
  PROVE  Spec => FailureChangesNothing
<1>1. IInv /\ [Next]_vars => [answer' # "SUCCESS" => UNCHANGED <<warehouse, orders>>]_vars
  <2> SUFFICES ASSUME IInv, Next, answer' # "SUCCESS"
               PROVE  UNCHANGED <<warehouse, orders>>
    BY DEF vars
  <2>1. CASE \E o \in 1..MaxOrder : MtmShipOrder(o)
    <3>1. PICK o \in 1..MaxOrder : MtmShipOrder(o)
      BY <2>1
    <3> DEFINE items == orders[o]
    <3>2. CASE Refuse("ORDER_NOT_EXIST")
      BY <3>2 DEF Refuse
    <3>3. CASE \E f \in (IF o \in DOMAIN orders THEN Failing(items) ELSE {}) :
             LET taken == Taken(warehouse, items, {p \in DOMAIN items : p < f})
             IN /\ warehouse' = GivenBack(taken, items, RolledBack(items, f))
                /\ UNCHANGED orders
      <4>1. PICK f \in Failing(items) :
              /\ o \in DOMAIN orders
              /\ warehouse' = GivenBack(Taken(warehouse, items, {p \in DOMAIN items : p < f}),
                                        items, RolledBack(items, f))
              /\ UNCHANGED orders
        BY <3>3
      <4>2. OrderOK(warehouse, items) /\ IsStock(warehouse)
        BY <4>1 DEF IInv, OrdersOK, WarehouseOK
      <4>3. \A p \in DOMAIN warehouse : warehouse[p].price = "linear"
        BY <4>2 DEF IsStock, Stocked
      <4>4. warehouse' = warehouse
        BY <4>1, <4>2, <4>3, RollbackExact DEF RolledBack
      <4> QED
        BY <4>1, <4>4
    <3> QED
      BY <3>1, <3>2, <3>3 DEF MtmShipOrder
  <2>2. CASE ~\E o \in 1..MaxOrder : MtmShipOrder(o)
    BY <2>2 DEF Next, MtmNewProduct, MtmChangeProductAmount, MtmClearProduct, MtmCreateNewOrder,
                MtmChangeProductAmountInOrder, MtmCancelOrder, Refuse
  <2> QED
    BY <2>1, <2>2
<1> QED
  BY Invariance, <1>1, PTL DEF Spec, FailureChangesNothing

-----------------------------------------------------------------------------
(* What mtmShipOrder answers.  The tolerance of an amount is for the amount   *)
(* of one call, and an order adds up what several calls gave: were an amount  *)
(* accepted that is not exact, the sum could be one that mtmShipOrder finds   *)
(* invalid.                                                                   *)

Exact(scale, amount) ==
  /\ scale = "INTEGER" => amount % One = 0
  /\ scale = "HALF_INTEGER" => amount % (One \div 2) = 0

\* Whatever amount is accepted is exact.
ExactAmounts ==
  \A scale \in AllScales, amount \in Amounts : IsAmountValid(scale, amount) => Exact(scale, amount)

LEMMA Multiples ==
  ASSUME NEW n \in Nat \ {0}
  PROVE  /\ \A x, y \in Int : x % n = 0 /\ y % n = 0 => (x + y) % n = 0
         /\ \A x \in Int : x % n = 0 => (-x) % n = 0
         /\ 0 % n = 0
<1>1. ASSUME NEW k \in Int PROVE (k * n) % n = 0 /\ k * n \in Int
  <2>1. k * n \in Int
    OBVIOUS
  <2> QED BY <2>1
<1>2. ASSUME NEW x \in Int, x % n = 0 PROVE \E k \in Int : x = k * n
  BY <1>2
<1>3. ASSUME NEW x \in Int, NEW y \in Int, x % n = 0, y % n = 0 PROVE (x + y) % n = 0
  <2>1. PICK k \in Int : x = k * n
    BY <1>2, <1>3
  <2>2. PICK j \in Int : y = j * n
    BY <1>2, <1>3
  <2>3. x + y = (k + j) * n /\ k + j \in Int
    BY <2>1, <2>2
  <2> QED BY <1>1, <2>3
<1>4. ASSUME NEW x \in Int, x % n = 0 PROVE (-x) % n = 0
  <2>1. PICK k \in Int : x = k * n
    BY <1>2, <1>4
  <2>2. -x = (-k) * n /\ -k \in Int
    BY <2>1
  <2> QED BY <1>1, <2>2
<1>5. 0 % n = 0
  OBVIOUS
<1> QED BY <1>3, <1>4, <1>5

LEMMA ExactSums ==
  ASSUME NEW scale
  PROVE  /\ \A x, y \in Int : Exact(scale, x) /\ Exact(scale, y) => Exact(scale, x + y)
         /\ \A x \in Int : Exact(scale, x) => Exact(scale, -x) /\ IsAmountValid(scale, -x)
         /\ Exact(scale, 0)
<1>1. One \in Nat \ {0} /\ One \div 2 \in Nat \ {0} /\ Slack \in Nat
  BY ConstantAssumption
<1>2. \A n \in {One, One \div 2} :
        /\ \A x, y \in Int : x % n = 0 /\ y % n = 0 => (x + y) % n = 0
        /\ \A x \in Int : x % n = 0 => (-x) % n = 0
        /\ 0 % n = 0
  BY <1>1, Multiples
<1>3. \A n \in {One, One \div 2} : \A x \in Int : x % n = 0 => NearMultiple(x, n)
  BY <1>1 DEF NearMultiple
<1>4. \A x \in Int : Exact(scale, x) => Exact(scale, -x)
  BY <1>2 DEF Exact
<1>5. \A x \in Int : Exact(scale, -x) => IsAmountValid(scale, -x)
  <2> TAKE x \in Int
  <2>1. -x \in Int
    OBVIOUS
  <2> QED BY <1>3, <2>1 DEF Exact, IsAmountValid
<1> QED BY <1>2, <1>4, <1>5 DEF Exact

OrderExact(w, f) == \A p \in DOMAIN f : Exact(w[p].scale, f[p])
OrdersExact == \A o \in DOMAIN orders : OrderExact(warehouse, orders[o])

\* The stock keeps its products' scales through a shipment, rolled back or not.
LEMMA SameScales ==
  ASSUME NEW w, NEW f, NEW P, NEW p \in DOMAIN w
  PROVE  Taken(w, f, P)[p].scale = w[p].scale /\ GivenBack(w, f, P)[p].scale = w[p].scale
BY DEF Taken, GivenBack

LEMMA SameOrdersExact ==
  ASSUME IInv, OrdersExact,
         \A p \in DOMAIN warehouse : warehouse'[p].scale = warehouse[p].scale,
         \A o \in DOMAIN orders' : o \in DOMAIN orders /\ orders'[o] = orders[o]
  PROVE  OrdersExact'
BY DEF IInv, OrdersOK, OrderOK, OrdersExact, OrderExact

LEMMA ClearProductExact ==
  ASSUME IInv, OrdersExact, NEW id \in Products, MtmClearProduct(id)
  PROVE  OrdersExact'
<1>1. CASE Refuse("PRODUCT_NOT_EXIST")
  BY <1>1 DEF Refuse, OrdersExact
<1>2. CASE /\ orders' = DeletedFromOrders(id)
           /\ warehouse' = Restrict(warehouse, DOMAIN warehouse \ {id})
  <2>1. ASSUME NEW o \in DOMAIN orders', NEW p \in DOMAIN orders'[o]
        PROVE  Exact(warehouse'[p].scale, orders'[o][p])
    <3>1. o \in DOMAIN orders /\ orders'[o] = Without(orders[o], id)
      BY <1>2 DEF DeletedFromOrders
    <3>2. p \in DOMAIN orders[o] /\ p # id /\ orders'[o][p] = orders[o][p]
      BY <2>1, <3>1 DEF Without, Restrict
    <3>3. p \in DOMAIN warehouse
      BY <3>1, <3>2 DEF IInv, OrdersOK, OrderOK
    <3>4. warehouse'[p] = warehouse[p]
      BY <1>2, <3>2, <3>3 DEF Restrict
    <3> QED BY <3>1, <3>2, <3>4 DEF OrdersExact, OrderExact
  <2> QED BY <2>1 DEF OrdersExact, OrderExact
<1> QED BY <1>1, <1>2 DEF MtmClearProduct

LEMMA ChangedExact ==
  ASSUME NEW w, NEW f, OrderOK(w, f), OrderExact(w, f), NEW p \in DOMAIN w, NEW amount \in Int, Exact(w[p].scale, amount)
  PROVE  OrderExact(w, Changed(f, p, amount))
<1>1. CASE AmountIn(f, p) + amount < 0
  BY <1>1 DEF Changed, Without, Restrict, OrderExact
<1>2. CASE ~(AmountIn(f, p) + amount < 0)
  <2>1. AmountIn(f, p) \in Int /\ Exact(w[p].scale, AmountIn(f, p))
    BY ExactSums DEF AmountIn, OrderOK, IsItems, OrderExact
  <2>2. Exact(w[p].scale, AmountIn(f, p) + amount)
    BY <2>1, ExactSums
  <2> QED BY <1>2, <2>2 DEF Changed, OrderExact
<1> QED BY <1>1, <1>2

LEMMA ChangeInOrderExact ==
  ASSUME ExactAmounts, IInv, OrdersExact, NEW o \in 1..MaxOrder, NEW p \in Products, NEW amount \in Amounts,
         MtmChangeProductAmountInOrder(o, p, amount)
  PROVE  OrdersExact'
<1>1. CASE \E code : Refuse(code)
  BY <1>1 DEF Refuse, OrdersExact
<1>2. CASE /\ o \in DOMAIN orders /\ p \in DOMAIN warehouse
           /\ IsAmountValid(warehouse[p].scale, amount)
           /\ orders' = [orders EXCEPT ![o] = Changed(@, p, amount)]
           /\ UNCHANGED warehouse
  <2>1. OrderOK(warehouse, orders[o]) /\ OrderExact(warehouse, orders[o]) /\ amount \in Int
    BY <1>2, ConstantAssumption DEF IInv, OrdersOK, OrdersExact
  <2>2. warehouse[p].scale \in AllScales
    BY <1>2 DEF IInv, WarehouseOK, IsStock, Stocked
  <2>3. Exact(warehouse[p].scale, amount)
    BY <1>2, <2>2 DEF ExactAmounts
  <2>4. OrderExact(warehouse, Changed(orders[o], p, amount))
    BY <1>2, <2>1, <2>3, ChangedExact
  <2>5. \A q \in DOMAIN orders' : orders'[q] = IF q = o THEN Changed(orders[o], p, amount) ELSE orders[q]
    BY <1>2
  <2> QED BY <1>2, <2>4, <2>5 DEF OrdersExact
<1> QED BY <1>1, <1>2 DEF MtmChangeProductAmountInOrder

LEMMA ShipOrderExact ==
  ASSUME IInv, OrdersExact, NEW o \in 1..MaxOrder, MtmShipOrder(o)
  PROVE  OrdersExact'
<1>1. /\ \A p \in DOMAIN warehouse : warehouse'[p].scale = warehouse[p].scale
      /\ \A q \in DOMAIN orders' : q \in DOMAIN orders /\ orders'[q] = orders[q]
  <2>1. CASE Refuse("ORDER_NOT_EXIST")
    BY <2>1 DEF Refuse
  <2>2. CASE /\ warehouse' = Taken(warehouse, orders[o], DOMAIN orders[o])
             /\ orders' = Restrict(orders, DOMAIN orders \ {o})
    BY <2>2, SameScales DEF Restrict
  <2>3. CASE \E f : /\ warehouse' = GivenBack(Taken(warehouse, orders[o], {p \in DOMAIN orders[o] : p < f}),
                                              orders[o], RolledBack(orders[o], f))
                    /\ UNCHANGED orders
    <3>1. PICK f : /\ warehouse' = GivenBack(Taken(warehouse, orders[o], {p \in DOMAIN orders[o] : p < f}),
                                             orders[o], RolledBack(orders[o], f))
                   /\ UNCHANGED orders
      BY <2>3
    <3> DEFINE P == {p \in DOMAIN orders[o] : p < f}
               taken == Taken(warehouse, orders[o], P)
               back == RolledBack(orders[o], f)
    <3>2. DOMAIN taken = DOMAIN warehouse
      BY DEF Taken
    <3>3. \A p \in DOMAIN warehouse : taken[p].scale = warehouse[p].scale
      BY SameScales
    <3>4. warehouse' = GivenBack(taken, orders[o], back)
      BY <3>1
    <3> HIDE DEF taken, back
    <3>5. \A p \in DOMAIN taken : GivenBack(taken, orders[o], back)[p].scale = taken[p].scale
      BY SameScales
    <3> QED BY <3>1, <3>2, <3>3, <3>4, <3>5
  <2> QED BY <2>1, <2>2, <2>3 DEF MtmShipOrder
<1> QED BY <1>1, SameOrdersExact

LEMMA NextExact ==
  ASSUME ExactAmounts, IInv, OrdersExact, [Next]_vars
  PROVE  OrdersExact'
<1>1. ASSUME NEW id \in Products, NEW scale \in Scales, NEW amount \in Amounts, NEW price \in Prices,
             MtmNewProduct(id, scale, amount, price)
      PROVE  OrdersExact'
  <2>1. /\ \A p \in DOMAIN warehouse : warehouse'[p] = warehouse[p]
        /\ orders' = orders
    BY <1>1 DEF MtmNewProduct, Refuse
  <2> QED BY <2>1, SameOrdersExact
<1>2. ASSUME NEW id \in Products, NEW amount \in Amounts, MtmChangeProductAmount(id, amount)
      PROVE  OrdersExact'
  <2>1. /\ \A p \in DOMAIN warehouse : warehouse'[p].scale = warehouse[p].scale
        /\ orders' = orders
    <3>1. CASE Refuse(ChangeAnswer(id, amount))
      BY <3>1 DEF Refuse
    <3>2. CASE warehouse' = [warehouse EXCEPT ![id].quantity = @ + amount] /\ UNCHANGED orders
      <4> DEFINE more == [warehouse[id] EXCEPT !.quantity = @ + amount]
      <4>1. warehouse' = [warehouse EXCEPT ![id] = more] /\ more.scale = warehouse[id].scale
        BY <3>2
      <4> HIDE DEF more
      <4> QED BY <3>2, <4>1
    <3> QED BY <1>2, <3>1, <3>2 DEF MtmChangeProductAmount
  <2> QED BY <2>1, SameOrdersExact
<1>3. ASSUME NEW id \in Products, MtmClearProduct(id) PROVE OrdersExact'
  BY <1>3, ClearProductExact
<1>4. ASSUME MtmCreateNewOrder PROVE OrdersExact'
  <2>1. \A o \in DOMAIN orders' : orders'[o] = IF o \in DOMAIN orders THEN orders[o] ELSE << >>
    BY <1>4 DEF MtmCreateNewOrder
  <2>2. warehouse' = warehouse
    BY <1>4 DEF MtmCreateNewOrder
  <2> QED BY <2>1, <2>2 DEF OrdersExact, OrderExact
<1>5. ASSUME NEW o \in 1..MaxOrder, NEW p \in Products, NEW amount \in Amounts,
             MtmChangeProductAmountInOrder(o, p, amount)
      PROVE  OrdersExact'
  BY <1>5, ChangeInOrderExact
<1>6. ASSUME NEW o \in 1..MaxOrder, MtmShipOrder(o) PROVE OrdersExact'
  BY <1>6, ShipOrderExact
<1>7. ASSUME NEW o \in 1..MaxOrder, MtmCancelOrder(o) PROVE OrdersExact'
  <2>1. /\ warehouse' = warehouse
        /\ \A q \in DOMAIN orders' : q \in DOMAIN orders /\ orders'[q] = orders[q]
    BY <1>7 DEF MtmCancelOrder, Refuse, Restrict
  <2> QED BY <2>1, SameOrdersExact
<1>8. CASE UNCHANGED vars
  BY <1>8 DEF vars, OrdersExact
<1> QED BY <1>1, <1>2, <1>3, <1>4, <1>5, <1>6, <1>7, <1>8 DEF Next

\* For an order there is mtmShipOrder answers as it says, when the amounts that
\* the calls accept are exact.
THEOREM ShipAnswersCorrect ==
  ASSUME ExactAmounts
  PROVE  Spec => ShipAnswers
<1>1. Init => OrdersExact
  BY DEF Init, OrdersExact
<1>2. IInv /\ OrdersExact /\ [Next]_vars => OrdersExact'
  BY NextExact
<1>3. ASSUME IInv, OrdersExact, NEW o \in DOMAIN orders, MtmShipOrder(o)
      PROVE  answer' \in {"SUCCESS", "INSUFFICIENT_AMOUNT"}
  <2>1. ASSUME NEW p \in DOMAIN orders[o]
        PROVE  ChangeAnswer(p, -orders[o][p]) \in {"SUCCESS", "INSUFFICIENT_AMOUNT"}
    <3>1. p \in DOMAIN warehouse /\ orders[o][p] \in Int
      BY <1>3 DEF IInv, OrdersOK, OrderOK, IsItems
    <3>2. Exact(warehouse[p].scale, orders[o][p])
      BY <1>3 DEF OrdersExact, OrderExact
    <3>3. IsAmountValid(warehouse[p].scale, -orders[o][p])
      BY <3>1, <3>2, ExactSums
    <3> QED BY <3>1, <3>3 DEF ChangeAnswer
  <2> QED BY <1>3, <2>1 DEF MtmShipOrder, Failing
<1>4. IInv /\ OrdersExact /\ [Next]_vars
        => [\A o \in DOMAIN orders : MtmShipOrder(o) => answer' \in {"SUCCESS", "INSUFFICIENT_AMOUNT"}]_vars
  BY <1>3
<1> QED
  BY Invariance, <1>1, <1>2, <1>4, PTL DEF Spec, ShipAnswers
=============================================================================
