----------------------------- MODULE Matamikya -----------------------------
(***************************************************************************)
(* The warehouse of "Orders and Inventory management (C)": products with   *)
(* their stock and profit, and orders that reserve nothing until they are  *)
(* shipped.                                                                *)
(*                                                                         *)
(* An action is one call of the interface of matamikya.h, in all its       *)
(* outcomes; answer is the code the last call returned.  The list of       *)
(* products and the set of orders, which the code keeps sorted by id, are  *)
(* functions from ids.  An amount, a double in the code, is counted in     *)
(* units of which One make 1.0 and of which Slack make the tolerance 0.001 *)
(* of an amount that has to be an integer or a half.  Null arguments,      *)
(* invalid names and failing allocations are left out.                     *)
(***************************************************************************)
EXTENDS Integers, FiniteSets, FiniteSetsExt, Functions

CONSTANTS
  Products,    \* the product ids used
  Scales,      \* the amount types used
  Prices,      \* the price functions used
  Amounts,     \* the amounts given to the calls
  One, Slack,  \* 1.0 and 0.001
  MaxAmount,   \* bound: the largest stock, amount in an order and profit
  MaxOrder     \* bound: the largest order id

AllScales == {"INTEGER", "HALF_INTEGER", "ANY"}
AllPrices == {"linear", "discount"}

ASSUME ConstantAssumption ==
  /\ Products \subseteq Nat /\ IsFiniteSet(Products)
  /\ Scales \subseteq AllScales
  /\ Prices \subseteq AllPrices
  /\ Amounts \subseteq Int
  /\ One \in Nat \ {0} /\ One % 2 = 0
  /\ Slack \in Nat
  /\ MaxAmount \in Nat
  /\ MaxOrder \in Nat

VARIABLES
  warehouse,  \* Matamikya_t::warehouse: id -> [scale, quantity, profit, price]
  orders,     \* Matamikya_t::orders: order id -> (product id -> amount)
  answer      \* the MatamikyaResult of the last call

vars == <<warehouse, orders, answer>>

Answers == {"SUCCESS", "INVALID_AMOUNT", "PRODUCT_ALREADY_EXIST", "PRODUCT_NOT_EXIST",
            "ORDER_NOT_EXIST", "INSUFFICIENT_AMOUNT"}
Product == [scale : AllScales, quantity : Int, profit : Int, price : AllPrices]

Refuse(code) == answer' = code /\ UNCHANGED <<warehouse, orders>>

-----------------------------------------------------------------------------
(* Amounts.                                                                 *)
NearMultiple(amount, step) ==
  amount % step <= Slack \/ step - (amount % step) <= Slack

IsAmountValid(scale, amount) ==
  /\ scale = "INTEGER" => NearMultiple(amount, One)
  /\ scale = "HALF_INTEGER" => NearMultiple(amount, One \div 2)

\* get_product_price, given with each product: so much a unit, or that with a
\* rebate for two pieces and more.
Price(price, amount) ==
  IF price = "discount" /\ amount >= 2 * One THEN amount - One ELSE amount

-----------------------------------------------------------------------------
(* The products.                                                            *)
MtmNewProduct(id, scale, amount, price) ==
  \/ /\ amount < 0 \/ ~IsAmountValid(scale, amount)
     /\ Refuse("INVALID_AMOUNT")
  \/ /\ amount >= 0 /\ IsAmountValid(scale, amount)
     /\ id \in DOMAIN warehouse
     /\ Refuse("PRODUCT_ALREADY_EXIST")
  \/ /\ amount >= 0 /\ IsAmountValid(scale, amount)
     /\ id \notin DOMAIN warehouse
     /\ amount <= MaxAmount     \* bound
     /\ warehouse' = [p \in DOMAIN warehouse \cup {id} |->
                        IF p = id THEN [scale |-> scale, quantity |-> amount, profit |-> 0, price |-> price]
                        ELSE warehouse[p]]
     /\ answer' = "SUCCESS"
     /\ UNCHANGED orders

\* The code mtmChangeProductAmount returns.  Fault: the stock is not looked at.
ChangeUnchecked(id, amount) ==
  IF id \notin DOMAIN warehouse THEN "PRODUCT_NOT_EXIST"
  ELSE IF ~IsAmountValid(warehouse[id].scale, amount) THEN "INVALID_AMOUNT"
  ELSE "SUCCESS"

ChangeAnswer(id, amount) ==
  IF id \notin DOMAIN warehouse THEN "PRODUCT_NOT_EXIST"
  ELSE IF ~IsAmountValid(warehouse[id].scale, amount) THEN "INVALID_AMOUNT"
  ELSE IF warehouse[id].quantity + amount < 0 THEN "INSUFFICIENT_AMOUNT"
  ELSE "SUCCESS"

MtmChangeProductAmount(id, amount) ==
  \/ /\ ChangeAnswer(id, amount) # "SUCCESS"
     /\ Refuse(ChangeAnswer(id, amount))
  \/ /\ ChangeAnswer(id, amount) = "SUCCESS"
     /\ warehouse[id].quantity + amount <= MaxAmount     \* bound
     /\ warehouse' = [warehouse EXCEPT ![id].quantity = @ + amount]
     /\ answer' = "SUCCESS"
     /\ UNCHANGED orders

\* deleteFromOrders.  Fault: the loop ends after the first order, its iterator
\* being the one getProductsInOrder moves.
Without(items, id) == Restrict(items, DOMAIN items \ {id})

DeletedFromFirst(id) ==
  [o \in DOMAIN orders |-> IF o = Min(DOMAIN orders) THEN Without(orders[o], id) ELSE orders[o]]
DeletedFromOrders(id) == [o \in DOMAIN orders |-> Without(orders[o], id)]

MtmClearProduct(id) ==
  \/ id \notin DOMAIN warehouse /\ Refuse("PRODUCT_NOT_EXIST")
  \/ /\ id \in DOMAIN warehouse
     /\ orders' = DeletedFromOrders(id)
     /\ warehouse' = Restrict(warehouse, DOMAIN warehouse \ {id})
     /\ answer' = "SUCCESS"

-----------------------------------------------------------------------------
(* The orders.                                                              *)

\* getAvailableId: one more than the last id of the sorted set.  Faults: one more
\* than their number, and their number.
CountedId       == Cardinality(DOMAIN orders) + 1
CountedFromZero == Cardinality(DOMAIN orders)
AvailableId     == IF orders = << >> THEN 1 ELSE Max(DOMAIN orders) + 1

\* setAdd leaves the set alone when it has an order of that id, which the caller
\* takes for a success.
MtmCreateNewOrder ==
  /\ AvailableId <= MaxOrder     \* bound
  /\ orders' = [o \in DOMAIN orders \cup {AvailableId} |->
                  IF o \in DOMAIN orders THEN orders[o] ELSE << >>]
  /\ answer' = "SUCCESS"
  /\ UNCHANGED warehouse

\* A product that is not in the order is registered with amount 0; asChangeAmount
\* refuses to go below 0, and then the product is deleted from the order.
AmountIn(items, p) == IF p \in DOMAIN items THEN items[p] ELSE 0

Changed(items, p, amount) ==
  IF AmountIn(items, p) + amount < 0 THEN Without(items, p)
  ELSE [q \in DOMAIN items \cup {p} |-> IF q = p THEN AmountIn(items, p) + amount ELSE items[q]]

MtmChangeProductAmountInOrder(o, p, amount) ==
  \/ o \notin DOMAIN orders /\ Refuse("ORDER_NOT_EXIST")
  \/ o \in DOMAIN orders /\ p \notin DOMAIN warehouse /\ Refuse("PRODUCT_NOT_EXIST")
  \/ /\ o \in DOMAIN orders /\ p \in DOMAIN warehouse
     /\ ~IsAmountValid(warehouse[p].scale, amount)
     /\ Refuse("INVALID_AMOUNT")
  \/ /\ o \in DOMAIN orders /\ p \in DOMAIN warehouse
     /\ IsAmountValid(warehouse[p].scale, amount)
     /\ AmountIn(orders[o], p) + amount <= MaxAmount     \* bound
     /\ orders' = [orders EXCEPT ![o] = Changed(@, p, amount)]
     /\ answer' = "SUCCESS"
     /\ UNCHANGED warehouse

MtmCancelOrder(o) ==
  \/ o \notin DOMAIN orders /\ Refuse("ORDER_NOT_EXIST")
  \/ /\ o \in DOMAIN orders
     /\ orders' = Restrict(orders, DOMAIN orders \ {o})
     /\ answer' = "SUCCESS"
     /\ UNCHANGED warehouse

-----------------------------------------------------------------------------
(* Shipping.                                                                *)

\* The loop of mtmShipOrder over the products P of an order: stock down, profit up.
Taken(w, items, P) ==
  [p \in DOMAIN w |-> IF p \in P
     THEN [w[p] EXCEPT !.quantity = @ - items[p], !.profit = @ + Price(w[p].price, items[p])]
     ELSE w[p]]

\* rollBackShipmentFromWarehouse: stock up, and the price of the negated amount.
GivenBack(w, items, P) ==
  [p \in DOMAIN w |-> IF p \in P
     THEN [w[p] EXCEPT !.quantity = @ + items[p], !.profit = @ + Price(w[p].price, -items[p])]
     ELSE w[p]]

\* The products rolled back when the loop has failed at product f: those before.
\* Fault: f as well.
RolledBackThrough(items, f) == {p \in DOMAIN items : p <= f}
RolledBack(items, f)        == {p \in DOMAIN items : p < f}

Failing(items) == {p \in DOMAIN items : ChangeAnswer(p, -items[p]) # "SUCCESS"}

ProfitsBounded(w) == \A p \in DOMAIN w : w[p].profit \in (-MaxAmount)..MaxAmount

MtmShipOrder(o) ==
  \/ o \notin DOMAIN orders /\ Refuse("ORDER_NOT_EXIST")
  \/ /\ o \in DOMAIN orders
     /\ Failing(orders[o]) = {}
     /\ warehouse' = Taken(warehouse, orders[o], DOMAIN orders[o])
     /\ ProfitsBounded(warehouse')     \* bound
     /\ orders' = Restrict(orders, DOMAIN orders \ {o})
     /\ answer' = "SUCCESS"
  \/ \E f \in (IF o \in DOMAIN orders THEN Failing(orders[o]) ELSE {}) :
     LET items == orders[o]
         taken == Taken(warehouse, items, {p \in DOMAIN items : p < f})
     IN /\ \A p \in Failing(items) : f <= p
        /\ warehouse' = GivenBack(taken, items, RolledBack(items, f))
        /\ ProfitsBounded(warehouse')     \* bound
        /\ answer' = ChangeAnswer(f, -items[f])
        /\ UNCHANGED orders

-----------------------------------------------------------------------------
Init ==
  /\ warehouse = << >>
  /\ orders = << >>
  /\ answer = "SUCCESS"

Next ==
  \/ \E id \in Products, scale \in Scales, amount \in Amounts, price \in Prices :
       MtmNewProduct(id, scale, amount, price)
  \/ \E id \in Products, amount \in Amounts : MtmChangeProductAmount(id, amount)
  \/ \E id \in Products : MtmClearProduct(id)
  \/ MtmCreateNewOrder
  \/ \E o \in 1..MaxOrder, p \in Products, amount \in Amounts :
       MtmChangeProductAmountInOrder(o, p, amount)
  \/ \E o \in 1..MaxOrder : MtmShipOrder(o) \/ MtmCancelOrder(o)

Spec == Init /\ [][Next]_vars
=============================================================================
