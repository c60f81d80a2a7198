------------------------ MODULE MatamikyaProperties ------------------------
(***************************************************************************)
(* What the warehouse promises.                                            *)
(***************************************************************************)
EXTENDS Matamikya

\* Every variable has its type.
TypeOK ==
  /\ DOMAIN warehouse \subseteq Products
  /\ \A p \in DOMAIN warehouse : warehouse[p] \in Product
  /\ DOMAIN orders \subseteq 1..MaxOrder
  /\ \A o \in DOMAIN orders : \A p \in DOMAIN orders[o] : orders[o][p] \in Int
  /\ answer \in Answers

\* Every product of every order is in the warehouse: mtmClearProduct deletes a
\* product from all orders, on which mtmShipOrder and mtmPrintOrder rely.
OrderedExist == \A o \in DOMAIN orders : DOMAIN orders[o] \subseteq DOMAIN warehouse

\* No stock and no amount in an order is ever below zero, whatever was shipped,
\* rolled back or changed before (asserted by rollBackShipmentFromWarehouse and
\* mtmPrintOrder).
NeverNegative ==
  /\ \A p \in DOMAIN warehouse : warehouse[p].quantity >= 0
  /\ \A o \in DOMAIN orders : \A p \in DOMAIN orders[o] : orders[o][p] >= 0

\* A call that fails changes nothing; above all a shipment that fails half way
\* is rolled back, stock and profit.
FailureChangesNothing == [][answer' # "SUCCESS" => UNCHANGED <<warehouse, orders>>]_vars

\* Creating an order adds an empty order under an id no other order has, whatever
\* orders were shipped or cancelled in between.
OrderAdded ==
  [][MtmCreateNewOrder =>
       \E o \in DOMAIN orders' : o \notin DOMAIN orders /\ orders'[o] = << >>]_vars

\* What mtmShipOrder says it answers for an order there is: success, or that the
\* order has an amount larger than the stock.
ShipAnswers ==
  [][\A o \in DOMAIN orders : MtmShipOrder(o) => answer' \in {"SUCCESS", "INSUFFICIENT_AMOUNT"}]_vars
=============================================================================
