---------------------------- MODULE Reservation ----------------------------
(***************************************************************************)
(* What the orders app promises, with requests, transactions, locks and    *)
(* crashes left out: an order is placed RESERVED on a product that is in   *)
(* the catalogue and in stock, may be annotated while it is RESERVED, and  *)
(* leaves that status once, as PAID or as CANCELLED, giving the product    *)
(* back to the catalogue in the same step.  Several orders may be          *)
(* cancelled together (the periodic cleanup commits once).  Vendors and    *)
(* moderators edit the catalogue at any time.                              *)
(***************************************************************************)
CONSTANTS Products, OrderIds, Users, Owner, NoRow, ProductStatus

VARIABLES
  orders,     \* OrderIds -> committed order row, or NoRow
  products    \* Products -> committed product row

vars == <<orders, products>>

ProductRow == [status: ProductStatus, stock: BOOLEAN, deleted: BOOLEAN]

Exists(o) == orders[o] # NoRow
IsReserved(o) == Exists(o) /\ orders[o].status = "RESERVED"

Init ==
  /\ orders = [o \in OrderIds |-> NoRow]
  /\ products = [p \in Products |->
                   [status |-> "AVAILABLE", stock |-> TRUE, deleted |-> FALSE]]

\* Client u reserves product p of another vendor; the payment flag is whatever
\* the client sent.
Place(o, u, p, flag) ==
  /\ ~Exists(o)
  /\ u # Owner[p]
  /\ products[p].stock
  /\ ~products[p].deleted
  /\ orders' = [orders EXCEPT ![o] = [status |-> "RESERVED", client |-> u,
                                      product |-> p, notified |-> flag]]
  /\ products' = [products EXCEPT ![p].status = "RESERVED"]

\* The client says that the payment was made; nothing else changes.
NotifyPayment(o) ==
  /\ IsReserved(o)
  /\ orders' = [orders EXCEPT ![o].notified = TRUE]
  /\ UNCHANGED products

\* The orders of S leave RESERVED together and their products go back on sale.
Settle(S, outcome) ==
  /\ \A o \in S : IsReserved(o)
  /\ orders' = [o \in OrderIds |->
                  IF o \in S THEN [orders[o] EXCEPT !.status = outcome] ELSE orders[o]]
  /\ products' = [p \in Products |->
                    IF \E o \in S : orders[o].product = p
                      THEN [products[p] EXCEPT !.status = "AVAILABLE"]
                      ELSE products[p]]

Pay(o) == Settle({o}, "PAID")
Cancel(S) == Settle(S, "CANCELLED")

EditCatalogue(p, r) ==
  /\ products' = [products EXCEPT ![p] = r]
  /\ UNCHANGED orders

Next ==
  \/ \E o \in OrderIds, u \in Users, p \in Products, flag \in BOOLEAN : Place(o, u, p, flag)
  \/ \E o \in OrderIds : NotifyPayment(o) \/ Pay(o)
  \/ \E S \in SUBSET OrderIds : Cancel(S)
  \/ \E p \in Products, r \in ProductRow : EditCatalogue(p, r)

Spec == Init /\ [][Next]_vars
=============================================================================
