---------------------------- MODULE OrdersProps ----------------------------
(***************************************************************************)
(* What is claimed of module Orders: the inductive invariant and the       *)
(* properties.                                                             *)
(***************************************************************************)
EXTENDS Orders

(* What the row locks guarantee to the process that holds them.             *)

\* A create holds no order row; its id belongs to nobody else.
CreateInv(w) ==
  req[w].op = "create" =>
    /\ pc[w] \in {"validate", "product", "commit"}
    /\ req[w].product \in Products
    /\ ~Exists(req[w].order)
    /\ \A x \in Workers : x # w /\ req[x] # NoReq => req[x].order # req[w].order
    /\ pc[w] # "validate" =>
         /\ inst[w] \in OrderRow
         /\ inst[w].status = "RESERVED"
         /\ inst[w].client = req[w].user /\ inst[w].client # Owner[req[w].product]
         /\ inst[w].product = req[w].product

\* The others hold their order from LockOrder on, and the row has not changed
\* since their instance was made from it.
UpdateInv(w) ==
  req[w].op # "create" =>
    /\ pc[w] \in {"order", "product", "commit"}
    /\ Exists(req[w].order)
    /\ pc[w] # "order" =>
         /\ ordLock[req[w].order] = w
         /\ IsReserved(req[w].order)
         /\ inst[w] = Assigned(req[w].op, orders[req[w].order])
         /\ req[w].product = orders[req[w].order].product

\* A worker about to commit holds its product, as it was when it was checked.
CommitInv(w) ==
  pc[w] = "commit" =>
    /\ prodLock[req[w].product] = w
    /\ ~products[req[w].product].deleted
    /\ StockRecheck(w)

\* A sweep holds every order it fetched and every product it saved.
SweepInv(s) ==
  /\ pc[s] \in {"idle", "order", "product"}
  /\ pc[s] # "product" => saved[s] = {}
  /\ pc[s] = "product" => todo[s] \subseteq {o \in OrderIds : fetched[s][o] # NoRow}
  /\ \A o \in OrderIds : fetched[s][o] # NoRow =>
       /\ ordLock[o] = s
       /\ IsReserved(o)
       /\ fetched[s][o] = orders[o]
  /\ \A o \in saved[s] :
       /\ fetched[s][o] # NoRow
       /\ prodLock[fetched[s][o].product] = s

WorkerInv(w) ==
  /\ pc[w] = "idle" <=> req[w] = NoReq
  /\ req[w] # NoReq => CreateInv(w) /\ UpdateInv(w) /\ CommitInv(w)

\* The in-memory instances are current whenever they can still be written back,
\* for every interleaving of requests, sweeps, kills and catalogue edits: the
\* inductive invariant of the orders app (views.py:79-94, models.py:80-112).
LockInv ==
  /\ \A w \in Workers : WorkerInv(w)
  /\ \A s \in Sweeps : SweepInv(s)

-----------------------------------------------------------------------------
(* Properties.                                                              *)

\* A paid or cancelled order keeps that status for ever: the vendor's payment,
\* the client's cancellation and the expiry sweep may all be under way for the
\* same order, and only one of them takes effect (the row lock of views.py:79,
\* 104, 129 and tasks.py:25 with the status guards read under it).
SettledIsFinal ==
  [][\A o \in OrderIds : Exists(o) /\ orders[o].status # "RESERVED"
        => orders'[o].status = orders[o].status]_vars

\* The client's "I have paid" flag survives every later save of the row: a save
\* writes all the columns of an instance read earlier, so a payment or an expiry
\* working on an older instance would erase it.
NotificationKept ==
  [][\A o \in OrderIds : Exists(o) /\ orders[o].notified => orders'[o].notified]_vars

\* A reservation is only ever committed on a product that is, at that instant,
\* in stock and not deleted, although the request checked a row it had not
\* locked (models.py:82-89 checks again under the lock).
ReservedInStock ==
  [][\A o \in OrderIds : ~Exists(o) /\ orders'[o] # NoRow
        => LET p == orders'[o].product IN products[p].stock /\ ~products[p].deleted]_vars

\* A product shown as RESERVED has a reservation that can be paid, cancelled or
\* expired.
Held(p) ==
  products[p].status = "RESERVED" => \E o \in OrderIds : IsReserved(o) /\ orders[o].product = p

\* No payment, cancellation, sweep or failure leaves a product RESERVED for nobody,
\* whatever the products app has written before (models.py:94-110).  What can is
\* a write of the catalogue: it alone changes a product while no order and no
\* transaction of the orders app moves.
OnlyEditsStrand ==
  [][\A p \in Products :
       Held(p) /\ ~Held(p)' => products'[p] # products[p] /\ UNCHANGED <<orders, pc>>]_vars

\* a may have to wait for b to end its transaction.
WaitsFor(a, b) ==
  \/ /\ a \in Workers
     /\ \/ pc[a] = "order" /\ ordLock[req[a].order] = b
        \/ pc[a] = "product" /\ prodLock[req[a].product] = b
  \/ /\ a \in Sweeps /\ a # b
     /\ \E o \in todo[a] :
          \/ pc[a] = "order" /\ ordLock[o] = b
          \/ pc[a] = "product" /\ prodLock[fetched[a][o].product] = b

Deadlocked(S) == S # {} /\ \A a \in S : \E b \in S : WaitsFor(a, b)

\* A web request is never what closes a circle of waiting transactions: every
\* one locks its order before its product.  Only overlapping sweeps can block
\* each other, over the order in which their queries lock the rows.
OnlySweepsDeadlock ==
  \A S \in SUBSET Procs :
    Deadlocked(S) => \E T \in SUBSET (S \cap Sweeps) : Deadlocked(T)

\* Whatever the others do, a request that arrived is answered.
RequestsAnswered == \A w \in Workers : pc[w] # "idle" ~> pc[w] = "idle"

\* A reservation that nobody pays in time does not block its product for ever,
\* unless that product stays archived: another order of the batch that cannot be
\* saved, now or at every run, does not hold it up, and neither does a product
\* that is archived for a while (tasks.py:24-39).
ExpiredAreReleased ==
  \A p \in Products :
    <>[](~products[p].deleted) =>
      \A o \in OrderIds : (Expired(o) /\ orders[o].product = p) ~> ~IsReserved(o)

\* The orders app implements the lifecycle of module Reservation.
Promise == INSTANCE Reservation
Implements == Promise!Spec

=============================================================================
