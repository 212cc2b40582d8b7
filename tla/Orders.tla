------------------------------- MODULE Orders -------------------------------
(***************************************************************************)
(* The orders app on PostgreSQL (READ COMMITTED, one transaction per       *)
(* request): POST /orders, mark-as-paid, notify-payment, cancel, and the   *)
(* Celery task cleanup_expired_reservations.                               *)
(*                                                                         *)
(* A request is a process that moves from one SELECT ... FOR UPDATE to the *)
(* next.  An unlocked read sees the committed rows at the instant of the   *)
(* read.  A row lock excludes every other locker and writer of the row     *)
(* until the end of the transaction.  A transaction writes only rows it    *)
(* has locked (or inserted), so its writes are applied where it commits;   *)
(* a rollback, an early return or a crash only releases its locks.         *)
(* A response that changes nothing (409, 404, ...) is a stuttering step.   *)
(***************************************************************************)
CONSTANTS
  Products, OrderIds, Users,
  Owner,            \* Owner[p]: Product.vendor, never reassigned by the code
  Admins,           \* users with role ADMIN
  Superusers,       \* users with is_superuser
  Workers,          \* web workers, each serving one request at a time
  Sweeps,           \* runs of cleanup_expired_reservations
  Killable,         \* processes the environment may kill in mid transaction
  CatalogueStatus,  \* statuses the products app writes
  None, NoRow, NoReq

Procs == Workers \cup Sweeps
ProductStatus == {"PENDING", "AVAILABLE", "RESERVED", "SOLD", "REJECTED", "INACTIVE"}
Buyable == {"AVAILABLE", "RESERVED", "SOLD"}
\* PENDING, the column default, is overwritten by the save that inserts the row.
OrderStatus == {"RESERVED", "PAID", "CANCELLED"}

OrderRow == [status: OrderStatus, client: Users, product: Products, notified: BOOLEAN]
ProductRow == [status: ProductStatus, stock: BOOLEAN, deleted: BOOLEAN]
Request == [op: {"create", "pay", "notify", "cancel"}, user: Users,
            order: OrderIds, product: Products \cup {None}]
Ages == {"fresh", "open", "expired"}

ASSUME OwnerAssumption == Owner \in [Products -> Users]
ASSUME RoleAssumption == Admins \subseteq Users /\ Superusers \subseteq Users
ASSUME ProcAssumption == Workers \cap Sweeps = {} /\ Killable \subseteq Procs
ASSUME StatusAssumption == CatalogueStatus \subseteq ProductStatus
ASSUME NullAssumption ==
  /\ None \notin Procs /\ None \notin Products
  /\ NoRow \notin OrderRow
  /\ NoReq \notin Request

VARIABLES
  orders,    \* OrderIds -> committed row of orders_order, or NoRow
  age,       \* OrderIds -> the clock against created_at + 1 min and expires_at
  products,  \* Products -> committed row of the product
  ordLock,   \* OrderIds -> the process that holds the row lock, or None
  prodLock,  \* Products -> the process that holds the row lock, or None
  pc,        \* Procs -> what the process does next
  req,       \* Workers -> the request being served, or NoReq
  inst,      \* Workers -> the Order instance in memory, saved whole, or NoRow
  todo,      \* Sweeps -> orders still to be locked, then still to be saved
  fetched,   \* Sweeps -> the Order instances the locking query returned
  saved      \* Sweeps -> orders whose save() went through

vars == <<orders, age, products, ordLock, prodLock, pc, req, inst, todo, fetched, saved>>
tables == <<orders, age, products>>
workerVars == <<req, inst>>
sweepVars == <<todo, fetched, saved>>

TypeOK ==
  /\ orders \in [OrderIds -> OrderRow \cup {NoRow}]
  /\ age \in [OrderIds -> Ages]
  /\ products \in [Products -> ProductRow]
  /\ ordLock \in [OrderIds -> Procs \cup {None}]
  /\ prodLock \in [Products -> Procs \cup {None}]
  /\ pc \in [Procs -> {"idle", "validate", "order", "product", "commit"}]
  /\ req \in [Workers -> Request \cup {NoReq}]
  /\ inst \in [Workers -> OrderRow \cup {NoRow}]
  /\ todo \in [Sweeps -> SUBSET OrderIds]
  /\ fetched \in [Sweeps -> [OrderIds -> OrderRow \cup {NoRow}]]
  /\ saved \in [Sweeps -> SUBSET OrderIds]

Init ==
  /\ orders = [o \in OrderIds |-> NoRow]
  /\ age = [o \in OrderIds |-> "fresh"]
  /\ products = [p \in Products |->
                   [status |-> "AVAILABLE", stock |-> TRUE, deleted |-> FALSE]]
  /\ ordLock = [o \in OrderIds |-> None]
  /\ prodLock = [p \in Products |-> None]
  /\ pc = [a \in Procs |-> "idle"]
  /\ req = [w \in Workers |-> NoReq]
  /\ inst = [w \in Workers |-> NoRow]
  /\ todo = [s \in Sweeps |-> {}]
  /\ fetched = [s \in Sweeps |-> [o \in OrderIds |-> NoRow]]
  /\ saved = [s \in Sweeps |-> {}]

-----------------------------------------------------------------------------
Exists(o) == orders[o] # NoRow
IsReserved(o) == Exists(o) /\ orders[o].status = "RESERVED"

OrderFreeUnlocked(o) == TRUE  \* mutant: .get() without select_for_update()
\* A row can be locked when no transaction holds it.
OrderFree(o) == ordLock[o] = None
ProductFree(p) == prodLock[p] = None

\* mutant: a transaction that is left open keeps its product row
ReleaseOrderLocks(a) ==
  /\ ordLock' = [o \in OrderIds |-> IF ordLock[o] = a THEN None ELSE ordLock[o]]
  /\ UNCHANGED prodLock

\* The end of a transaction, committed or not, releases its row locks.
ReleaseLocks(a) ==
  /\ ordLock' = [o \in OrderIds |-> IF ordLock[o] = a THEN None ELSE ordLock[o]]
  /\ prodLock' = [p \in Products |-> IF prodLock[p] = a THEN None ELSE prodLock[p]]

\* The worker answers its request and forgets it.
Respond(w) ==
  /\ pc' = [pc EXCEPT ![w] = "idle"]
  /\ req' = [req EXCEPT ![w] = NoReq]
  /\ inst' = [inst EXCEPT ![w] = NoRow]
  /\ ReleaseLocks(w)
  /\ UNCHANGED sweepVars

EndSweep(s) ==
  /\ pc' = [pc EXCEPT ![s] = "idle"]
  /\ todo' = [todo EXCEPT ![s] = {}]
  /\ fetched' = [fetched EXCEPT ![s] = [o \in OrderIds |-> NoRow]]
  /\ saved' = [saved EXCEPT ![s] = {}]
  /\ ReleaseLocks(s)
  /\ UNCHANGED workerVars

-----------------------------------------------------------------------------
(* POST /orders: OrderViewSet.create, OrderSerializer.validate, Order.save. *)

\* The query of views.create: the client's own reservation, under a minute old.
RecentDuplicate(u, p) ==
  \E o \in OrderIds :
    /\ IsReserved(o)
    /\ orders[o].client = u /\ orders[o].product = p
    /\ age[o] = "fresh"

\* The id the INSERT will draw; ids in use by rows or other requests are taken.
UnusedId(o) ==
  /\ ~Exists(o)
  /\ \A w \in Workers : req[w] # NoReq => req[w].order # o

\* The duplicate check (a duplicate gets 409 and nothing happens).
CreateCheck(w, u, p, o) ==
  /\ pc[w] = "idle"
  /\ ~RecentDuplicate(u, p)
  /\ UnusedId(o)
  /\ pc' = [pc EXCEPT ![w] = "validate"]
  /\ req' = [req EXCEPT ![w] = [op |-> "create", user |-> u, order |-> o, product |-> p]]
  /\ UNCHANGED <<tables, ordLock, prodLock, inst, sweepVars>>

\* What the serializer and Order.save ask of the product instance, which was
\* read without a lock: not deleted (the default manager), in stock, not the
\* client's own, in a status that can be bought.
PassesValidation(u, p) ==
  /\ ~products[p].deleted
  /\ products[p].stock
  /\ Owner[p] # u
  /\ products[p].status \in Buyable

\* The new instance; payment_notified is writable in the serializer.
CreateValidate(w) ==
  /\ pc[w] = "validate"
  /\ UNCHANGED tables
  /\ \/ /\ PassesValidation(req[w].user, req[w].product)
        /\ \E flag \in BOOLEAN :
             inst' = [inst EXCEPT ![w] = [status |-> "RESERVED", client |-> req[w].user,
                                          product |-> req[w].product, notified |-> flag]]
        /\ pc' = [pc EXCEPT ![w] = "product"]
        /\ UNCHANGED <<ordLock, prodLock, req, sweepVars>>
     \/ /\ ~PassesValidation(req[w].user, req[w].product)
        /\ Respond(w)

-----------------------------------------------------------------------------
(* mark-as-paid, notify-payment and cancel, on an order that exists.        *)

Arrive(w, op, u, o) ==
  /\ pc[w] = "idle"
  /\ Exists(o)
  /\ pc' = [pc EXCEPT ![w] = "order"]
  /\ req' = [req EXCEPT ![w] = [op |-> op, user |-> u, order |-> o, product |-> None]]
  /\ UNCHANGED <<tables, ordLock, prodLock, inst, sweepVars>>

MayAct(op, u, row) ==
  CASE op = "pay" -> u = Owner[row.product] \/ u \in Superusers
    [] op = "notify" -> u = row.client
    [] op = "cancel" -> u \in {row.client, Owner[row.product]} \cup Admins \cup Superusers
    [] OTHER -> FALSE

\* Every operation answers early unless the locked row is RESERVED.
Accepts(op, u, row) == MayAct(op, u, row) /\ row.status = "RESERVED"

\* mutant: the view writes the product's final status into the order
AssignedSold(op, row) ==
  IF op = "notify" THEN [row EXCEPT !.notified = TRUE] ELSE [row EXCEPT !.status = "SOLD"]

\* What the view assigns to the instance before it calls save().
Assigned(op, row) ==
  CASE op = "pay" -> [row EXCEPT !.status = "PAID"]
    [] op = "cancel" -> [row EXCEPT !.status = "CANCELLED"]
    [] OTHER -> [row EXCEPT !.notified = TRUE]

\* SELECT ... FOR UPDATE on the order, the guards, the assignment.
LockOrder(w) ==
  /\ pc[w] = "order"
  /\ LET o == req[w].order IN
       /\ OrderFree(o)
       /\ \/ /\ Accepts(req[w].op, req[w].user, orders[o])
             /\ ordLock' = [ordLock EXCEPT ![o] = w]
             /\ inst' = [inst EXCEPT ![w] = Assigned(req[w].op, orders[o])]
             /\ req' = [req EXCEPT ![w].product = orders[o].product]
             /\ pc' = [pc EXCEPT ![w] = "product"]
             /\ UNCHANGED <<prodLock, sweepVars>>
          \/ /\ ~Accepts(req[w].op, req[w].user, orders[o])
             /\ Respond(w)
  /\ UNCHANGED tables

-----------------------------------------------------------------------------
(* Order.save, inside its transaction: common to all four operations.       *)

\* Product.objects hides deleted rows: DoesNotExist, and the rollback that follows.
ProductMissing(w) ==
  /\ pc[w] = "product"
  /\ products[req[w].product].deleted
  /\ Respond(w)
  /\ UNCHANGED tables

\* mutant: the stock of the unlocked read is trusted
NoStockRecheck(w) == TRUE

\* Stock is read again from the locked row, for a new order only.
StockRecheck(w) == req[w].op = "create" => products[req[w].product].stock

LockProduct(w) ==
  /\ pc[w] = "product"
  /\ UNCHANGED tables
  /\ LET p == req[w].product IN
       /\ ~products[p].deleted
       /\ ProductFree(p)
       /\ \/ /\ StockRecheck(w)
             /\ prodLock' = [prodLock EXCEPT ![p] = w]
             /\ pc' = [pc EXCEPT ![w] = "commit"]
             /\ UNCHANGED <<ordLock, workerVars, sweepVars>>
          \/ /\ ~StockRecheck(w)
             /\ Respond(w)

\* mutant: what the comment on the payment branch asks for
SavedProductStatusSold(status, row, old) ==
  IF old = NoRow THEN "RESERVED"
  ELSE IF row.status \in {"PAID", "CANCELLED"} \ {old.status} THEN "SOLD"
  ELSE status

\* Status of the product after save() of instance row over the stored row old.
SavedProductStatus(status, row, old) ==
  IF old = NoRow THEN "RESERVED"
  ELSE IF row.status \in {"PAID", "CANCELLED"} \ {old.status} THEN "AVAILABLE"
  ELSE status

\* Both rows are written whole and the transaction commits.
Commit(w) ==
  /\ pc[w] = "commit"
  /\ LET o == req[w].order
         p == req[w].product
     IN /\ orders' = [orders EXCEPT ![o] = inst[w]]
        /\ products' = [products EXCEPT ![p].status =
                          SavedProductStatus(@, inst[w], orders[o])]
        /\ age' = IF Exists(o) THEN age ELSE [age EXCEPT ![o] = "fresh"]
  /\ Respond(w)

-----------------------------------------------------------------------------
(* cleanup_expired_reservations: one transaction over every expired order.  *)

Expired(o) == IsReserved(o) /\ age[o] = "expired"

\* The locking query starts: its snapshot fixes the candidate rows.
SweepSelect(s) ==
  /\ pc[s] = "idle"
  /\ todo' = [todo EXCEPT ![s] = {o \in OrderIds : Expired(o)}]
  /\ todo'[s] # {}
  /\ pc' = [pc EXCEPT ![s] = "order"]
  /\ UNCHANGED <<tables, ordLock, prodLock, workerVars, fetched, saved>>

\* mutant: each order is saved as soon as it is locked, while others are awaited
SweepLockAndSave(s, o) ==
  /\ pc[s] = "order"
  /\ o \in todo[s]
  /\ OrderFree(o)
  /\ Expired(o)
  /\ LET p == orders[o].product IN
       /\ ~products[p].deleted
       /\ ProductFree(p) \/ prodLock[p] = s
       /\ prodLock' = [prodLock EXCEPT ![p] = s]
  /\ ordLock' = [ordLock EXCEPT ![o] = s]
  /\ fetched' = [fetched EXCEPT ![s][o] = orders[o]]
  /\ saved' = [saved EXCEPT ![s] = @ \cup {o}]
  /\ todo' = [todo EXCEPT ![s] = @ \ {o}]
  /\ pc' = [pc EXCEPT ![s] = IF todo'[s] = {} THEN "product" ELSE "order"]
  /\ UNCHANGED <<tables, workerVars>>

\* It locks the candidates one by one, in no promised order, and drops a row
\* that does not match any more.  With the last one the loop over the
\* instances starts.
SweepLockOrder(s, o) ==
  /\ pc[s] = "order"
  /\ o \in todo[s]
  /\ OrderFree(o)
  /\ LET rest == todo[s] \ {o}
         rows == IF Expired(o) THEN [fetched[s] EXCEPT ![o] = orders[o]] ELSE fetched[s]
     IN /\ ordLock' = IF Expired(o) THEN [ordLock EXCEPT ![o] = s] ELSE ordLock
        /\ fetched' = [fetched EXCEPT ![s] = rows]
        /\ todo' = [todo EXCEPT ![s] =
                      IF rest = {} THEN {x \in OrderIds : rows[x] # NoRow} ELSE rest]
        /\ pc' = [pc EXCEPT ![s] = IF rest = {} THEN "product" ELSE "order"]
  /\ UNCHANGED <<tables, prodLock, workerVars, saved>>

\* mutant: the exception of one order leaves the loop and the transaction
SweepSaveOrAbort(s, o) ==
  /\ pc[s] = "product"
  /\ o \in todo[s]
  /\ LET p == fetched[s][o].product IN
       \/ /\ products[p].deleted
          /\ EndSweep(s)
       \/ /\ ~products[p].deleted
          /\ ProductFree(p) \/ prodLock[p] = s
          /\ prodLock' = [prodLock EXCEPT ![p] = s]
          /\ saved' = [saved EXCEPT ![s] = @ \cup {o}]
          /\ todo' = [todo EXCEPT ![s] = @ \ {o}]
          /\ UNCHANGED <<ordLock, pc, workerVars, fetched>>
  /\ UNCHANGED tables

\* order.save() in the loop.  A deleted product raises DoesNotExist, which the
\* loop logs and forgets; a product the sweep already holds is not waited for.
SweepSave(s, o) ==
  /\ pc[s] = "product"
  /\ o \in todo[s]
  /\ todo' = [todo EXCEPT ![s] = @ \ {o}]
  /\ LET p == fetched[s][o].product IN
       \/ /\ products[p].deleted
          /\ UNCHANGED <<prodLock, saved>>
       \/ /\ ~products[p].deleted
          /\ ProductFree(p) \/ prodLock[p] = s
          /\ prodLock' = [prodLock EXCEPT ![p] = s]
          /\ saved' = [saved EXCEPT ![s] = @ \cup {o}]
  /\ UNCHANGED <<tables, ordLock, pc, workerVars, fetched>>

\* order.save() raises anything else (PostgreSQL picked it to break a deadlock):
\* its savepoint is rolled back, and the loop goes on to the next order.
SweepError(s, o) ==
  /\ pc[s] = "product"
  /\ o \in todo[s]
  /\ ~products[fetched[s][o].product].deleted
  /\ todo' = [todo EXCEPT ![s] = @ \ {o}]
  /\ UNCHANGED <<tables, ordLock, prodLock, pc, workerVars, fetched, saved>>

\* mutant: the sweep cancels the orders with an UPDATE that bypasses save()
SweptProductUntouched(s, p) == products[p].status

\* The status that the sweep's saves leave on product p.
SweptProductStatus(s, p) ==
  IF \E o \in saved[s] : fetched[s][o].product = p THEN "AVAILABLE" ELSE products[p].status

SweepCommit(s) ==
  /\ pc[s] = "product"
  /\ todo[s] = {}
  /\ orders' = [o \in OrderIds |->
                  IF o \in saved[s] THEN [fetched[s][o] EXCEPT !.status = "CANCELLED"]
                                   ELSE orders[o]]
  /\ products' = [p \in Products |->
                    [products[p] EXCEPT !.status = SweptProductStatus(s, p)]]
  /\ UNCHANGED age
  /\ EndSweep(s)

-----------------------------------------------------------------------------
(* The environment.                                                         *)

\* Time passes: a reservation leaves the duplicate window, then expires.  Each
\* one ages by itself, which allows more orders of events than one clock does.
Tick(o) ==
  /\ IsReserved(o)
  /\ \/ age[o] = "fresh" /\ age' = [age EXCEPT ![o] = "open"]
     \/ age[o] = "open" /\ age' = [age EXCEPT ![o] = "expired"]
  /\ UNCHANGED <<orders, products, ordLock, prodLock, pc, workerVars, sweepVars>>

\* A worker dies, loses its connection or is a deadlock victim: rollback.
Kill(a) ==
  /\ a \in Killable
  /\ pc[a] # "idle"
  /\ \/ a \in Workers /\ Respond(a)
     \/ a \in Sweeps /\ EndSweep(a)
  /\ UNCHANGED tables

\* Any committed write of the products app: an UPDATE waits for the row lock.
CatalogueWrite(p) ==
  /\ ProductFree(p)
  /\ \E st \in CatalogueStatus \cup {products[p].status}, stock, deleted \in BOOLEAN :
       products' = [products EXCEPT
                      ![p] = [status |-> st, stock |-> stock, deleted |-> deleted]]
  /\ UNCHANGED <<orders, age, ordLock, prodLock, pc, workerVars, sweepVars>>

WorkerStep(w) ==
  \/ CreateValidate(w)
  \/ LockOrder(w)
  \/ ProductMissing(w)
  \/ LockProduct(w)
  \/ Commit(w)

RequestArrives(w) ==
  \/ \E u \in Users, p \in Products, o \in OrderIds : CreateCheck(w, u, p, o)
  \/ \E op \in {"pay", "notify", "cancel"}, u \in Users, o \in OrderIds : Arrive(w, op, u, o)

SweepStep(s) ==
  \/ SweepSelect(s)
  \/ \E o \in OrderIds : SweepLockOrder(s, o) \/ SweepSave(s, o) \/ SweepError(s, o)
  \/ SweepCommit(s)

\* The orders app by itself.
OrdersNext ==
  \/ \E w \in Workers : RequestArrives(w) \/ WorkerStep(w)
  \/ \E s \in Sweeps : SweepStep(s)
  \/ \E o \in OrderIds : Tick(o)
  \/ \E a \in Procs : Kill(a)

Next == OrdersNext \/ \E p \in Products : CatalogueWrite(p)

\* Every catalogue row is left alone by everyone but the orders app.
ClosedSpec == Init /\ [][OrdersNext]_vars

Spec == Init /\ [][Next]_vars

\* A transaction under way goes on, and PostgreSQL queues the waiters of a row
\* lock: a lock that is released again and again is granted.
TransactionFairness ==
  /\ \A w \in Workers : SF_vars(WorkerStep(w))
  /\ \A s \in Sweeps : /\ \A o \in OrderIds : SF_vars(SweepLockOrder(s, o) \/ SweepSave(s, o))
                       /\ WF_vars(SweepCommit(s))

\* Time passes, and beat starts the sweep every five minutes.
BeatFairness ==
  /\ \A o \in OrderIds : WF_vars(Tick(o))
  /\ \A s \in Sweeps : WF_vars(SweepSelect(s))

\* An order is not hit by errors of the database for ever.
ErrorsCease == \A s \in Sweeps, o \in OrderIds : <>[][~SweepError(s, o)]_vars

Fairness == TransactionFairness /\ BeatFairness /\ ErrorsCease

FairSpec == Spec /\ Fairness

=============================================================================
