---------------------------- MODULE OrdersProofs ----------------------------
(***************************************************************************)
(* Theorems about module Orders, and about module Shop that runs the       *)
(* products app next to it, for any number of products, orders, users,     *)
(* workers, editors and sweeps, checked by TLAPS.                          *)
(***************************************************************************)
EXTENDS OrdersProps, ShopProps, TLAPS

\* The inductive invariant: the types, and what the row locks guarantee.
IInv == TypeOK /\ LockInv

LEMMA InitIInv == Init => IInv
  <1> SUFFICES ASSUME Init PROVE IInv
    OBVIOUS
  <1>1. TypeOK
    BY NullAssumption DEF Init, TypeOK, ProductRow, ProductStatus, Ages
  <1>2. LockInv
    BY ProcAssumption DEF Init, LockInv, WorkerInv, SweepInv, Procs
  <1>3. QED
    BY <1>1, <1>2 DEF IInv

-----------------------------------------------------------------------------
(* Rows and requests as records.                                            *)

LEMMA WithProduct ==
  ASSUME NEW r \in Request, NEW p \in Products
  PROVE  /\ [r EXCEPT !.product = p] \in Request
         /\ [r EXCEPT !.product = p].product = p
         /\ [r EXCEPT !.product = p].op = r.op
         /\ [r EXCEPT !.product = p].user = r.user
         /\ [r EXCEPT !.product = p].order = r.order
  BY DEF Request

\* An assignment of a view keeps who ordered what, and the two operations that
\* settle an order differ from the one that does not.
LEMMA AssignedRow ==
  ASSUME NEW row \in OrderRow, NEW op
  PROVE  /\ Assigned(op, row) \in OrderRow
         /\ Assigned(op, row).client = row.client
         /\ Assigned(op, row).product = row.product
  BY DEF Assigned, OrderRow, OrderStatus

LEMMA WithOrderStatus ==
  ASSUME NEW row \in OrderRow, NEW st \in OrderStatus
  PROVE  /\ [row EXCEPT !.status = st] \in OrderRow
         /\ [row EXCEPT !.status = st].status = st
         /\ [row EXCEPT !.status = st].client = row.client
         /\ [row EXCEPT !.status = st].product = row.product
         /\ [row EXCEPT !.status = st].notified = row.notified
  BY DEF OrderRow

LEMMA WithProductStatus ==
  ASSUME NEW row \in ProductRow, NEW st \in ProductStatus
  PROVE  /\ [row EXCEPT !.status = st] \in ProductRow
         /\ [row EXCEPT !.status = st].status = st
         /\ [row EXCEPT !.status = st].stock = row.stock
         /\ [row EXCEPT !.status = st].deleted = row.deleted
  BY DEF ProductRow

LEMMA SavedProductStatusType ==
  ASSUME NEW st \in ProductStatus, NEW row, NEW old
  PROVE  SavedProductStatus(st, row, old) \in ProductStatus
  BY DEF SavedProductStatus, ProductStatus

-----------------------------------------------------------------------------
(* Types.                                                                   *)

LEMMA ActiveRequest ==
  ASSUME TypeOK, LockInv, NEW w \in Workers, pc[w] # "idle"
  PROVE  req[w] \in Request /\ CreateInv(w) /\ UpdateInv(w) /\ CommitInv(w)
  BY DEF TypeOK, LockInv, WorkerInv

\* What the end of a transaction leaves of the types.
LEMMA RespondType ==
  ASSUME TypeOK, NEW w \in Workers, Respond(w)
  PROVE  /\ ordLock' \in [OrderIds -> Procs \cup {None}]
         /\ prodLock' \in [Products -> Procs \cup {None}]
         /\ pc' \in [Procs -> {"idle", "validate", "order", "product", "commit"}]
         /\ req' \in [Workers -> Request \cup {NoReq}]
         /\ inst' \in [Workers -> OrderRow \cup {NoRow}]
         /\ UNCHANGED sweepVars
  BY DEF TypeOK, Respond, ReleaseLocks

LEMMA EndSweepType ==
  ASSUME TypeOK, NEW s \in Sweeps, EndSweep(s)
  PROVE  /\ ordLock' \in [OrderIds -> Procs \cup {None}]
         /\ prodLock' \in [Products -> Procs \cup {None}]
         /\ pc' \in [Procs -> {"idle", "validate", "order", "product", "commit"}]
         /\ todo' \in [Sweeps -> SUBSET OrderIds]
         /\ fetched' \in [Sweeps -> [OrderIds -> OrderRow \cup {NoRow}]]
         /\ saved' \in [Sweeps -> SUBSET OrderIds]
         /\ UNCHANGED workerVars
  BY DEF TypeOK, EndSweep, ReleaseLocks

LEMMA TypeStep == IInv /\ [Next]_vars => TypeOK'
  <1> SUFFICES ASSUME TypeOK, LockInv, [Next]_vars PROVE TypeOK'
    BY DEF IInv
  <1> USE DEF Procs
  <1>1. ASSUME NEW w \in Workers, NEW u \in Users, NEW p \in Products, NEW o \in OrderIds,
               CreateCheck(w, u, p, o)
        PROVE  TypeOK'
    BY <1>1 DEF TypeOK, CreateCheck, Request, tables, sweepVars
  <1>2. ASSUME NEW w \in Workers, NEW op \in {"pay", "notify", "cancel"}, NEW u \in Users,
               NEW o \in OrderIds, Arrive(w, op, u, o)
        PROVE  TypeOK'
    BY <1>2 DEF TypeOK, Arrive, Request, tables, sweepVars
  <1>3. ASSUME NEW w \in Workers, CreateValidate(w) PROVE TypeOK'
    <2>1. CASE Respond(w)
      BY <1>3, <2>1, RespondType DEF TypeOK, CreateValidate, tables, sweepVars
    <2>2. ASSUME NEW flag \in BOOLEAN,
                 inst' = [inst EXCEPT ![w] = [status |-> "RESERVED", client |-> req[w].user,
                                              product |-> req[w].product, notified |-> flag]],
                 pc' = [pc EXCEPT ![w] = "product"],
                 UNCHANGED <<ordLock, prodLock, req, sweepVars>>
          PROVE  TypeOK'
      <3> DEFINE row == [status |-> "RESERVED", client |-> req[w].user,
                         product |-> req[w].product, notified |-> flag]
      <3>1. pc[w] = "validate"
        BY <1>3 DEF CreateValidate
      <3>2. req[w] \in Request /\ req[w].product \in Products
        BY <3>1, ActiveRequest DEF CreateInv, UpdateInv
      <3>3. row \in OrderRow
        BY <3>2 DEF OrderRow, OrderStatus, Request
      <3>4. inst' \in [Workers -> OrderRow \cup {NoRow}]
        BY <2>2, <3>3 DEF TypeOK
      <3>5. QED
        BY <1>3, <2>2, <3>4 DEF TypeOK, CreateValidate, tables, sweepVars
    <2>3. QED
      BY <1>3, <2>1, <2>2 DEF CreateValidate
  <1>4. ASSUME NEW w \in Workers, LockOrder(w) PROVE TypeOK'
    <2> DEFINE o == req[w].order
    <2>1. CASE Respond(w)
      BY <1>4, <2>1, RespondType DEF TypeOK, LockOrder, tables, sweepVars
    <2>2. CASE /\ ordLock' = [ordLock EXCEPT ![o] = w]
               /\ inst' = [inst EXCEPT ![w] = Assigned(req[w].op, orders[o])]
               /\ req' = [req EXCEPT ![w].product = orders[o].product]
               /\ pc' = [pc EXCEPT ![w] = "product"]
               /\ UNCHANGED <<prodLock, sweepVars>>
      <3>1. pc[w] = "order"
        BY <1>4 DEF LockOrder
      <3>2. req[w] \in Request /\ o \in OrderIds /\ Exists(o)
        BY <3>1, ActiveRequest DEF CreateInv, UpdateInv, Request
      <3>3. orders[o] \in OrderRow /\ orders[o].product \in Products
        BY <3>2 DEF TypeOK, Exists, OrderRow
      <3>4. inst' \in [Workers -> OrderRow \cup {NoRow}]
        BY <2>2, <3>3, AssignedRow DEF TypeOK
      <3>5. [req[w] EXCEPT !.product = orders[o].product] \in Request
        BY <3>2, <3>3, WithProduct
      <3>6. req' \in [Workers -> Request \cup {NoReq}]
        BY <2>2, <3>5 DEF TypeOK
      <3>7. QED
        BY <1>4, <2>2, <3>4, <3>6 DEF TypeOK, LockOrder, tables, sweepVars
    <2>3. QED
      BY <1>4, <2>1, <2>2 DEF LockOrder
  <1>5. ASSUME NEW w \in Workers, ProductMissing(w) PROVE TypeOK'
    BY <1>5, RespondType DEF TypeOK, ProductMissing, tables, sweepVars
  <1>6. ASSUME NEW w \in Workers, LockProduct(w) PROVE TypeOK'
    <2> DEFINE p == req[w].product
    <2>1. CASE Respond(w)
      BY <1>6, <2>1, RespondType DEF TypeOK, LockProduct, tables, sweepVars
    <2>2. CASE /\ prodLock' = [prodLock EXCEPT ![p] = w]
               /\ pc' = [pc EXCEPT ![w] = "commit"]
               /\ UNCHANGED <<ordLock, workerVars, sweepVars>>
      BY <1>6, <2>2 DEF TypeOK, LockProduct, tables, workerVars, sweepVars
    <2>3. QED
      BY <1>6, <2>1, <2>2 DEF LockProduct
  <1>7. ASSUME NEW w \in Workers, Commit(w) PROVE TypeOK'
    <2> DEFINE o == req[w].order
               p == req[w].product
    <2>1. Respond(w) /\ req[w] \in Request
      BY <1>7, ActiveRequest DEF Commit
    <2>2. orders' \in [OrderIds -> OrderRow \cup {NoRow}]
      BY <1>7, <2>1 DEF Commit, TypeOK, Request
    <2>3. ASSUME p \in Products
          PROVE  [products[p] EXCEPT !.status =
                    SavedProductStatus(products[p].status, inst[w], orders[o])] \in ProductRow
      BY <2>3, SavedProductStatusType, WithProductStatus DEF TypeOK, ProductRow
    <2>4. products' \in [Products -> ProductRow]
      BY <1>7, <2>3 DEF Commit, TypeOK
    <2>5. age' \in [OrderIds -> Ages]
      BY <1>7 DEF Commit, TypeOK, Ages
    <2>6. QED
      BY <2>1, <2>2, <2>4, <2>5, RespondType DEF TypeOK, sweepVars
  <1>8. ASSUME NEW s \in Sweeps, SweepSelect(s) PROVE TypeOK'
    BY <1>8 DEF TypeOK, SweepSelect, tables, workerVars
  <1>9. ASSUME NEW s \in Sweeps, NEW o \in OrderIds, SweepLockOrder(s, o) PROVE TypeOK'
    BY <1>9 DEF TypeOK, SweepLockOrder, tables, workerVars
  <1>10. ASSUME NEW s \in Sweeps, NEW o \in OrderIds, SweepSave(s, o) PROVE TypeOK'
    <2>1. prodLock' \in [Products -> Procs \cup {None}]
      BY <1>10 DEF TypeOK, SweepSave
    <2>2. /\ todo' \in [Sweeps -> SUBSET OrderIds]
          /\ saved' \in [Sweeps -> SUBSET OrderIds]
      <3>1. /\ todo' = [todo EXCEPT ![s] = @ \ {o}]
            /\ saved' = saved \/ saved' = [saved EXCEPT ![s] = @ \cup {o}]
        BY <1>10 DEF SweepSave
      <3>2. todo \in [Sweeps -> SUBSET OrderIds] /\ saved \in [Sweeps -> SUBSET OrderIds]
        BY DEF TypeOK
      <3>3. todo[s] \ {o} \in SUBSET OrderIds /\ saved[s] \cup {o} \in SUBSET OrderIds
        <4>1. todo[s] \subseteq OrderIds /\ saved[s] \subseteq OrderIds
          BY <3>2
        <4>2. QED
          BY <4>1
      <3>4. todo' \in [Sweeps -> SUBSET OrderIds]
        BY <3>1, <3>2, <3>3
      <3>5. saved' \in [Sweeps -> SUBSET OrderIds]
        BY <3>1, <3>2, <3>3
      <3>6. QED
        BY <3>4, <3>5
    <2>3. UNCHANGED <<orders, age, products, ordLock, pc, req, inst, fetched>>
      BY <1>10 DEF SweepSave, tables, workerVars
    <2>4. QED
      BY <2>1, <2>2, <2>3 DEF TypeOK
  <1>10a. ASSUME NEW s \in Sweeps, NEW o \in OrderIds, SweepError(s, o) PROVE TypeOK'
    <2>1. todo' = [todo EXCEPT ![s] = @ \ {o}] /\ todo \in [Sweeps -> SUBSET OrderIds]
      BY <1>10a DEF SweepError, TypeOK
    <2>2. todo[s] \ {o} \in SUBSET OrderIds
      BY <2>1
    <2>3. todo' \in [Sweeps -> SUBSET OrderIds]
      BY <2>1, <2>2
    <2>4. UNCHANGED <<orders, age, products, ordLock, prodLock, pc, req, inst, fetched, saved>>
      BY <1>10a DEF SweepError, tables, workerVars
    <2>5. QED
      BY <2>3, <2>4 DEF TypeOK
  <1>11. ASSUME NEW s \in Sweeps, SweepCommit(s) PROVE TypeOK'
    <2>1. EndSweep(s)
      BY <1>11 DEF SweepCommit
    <2>2. ASSUME NEW o \in saved[s]
          PROVE  [fetched[s][o] EXCEPT !.status = "CANCELLED"] \in OrderRow
      <3>1. o \in OrderIds /\ fetched[s][o] \in OrderRow
        BY DEF TypeOK, LockInv, SweepInv
      <3>2. QED
        BY <3>1, WithOrderStatus DEF OrderStatus
    <2>3. orders' \in [OrderIds -> OrderRow \cup {NoRow}]
      BY <1>11, <2>2 DEF SweepCommit, TypeOK
    <2>4. ASSUME NEW p \in Products
          PROVE  [products[p] EXCEPT !.status = SweptProductStatus(s, p)] \in ProductRow
      <3>1. products[p] \in ProductRow /\ SweptProductStatus(s, p) \in ProductStatus
        BY DEF TypeOK, ProductRow, SweptProductStatus, ProductStatus
      <3>2. QED
        BY <3>1, WithProductStatus
    <2>5. products' \in [Products -> ProductRow]
      BY <1>11, <2>4 DEF SweepCommit
    <2>6. QED
      BY <1>11, <2>1, <2>3, <2>5, EndSweepType DEF SweepCommit, TypeOK, workerVars
  <1>12. ASSUME NEW o \in OrderIds, Tick(o) PROVE TypeOK'
    BY <1>12 DEF TypeOK, Tick, Ages, workerVars, sweepVars
  <1>13. ASSUME NEW a \in Procs, Kill(a) PROVE TypeOK'
    BY <1>13, RespondType, EndSweepType DEF TypeOK, Kill, tables, workerVars, sweepVars
  <1>14. ASSUME NEW p \in Products, CatalogueWrite(p) PROVE TypeOK'
    BY <1>14, StatusAssumption DEF TypeOK, CatalogueWrite, ProductRow, workerVars, sweepVars
  <1>15. CASE UNCHANGED vars
    BY <1>15 DEF TypeOK, vars
  <1>16. QED
    BY <1>1, <1>2, <1>3, <1>4, <1>5, <1>6, <1>7, <1>8, <1>9, <1>10, <1>11, <1>12, <1>13,
       <1>14, <1>15, <1>10a
       DEF Next, OrdersNext, RequestArrives, WorkerStep, SweepStep

-----------------------------------------------------------------------------
(* Locks.                                                                   *)

\* The step keeps the locks of process x, and the rows that they protect.
Untouched(x) ==
  /\ \A o \in OrderIds : orders[o] # NoRow /\ ordLock[o] = x
                      => ordLock'[o] = x /\ orders'[o] = orders[o]
  /\ \A p \in Products : prodLock[p] = x => prodLock'[p] = x /\ products'[p] = products[p]

SameWorker(x) == pc'[x] = pc[x] /\ req'[x] = req[x] /\ inst'[x] = inst[x]

SameSweep(s) ==
  pc'[s] = pc[s] /\ todo'[s] = todo[s] /\ fetched'[s] = fetched[s] /\ saved'[s] = saved[s]

\* No committed row disappears.
RowsStay == \A o \in OrderIds : orders[o] # NoRow => orders'[o] # NoRow

\* The step does not take the id that a create of worker x will insert.
IdFree(x) ==
  req[x] # NoReq /\ req[x].op = "create" =>
    /\ orders'[req[x].order] = orders[req[x].order]
    /\ \A y \in Workers : y # x /\ req'[y] # NoReq => req'[y].order # req[x].order

\* What a step does not touch keeps its part of the invariant.
LEMMA WorkerFrame ==
  ASSUME TypeOK, NEW x \in Workers, WorkerInv(x),
         SameWorker(x), Untouched(x), RowsStay, IdFree(x)
  PROVE  WorkerInv(x)'
  <1>1. (pc[x] = "idle" <=> req[x] = NoReq)'
    BY DEF WorkerInv, SameWorker
  <1>2. ASSUME req[x] # NoReq PROVE CreateInv(x)' /\ UpdateInv(x)' /\ CommitInv(x)'
    <2>1. req[x] \in Request /\ CreateInv(x) /\ UpdateInv(x) /\ CommitInv(x)
      BY <1>2 DEF TypeOK, WorkerInv
    <2>2. CreateInv(x)'
      BY <2>1, <1>2 DEF CreateInv, Exists, SameWorker, IdFree
    <2>3. UpdateInv(x)'
      BY <2>1 DEF UpdateInv, Exists, IsReserved, Request, SameWorker, Untouched, RowsStay
    <2>4. CommitInv(x)'
      <3>1. pc[x] = "commit" => req[x].product \in Products
        BY <2>1 DEF CreateInv, UpdateInv, TypeOK, Exists, OrderRow, Request
      <3>2. QED
        BY <2>1, <3>1 DEF CommitInv, StockRecheck, SameWorker, Untouched
    <2>5. QED
      BY <2>2, <2>3, <2>4
  <1>3. QED
    BY <1>1, <1>2 DEF WorkerInv, SameWorker

LEMMA SweepFrame ==
  ASSUME TypeOK, NEW s \in Sweeps, SweepInv(s), SameSweep(s), Untouched(s)
  PROVE  SweepInv(s)'
  BY DEF SweepInv, TypeOK, IsReserved, Exists, OrderRow, SameSweep, Untouched

\* A step in which no request appears takes no id.
LEMMA IdFrame ==
  ASSUME TypeOK, NEW x \in Workers, WorkerInv(x),
         \A y \in Workers : req'[y] = req[y] \/ req'[y] = NoReq,
         req[x] # NoReq /\ req[x].op = "create" => orders'[req[x].order] = orders[req[x].order]
  PROVE  IdFree(x)
  BY DEF IdFree, WorkerInv, CreateInv

\* The end of a transaction of w or of sweep s touches nobody else's locks.
LEMMA RespondFrame ==
  ASSUME TypeOK, NEW w \in Workers, Respond(w)
  PROVE  /\ pc'[w] = "idle" /\ req'[w] = NoReq
         /\ \A x \in Procs : x # w => /\ pc'[x] = pc[x]
                                     /\ \A o \in OrderIds : ordLock[o] = x => ordLock'[o] = x
                                     /\ \A p \in Products : prodLock[p] = x => prodLock'[p] = x
         /\ \A x \in Workers : x # w => SameWorker(x)
         /\ \A x \in Workers : req'[x] = req[x] \/ req'[x] = NoReq
         /\ \A s \in Sweeps : SameSweep(s)
  BY ProcAssumption DEF TypeOK, Respond, ReleaseLocks, Procs, SameWorker, SameSweep, sweepVars

LEMMA EndSweepFrame ==
  ASSUME TypeOK, NEW s \in Sweeps, EndSweep(s)
  PROVE  /\ pc'[s] = "idle" /\ todo'[s] = {} /\ saved'[s] = {}
         /\ \A o \in OrderIds : fetched'[s][o] = NoRow
         /\ \A x \in Procs : x # s => /\ \A o \in OrderIds : ordLock[o] = x => ordLock'[o] = x
                                     /\ \A p \in Products : prodLock[p] = x => prodLock'[p] = x
         /\ \A x \in Sweeps : x # s => SameSweep(x)
         /\ \A x \in Workers : SameWorker(x)
         /\ req' = req
  BY ProcAssumption DEF TypeOK, EndSweep, ReleaseLocks, Procs, SameWorker, SameSweep, workerVars

\* The step of worker w (of sweep s) leaves the others alone, so only its own
\* part of the invariant is left to show.
LEMMA WorkerMoves ==
  ASSUME TypeOK, LockInv, NEW w \in Workers, WorkerInv(w)', RowsStay,
         \A x \in Procs : x # w => Untouched(x),
         \A x \in Workers : x # w => SameWorker(x) /\ IdFree(x),
         \A s \in Sweeps : SameSweep(s)
  PROVE  LockInv'
  <1>1. ASSUME NEW x \in Workers, x # w PROVE WorkerInv(x)'
    <2>1. WorkerInv(x) /\ SameWorker(x) /\ Untouched(x) /\ IdFree(x)
      BY <1>1 DEF LockInv, Procs
    <2>2. QED
      BY <2>1, WorkerFrame
  <1>2. ASSUME NEW s \in Sweeps PROVE SweepInv(s)'
    <2>1. SweepInv(s) /\ SameSweep(s) /\ Untouched(s)
      BY ProcAssumption DEF LockInv, Procs
    <2>2. QED
      BY <2>1, SweepFrame
  <1>3. QED
    BY <1>1, <1>2 DEF LockInv

LEMMA SweepMoves ==
  ASSUME TypeOK, LockInv, NEW s \in Sweeps, SweepInv(s)', RowsStay,
         \A x \in Procs : x # s => Untouched(x),
         \A x \in Workers : SameWorker(x) /\ IdFree(x),
         \A x \in Sweeps : x # s => SameSweep(x)
  PROVE  LockInv'
  <1>1. ASSUME NEW x \in Workers PROVE WorkerInv(x)'
    <2>1. WorkerInv(x) /\ SameWorker(x) /\ Untouched(x) /\ IdFree(x)
      BY ProcAssumption DEF LockInv, Procs
    <2>2. QED
      BY <2>1, WorkerFrame
  <1>2. ASSUME NEW x \in Sweeps, x # s PROVE SweepInv(x)'
    <2>1. SweepInv(x) /\ SameSweep(x) /\ Untouched(x)
      BY <1>2 DEF LockInv, Procs
    <2>2. QED
      BY <2>1, SweepFrame
  <1>3. QED
    BY <1>1, <1>2 DEF LockInv

LEMMA RespondLock ==
  ASSUME TypeOK, LockInv, NEW w \in Workers, Respond(w), UNCHANGED tables
  PROVE  LockInv'
  <1>1. WorkerInv(w)'
    BY RespondFrame DEF WorkerInv
  <1>2. RowsStay
    BY DEF RowsStay, tables
  <1>3. ASSUME NEW x \in Procs, x # w PROVE Untouched(x)
    <2>1. /\ \A o \in OrderIds : ordLock[o] = x => ordLock'[o] = x
          /\ \A p \in Products : prodLock[p] = x => prodLock'[p] = x
      BY <1>3 DEF Respond, ReleaseLocks, TypeOK
    <2>2. orders' = orders /\ products' = products
      BY DEF tables
    <2>3. QED
      BY <2>1, <2>2 DEF Untouched
  <1>4. ASSUME NEW x \in Workers, x # w PROVE SameWorker(x) /\ IdFree(x)
    <2>1. WorkerInv(x)
      BY DEF LockInv
    <2>2. \A y \in Workers : req'[y] = req[y] \/ req'[y] = NoReq
      BY RespondFrame
    <2>3. orders' = orders
      BY DEF tables
    <2>4. IdFree(x)
      BY <2>1, <2>2, <2>3, IdFrame
    <2>5. QED
      BY <1>4, <2>4, RespondFrame
  <1>5. \A s \in Sweeps : SameSweep(s)
    BY RespondFrame
  <1>6. QED
    BY <1>1, <1>2, <1>3, <1>4, <1>5, WorkerMoves

LEMMA EndSweepInv ==
  ASSUME TypeOK, NEW s \in Sweeps, EndSweep(s)
  PROVE  SweepInv(s)'
  BY EndSweepFrame DEF SweepInv

LEMMA EndSweepLock ==
  ASSUME TypeOK, LockInv, NEW s \in Sweeps, EndSweep(s), UNCHANGED tables
  PROVE  LockInv'
  <1>1. SweepInv(s)'
    BY EndSweepInv
  <1>2. RowsStay
    BY DEF RowsStay, tables
  <1>3. ASSUME NEW x \in Procs, x # s PROVE Untouched(x)
    BY <1>3, EndSweepFrame DEF Untouched, tables
  <1>4. ASSUME NEW x \in Workers PROVE SameWorker(x) /\ IdFree(x)
    <2>1. WorkerInv(x)
      BY DEF LockInv
    <2>2. req' = req /\ orders' = orders
      BY EndSweepFrame DEF tables
    <2>3. IdFree(x)
      BY <2>1, <2>2, IdFrame
    <2>4. QED
      BY <2>3, EndSweepFrame
  <1>5. \A x \in Sweeps : x # s => SameSweep(x)
    BY EndSweepFrame
  <1>6. QED
    BY <1>1, <1>2, <1>3, <1>4, <1>5, SweepMoves

\* A step that changes neither rows nor locks touches nobody.
LEMMA NothingTouched ==
  ASSUME UNCHANGED <<orders, products, ordLock, prodLock>>
  PROVE  RowsStay /\ \A x : Untouched(x)
  BY DEF RowsStay, Untouched

LEMMA CreateCheckLock ==
  ASSUME TypeOK, LockInv, NEW w \in Workers, NEW u \in Users, NEW p \in Products,
         NEW o \in OrderIds, CreateCheck(w, u, p, o)
  PROVE  LockInv'
  <1>1. /\ pc[w] = "idle" /\ pc'[w] = "validate" /\ UnusedId(o) /\ orders' = orders
        /\ req'[w] = [op |-> "create", user |-> u, order |-> o, product |-> p]
        /\ \A x \in Procs : x # w => pc'[x] = pc[x]
        /\ \A x \in Workers : x # w => req'[x] = req[x]
        /\ inst' = inst
    BY DEF CreateCheck, TypeOK, Procs, tables
  <1>2. req'[w] \in Request
    BY <1>1 DEF Request
  <1>3. WorkerInv(w)'
    BY <1>1, <1>2, NullAssumption DEF WorkerInv, CreateInv, UpdateInv, CommitInv, UnusedId, Exists
  <1>4. RowsStay /\ \A x : Untouched(x)
    BY NothingTouched DEF CreateCheck, tables
  <1>5. ASSUME NEW x \in Workers, x # w PROVE SameWorker(x) /\ IdFree(x)
    <2>1. WorkerInv(x) /\ x \in Procs
      BY DEF LockInv, Procs
    <2>2. IdFree(x)
      BY <1>1, <1>5, <2>1 DEF IdFree, WorkerInv, CreateInv, UnusedId
    <2>3. QED
      BY <1>1, <1>5, <2>1, <2>2 DEF SameWorker
  <1>6. \A s \in Sweeps : SameSweep(s)
    BY <1>1, ProcAssumption DEF CreateCheck, SameSweep, sweepVars, Procs
  <1>7. QED
    BY <1>3, <1>4, <1>5, <1>6, WorkerMoves

LEMMA ArriveLock ==
  ASSUME TypeOK, LockInv, NEW w \in Workers, NEW op \in {"pay", "notify", "cancel"},
         NEW u \in Users, NEW o \in OrderIds, Arrive(w, op, u, o)
  PROVE  LockInv'
  <1>1. /\ pc[w] = "idle" /\ pc'[w] = "order" /\ Exists(o) /\ orders' = orders
        /\ req'[w] = [op |-> op, user |-> u, order |-> o, product |-> None]
        /\ \A x \in Procs : x # w => pc'[x] = pc[x]
        /\ \A x \in Workers : x # w => req'[x] = req[x]
        /\ inst' = inst
    BY DEF Arrive, TypeOK, Procs, tables
  <1>2. req'[w] \in Request
    BY <1>1 DEF Request
  <1>3. WorkerInv(w)'
    BY <1>1, <1>2, NullAssumption DEF WorkerInv, CreateInv, UpdateInv, CommitInv, Exists
  <1>4. RowsStay /\ \A x : Untouched(x)
    BY NothingTouched DEF Arrive, tables
  <1>5. ASSUME NEW x \in Workers, x # w PROVE SameWorker(x) /\ IdFree(x)
    <2>1. WorkerInv(x) /\ x \in Procs
      BY DEF LockInv, Procs
    <2>2. IdFree(x)
      BY <1>1, <1>5, <2>1 DEF IdFree, WorkerInv, CreateInv, Exists
    <2>3. QED
      BY <1>1, <1>5, <2>1, <2>2 DEF SameWorker
  <1>6. \A s \in Sweeps : SameSweep(s)
    BY <1>1, ProcAssumption DEF Arrive, SameSweep, sweepVars, Procs
  <1>7. QED
    BY <1>3, <1>4, <1>5, <1>6, WorkerMoves

LEMMA CreateValidateLock ==
  ASSUME TypeOK, LockInv, NEW w \in Workers, CreateValidate(w)
  PROVE  LockInv'
  <1>1. CASE Respond(w)
    BY <1>1, RespondLock DEF CreateValidate
  <1>2. ASSUME NEW flag \in BOOLEAN,
               PassesValidation(req[w].user, req[w].product),
               inst' = [inst EXCEPT ![w] = [status |-> "RESERVED", client |-> req[w].user,
                                            product |-> req[w].product, notified |-> flag]],
               pc' = [pc EXCEPT ![w] = "product"],
               UNCHANGED <<ordLock, prodLock, req, sweepVars>>
        PROVE  LockInv'
    <2>1. /\ pc[w] = "validate" /\ UNCHANGED tables
      BY DEF CreateValidate
    <2>2. req[w] \in Request /\ req[w].op = "create" /\ req[w] # NoReq /\ CreateInv(w)
      BY <2>1, ActiveRequest, NullAssumption DEF UpdateInv
    <2> DEFINE row == [status |-> "RESERVED", client |-> req[w].user,
                       product |-> req[w].product, notified |-> flag]
    <2>3. row \in OrderRow
      BY <2>2 DEF OrderRow, OrderStatus, Request, CreateInv
    <2>4. inst'[w] = row /\ pc'[w] = "product" /\ req' = req /\ orders' = orders
      BY <1>2, <2>1 DEF TypeOK, Procs, tables
    <2>5. WorkerInv(w)'
      BY <1>2, <2>2, <2>3, <2>4
         DEF WorkerInv, CreateInv, UpdateInv, CommitInv, Exists, PassesValidation
    <2>6. RowsStay /\ \A x : Untouched(x)
      BY <1>2, <2>1, NothingTouched DEF tables
    <2>7. ASSUME NEW x \in Workers, x # w PROVE SameWorker(x) /\ IdFree(x)
      BY <1>2, <2>4, <2>7, IdFrame DEF SameWorker, LockInv, Procs, TypeOK
    <2>8. \A s \in Sweeps : SameSweep(s)
      BY <1>2, ProcAssumption DEF SameSweep, sweepVars, Procs, TypeOK
    <2>9. QED
      BY <2>5, <2>6, <2>7, <2>8, WorkerMoves
  <1>3. QED
    BY <1>1, <1>2 DEF CreateValidate

LEMMA LockOrderLock ==
  ASSUME TypeOK, LockInv, NEW w \in Workers, LockOrder(w)
  PROVE  LockInv'
  <1> DEFINE o == req[w].order
  <1>1. CASE Respond(w)
    BY <1>1, RespondLock DEF LockOrder
  <1>2. CASE /\ Accepts(req[w].op, req[w].user, orders[o])
             /\ ordLock' = [ordLock EXCEPT ![o] = w]
             /\ inst' = [inst EXCEPT ![w] = Assigned(req[w].op, orders[o])]
             /\ req' = [req EXCEPT ![w].product = orders[o].product]
             /\ pc' = [pc EXCEPT ![w] = "product"]
             /\ UNCHANGED <<prodLock, sweepVars>>
    <2>1. pc[w] = "order" /\ OrderFree(o) /\ orders' = orders /\ products' = products
      BY DEF LockOrder, tables
    <2>2. req[w] \in Request /\ o \in OrderIds /\ Exists(o) /\ req[w].op # "create"
      BY <2>1, ActiveRequest DEF CreateInv, UpdateInv, Request
    <2>3. orders[o] \in OrderRow /\ orders[o].product \in Products
      BY <2>2 DEF TypeOK, Exists, OrderRow
    <2>4. /\ req'[w] = [req[w] EXCEPT !.product = orders[o].product]
          /\ inst'[w] = Assigned(req[w].op, orders[o])
          /\ pc'[w] = "product"
          /\ ordLock'[o] = w
          /\ \A x \in Workers : x # w => SameWorker(x)
          /\ \A x \in OrderIds : x # o => ordLock'[x] = ordLock[x]
      BY <1>2, <2>2 DEF TypeOK, Procs, SameWorker
    <2>5. /\ req'[w] \in Request /\ req'[w].op = req[w].op /\ req'[w].order = o
          /\ req'[w].product = orders[o].product
      BY <2>2, <2>3, <2>4, WithProduct
    <2>6. orders[o].status = "RESERVED"
      BY <1>2 DEF Accepts
    <2>7. WorkerInv(w)'
      BY <2>1, <2>2, <2>4, <2>5, <2>6, NullAssumption
         DEF WorkerInv, CreateInv, UpdateInv, CommitInv, Exists, IsReserved
    <2>8. ASSUME NEW x \in Procs, x # w PROVE Untouched(x)
      BY <1>2, <2>1, <2>4, <2>8, NullAssumption DEF Untouched, OrderFree
    <2>9. ASSUME NEW x \in Workers, x # w PROVE SameWorker(x) /\ IdFree(x)
      <3>1. WorkerInv(x) /\ SameWorker(x)
        BY <2>4, <2>9 DEF LockInv
      <3>2. ASSUME req[x] # NoReq, req[x].op = "create", NEW y \in Workers, y # x,
                   req'[y] # NoReq
            PROVE  req'[y].order # req[x].order
        <4>1. ~Exists(req[x].order) /\ (req[y] # NoReq => req[y].order # req[x].order)
          BY <3>1, <3>2 DEF WorkerInv, CreateInv
        <4>2. CASE y = w
          BY <2>2, <2>5, <4>1, <4>2
        <4>3. CASE y # w
          BY <2>4, <3>2, <4>1, <4>3 DEF SameWorker
        <4>4. QED
          BY <4>2, <4>3
      <3>3. QED
        BY <2>1, <3>1, <3>2 DEF IdFree
    <2>10. \A s \in Sweeps : SameSweep(s)
      BY <1>2, ProcAssumption DEF SameSweep, sweepVars, Procs, TypeOK
    <2>11. RowsStay
      BY <2>1 DEF RowsStay
    <2>12. QED
      BY <2>7, <2>8, <2>9, <2>10, <2>11, WorkerMoves
  <1>3. QED
    BY <1>1, <1>2 DEF LockOrder

LEMMA LockProductLock ==
  ASSUME TypeOK, LockInv, NEW w \in Workers, LockProduct(w)
  PROVE  LockInv'
  <1> DEFINE p == req[w].product
  <1>1. CASE Respond(w)
    BY <1>1, RespondLock DEF LockProduct
  <1>2. CASE /\ StockRecheck(w)
             /\ prodLock' = [prodLock EXCEPT ![p] = w]
             /\ pc' = [pc EXCEPT ![w] = "commit"]
             /\ UNCHANGED <<ordLock, workerVars, sweepVars>>
    <2>1. /\ pc[w] = "product" /\ ProductFree(p) /\ ~products[p].deleted
          /\ orders' = orders /\ products' = products
          /\ req' = req /\ inst' = inst /\ ordLock' = ordLock
      BY <1>2 DEF LockProduct, tables, workerVars
    <2>2. req[w] \in Request /\ req[w] # NoReq /\ CreateInv(w) /\ UpdateInv(w)
      BY <2>1, ActiveRequest, NullAssumption
    <2>3. p \in Products
      BY <2>1, <2>2 DEF CreateInv, UpdateInv, TypeOK, Exists, OrderRow, Request
    <2>4. /\ pc'[w] = "commit" /\ prodLock'[p] = w
          /\ \A x \in Workers : x # w => SameWorker(x)
          /\ \A x \in Products : x # p => prodLock'[x] = prodLock[x]
      BY <1>2, <2>1, <2>3 DEF TypeOK, Procs, SameWorker
    <2>5. WorkerInv(w)'
      <3>1. CreateInv(w)'
        BY <2>1, <2>2, <2>4 DEF CreateInv, Exists
      <3>2. UpdateInv(w)'
        BY <2>1, <2>2, <2>4 DEF UpdateInv, Exists, IsReserved
      <3>3. CommitInv(w)'
        BY <1>2, <2>1, <2>4 DEF CommitInv, StockRecheck
      <3>4. QED
        BY <2>1, <2>2, <2>4, <3>1, <3>2, <3>3 DEF WorkerInv
    <2>6. ASSUME NEW x \in Procs, x # w PROVE Untouched(x)
      BY <2>1, <2>4, <2>6, NullAssumption DEF Untouched, ProductFree
    <2>7. ASSUME NEW x \in Workers, x # w PROVE SameWorker(x) /\ IdFree(x)
      BY <2>1, <2>4, <2>7, IdFrame DEF LockInv
    <2>8. \A s \in Sweeps : SameSweep(s)
      BY <1>2, ProcAssumption DEF SameSweep, sweepVars, Procs, TypeOK
    <2>9. RowsStay
      BY <2>1 DEF RowsStay
    <2>10. QED
      BY <2>5, <2>6, <2>7, <2>8, <2>9, WorkerMoves
  <1>3. QED
    BY <1>1, <1>2 DEF LockProduct

\* What a worker about to commit will write.
LEMMA CommitFacts ==
  ASSUME TypeOK, LockInv, NEW w \in Workers, pc[w] = "commit"
  PROVE  /\ req[w] \in Request /\ req[w] # NoReq
         /\ req[w].order \in OrderIds /\ req[w].product \in Products
         /\ inst[w] \in OrderRow
         /\ prodLock[req[w].product] = w
         /\ Exists(req[w].order) => ordLock[req[w].order] = w
  <1>1. /\ req[w] \in Request /\ req[w] # NoReq
        /\ CreateInv(w) /\ UpdateInv(w) /\ CommitInv(w)
    BY ActiveRequest, NullAssumption
  <1>2. CASE req[w].op = "create"
    BY <1>1, <1>2 DEF CreateInv, CommitInv, Request
  <1>3. CASE req[w].op # "create"
    <2>1. orders[req[w].order] \in OrderRow /\ req[w].order \in OrderIds
      BY <1>1, <1>3 DEF UpdateInv, Exists, TypeOK, Request
    <2>2. inst[w] \in OrderRow /\ req[w].product \in Products
      BY <1>1, <1>3, <2>1, AssignedRow DEF UpdateInv, OrderRow
    <2>3. QED
      BY <1>1, <1>3, <2>1, <2>2 DEF UpdateInv, CommitInv
  <1>4. QED
    BY <1>2, <1>3

LEMMA CommitLock ==
  ASSUME TypeOK, LockInv, NEW w \in Workers, Commit(w)
  PROVE  LockInv'
  <1> DEFINE o == req[w].order
             p == req[w].product
  <1>1. pc[w] = "commit" /\ Respond(w)
    BY DEF Commit
  <1>2. /\ o \in OrderIds /\ p \in Products /\ inst[w] \in OrderRow /\ req[w] # NoReq
        /\ prodLock[p] = w
        /\ Exists(o) => ordLock[o] = w
    BY <1>1, CommitFacts
  <1>3. /\ orders'[o] = inst[w]
        /\ \A x \in OrderIds : x # o => orders'[x] = orders[x]
        /\ \A x \in Products : x # p => products'[x] = products[x]
    BY <1>2 DEF Commit, TypeOK
  <1>4. WorkerInv(w)'
    BY <1>1, RespondFrame DEF WorkerInv
  <1>5. RowsStay
    BY <1>2, <1>3, NullAssumption DEF RowsStay
  <1>6. ASSUME NEW x \in Procs, x # w PROVE Untouched(x)
    <2>1. /\ \A y \in OrderIds : ordLock[y] = x => ordLock'[y] = x
          /\ \A y \in Products : prodLock[y] = x => prodLock'[y] = x
      BY <1>1, <1>6 DEF Respond, ReleaseLocks, TypeOK
    <2>2. QED
      BY <1>2, <1>3, <1>6, <2>1 DEF Untouched, Exists
  <1>7. ASSUME NEW x \in Workers, x # w PROVE SameWorker(x) /\ IdFree(x)
    <2>1. WorkerInv(x)
      BY DEF LockInv
    <2>2. \A y \in Workers : req'[y] = req[y] \/ req'[y] = NoReq
      BY <1>1, RespondFrame
    <2>3. ASSUME req[x] # NoReq, req[x].op = "create"
          PROVE  orders'[req[x].order] = orders[req[x].order]
      <3>1. req[x].order # o /\ req[x].order \in OrderIds
        BY <1>2, <1>7, <2>1, <2>3 DEF WorkerInv, CreateInv, TypeOK, Request
      <3>2. QED
        BY <1>3, <3>1
    <2>4. IdFree(x)
      BY <2>1, <2>2, <2>3, IdFrame
    <2>5. QED
      BY <1>1, <1>7, <2>4, RespondFrame
  <1>8. \A s \in Sweeps : SameSweep(s)
    BY <1>1, RespondFrame
  <1>9. QED
    BY <1>4, <1>5, <1>6, <1>7, <1>8, WorkerMoves

-----------------------------------------------------------------------------
(* Locks: the sweep and the environment.                                    *)

\* A sweep step that writes no row and only takes free or own locks.
LEMMA SweepTakes ==
  ASSUME TypeOK, LockInv, NEW s \in Sweeps, SweepInv(s)',
         UNCHANGED <<orders, products, req, inst>>,
         \A o \in OrderIds : ordLock'[o] = ordLock[o] \/ ordLock[o] = None \/ ordLock[o] = s,
         \A p \in Products : prodLock'[p] = prodLock[p] \/ prodLock[p] = None \/ prodLock[p] = s,
         \A x \in Procs : x # s => pc'[x] = pc[x],
         \A x \in Sweeps : x # s => SameSweep(x)
  PROVE  LockInv'
  <1>1. RowsStay
    BY DEF RowsStay
  <1>2. ASSUME NEW x \in Procs, x # s PROVE Untouched(x)
    BY <1>2, NullAssumption DEF Untouched
  <1>3. ASSUME NEW x \in Workers PROVE SameWorker(x) /\ IdFree(x)
    BY ProcAssumption, IdFrame DEF SameWorker, LockInv, Procs
  <1>4. QED
    BY <1>1, <1>2, <1>3, SweepMoves

LEMMA SweepSelectLock ==
  ASSUME TypeOK, LockInv, NEW s \in Sweeps, SweepSelect(s)
  PROVE  LockInv'
  <1>1. /\ pc[s] = "idle" /\ pc'[s] = "order"
        /\ UNCHANGED <<orders, products, ordLock, prodLock, req, inst, fetched, saved>>
        /\ \A x \in Procs : x # s => pc'[x] = pc[x]
        /\ \A x \in Sweeps : x # s => todo'[x] = todo[x]
    BY DEF SweepSelect, TypeOK, Procs, tables, workerVars
  <1>2. SweepInv(s)'
    BY <1>1 DEF LockInv, SweepInv, IsReserved, Exists
  <1>3. \A x \in Sweeps : x # s => SameSweep(x)
    BY <1>1 DEF SameSweep, Procs
  <1>4. QED
    BY <1>1, <1>2, <1>3, SweepTakes

LEMMA SweepLockOrderLock ==
  ASSUME TypeOK, LockInv, NEW s \in Sweeps, NEW o \in OrderIds, SweepLockOrder(s, o)
  PROVE  LockInv'
  <1> DEFINE rest == todo[s] \ {o}
             rows == IF Expired(o) THEN [fetched[s] EXCEPT ![o] = orders[o]] ELSE fetched[s]
  <1>1. /\ pc[s] = "order" /\ ordLock[o] = None
        /\ ordLock' = IF Expired(o) THEN [ordLock EXCEPT ![o] = s] ELSE ordLock
        /\ fetched' = [fetched EXCEPT ![s] = rows]
        /\ todo' = [todo EXCEPT ![s] =
                      IF rest = {} THEN {x \in OrderIds : rows[x] # NoRow} ELSE rest]
        /\ pc' = [pc EXCEPT ![s] = IF rest = {} THEN "product" ELSE "order"]
        /\ UNCHANGED <<orders, products, prodLock, req, inst, saved>>
    BY DEF SweepLockOrder, OrderFree, tables, workerVars
  <1>2. SweepInv(s) /\ saved[s] = {}
    BY <1>1 DEF LockInv, SweepInv
  <1>3. /\ fetched'[s] = rows
        /\ pc'[s] = IF rest = {} THEN "product" ELSE "order"
        /\ todo'[s] = IF rest = {} THEN {x \in OrderIds : rows[x] # NoRow} ELSE rest
    BY <1>1 DEF TypeOK, Procs
  <1>4. ASSUME NEW x \in OrderIds, rows[x] # NoRow
        PROVE  ordLock'[x] = s /\ IsReserved(x) /\ rows[x] = orders[x]
    <2>1. CASE x = o /\ Expired(o)
      BY <1>1, <1>4, <2>1 DEF TypeOK, Expired
    <2>2. CASE ~(x = o /\ Expired(o))
      <3>1. rows[x] = fetched[s][x] /\ ordLock'[x] = ordLock[x]
        BY <1>1, <2>2 DEF TypeOK
      <3>2. QED
        BY <1>2, <1>4, <3>1 DEF SweepInv
    <2>3. QED
      BY <2>1, <2>2
  <1>5. SweepInv(s)'
    BY <1>1, <1>2, <1>3, <1>4 DEF SweepInv, IsReserved, Exists
  <1>6. /\ \A x \in OrderIds : ordLock'[x] = ordLock[x] \/ ordLock[x] = None \/ ordLock[x] = s
        /\ \A x \in Procs : x # s => pc'[x] = pc[x]
        /\ \A x \in Sweeps : x # s => SameSweep(x)
    BY <1>1 DEF TypeOK, SameSweep, Procs
  <1>7. QED
    BY <1>1, <1>5, <1>6, SweepTakes

LEMMA SweepSaveLock ==
  ASSUME TypeOK, LockInv, NEW s \in Sweeps, NEW o \in OrderIds,
         SweepSave(s, o) \/ SweepError(s, o)
  PROVE  LockInv'
  <1> DEFINE p == fetched[s][o].product
  <1>1. /\ pc[s] = "product" /\ o \in todo[s]
        /\ todo' = [todo EXCEPT ![s] = @ \ {o}]
        /\ UNCHANGED <<orders, products, ordLock, pc, req, inst, fetched>>
    BY DEF SweepSave, SweepError, tables, workerVars
  <1>2. SweepInv(s) /\ fetched[s][o] # NoRow
    BY <1>1 DEF LockInv, SweepInv
  <1>3. p \in Products
    BY <1>2 DEF TypeOK, OrderRow
  <1>4. \/ prodLock' = prodLock /\ saved' = saved
        \/ /\ prodLock[p] \in {None, s}
           /\ prodLock' = [prodLock EXCEPT ![p] = s]
           /\ saved' = [saved EXCEPT ![s] = @ \cup {o}]
    BY DEF SweepSave, SweepError, ProductFree
  <1>5. /\ \A x \in Products : prodLock'[x] = prodLock[x] \/ prodLock[x] \in {None, s}
        /\ \A x \in Products : prodLock[x] = s => prodLock'[x] = s
        /\ \A x \in saved'[s] : x \in saved[s] \/ (x = o /\ prodLock'[p] = s)
    BY <1>3, <1>4 DEF TypeOK
  <1>6. /\ todo'[s] \subseteq todo[s]
        /\ \A x \in Sweeps : x # s => SameSweep(x)
    BY <1>1, <1>4 DEF TypeOK, SameSweep
  <1>7. SweepInv(s)'
    <2>1. ASSUME NEW x \in saved'[s]
          PROVE  fetched[s][x] # NoRow /\ prodLock'[fetched[s][x].product] = s
      <3>1. CASE x \in saved[s]
        <4>1. fetched[s][x] # NoRow /\ prodLock[fetched[s][x].product] = s
          BY <1>2, <3>1 DEF SweepInv
        <4>2. fetched[s][x].product \in Products
          BY <3>1, <4>1 DEF TypeOK, OrderRow
        <4>3. QED
          BY <1>5, <4>1, <4>2
      <3>2. CASE x = o /\ prodLock'[p] = s
        BY <1>2, <3>2
      <3>3. QED
        BY <1>5, <3>1, <3>2
    <2>2. /\ pc' = pc /\ fetched' = fetched /\ orders' = orders /\ ordLock' = ordLock
      BY <1>1
    <2>3. QED
      BY <1>1, <1>2, <1>6, <2>1, <2>2 DEF SweepInv, IsReserved, Exists
  <1>8. QED
    BY <1>1, <1>5, <1>6, <1>7, SweepTakes

\* What a sweep about to commit will write.
LEMMA SweptFacts ==
  ASSUME TypeOK, LockInv, NEW s \in Sweeps, NEW o \in saved[s]
  PROVE  /\ o \in OrderIds /\ fetched[s][o] \in OrderRow
         /\ IsReserved(o) /\ fetched[s][o] = orders[o]
         /\ ordLock[o] = s /\ prodLock[orders[o].product] = s
  BY DEF TypeOK, LockInv, SweepInv

LEMMA SweepCommitLock ==
  ASSUME TypeOK, LockInv, NEW s \in Sweeps, SweepCommit(s)
  PROVE  LockInv'
  <1>1. EndSweep(s)
    BY DEF SweepCommit
  <1>2. SweepInv(s)'
    BY <1>1, EndSweepInv
  <1>3. ASSUME NEW o \in OrderIds
        PROVE  /\ o \notin saved[s] => orders'[o] = orders[o]
               /\ o \in saved[s] => orders'[o] \in OrderRow
    <2>1. CASE o \in saved[s]
      <3>1. orders'[o] = [fetched[s][o] EXCEPT !.status = "CANCELLED"]
        BY <2>1 DEF SweepCommit
      <3>2. fetched[s][o] \in OrderRow
        BY <2>1, SweptFacts
      <3>3. [fetched[s][o] EXCEPT !.status = "CANCELLED"] \in OrderRow
        BY <3>2, WithOrderStatus DEF OrderStatus
      <3>4. QED
        BY <2>1, <3>1, <3>3
    <2>2. CASE o \notin saved[s]
      BY <2>2 DEF SweepCommit
    <2>3. QED
      BY <2>1, <2>2
  <1>4. RowsStay
    BY <1>3, NullAssumption DEF RowsStay
  <1>5. ASSUME NEW p \in Products, prodLock[p] # s PROVE products'[p] = products[p]
    <2>1. ~ \E o \in saved[s] : fetched[s][o].product = p
      BY <1>5, SweptFacts
    <2>2. products'[p] = [products[p] EXCEPT !.status = products[p].status]
      BY <2>1 DEF SweepCommit, SweptProductStatus
    <2>3. products[p] \in ProductRow
      BY DEF TypeOK
    <2>4. QED
      BY <2>2, <2>3 DEF ProductRow
  <1>6. ASSUME NEW x \in Procs, x # s PROVE Untouched(x)
    <2>1. /\ \A y \in OrderIds : ordLock[y] = x => ordLock'[y] = x
          /\ \A y \in Products : prodLock[y] = x => prodLock'[y] = x
      BY <1>1, <1>6 DEF EndSweep, ReleaseLocks, TypeOK
    <2>2. \A o \in OrderIds : ordLock[o] = x => o \notin saved[s]
      BY <1>6, SweptFacts
    <2>3. QED
      BY <1>3, <1>5, <1>6, <2>1, <2>2 DEF Untouched
  <1>7. ASSUME NEW x \in Workers PROVE SameWorker(x) /\ IdFree(x)
    <2>1. WorkerInv(x) /\ req' = req
      BY <1>1, EndSweepFrame DEF LockInv
    <2>2. ASSUME req[x] # NoReq, req[x].op = "create"
          PROVE  orders'[req[x].order] = orders[req[x].order]
      <3>1. req[x].order \in OrderIds /\ ~Exists(req[x].order)
        BY <2>1, <2>2 DEF WorkerInv, CreateInv, TypeOK, Request
      <3>2. req[x].order \notin saved[s]
        BY <3>1, SweptFacts DEF IsReserved
      <3>3. QED
        BY <1>3, <3>1, <3>2
    <2>3. IdFree(x)
      BY <2>1, <2>2, IdFrame
    <2>4. QED
      BY <1>1, <2>3, EndSweepFrame
  <1>8. \A x \in Sweeps : x # s => SameSweep(x)
    BY <1>1, EndSweepFrame
  <1>9. QED
    BY <1>2, <1>4, <1>6, <1>7, <1>8, SweepMoves

LEMMA CatalogueWriteLock ==
  ASSUME TypeOK, LockInv, NEW p \in Products, CatalogueWrite(p)
  PROVE  LockInv'
  <1>1. /\ ProductFree(p)
        /\ \A x \in Products : x # p => products'[x] = products[x]
        /\ UNCHANGED <<orders, ordLock, prodLock, pc, req, inst, todo, fetched, saved>>
    BY DEF CatalogueWrite, TypeOK, workerVars, sweepVars
  <1>2. RowsStay
    BY <1>1 DEF RowsStay
  <1>3. ASSUME NEW x \in Procs PROVE Untouched(x)
    BY <1>1, NullAssumption DEF Untouched, ProductFree
  <1>4. ASSUME NEW x \in Workers PROVE WorkerInv(x)'
    <2>1. WorkerInv(x) /\ SameWorker(x) /\ Untouched(x)
      BY <1>1, <1>3 DEF LockInv, SameWorker, Procs
    <2>2. IdFree(x)
      BY <1>1, <2>1, IdFrame
    <2>3. QED
      BY <1>2, <2>1, <2>2, WorkerFrame
  <1>5. ASSUME NEW s \in Sweeps PROVE SweepInv(s)'
    BY <1>1, <1>3, SweepFrame DEF LockInv, SameSweep, Procs
  <1>6. QED
    BY <1>4, <1>5 DEF LockInv

\* LockInv does not mention the clock.
LEMMA OnlyClock ==
  ASSUME LockInv,
         UNCHANGED <<orders, products, ordLock, prodLock, pc, req, inst, todo, fetched, saved>>
  PROVE  LockInv'
  BY DEF LockInv, WorkerInv, CreateInv, UpdateInv, CommitInv, StockRecheck, SweepInv, IsReserved,
         Exists

LEMMA LockStep == IInv /\ [Next]_vars => LockInv'
  <1> SUFFICES ASSUME TypeOK, LockInv, [Next]_vars PROVE LockInv'
    BY DEF IInv
  <1>1. ASSUME NEW w \in Workers, RequestArrives(w) PROVE LockInv'
    BY <1>1, CreateCheckLock, ArriveLock DEF RequestArrives
  <1>2. ASSUME NEW w \in Workers, ProductMissing(w) PROVE LockInv'
    BY <1>2, RespondLock DEF ProductMissing
  <1>3. ASSUME NEW w \in Workers, WorkerStep(w) PROVE LockInv'
    BY <1>2, <1>3, CreateValidateLock, LockOrderLock, LockProductLock, CommitLock DEF WorkerStep
  <1>4. ASSUME NEW s \in Sweeps, SweepStep(s) PROVE LockInv'
    BY <1>4, SweepSelectLock, SweepLockOrderLock, SweepSaveLock, SweepCommitLock DEF SweepStep
  <1>5. ASSUME NEW o \in OrderIds, Tick(o) PROVE LockInv'
    BY <1>5, OnlyClock DEF Tick, workerVars, sweepVars
  <1>6. ASSUME NEW a \in Procs, Kill(a) PROVE LockInv'
    BY <1>6, RespondLock, EndSweepLock DEF Kill
  <1>7. CASE UNCHANGED vars
    BY <1>7, OnlyClock DEF vars
  <1>8. QED
    BY <1>1, <1>3, <1>4, <1>5, <1>6, <1>7, CatalogueWriteLock DEF Next, OrdersNext

-----------------------------------------------------------------------------
(* Theorems.                                                                *)

LEMMA Invariance == Spec => []IInv
  <1>1. IInv /\ [Next]_vars => IInv'
    BY TypeStep, LockStep DEF IInv
  <1>2. QED
    BY InitIInv, <1>1, PTL DEF Spec

\* Every variable keeps its type: each row written by a save() is a complete row,
\* and the statuses stay within the choices of the two models.
THEOREM TypeCorrect == Spec => []TypeOK
  BY Invariance, PTL DEF IInv

\* The rows a request or a sweep has locked are, until its transaction ends, as
\* they were when its in-memory instances were made from them (views.py:79-94,
\* tasks.py:25-39, models.py:80-112).
THEOREM LocksProtect == Spec => []LockInv
  BY Invariance, PTL DEF IInv

-----------------------------------------------------------------------------
(* Refinement: every step is a step of module Reservation or a stutter.     *)

LEMMA CreateRefines ==
  ASSUME TypeOK, LockInv, NEW w \in Workers, Commit(w), req[w].op = "create"
  PROVE  Promise!Next
  <1> DEFINE o == req[w].order
             p == req[w].product
             u == req[w].user
             flag == inst[w].notified
  <1>1. pc[w] = "commit"
    BY DEF Commit
  <1>2. /\ req[w] \in Request /\ o \in OrderIds /\ p \in Products /\ inst[w] \in OrderRow
        /\ CreateInv(w) /\ CommitInv(w)
    BY <1>1, CommitFacts, ActiveRequest
  <1>3. /\ ~Exists(o) /\ products[p].stock /\ ~products[p].deleted
        /\ u # Owner[p] /\ u \in Users /\ flag \in BOOLEAN
    BY <1>1, <1>2 DEF CreateInv, CommitInv, StockRecheck, OrderRow, Request
  <1>4. inst[w] = [status |-> "RESERVED", client |-> u, product |-> p, notified |-> flag]
    BY <1>1, <1>2 DEF CreateInv, OrderRow
  <1>5. orders' = [orders EXCEPT ![o] = inst[w]]
    BY DEF Commit
  <1>6. products' = [products EXCEPT ![p].status = "RESERVED"]
    BY <1>3 DEF Commit, SavedProductStatus, Exists
  <1>7. Promise!Place(o, u, p, flag)
    BY <1>3, <1>4, <1>5, <1>6 DEF Promise!Place, Promise!Exists, Exists
  <1>8. QED
    BY <1>2, <1>3, <1>7 DEF Promise!Next

LEMMA UpdateRefines ==
  ASSUME TypeOK, LockInv, NEW w \in Workers, Commit(w), req[w].op # "create"
  PROVE  Promise!Next
  <1> DEFINE o == req[w].order
             p == req[w].product
  <1>1. pc[w] = "commit"
    BY DEF Commit
  <1>2. /\ req[w] \in Request /\ o \in OrderIds /\ p \in Products /\ UpdateInv(w)
    BY <1>1, CommitFacts, ActiveRequest
  <1>3. /\ IsReserved(o) /\ orders[o] \in OrderRow /\ orders[o].status = "RESERVED"
        /\ orders[o].product = p /\ inst[w] = Assigned(req[w].op, orders[o])
        /\ orders[o] # NoRow
    BY <1>1, <1>2 DEF UpdateInv, IsReserved, Exists, TypeOK
  <1>4. orders' = [orders EXCEPT ![o] = Assigned(req[w].op, orders[o])]
    BY <1>3 DEF Commit
  <1>5. products' = [products EXCEPT ![p].status =
                       SavedProductStatus(products[p].status, inst[w], orders[o])]
    BY DEF Commit
  <1>6. products[p] \in ProductRow /\ products \in [Products -> ProductRow]
    BY <1>2 DEF TypeOK
  <1>7. ASSUME NEW st \in {"PAID", "CANCELLED"},
               inst[w] = [orders[o] EXCEPT !.status = st]
        PROVE  Promise!Settle({o}, st)
    <2>1. inst[w].status = st
      BY <1>3, <1>7, WithOrderStatus DEF OrderStatus
    <2>2. SavedProductStatus(products[p].status, inst[w], orders[o]) = "AVAILABLE"
      BY <1>3, <2>1 DEF SavedProductStatus
    <2>3. products' = [x \in Products |->
                         IF \E y \in {o} : orders[y].product = x
                           THEN [products[x] EXCEPT !.status = "AVAILABLE"]
                           ELSE products[x]]
      BY <1>2, <1>3, <1>5, <1>6, <2>2
    <2>4. orders' = [x \in OrderIds |->
                       IF x \in {o} THEN [orders[x] EXCEPT !.status = st] ELSE orders[x]]
      BY <1>2, <1>3, <1>4, <1>7 DEF TypeOK
    <2>5. \A x \in {o} : Promise!IsReserved(x)
      BY <1>3 DEF Promise!IsReserved, Promise!Exists
    <2>6. QED
      BY <2>3, <2>4, <2>5 DEF Promise!Settle
  <1>8. CASE req[w].op = "pay"
    <2>1. inst[w] = [orders[o] EXCEPT !.status = "PAID"]
      BY <1>3, <1>8 DEF Assigned
    <2>2. QED
      BY <1>2, <1>7, <2>1 DEF Promise!Next, Promise!Pay
  <1>9. CASE req[w].op = "cancel"
    <2>1. inst[w] = [orders[o] EXCEPT !.status = "CANCELLED"]
      BY <1>3, <1>9 DEF Assigned
    <2>2. Promise!Cancel({o}) /\ {o} \in SUBSET OrderIds
      BY <1>2, <1>7, <2>1 DEF Promise!Cancel
    <2>3. QED
      BY <2>2 DEF Promise!Next
  <1>10. CASE req[w].op = "notify"
    <2>1. inst[w] = [orders[o] EXCEPT !.notified = TRUE]
      BY <1>3, <1>10 DEF Assigned
    <2>2. inst[w].status = "RESERVED"
      BY <1>3, <2>1 DEF OrderRow
    <2>3. SavedProductStatus(products[p].status, inst[w], orders[o]) = products[p].status
      BY <1>3, <2>2 DEF SavedProductStatus
    <2>4. [products[p] EXCEPT !.status = products[p].status] = products[p]
      BY <1>6 DEF ProductRow
    <2>5. products' = products
      BY <1>2, <1>5, <1>6, <2>3, <2>4
    <2>6. orders' = [orders EXCEPT ![o].notified = TRUE]
      BY <1>3, <1>4, <2>1
    <2>7. Promise!NotifyPayment(o)
      BY <1>3, <2>5, <2>6 DEF Promise!NotifyPayment, Promise!IsReserved, Promise!Exists
    <2>8. QED
      BY <1>2, <2>7 DEF Promise!Next
  <1>11. QED
    BY <1>2, <1>8, <1>9, <1>10 DEF Request

LEMMA SweepRefines ==
  ASSUME TypeOK, LockInv, NEW s \in Sweeps, SweepCommit(s)
  PROVE  Promise!Next
  <1> DEFINE S == saved[s]
  <1>1. S \in SUBSET OrderIds
    BY DEF TypeOK
  <1>2. \A o \in S : Promise!IsReserved(o)
    BY SweptFacts DEF IsReserved, Exists, Promise!IsReserved, Promise!Exists
  <1>3. orders' = [o \in OrderIds |->
                     IF o \in S THEN [orders[o] EXCEPT !.status = "CANCELLED"] ELSE orders[o]]
    BY SweptFacts DEF SweepCommit
  <1>4. ASSUME NEW p \in Products
        PROVE  [products[p] EXCEPT !.status = SweptProductStatus(s, p)] =
                 IF \E o \in S : orders[o].product = p
                   THEN [products[p] EXCEPT !.status = "AVAILABLE"] ELSE products[p]
    <2>1. (\E o \in S : fetched[s][o].product = p) <=> (\E o \in S : orders[o].product = p)
      BY SweptFacts
    <2>2. [products[p] EXCEPT !.status = products[p].status] = products[p]
      BY DEF TypeOK, ProductRow
    <2>3. QED
      BY <2>1, <2>2 DEF SweptProductStatus
  <1>5. products' = [p \in Products |->
                       IF \E o \in S : orders[o].product = p
                         THEN [products[p] EXCEPT !.status = "AVAILABLE"] ELSE products[p]]
    BY <1>4 DEF SweepCommit
  <1>6. Promise!Cancel(S)
    BY <1>2, <1>3, <1>5 DEF Promise!Cancel, Promise!Settle
  <1>7. QED
    BY <1>1, <1>6 DEF Promise!Next

LEMMA StepRefines == IInv /\ [Next]_vars => [Promise!Next]_(Promise!vars)
  <1> SUFFICES ASSUME TypeOK, LockInv, [Next]_vars PROVE Promise!Next \/ UNCHANGED <<orders, products>>
    BY DEF IInv, Promise!vars
  <1>1. ASSUME NEW w \in Workers, RequestArrives(w) \/ WorkerStep(w)
        PROVE  Promise!Next \/ UNCHANGED <<orders, products>>
    BY <1>1, CreateRefines, UpdateRefines
       DEF RequestArrives, WorkerStep, CreateCheck, Arrive, CreateValidate, LockOrder,
           ProductMissing, LockProduct, tables
  <1>2. ASSUME NEW s \in Sweeps, SweepStep(s)
        PROVE  Promise!Next \/ UNCHANGED <<orders, products>>
    BY <1>2, SweepRefines DEF SweepStep, SweepSelect, SweepLockOrder, SweepSave, SweepError, tables
  <1>3. ASSUME NEW p \in Products, CatalogueWrite(p)
        PROVE  Promise!Next
    <2>1. PICK st \in CatalogueStatus \cup {products[p].status}, stock \in BOOLEAN,
               deleted \in BOOLEAN :
            products' = [products EXCEPT
                           ![p] = [status |-> st, stock |-> stock, deleted |-> deleted]]
      BY <1>3 DEF CatalogueWrite
    <2>2. [status |-> st, stock |-> stock, deleted |-> deleted] \in Promise!ProductRow
      BY StatusAssumption DEF Promise!ProductRow, TypeOK, ProductRow
    <2>3. QED
      BY <1>3, <2>1, <2>2 DEF CatalogueWrite, Promise!Next, Promise!EditCatalogue
  <1>4. QED
    BY <1>1, <1>2, <1>3 DEF Next, OrdersNext, Tick, Kill, vars, tables

\* Whatever the interleaving of requests, sweeps, kills and catalogue edits, the
\* committed rows evolve as module Reservation says: the orders app implements
\* the atomic lifecycle (views.py:39-147, models.py:64-112, tasks.py:15-41).
THEOREM Refinement == Spec => Implements
  <1>1. Init => Promise!Init
    BY DEF Init, Promise!Init
  <1>2. QED
    BY <1>1, Invariance, StepRefines, PTL DEF Spec, Implements, Promise!Spec

-----------------------------------------------------------------------------
(* Safety: consequences of the refinement.                                  *)

\* No step of the lifecycle moves an order out of PAID or CANCELLED, drops its
\* payment flag, or reserves what is out of stock or deleted.
LEMMA LifecycleStep ==
  ASSUME TypeOK, Promise!Next \/ UNCHANGED <<orders, products>>, NEW o \in OrderIds
  PROVE  /\ Exists(o) /\ orders[o].status # "RESERVED" => orders'[o].status = orders[o].status
         /\ Exists(o) /\ orders[o].notified => orders'[o].notified
         /\ ~Exists(o) /\ orders'[o] # NoRow
              => LET p == orders'[o].product IN products[p].stock /\ ~products[p].deleted
  <1> USE DEF Exists, Promise!Exists, Promise!IsReserved
  <1>1. Exists(o) => orders[o] \in OrderRow
    BY DEF TypeOK
  <1>2. CASE UNCHANGED <<orders, products>>
    BY <1>2
  <1>3. ASSUME NEW x \in OrderIds, NEW u \in Users, NEW p \in Products, NEW flag \in BOOLEAN,
               Promise!Place(x, u, p, flag)
        PROVE  /\ x # o => orders'[o] = orders[o]
               /\ x = o => ~Exists(o) /\ orders'[o].product = p /\ products[p].stock
                           /\ ~products[p].deleted
    BY <1>3 DEF Promise!Place, TypeOK
  <1>4. ASSUME NEW x \in OrderIds, Promise!NotifyPayment(x)
        PROVE  /\ x # o => orders'[o] = orders[o]
               /\ x = o => Exists(o) /\ orders'[o] = [orders[o] EXCEPT !.notified = TRUE]
    BY <1>4 DEF Promise!NotifyPayment, TypeOK
  <1>5. ASSUME NEW S \in SUBSET OrderIds, NEW st, Promise!Settle(S, st)
        PROVE  /\ o \notin S => orders'[o] = orders[o]
               /\ o \in S => Exists(o) /\ orders[o].status = "RESERVED"
                             /\ orders'[o] = [orders[o] EXCEPT !.status = st]
    BY <1>5 DEF Promise!Settle
  <1>6. ASSUME NEW p \in Products, NEW r \in Promise!ProductRow, Promise!EditCatalogue(p, r)
        PROVE  orders'[o] = orders[o]
    BY <1>6 DEF Promise!EditCatalogue
  <1>7. CASE orders'[o] = orders[o]
    BY <1>7
  <1>8. CASE Exists(o) /\ orders'[o] = [orders[o] EXCEPT !.notified = TRUE]
    <2>1. orders'[o].status = orders[o].status /\ orders'[o].notified = TRUE
      BY <1>1, <1>8 DEF OrderRow
    <2>2. QED
      BY <1>8, <2>1
  <1>9. ASSUME NEW st, Exists(o), orders[o].status = "RESERVED",
               orders'[o] = [orders[o] EXCEPT !.status = st]
        PROVE  orders'[o].notified = orders[o].notified
    BY <1>1, <1>9 DEF OrderRow
  <1>10. ASSUME NEW x \in OrderIds, Promise!Pay(x)
         PROVE  \/ orders'[o] = orders[o]
                \/ /\ Exists(o) /\ orders[o].status = "RESERVED"
                   /\ orders'[o].notified = orders[o].notified
    BY <1>5, <1>9, <1>10 DEF Promise!Pay
  <1>11. ASSUME NEW S \in SUBSET OrderIds, Promise!Cancel(S)
         PROVE  \/ orders'[o] = orders[o]
                \/ /\ Exists(o) /\ orders[o].status = "RESERVED"
                   /\ orders'[o].notified = orders[o].notified
    BY <1>5, <1>9, <1>11 DEF Promise!Cancel
  <1>12. QED
    BY <1>2, <1>3, <1>4, <1>6, <1>7, <1>8, <1>10, <1>11 DEF Promise!Next

\* Payment, cancellation and expiry of the same order exclude each other for
\* ever, however many requests and sweeps race for it (views.py:79-90, 129-139,
\* tasks.py:25-36).
THEOREM SettledForever == Spec => SettledIsFinal
  <1>1. IInv /\ [Next]_vars =>
          [\A o \in OrderIds : Exists(o) /\ orders[o].status # "RESERVED"
              => orders'[o].status = orders[o].status]_vars
    BY StepRefines, LifecycleStep DEF IInv, Promise!vars
  <1>2. QED
    BY <1>1, Invariance, PTL DEF Spec, SettledIsFinal

\* No save of a stale instance erases the client's payment notice (views.py:104-119).
THEOREM NotificationNeverLost == Spec => NotificationKept
  <1>1. IInv /\ [Next]_vars =>
          [\A o \in OrderIds : Exists(o) /\ orders[o].notified => orders'[o].notified]_vars
    BY StepRefines, LifecycleStep DEF IInv, Promise!vars
  <1>2. QED
    BY <1>1, Invariance, PTL DEF Spec, NotificationKept

\* The second stock check of Order.save, under the lock, closes the window left
\* by the serializer's (serializers.py:35, models.py:82-89).
THEOREM OnlyStockReserved == Spec => ReservedInStock
  <1>1. IInv /\ [Next]_vars =>
          [\A o \in OrderIds : ~Exists(o) /\ orders'[o] # NoRow
              => LET p == orders'[o].product IN products[p].stock /\ ~products[p].deleted]_vars
    BY StepRefines, LifecycleStep DEF IInv, Promise!vars
  <1>2. QED
    BY <1>1, Invariance, PTL DEF Spec, ReservedInStock

-----------------------------------------------------------------------------
(* What is RESERVED is reserved for somebody, unless an edit says so.        *)

ReservedFor(o, p) == IsReserved(o) /\ orders[o].product = p

LEMMA CommitCreateReserved ==
  ASSUME TypeOK, LockInv, NEW q \in Products, Held(q),
         NEW w \in Workers, Commit(w), req[w].op = "create"
  PROVE  Held(q)'
  <1> DEFINE o == req[w].order
             p == req[w].product
  <1>1. pc[w] = "commit"
    BY DEF Commit
  <1>2. /\ req[w] \in Request /\ o \in OrderIds /\ p \in Products /\ inst[w] \in OrderRow
        /\ CreateInv(w)
    BY <1>1, CommitFacts, ActiveRequest
  <1>3. ~Exists(o) /\ inst[w].status = "RESERVED" /\ inst[w].product = p
    BY <1>1, <1>2 DEF CreateInv
  <1>4. orders' = [orders EXCEPT ![o] = inst[w]]
    BY DEF Commit
  <1>5. \A r \in Products : r # p => products'[r] = products[r]
    BY DEF Commit, TypeOK
  <1>6. orders'[o] # NoRow /\ orders'[o].status = "RESERVED" /\ orders'[o].product = p
    BY <1>2, <1>3, <1>4, NullAssumption DEF TypeOK
  <1>7. ASSUME NEW x \in OrderIds, NEW r \in Products, ReservedFor(x, r)
        PROVE  ReservedFor(x, r)'
    BY <1>2, <1>3, <1>4, <1>7 DEF ReservedFor, IsReserved, Exists, TypeOK
  <1>8. QED
    BY <1>2, <1>5, <1>6, <1>7 DEF Held, ReservedFor, IsReserved, Exists

LEMMA CommitUpdateReserved ==
  ASSUME TypeOK, LockInv, NEW q \in Products, Held(q),
         NEW w \in Workers, Commit(w), req[w].op # "create"
  PROVE  Held(q)'
  <1> DEFINE o == req[w].order
             p == req[w].product
  <1>1. pc[w] = "commit"
    BY DEF Commit
  <1>2. /\ req[w] \in Request /\ o \in OrderIds /\ p \in Products /\ UpdateInv(w)
        /\ inst[w] \in OrderRow
    BY <1>1, CommitFacts, ActiveRequest
  <1>3. /\ orders[o] # NoRow /\ orders[o] \in OrderRow /\ orders[o].status = "RESERVED"
        /\ orders[o].product = p /\ inst[w] = Assigned(req[w].op, orders[o])
    BY <1>1, <1>2 DEF UpdateInv, IsReserved, Exists, TypeOK
  <1>4. orders' = [orders EXCEPT ![o] = inst[w]]
    BY DEF Commit
  <1>5. products' = [products EXCEPT ![p].status =
                       SavedProductStatus(products[p].status, inst[w], orders[o])]
    BY DEF Commit
  <1>6. products[p] \in ProductRow /\ products \in [Products -> ProductRow]
    BY <1>2 DEF TypeOK
  <1>7. ASSUME NEW x \in OrderIds, NEW r \in Products, r # p, ReservedFor(x, r)
        PROVE  ReservedFor(x, r)'
    BY <1>2, <1>3, <1>4, <1>7 DEF ReservedFor, IsReserved, Exists, TypeOK
  <1>8. products'[p].status = "RESERVED" =>
          orders'[o] # NoRow /\ orders'[o].status = "RESERVED" /\ orders'[o].product = p
    <2>1. CASE inst[w].status = "RESERVED"
      <3>1. inst[w].product = p
        BY <1>3, AssignedRow
      <3>2. QED
        BY <1>2, <1>4, <2>1, <3>1, NullAssumption DEF TypeOK
    <2>2. CASE inst[w].status # "RESERVED"
      <3>1. inst[w].status \in {"PAID", "CANCELLED"} \ {orders[o].status}
        BY <1>2, <1>3, <2>2 DEF OrderRow, OrderStatus
      <3>2. SavedProductStatus(products[p].status, inst[w], orders[o]) = "AVAILABLE"
        BY <1>3, <3>1 DEF SavedProductStatus
      <3>3. products'[p].status = "AVAILABLE"
        BY <1>2, <1>5, <1>6, <3>2 DEF ProductRow
      <3>4. QED
        BY <3>3
    <2>3. QED
      BY <2>1, <2>2
  <1>9. \A r \in Products : r # p => products'[r] = products[r]
    BY <1>5, <1>6
  <1>10. QED
    BY <1>2, <1>7, <1>8, <1>9 DEF Held, ReservedFor, IsReserved, Exists

LEMMA SweepCommitReserved ==
  ASSUME TypeOK, LockInv, NEW p \in Products, Held(p),
         NEW s \in Sweeps, SweepCommit(s)
  PROVE  Held(p)'
  <1>1. ASSUME products'[p].status = "RESERVED"
        PROVE  \E o \in OrderIds : ReservedFor(o, p)'
    <2>1. products'[p] = [products[p] EXCEPT !.status = SweptProductStatus(s, p)]
      BY DEF SweepCommit
    <2>2. SweptProductStatus(s, p) = "RESERVED"
      BY <1>1, <2>1 DEF TypeOK, ProductRow
    <2>3. products[p].status = "RESERVED" /\ \A o \in saved[s] : fetched[s][o].product # p
      BY <2>2 DEF SweptProductStatus
    <2>4. PICK o \in OrderIds : ReservedFor(o, p)
      BY <2>3 DEF Held, ReservedFor
    <2>5. o \notin saved[s]
      BY <2>3, <2>4, SweptFacts DEF ReservedFor
    <2>6. orders'[o] = orders[o]
      BY <2>5 DEF SweepCommit
    <2>7. QED
      BY <2>4, <2>6 DEF ReservedFor, IsReserved, Exists
  <1>2. QED
    BY <1>1 DEF Held, ReservedFor

\* A step of the orders app that changes rows leaves a held product held.
LEMMA HeldStep ==
  ASSUME TypeOK, LockInv, NEW p \in Products, Held(p), OrdersNext
  PROVE  Held(p)'
  <1>1. CASE UNCHANGED <<orders, products>>
    BY <1>1 DEF Held, IsReserved, Exists
  <1>2. ASSUME NEW w \in Workers, RequestArrives(w) \/ WorkerStep(w)
        PROVE  Held(p)' \/ UNCHANGED <<orders, products>>
    BY <1>2, CommitCreateReserved, CommitUpdateReserved
       DEF RequestArrives, WorkerStep, CreateCheck, Arrive, CreateValidate, LockOrder,
           ProductMissing, LockProduct, tables
  <1>3. ASSUME NEW s \in Sweeps, SweepStep(s)
        PROVE  Held(p)' \/ UNCHANGED <<orders, products>>
    BY <1>3, SweepCommitReserved
       DEF SweepStep, SweepSelect, SweepLockOrder, SweepSave, SweepError, tables
  <1>4. QED
    BY <1>1, <1>2, <1>3 DEF OrdersNext, Tick, Kill, tables

\* Edits may write any status.  What the orders app adds to that is never a
\* product RESERVED for nobody, however requests, sweeps, kills and edits
\* interleave (models.py:94-110).
THEOREM OrdersStrandNothing == Spec => OnlyEditsStrand
  <1>1. IInv /\ [Next]_vars =>
          [\A p \in Products :
             Held(p) /\ ~Held(p)' => products'[p] # products[p] /\ UNCHANGED <<orders, pc>>]_vars
    <2> SUFFICES ASSUME TypeOK, LockInv, [Next]_vars, NEW p \in Products, Held(p), ~Held(p)'
                 PROVE  products'[p] # products[p] /\ UNCHANGED <<orders, pc>>
      BY DEF IInv
    <2>1. PICK q \in Products : CatalogueWrite(q)
      <3>1. ~UNCHANGED vars
        BY DEF vars, Held, IsReserved, Exists
      <3>2. QED
        BY <3>1, HeldStep DEF Next
    <2>2. UNCHANGED <<orders, pc>>
      BY <2>1 DEF CatalogueWrite
    <2>3. products'[p] # products[p]
      BY <2>2 DEF Held, IsReserved, Exists
    <2>4. QED
      BY <2>2, <2>3
  <1>2. QED
    BY <1>1, Invariance, PTL DEF Spec, OnlyEditsStrand

-----------------------------------------------------------------------------
(* Who waits for whom.                                                      *)

\* Who holds a row lock has come as far as the lock.
WorkerHolds(w) ==
  /\ \A o \in OrderIds : ordLock[o] = w => pc[w] \in {"product", "commit"}
  /\ \A p \in Products : prodLock[p] = w => pc[w] = "commit"

SweepHolds(s) ==
  /\ \A o \in OrderIds : ordLock[o] = s => pc[s] \in {"order", "product"}
  /\ \A p \in Products : prodLock[p] = s => pc[s] = "product"

HoldInv ==
  /\ \A w \in Workers : WorkerHolds(w)
  /\ \A s \in Sweeps : SweepHolds(s)

\* Only process c moves: the others take no lock.
LEMMA HoldFrame ==
  ASSUME HoldInv, NEW c \in Procs,
         \A a \in Procs : a # c =>
           /\ pc'[a] = pc[a]
           /\ \A o \in OrderIds : ordLock'[o] = a => ordLock[o] = a
           /\ \A p \in Products : prodLock'[p] = a => prodLock[p] = a,
         c \in Workers => WorkerHolds(c)',
         c \in Sweeps => SweepHolds(c)'
  PROVE  HoldInv'
  BY ProcAssumption DEF HoldInv, WorkerHolds, SweepHolds, Procs

\* A process that ends its transaction has no lock left.
LEMMA ReleaseHold ==
  ASSUME TypeOK, HoldInv, NEW c \in Procs, ReleaseLocks(c), pc' = [pc EXCEPT ![c] = "idle"]
  PROVE  HoldInv'
  <1>1. \A a \in Procs : a # c =>
           /\ pc'[a] = pc[a]
           /\ \A o \in OrderIds : ordLock'[o] = a => ordLock[o] = a
           /\ \A p \in Products : prodLock'[p] = a => prodLock[p] = a
    BY NullAssumption DEF ReleaseLocks, TypeOK
  <1>2. (\A o \in OrderIds : ordLock'[o] # c) /\ \A p \in Products : prodLock'[p] # c
    BY NullAssumption DEF ReleaseLocks
  <1>3. QED
    BY <1>1, <1>2, HoldFrame DEF WorkerHolds, SweepHolds

LEMMA RespondHold ==
  ASSUME TypeOK, HoldInv, NEW w \in Workers, Respond(w)
  PROVE  HoldInv'
  BY ReleaseHold DEF Respond, Procs

LEMMA EndSweepHold ==
  ASSUME TypeOK, HoldInv, NEW s \in Sweeps, EndSweep(s)
  PROVE  HoldInv'
  BY ReleaseHold DEF EndSweep, Procs

LEMMA ArrivesHold ==
  ASSUME TypeOK, HoldInv, NEW w \in Workers, pc[w] = "idle", NEW to,
         pc' = [pc EXCEPT ![w] = to], UNCHANGED <<ordLock, prodLock>>
  PROVE  HoldInv'
  <1>1. (\A o \in OrderIds : ordLock[o] # w) /\ \A p \in Products : prodLock[p] # w
    BY DEF HoldInv, WorkerHolds
  <1>2. QED
    BY <1>1, ProcAssumption, HoldFrame DEF TypeOK, Procs, WorkerHolds

LEMMA CreateValidateHold ==
  ASSUME TypeOK, HoldInv, NEW w \in Workers, CreateValidate(w)
  PROVE  HoldInv'
  <1>1. CASE Respond(w)
    BY <1>1, RespondHold
  <1>2. CASE pc' = [pc EXCEPT ![w] = "product"] /\ UNCHANGED <<ordLock, prodLock>>
    <2>1. (\A o \in OrderIds : ordLock[o] # w) /\ \A p \in Products : prodLock[p] # w
      BY DEF HoldInv, WorkerHolds, CreateValidate
    <2>2. QED
      BY <1>2, <2>1, ProcAssumption, HoldFrame DEF TypeOK, Procs, WorkerHolds
  <1>3. QED
    BY <1>1, <1>2 DEF CreateValidate

LEMMA LockOrderHold ==
  ASSUME TypeOK, HoldInv, NEW w \in Workers, LockOrder(w)
  PROVE  HoldInv'
  <1>1. CASE Respond(w)
    BY <1>1, RespondHold
  <1>2. CASE /\ ordLock' = [ordLock EXCEPT ![req[w].order] = w]
             /\ pc' = [pc EXCEPT ![w] = "product"]
             /\ UNCHANGED prodLock
    <2>1. \A p \in Products : prodLock[p] # w
      BY DEF HoldInv, WorkerHolds, LockOrder
    <2>2. WorkerHolds(w)'
      BY <1>2, <2>1 DEF WorkerHolds, TypeOK, Procs
    <2>3. QED
      BY <1>2, <2>2, ProcAssumption, HoldFrame DEF TypeOK, Procs
  <1>3. QED
    BY <1>1, <1>2 DEF LockOrder

LEMMA LockProductHold ==
  ASSUME TypeOK, HoldInv, NEW w \in Workers, LockProduct(w)
  PROVE  HoldInv'
  <1>1. CASE Respond(w)
    BY <1>1, RespondHold
  <1>2. CASE /\ prodLock' = [prodLock EXCEPT ![req[w].product] = w]
             /\ pc' = [pc EXCEPT ![w] = "commit"]
             /\ UNCHANGED ordLock
    <2>1. WorkerHolds(w)'
      BY <1>2 DEF WorkerHolds, TypeOK, Procs
    <2>2. QED
      BY <1>2, <2>1, ProcAssumption, HoldFrame DEF TypeOK, Procs
  <1>3. QED
    BY <1>1, <1>2 DEF LockProduct

LEMMA SweepSelectHold ==
  ASSUME TypeOK, HoldInv, NEW s \in Sweeps, SweepSelect(s)
  PROVE  HoldInv'
  <1>1. (\A o \in OrderIds : ordLock[o] # s) /\ \A p \in Products : prodLock[p] # s
    BY DEF HoldInv, SweepHolds, SweepSelect
  <1>2. QED
    BY <1>1, ProcAssumption, HoldFrame DEF SweepSelect, TypeOK, Procs, SweepHolds

LEMMA SweepLockOrderHold ==
  ASSUME TypeOK, HoldInv, NEW s \in Sweeps, NEW o \in OrderIds, SweepLockOrder(s, o)
  PROVE  HoldInv'
  <1>1. /\ pc[s] = "order" /\ pc'[s] \in {"order", "product"}
        /\ \A a \in Procs : a # s => pc'[a] = pc[a]
        /\ \A x \in OrderIds : ordLock'[x] = ordLock[x] \/ ordLock'[x] = s
        /\ UNCHANGED prodLock
    BY DEF SweepLockOrder, TypeOK, Procs
  <1>2. \A p \in Products : prodLock[p] # s
    BY <1>1 DEF HoldInv, SweepHolds
  <1>3. SweepHolds(s)'
    BY <1>1, <1>2 DEF SweepHolds
  <1>4. QED
    BY <1>1, <1>3, ProcAssumption, HoldFrame DEF Procs

LEMMA SweepSaveHold ==
  ASSUME TypeOK, HoldInv, NEW s \in Sweeps, NEW o \in OrderIds,
         SweepSave(s, o) \/ SweepError(s, o)
  PROVE  HoldInv'
  <1>1. /\ pc[s] = "product" /\ UNCHANGED <<pc, ordLock>>
        /\ \A p \in Products : prodLock'[p] = prodLock[p] \/ prodLock'[p] = s
    BY DEF SweepSave, SweepError, TypeOK
  <1>2. SweepHolds(s)'
    BY <1>1 DEF SweepHolds
  <1>3. QED
    BY <1>1, <1>2, ProcAssumption, HoldFrame DEF Procs

LEMMA HoldStep == IInv /\ HoldInv /\ [Next]_vars => HoldInv'
  <1> SUFFICES ASSUME TypeOK, HoldInv, [Next]_vars PROVE HoldInv'
    BY DEF IInv
  <1>1. CASE UNCHANGED <<pc, ordLock, prodLock>>
    BY <1>1 DEF HoldInv, WorkerHolds, SweepHolds
  <1>2. ASSUME NEW w \in Workers, RequestArrives(w) PROVE HoldInv'
    BY <1>2, ArrivesHold DEF RequestArrives, CreateCheck, Arrive
  <1>3. ASSUME NEW w \in Workers, WorkerStep(w) PROVE HoldInv'
    BY <1>3, CreateValidateHold, LockOrderHold, LockProductHold, RespondHold
       DEF WorkerStep, ProductMissing, Commit
  <1>4. ASSUME NEW s \in Sweeps, SweepStep(s) PROVE HoldInv'
    BY <1>4, SweepSelectHold, SweepLockOrderHold, SweepSaveHold, EndSweepHold
       DEF SweepStep, SweepCommit
  <1>5. ASSUME NEW a \in Procs, Kill(a) PROVE HoldInv'
    BY <1>5, RespondHold, EndSweepHold DEF Kill
  <1>6. ASSUME NEW o \in OrderIds, Tick(o) PROVE UNCHANGED <<pc, ordLock, prodLock>>
    BY <1>6 DEF Tick
  <1>7. ASSUME NEW p \in Products, CatalogueWrite(p) PROVE UNCHANGED <<pc, ordLock, prodLock>>
    BY <1>7 DEF CatalogueWrite
  <1>8. QED
    BY <1>1, <1>2, <1>3, <1>4, <1>5, <1>6, <1>7 DEF Next, OrdersNext, vars

\* Who holds a product and waits is a sweep that is saving.
LEMMA WaitingHolder ==
  ASSUME HoldInv, NEW p \in Products, NEW a \in Procs, NEW b, prodLock[p] = a, WaitsFor(a, b)
  PROVE  a \in Sweeps /\ pc[a] = "product"
  BY ProcAssumption DEF HoldInv, WorkerHolds, SweepHolds, WaitsFor, Procs

\* A process that waits for a product waits for its holder.
LEMMA WaitsForProduct ==
  ASSUME TypeOK, LockInv, NEW a \in Procs, NEW b, WaitsFor(a, b), pc[a] = "product"
  PROVE  \E p \in Products : prodLock[p] = b
  <1>1. CASE a \in Workers
    <2>1. prodLock[req[a].product] = b
      BY <1>1, ProcAssumption DEF WaitsFor
    <2>2. req[a] \in Request /\ CreateInv(a) /\ UpdateInv(a)
      BY <1>1, ActiveRequest
    <2>3. req[a].product \in Products
      BY <2>2 DEF CreateInv, UpdateInv, Request, Exists, TypeOK, OrderRow
    <2>4. QED
      BY <2>1, <2>3
  <1>2. CASE a \in Sweeps
    <2>1. PICK o \in todo[a] : prodLock[fetched[a][o].product] = b
      BY <1>2, ProcAssumption DEF WaitsFor
    <2>2. fetched[a][o] \in OrderRow
      BY <1>2, <2>1 DEF LockInv, SweepInv, TypeOK
    <2>3. fetched[a][o].product \in Products
      BY <2>2 DEF OrderRow
    <2>4. QED
      BY <2>1, <2>3
  <1>3. QED
    BY <1>1, <1>2 DEF Procs

\* A process that waits for an order waits for its holder.
LEMMA WaitsForOrder ==
  ASSUME TypeOK, LockInv, NEW a \in Procs, NEW b, WaitsFor(a, b), pc[a] # "product"
  PROVE  pc[a] = "order" /\ \E o \in OrderIds : ordLock[o] = b
  <1>1. CASE a \in Workers
    <2>1. pc[a] = "order" /\ ordLock[req[a].order] = b
      BY <1>1, ProcAssumption DEF WaitsFor
    <2>2. req[a] \in Request
      BY <1>1, <2>1, ActiveRequest
    <2>3. req[a].order \in OrderIds
      BY <2>2 DEF Request
    <2>4. QED
      BY <2>1, <2>3
  <1>2. CASE a \in Sweeps
    BY <1>2, ProcAssumption DEF WaitsFor, TypeOK
  <1>3. QED
    BY <1>1, <1>2 DEF Procs

LEMMA SweepCircle ==
  ASSUME TypeOK, LockInv, HoldInv, NEW S \in SUBSET Procs, Deadlocked(S)
  PROVE  \E T \in SUBSET (S \cap Sweeps) : Deadlocked(T)
  <1>1. S # {} /\ \A a \in S : \E b \in S : WaitsFor(a, b)
    BY DEF Deadlocked
  \* Who waits for a product in S waits for a sweep of S that is saving.
  <1>2. ASSUME NEW a \in S, pc[a] = "product"
        PROVE  \E b \in S \cap Sweeps : pc[b] = "product" /\ WaitsFor(a, b)
    <2>1. PICK b \in S : WaitsFor(a, b)
      BY <1>1
    <2>2. PICK p \in Products : prodLock[p] = b
      BY <1>2, <2>1, WaitsForProduct
    <2>3. PICK c \in S : WaitsFor(b, c)
      BY <1>1
    <2>4. QED
      BY <2>1, <2>2, <2>3, WaitingHolder
  <1>3. CASE \E s \in S : pc[s] = "product"
    <2> DEFINE T == {s \in S \cap Sweeps : pc[s] = "product"}
    <2>1. T # {}
      BY <1>2, <1>3
    <2>2. \A a \in T : \E b \in T : WaitsFor(a, b)
      BY <1>2
    <2>3. QED
      BY <2>1, <2>2 DEF Deadlocked
  <1>4. CASE \A s \in S : pc[s] # "product"
    \* Workers that hold an order do not wait for another one.
    <2>1. ASSUME NEW a \in S PROVE \E b \in S \cap Sweeps : WaitsFor(a, b)
      <3>1. PICK b \in S : WaitsFor(a, b)
        BY <1>1
      <3>2. PICK o \in OrderIds : ordLock[o] = b
        BY <1>4, <3>1, WaitsForOrder
      <3>3. PICK c \in S : WaitsFor(b, c)
        BY <1>1
      <3>4. pc[b] = "order"
        BY <1>4, <3>3, WaitsForOrder
      <3>5. b \notin Workers
        BY <3>2, <3>4 DEF HoldInv, WorkerHolds
      <3>6. QED
        BY <3>1, <3>5 DEF Procs
    <2>2. S \cap Sweeps # {}
      BY <1>1, <2>1
    <2>3. QED
      BY <2>1, <2>2 DEF Deadlocked
  <1>5. QED
    BY <1>3, <1>4

\* In every circle of waiting transactions there is a circle of sweeps: requests
\* lock their order before its product, and so does a sweep, which locks all of its
\* orders first (models.py:82, 100, tasks.py:25).
THEOREM SweepsCloseCircles == Spec => []OnlySweepsDeadlock
  <1>1. Init => HoldInv
    BY NullAssumption DEF Init, HoldInv, WorkerHolds, SweepHolds, Procs
  <1>2. IInv /\ HoldInv => OnlySweepsDeadlock
    BY SweepCircle DEF IInv, OnlySweepsDeadlock
  <1>3. QED
    BY <1>1, <1>2, HoldStep, Invariance, PTL DEF Spec

-----------------------------------------------------------------------------
(* The products app next to the orders app: every one of its requests is a  *)
(* committed write of an unlocked product row, so the theorems hold of the  *)
(* two apps together.                                                       *)

\* An edit saves the status that it read, which may be any.
AnyStatusIsSaved == CatalogueStatus = ProductStatus

\* A request under way has its parameters and its instance in memory.
EditorInv ==
  \A e \in Editors : stage[e] # "idle" => edit[e] \in EditRequest /\ fetchedP[e] \in ProductRow

SInv == IInv /\ ShopTypeOK /\ EditorInv

LEMMA InitSInv == ShopInit => SInv
  <1> SUFFICES ASSUME ShopInit PROVE SInv
    OBVIOUS
  <1>1. IInv
    BY InitIInv DEF ShopInit
  <1>2. ShopTypeOK
    BY <1>1 DEF IInv, ShopInit, ShopTypeOK
  <1>3. EditorInv
    BY DEF ShopInit, EditorInv
  <1>4. QED
    BY <1>1, <1>2, <1>3 DEF SInv

\* Whatever is saved, a product row is saved.
LEMMA SavedRow ==
  ASSUME NEW op, NEW old \in ProductRow, NEW row \in ProductRow,
         NEW change \in Changes \cup {NoChange}
  PROVE  Saved(op, old, row, change) \in ProductRow
  <1>1. /\ change.status \in ProductStatus \cup {None}
        /\ change.stock \in BOOLEAN \cup {None}
        /\ change.deleted \in BOOLEAN \cup {None}
    BY ChangeAssumption DEF NoChange
  <1>2. Edited(row, change) \in ProductRow
    BY <1>1 DEF Edited, ProductRow
  <1>3. QED
    BY <1>2 DEF Saved, ProductRow

\* A row written while nobody holds its lock is a write of the catalogue.
LEMMA UnlockedWrite ==
  ASSUME AnyStatusIsSaved, TypeOK, NEW p \in Products, NEW r \in ProductRow,
         ProductFree(p), products' = [products EXCEPT ![p] = r],
         UNCHANGED <<orders, age, ordLock, prodLock, pc, workerVars, sweepVars>>
  PROVE  CatalogueWrite(p)
  <1>1. /\ r.status \in CatalogueStatus
        /\ r.stock \in BOOLEAN /\ r.deleted \in BOOLEAN
        /\ r = [status |-> r.status, stock |-> r.stock, deleted |-> r.deleted]
    BY DEF AnyStatusIsSaved, ProductRow
  <1>2. QED
    BY <1>1 DEF CatalogueWrite

LEMMA WriteRefines ==
  ASSUME AnyStatusIsSaved, SInv, NEW e \in Editors, Write(e)
  PROVE  Next
  <1> DEFINE p == edit[e].product
             r == Saved(edit[e].op, products[p], fetchedP[e], edit[e].change)
  <1>1. edit[e] \in EditRequest /\ fetchedP[e] \in ProductRow
    BY DEF SInv, EditorInv, Write
  <1>2. p \in Products /\ edit[e].change \in Changes \cup {NoChange}
    BY <1>1 DEF EditRequest
  <1>3. TypeOK /\ products[p] \in ProductRow
    BY <1>2 DEF SInv, IInv, TypeOK
  <1>4. r \in ProductRow
    BY <1>1, <1>2, <1>3, SavedRow
  <1>5. CatalogueWrite(p)
    BY <1>2, <1>3, <1>4, UnlockedWrite DEF Write
  <1>6. QED
    BY <1>2, <1>5 DEF Next

LEMMA ReviewRefines ==
  ASSUME AnyStatusIsSaved, SInv, NEW p \in Products, NEW decision \in {"AVAILABLE", "REJECTED"},
         Review(p, decision)
  PROVE  Next
  <1>1. TypeOK /\ products[p] \in ProductRow
    BY DEF SInv, IInv, TypeOK
  <1>2. decision \in ProductStatus
    BY DEF ProductStatus
  <1>3. /\ [products[p] EXCEPT !.status = decision] \in ProductRow
        /\ products' = [products EXCEPT ![p] = [products[p] EXCEPT !.status = decision]]
    BY <1>1, <1>2, WithProductStatus DEF Review
  <1>4. CatalogueWrite(p)
    BY <1>1, <1>3, UnlockedWrite DEF Review
  <1>5. QED
    BY <1>4 DEF Next

\* What a step of the shop is to the orders app.
LEMMA ShopStepRefines ==
  ASSUME AnyStatusIsSaved, SInv, [ShopNext]_shopVars
  PROVE  [Next]_vars
  <1>1. CASE OrdersNext
    BY <1>1 DEF Next
  <1>2. ASSUME NEW e \in Editors, EditorStep(e) PROVE [Next]_vars
    BY <1>2, WriteRefines DEF EditorStep, Fetch, CheckEdit
  <1>3. ASSUME NEW p \in Products, NEW decision \in {"AVAILABLE", "REJECTED"},
               Review(p, decision)
        PROVE  [Next]_vars
    BY <1>3, ReviewRefines
  <1>4. CASE UNCHANGED shopVars
    BY <1>4 DEF shopVars
  <1>5. QED
    BY <1>1, <1>2, <1>3, <1>4 DEF ShopNext

\* The editors' own state, after a step of editor e or of nobody.
LEMMA EditorType ==
  ASSUME SInv, [ShopNext]_shopVars
  PROVE  /\ stage' \in [Editors -> {"idle", "check", "write"}]
         /\ edit' \in [Editors -> EditRequest \cup {NoReq}]
         /\ fetchedP' \in [Editors -> ProductRow \cup {NoRow}]
         /\ EditorInv'
  <1>1. /\ stage \in [Editors -> {"idle", "check", "write"}]
        /\ edit \in [Editors -> EditRequest \cup {NoReq}]
        /\ fetchedP \in [Editors -> ProductRow \cup {NoRow}]
        /\ products \in [Products -> ProductRow]
        /\ EditorInv
    BY DEF SInv, IInv, TypeOK, ShopTypeOK
  <1>2. CASE UNCHANGED editVars
    BY <1>1, <1>2 DEF editVars, EditorInv
  <1>3. ASSUME NEW e \in Editors, NEW op \in {"edit", "archive", "restore", "toggle"},
               NEW u \in Users, NEW p \in Products, NEW change \in Changes \cup {NoChange},
               Fetch(e, op, u, p, change)
        PROVE  /\ stage' \in [Editors -> {"idle", "check", "write"}]
               /\ edit' \in [Editors -> EditRequest \cup {NoReq}]
               /\ fetchedP' \in [Editors -> ProductRow \cup {NoRow}]
               /\ EditorInv'
    BY <1>1, <1>3 DEF Fetch, EditorInv, EditRequest
  <1>4. ASSUME NEW e \in Editors, EndEdit(e)
        PROVE  /\ stage' \in [Editors -> {"idle", "check", "write"}]
               /\ edit' \in [Editors -> EditRequest \cup {NoReq}]
               /\ fetchedP' \in [Editors -> ProductRow \cup {NoRow}]
               /\ EditorInv'
    BY <1>1, <1>4 DEF EndEdit, EditorInv
  <1>5. ASSUME NEW e \in Editors, CheckEdit(e), ~EndEdit(e)
        PROVE  /\ stage' \in [Editors -> {"idle", "check", "write"}]
               /\ edit' \in [Editors -> EditRequest \cup {NoReq}]
               /\ fetchedP' \in [Editors -> ProductRow \cup {NoRow}]
               /\ EditorInv'
    BY <1>1, <1>5 DEF CheckEdit, EditorInv
  <1>6. ASSUME NEW e \in Editors, EditorStep(e)
        PROVE  /\ stage' \in [Editors -> {"idle", "check", "write"}]
               /\ edit' \in [Editors -> EditRequest \cup {NoReq}]
               /\ fetchedP' \in [Editors -> ProductRow \cup {NoRow}]
               /\ EditorInv'
    BY <1>3, <1>4, <1>5, <1>6 DEF EditorStep, Write
  <1>7. QED
    BY <1>2, <1>6 DEF ShopNext, Review, shopVars, editVars

LEMMA ShopInvariance ==
  ASSUME AnyStatusIsSaved
  PROVE  ShopSpec => []SInv
  <1>1. SInv /\ [ShopNext]_shopVars => SInv'
    <2> SUFFICES ASSUME SInv, [ShopNext]_shopVars PROVE SInv'
      OBVIOUS
    <2>1. [Next]_vars
      BY ShopStepRefines
    <2>2. IInv'
      BY <2>1, TypeStep, LockStep DEF SInv, IInv
    <2>3. withheld' \in [Editors -> BOOLEAN]
      <3>1. CASE Watch
        BY <3>1 DEF Watch
      <3>2. CASE UNCHANGED shopVars
        BY <3>2 DEF SInv, ShopTypeOK, shopVars
      <3>3. QED
        BY <3>1, <3>2 DEF ShopNext
    <2>4. QED
      BY <2>2, <2>3, EditorType DEF SInv, IInv, ShopTypeOK
  <1>2. QED
    BY <1>1, InitSInv, PTL DEF ShopSpec

\* The state of the two apps is well typed.
THEOREM ShopTypeCorrect ==
  ASSUME AnyStatusIsSaved
  PROVE  ShopSpec => []ShopTypeOK
  BY ShopInvariance, PTL DEF SInv

\* Whatever the products app does, the orders app sees it as one committed write
\* of an unlocked row: the shop is an instance of the orders model's open
\* environment, in which its theorems hold.
LEMMA ShopIsOrders ==
  ASSUME AnyStatusIsSaved
  PROVE  ShopSpec => Spec
  <1>1. ShopInit => Init
    BY DEF ShopInit
  <1>2. SInv /\ [ShopNext]_shopVars => [Next]_vars
    BY ShopStepRefines
  <1>3. QED
    BY <1>1, <1>2, ShopInvariance, PTL DEF ShopSpec, Spec

\* With the products app at work the orders app still keeps its promises: the
\* lifecycle, and with it the finality of payment and cancellation.
THEOREM ShopKeepsLifecycle ==
  ASSUME AnyStatusIsSaved
  PROVE  ShopSpec => Implements /\ SettledIsFinal /\ NotificationKept /\ ReservedInStock
                     /\ OnlyEditsStrand
  BY ShopIsOrders, Refinement, SettledForever, NotificationNeverLost,
     OnlyStockReserved, OrdersStrandNothing, PTL

\* Only the UPDATE of e's own request finishes it.
LEMMA FinishIsWrite ==
  ASSUME SInv, [ShopNext]_shopVars, NEW e \in Editors, NEW op, Finishes(e, op)
  PROVE  Write(e)
  <1>1. stage \in [Editors -> {"idle", "check", "write"}]
    BY DEF SInv, ShopTypeOK
  <1>2. stage[e] = "write" /\ stage'[e] = "idle"
    BY DEF Finishes
  <1>3. ~UNCHANGED editVars
    BY <1>2 DEF editVars
  <1>4. PICK f \in Editors : EditorStep(f)
    BY <1>3 DEF ShopNext, Review, shopVars, editVars
  <1>5. f = e
    BY <1>1, <1>2, <1>4 DEF EditorStep, Fetch, CheckEdit, Write, EndEdit
  <1>6. QED
    BY <1>1, <1>2, <1>4, <1>5 DEF EditorStep, Fetch, CheckEdit

\* An archive, a restoration or a toggle writes its own column over whatever
\* was committed since the request read the row (core/models/base.py:17-28).
THEOREM NarrowSavesHold ==
  ASSUME AnyStatusIsSaved
  PROVE  ShopSpec => NarrowSaves
  <1> DEFINE Narrow(e) ==
        LET p == edit[e].product IN
          /\ Finishes(e, "archive") \/ Finishes(e, "restore") =>
               products'[p].status = products[p].status /\ products'[p].stock = products[p].stock
          /\ Finishes(e, "toggle") =>
               products'[p].status = products[p].status /\ products'[p].deleted = products[p].deleted
  <1>1. ASSUME SInv, [ShopNext]_shopVars, NEW e \in Editors PROVE Narrow(e)
    <2> DEFINE p == edit[e].product
               op == edit[e].op
    <2>1. SUFFICES ASSUME Write(e), op \in {"archive", "restore", "toggle"} PROVE Narrow(e)
      BY <1>1, FinishIsWrite DEF Finishes
    <2>2. edit[e] \in EditRequest /\ p \in Products /\ products[p] \in ProductRow
          /\ products \in [Products -> ProductRow]
      BY <1>1, <2>1 DEF SInv, EditorInv, IInv, TypeOK, Write, EditRequest
    <2>3. products'[p] = Saved(op, products[p], fetchedP[e], edit[e].change)
      BY <2>1, <2>2 DEF Write
    <2>4. CASE op = "archive"
      BY <2>2, <2>3, <2>4 DEF Saved, ProductRow, Finishes
    <2>5. CASE op = "restore"
      BY <2>2, <2>3, <2>5 DEF Saved, ProductRow, Finishes
    <2>6. CASE op = "toggle"
      BY <2>2, <2>3, <2>6 DEF Saved, ProductRow, Finishes
    <2>7. QED
      BY <2>1, <2>4, <2>5, <2>6
  <1>2. SInv /\ [ShopNext]_shopVars => [\A e \in Editors : Narrow(e)]_shopVars
    BY <1>1
  <1>3. QED
    BY <1>2, ShopInvariance, PTL DEF ShopSpec, NarrowSaves

\* What a request keeps in mind of a product that was withheld all along: it read
\* a withheld status, and once its edit is checked it does not write AVAILABLE.
Withheld == {"PENDING", "REJECTED"}

WithheldBy(e) ==
  stage[e] # "idle" /\ withheld[e] =>
    /\ fetchedP[e].status \in Withheld
    /\ products[edit[e].product].status \in Withheld
    /\ stage[e] = "write" /\ edit[e].op = "edit" /\ edit[e].user \in Vendors
         => Edited(fetchedP[e], edit[e].change).status # "AVAILABLE"

WithheldInv == \A e \in Editors : WithheldBy(e)

\* The history of a request that is under way before and after a step.
LEMMA WatchFacts ==
  ASSUME SInv, Watch, NEW e \in Editors, withheld'[e]
  PROVE  /\ products'[edit'[e].product].status \in Withheld
         /\ stage[e] # "idle" /\ edit'[e] = edit[e] => withheld[e]
  BY DEF Watch, Withheld

\* The check lets a vendor's edit pass only with a status that is not AVAILABLE.
LEMMA CheckWithheld ==
  ASSUME SInv, NEW e \in Editors, WithheldBy(e), CheckEdit(e), Watch, ~EndEdit(e)
  PROVE  WithheldBy(e)'
  <1> DEFINE p == edit[e].product
             asked == edit[e].change.status
             new == IF asked = None THEN products[p].status ELSE asked
  <1>1. /\ stage[e] = "check" /\ stage'[e] = "write"
        /\ UNCHANGED <<edit, fetchedP, products>>
        /\ MayMove(edit[e].user, products[p].status, new)
    BY DEF CheckEdit, SInv, ShopTypeOK, vars
  <1>2. SUFFICES ASSUME withheld'[e]
                 PROVE  /\ fetchedP[e].status \in Withheld
                        /\ products[p].status \in Withheld
                        /\ edit[e].user \in Vendors
                             => Edited(fetchedP[e], edit[e].change).status # "AVAILABLE"
    BY <1>1 DEF WithheldBy, Edited
  <1>3. withheld[e]
    BY <1>1, <1>2, WatchFacts
  <1>4. fetchedP[e].status \in Withheld /\ products[p].status \in Withheld
    BY <1>1, <1>3 DEF WithheldBy
  <1>5. ASSUME edit[e].user \in Vendors
        PROVE  Edited(fetchedP[e], edit[e].change).status # "AVAILABLE"
    <2>1. new # "AVAILABLE"
      BY <1>1, <1>4, <1>5 DEF MayMove, Withheld
    <2>2. Edited(fetchedP[e], edit[e].change).status =
            IF asked = None THEN fetchedP[e].status ELSE asked
      BY DEF Edited
    <2>3. QED
      BY <1>4, <2>1, <2>2 DEF Withheld
  <1>6. QED
    BY <1>4, <1>5

\* A request that a step does not move.
LEMMA WithheldFrame ==
  ASSUME SInv, NEW e \in Editors, WithheldBy(e), Watch,
         stage'[e] = stage[e], edit'[e] = edit[e], fetchedP'[e] = fetchedP[e]
  PROVE  WithheldBy(e)'
  <1>1. SUFFICES ASSUME stage[e] # "idle", withheld'[e]
                 PROVE  WithheldBy(e)'
    BY DEF WithheldBy
  <1>2. withheld[e] /\ products'[edit'[e].product].status \in Withheld
    BY <1>1, WatchFacts
  <1>3. QED
    BY <1>1, <1>2 DEF WithheldBy, Edited

LEMMA WithheldStep == SInv /\ WithheldInv /\ [ShopNext]_shopVars => WithheldInv'
  <1> SUFFICES ASSUME SInv, WithheldInv, [ShopNext]_shopVars, NEW e \in Editors
               PROVE  WithheldBy(e)'
    BY DEF WithheldInv
  <1>1. WithheldBy(e)
    BY DEF WithheldInv
  <1>2. CASE UNCHANGED shopVars
    BY <1>1, <1>2 DEF shopVars, editVars, vars, WithheldBy, Edited
  <1>3. CASE Watch /\ UNCHANGED editVars
    BY <1>1, <1>3, WithheldFrame DEF editVars
  <1>4. ASSUME Watch, NEW f \in Editors, EditorStep(f) PROVE WithheldBy(e)'
    <2> /\ stage \in [Editors -> {"idle", "check", "write"}]
        /\ edit \in [Editors -> EditRequest \cup {NoReq}]
        /\ fetchedP \in [Editors -> ProductRow \cup {NoRow}]
      BY DEF SInv, ShopTypeOK
    <2>1. CASE f # e
      <3>1. stage'[e] = stage[e] /\ edit'[e] = edit[e] /\ fetchedP'[e] = fetchedP[e]
        BY <1>4, <2>1 DEF EditorStep, Fetch, CheckEdit, Write, EndEdit
      <3>2. QED
        BY <1>1, <1>4, <3>1, WithheldFrame
    <2>2. CASE f = e
      <3>1. CASE EndEdit(e)
        BY <3>1 DEF EndEdit, WithheldBy
      <3>2. CASE CheckEdit(e) /\ ~EndEdit(e)
        BY <1>1, <1>4, <3>2, CheckWithheld
      <3>3. ASSUME NEW op \in {"edit", "archive", "restore", "toggle"}, NEW u \in Users,
                   NEW p \in Products, NEW change \in Changes \cup {NoChange},
                   Fetch(e, op, u, p, change)
            PROVE  WithheldBy(e)'
        <4>1. /\ stage'[e] = IF op = "edit" THEN "check" ELSE "write"
              /\ edit'[e].product = p /\ edit'[e].op = op
              /\ fetchedP'[e] = products[p] /\ products' = products
          BY <3>3 DEF Fetch, vars
        <4>2. withheld'[e] => products'[p].status \in Withheld
          BY <1>4, <4>1, WatchFacts
        <4>3. QED
          BY <4>1, <4>2 DEF WithheldBy
      <3>4. QED
        BY <1>4, <2>2, <3>1, <3>2, <3>3 DEF EditorStep, Write
    <2>3. QED
      BY <2>1, <2>2
  <1>5. QED
    BY <1>2, <1>3, <1>4 DEF ShopNext, Review

\* A vendor's edit never publishes a product that was waiting for approval or
\* refused for as long as the edit took (products/views.py:115-121).
THEOREM WithheldStaysWithheld ==
  ASSUME AnyStatusIsSaved
  PROVE  ShopSpec => RefusalsStand
  <1>1. ShopInit => WithheldInv
    BY DEF ShopInit, WithheldInv, WithheldBy
  <1>2. SInv /\ WithheldInv /\ [ShopNext]_shopVars =>
          [\A e \in Editors :
             Finishes(e, "edit") /\ edit[e].user \in Vendors /\ withheld[e]
               => products'[edit[e].product].status # "AVAILABLE"]_shopVars
    <2> SUFFICES ASSUME SInv, WithheldInv, [ShopNext]_shopVars, NEW e \in Editors,
                        Finishes(e, "edit"), edit[e].user \in Vendors, withheld[e]
                 PROVE  products'[edit[e].product].status # "AVAILABLE"
      OBVIOUS
    <2>1. Write(e) /\ edit[e].op = "edit" /\ stage[e] = "write"
      BY FinishIsWrite DEF Finishes
    <2>2. edit[e].product \in Products /\ products \in [Products -> ProductRow]
      BY <2>1 DEF SInv, EditorInv, EditRequest, IInv, TypeOK
    <2>3. products'[edit[e].product] = Edited(fetchedP[e], edit[e].change)
      BY <2>1, <2>2 DEF Write, Saved
    <2>4. QED
      BY <2>1, <2>3 DEF WithheldInv, WithheldBy
  <1>3. QED
    BY <1>1, <1>2, WithheldStep, ShopInvariance, PTL DEF ShopSpec, RefusalsStand
=============================================================================
