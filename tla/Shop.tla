-------------------------------- MODULE Shop --------------------------------
(***************************************************************************)
(* The requests of the products app next to the orders app: PUT and PATCH  *)
(* of a product, archive (DELETE), restore, toggle-stock, and the decision *)
(* of a moderator.  None of them opens a transaction around its reads: a   *)
(* request reads the row, decides, and writes from what it read.  An edit  *)
(* saves every column of the instance; the others name the column they     *)
(* save.  An UPDATE waits for the lock of its row.                         *)
(*                                                                         *)
(* A request that dies before its UPDATE has done nothing, as one that     *)
(* takes no further step.                                                  *)
(***************************************************************************)
EXTENDS Orders

CONSTANTS
  Editors,     \* web workers that serve the products app
  Vendors,     \* users with role VENDEDOR
  Changes      \* what edits assign; a field left out is None

ASSUME VendorAssumption == Vendors \subseteq Users /\ Vendors \cap Admins = {}
ASSUME ChangeAssumption ==
  Changes \subseteq [status: ProductStatus \cup {None}, stock: BOOLEAN \cup {None},
                    deleted: BOOLEAN \cup {None}]

NoChange == [status |-> None, stock |-> None, deleted |-> None]

EditRequest == [op: {"edit", "archive", "restore", "toggle"}, user: Users,
                product: Products, change: Changes \cup {NoChange}]

VARIABLES
  stage,    \* Editors -> what the request does next
  edit,     \* Editors -> the request being served, or NoReq
  fetchedP, \* Editors -> the Product instance in memory, or NoRow
  withheld  \* history: the product was not approved at any moment of the request

editVars == <<stage, edit, fetchedP>>
shopVars == <<vars, editVars, withheld>>

ShopTypeOK ==
  /\ TypeOK
  /\ stage \in [Editors -> {"idle", "check", "write"}]
  /\ edit \in [Editors -> EditRequest \cup {NoReq}]
  /\ fetchedP \in [Editors -> ProductRow \cup {NoRow}]
  /\ withheld \in [Editors -> BOOLEAN]

ShopInit ==
  /\ Init
  /\ stage = [e \in Editors |-> "idle"]
  /\ edit = [e \in Editors |-> NoReq]
  /\ fetchedP = [e \in Editors |-> NoRow]
  /\ withheld = [e \in Editors |-> FALSE]

IsAdmin(u) == u \in Admins \cup Superusers

\* The rows of get_manageable_products; restore() asks for the owner instead.
MayManage(op, u, p) ==
  \/ IsAdmin(u)
  \/ u = Owner[p] /\ (op = "restore" \/ u \in Vendors)

\* get_object() goes through the manager that hides archived products.
Visible(op, p) == op = "restore" \/ ~products[p].deleted

-----------------------------------------------------------------------------
\* The request arrives and fetches the product.  An edit is checked next.
Fetch(e, op, u, p, change) ==
  /\ stage[e] = "idle"
  /\ MayManage(op, u, p)
  /\ Visible(op, p)
  /\ op = "edit" \/ change = NoChange
  /\ stage' = [stage EXCEPT ![e] = IF op = "edit" THEN "check" ELSE "write"]
  /\ edit' = [edit EXCEPT ![e] =
                [op |-> op, user |-> u, product |-> p, change |-> change]]
  /\ fetchedP' = [fetchedP EXCEPT ![e] = products[p]]
  /\ UNCHANGED vars

EndEdit(e) ==
  /\ stage' = [stage EXCEPT ![e] = "idle"]
  /\ edit' = [edit EXCEPT ![e] = NoReq]
  /\ fetchedP' = [fetchedP EXCEPT ![e] = NoRow]

\* mutant: only a product that waits for its first review is protected
MayMovePending(u, old, new) ==
  old = "PENDING" /\ new \in {"AVAILABLE", "REJECTED"} => IsAdmin(u)

\* perform_update: who may move a product from status old to status new.
MayMove(u, old, new) ==
  /\ (old = "PENDING" /\ new \in {"AVAILABLE", "REJECTED"}) => IsAdmin(u)
  /\ (old \in {"PENDING", "REJECTED"} /\ new = "AVAILABLE") => u \notin Vendors

\* The status guards, on a second read of the product; a request without a
\* status is judged as if it asked for the one just read.
CheckEdit(e) ==
  /\ stage[e] = "check"
  /\ LET p == edit[e].product
         asked == edit[e].change.status
         new == IF asked = None THEN products[p].status ELSE asked
     IN \/ /\ Visible("edit", p)
           /\ MayMove(edit[e].user, products[p].status, new)
           /\ stage' = [stage EXCEPT ![e] = "write"]
           /\ UNCHANGED <<edit, fetchedP>>
        \/ /\ ~(Visible("edit", p) /\ MayMove(edit[e].user, products[p].status, new))
           /\ EndEdit(e)
  /\ UNCHANGED vars

\* mutant: the fields that a PATCH leaves out are assigned too
EditedAll(row, change) ==
  [status |-> change.status, stock |-> change.stock, deleted |-> change.deleted]

\* setattr() of the validated fields on the instance fetched first.
Edited(row, change) ==
  [status  |-> IF change.status = None THEN row.status ELSE change.status,
   stock   |-> IF change.stock = None THEN row.stock ELSE change.stock,
   deleted |-> IF change.deleted = None THEN row.deleted ELSE change.deleted]

\* mutant: every operation saves the whole instance
SavedWhole(op, old, row, change) ==
  CASE op = "archive" -> [row EXCEPT !.deleted = TRUE]
    [] op = "restore" -> [row EXCEPT !.deleted = FALSE]
    [] op = "toggle"  -> [row EXCEPT !.stock = ~row.stock]
    [] OTHER          -> Edited(row, change)

\* The stored row after save(): old is the row in the table, row the instance.
\* destroy() assigns INACTIVE too, but delete() saves is_deleted alone.
Saved(op, old, row, change) ==
  CASE op = "archive" -> [old EXCEPT !.deleted = TRUE]
    [] op = "restore" -> [old EXCEPT !.deleted = FALSE]
    [] op = "toggle"  -> [old EXCEPT !.stock = ~row.stock]
    [] OTHER          -> Edited(row, change)

\* The UPDATE, and the response.
Write(e) ==
  /\ stage[e] = "write"
  /\ LET p == edit[e].product IN
       /\ ProductFree(p)
       /\ products' = [products EXCEPT
                         ![p] = Saved(edit[e].op, products[p], fetchedP[e], edit[e].change)]
  /\ EndEdit(e)
  /\ UNCHANGED <<orders, age, ordLock, prodLock, pc, workerVars, sweepVars>>

\* The moderators' decision on a product: one UPDATE of the status of a row
\* that is not archived.
Review(p, decision) ==
  /\ ProductFree(p)
  /\ ~products[p].deleted
  /\ products' = [products EXCEPT ![p].status = decision]
  /\ UNCHANGED <<orders, age, ordLock, prodLock, pc, workerVars, sweepVars, editVars>>

EditorStep(e) ==
  \/ \E op \in {"edit", "archive", "restore", "toggle"}, u \in Users, p \in Products,
        change \in Changes \cup {NoChange} : Fetch(e, op, u, p, change)
  \/ CheckEdit(e)
  \/ Write(e)

\* History: a product stays withheld from the catalogue while a request lasts.
Watch ==
  withheld' = [e \in Editors |->
                 /\ edit'[e] # NoReq
                 /\ products'[edit'[e].product].status \in {"PENDING", "REJECTED"}
                 /\ edit[e] # NoReq => withheld[e]]

ShopNext ==
  /\ \/ OrdersNext /\ UNCHANGED editVars
     \/ \E e \in Editors : EditorStep(e)
     \/ \E p \in Products, decision \in {"AVAILABLE", "REJECTED"} : Review(p, decision)
  /\ Watch

ShopSpec == ShopInit /\ [][ShopNext]_shopVars
=============================================================================
