------------------------------ MODULE Reviews ------------------------------
(***************************************************************************)
(* The reviews app next to the orders: a client reviews a vendor of whom   *)
(* something was bought and paid, once, and edits or deletes the review.   *)
(* The orders follow the lifecycle of module Reservation, which the orders *)
(* app implements; a request looks at them once, in a statement of its     *)
(* own.  No request opens a transaction: each statement commits by itself. *)
(***************************************************************************)
EXTENDS Reservation, FiniteSets

CONSTANTS
  Workers,    \* web workers
  ReviewIds,  \* primary keys of reviews
  Texts       \* contents and rates that an author may give

ReviewRow == [user: Users, vendor: Users, text: Texts, edited: BOOLEAN]

\* What module Reservation keeps of an order.
OrderRow == [status: {"RESERVED", "PAID", "CANCELLED"}, client: Users,
             product: Products, notified: BOOLEAN]

ASSUME RowAssumption == NoRow \notin ReviewRow \cup OrderRow

VARIABLES
  reviews,  \* ReviewIds -> row of products_comments, or NoRow
  task,     \* Workers -> what the request does next
  first     \* history: ReviewIds -> what the author published first

reviewVars == <<reviews, task, first>>
allVars == <<vars, reviewVars>>

NoReview == [at |-> "idle", id |-> NoRow, row |-> NoRow]
Task == [at: {"idle", "clean", "insert", "save", "delete"},
         id: ReviewIds \cup {NoRow}, row: ReviewRow \cup {NoRow}]

ReviewTypeOK ==
  /\ reviews \in [ReviewIds -> ReviewRow \cup {NoRow}]
  /\ task \in [Workers -> Task]
  /\ first \in [ReviewIds -> Texts]

ReviewInit ==
  /\ Init
  /\ reviews = [r \in ReviewIds |-> NoRow]
  /\ task = [w \in Workers |-> NoReview]
  /\ first \in [ReviewIds -> Texts]

-----------------------------------------------------------------------------
At(w, stage) == task[w].at = stage
Done(w) == task' = [task EXCEPT ![w] = NoReview]
Stored(r) == reviews[r] # NoRow

\* mutant: an order is enough, paid or not
HasOrdered(u, v) ==
  \E o \in OrderIds : Exists(o) /\ orders[o].client = u /\ Owner[orders[o].product] = v

\* perform_create: a paid order of this client with this vendor.
HasPurchased(u, v) ==
  \E o \in OrderIds : /\ Exists(o)
                      /\ orders[o].client = u
                      /\ Owner[orders[o].product] = v
                      /\ orders[o].status = "PAID"

\* Some review of the same author and vendor.
SamePair(row) ==
  \E r \in ReviewIds : Stored(r) /\ reviews[r].user = row.user /\ reviews[r].vendor = row.vendor

\* mutant: the table has no unique constraint
NeverTaken(row) == FALSE

\* The table's unique_vendor_user_review.
Taken(row) == SamePair(row)

(* ReviewViewSet.create                                                     *)

CreateCheck(w, u, v, text) ==
  /\ At(w, "idle")
  /\ HasPurchased(u, v)
  /\ task' = [task EXCEPT ![w] = [at |-> "clean", id |-> NoRow,
               row |-> [user |-> u, vendor |-> v, text |-> text, edited |-> FALSE]]]
  /\ UNCHANGED <<reviews, first>>

\* Review.full_clean(): clean(), and a look for the pair in the table.
Clean(w) ==
  /\ At(w, "clean")
  /\ LET row == task[w].row IN
       IF row.user = row.vendor \/ SamePair(row) THEN Done(w)
       ELSE task' = [task EXCEPT ![w].at = "insert"]
  /\ UNCHANGED <<reviews, first>>

Unused(r) == ~Stored(r) /\ \A w \in Workers : task[w].id # r

\* INSERT; IntegrityError, which the view does not catch, is the other answer.
Insert(w, r) ==
  /\ At(w, "insert")
  /\ Unused(r)
  /\ IF Taken(task[w].row) THEN UNCHANGED <<reviews, first>>
     ELSE /\ reviews' = [reviews EXCEPT ![r] = task[w].row]
          /\ first' = [first EXCEPT ![r] = task[w].row.text]
  /\ Done(w)

(* ReviewViewSet.update, partial_update, destroy                            *)

\* get_object(), which only the author gets.
Fetch(w, r, stage, text) ==
  /\ At(w, "idle")
  /\ Stored(r)
  /\ task' = [task EXCEPT ![w] =
               [at |-> stage, id |-> r,
                row |-> [reviews[r] EXCEPT !.text = IF stage = "save" THEN text ELSE @]]]
  /\ UNCHANGED <<reviews, first>>

\* mutant: the flag of a new review
SavedAdding(row) == row

\* Review.save() of a row that was stored before.
Saved(row) == [row EXCEPT !.edited = TRUE]

\* Every column is saved; where the row is gone it is inserted again, unless
\* the author has another review of the vendor by then.
EditSave(w) ==
  /\ At(w, "save")
  /\ LET t == task[w] IN
       reviews' = IF Stored(t.id) \/ ~Taken(t.row)
                    THEN [reviews EXCEPT ![t.id] = Saved(t.row)] ELSE reviews
  /\ Done(w)
  /\ UNCHANGED first

\* instance.delete(): the row goes, by its key.
Delete(w) ==
  /\ At(w, "delete")
  /\ reviews' = [reviews EXCEPT ![task[w].id] = NoRow]
  /\ Done(w)
  /\ UNCHANGED first

\* A worker dies, or a later validation refuses the request.
Die(w) ==
  /\ ~At(w, "idle")
  /\ Done(w)
  /\ UNCHANGED <<reviews, first>>

ReviewStep(w) ==
  \/ \E u, v \in Users, text \in Texts : CreateCheck(w, u, v, text)
  \/ Clean(w)
  \/ \E r \in ReviewIds : Insert(w, r)
  \/ \E r \in ReviewIds, stage \in {"save", "delete"}, text \in Texts : Fetch(w, r, stage, text)
  \/ EditSave(w) \/ Delete(w) \/ Die(w)

ReviewNext ==
  \/ Next /\ UNCHANGED reviewVars
  \/ \E w \in Workers : ReviewStep(w) /\ UNCHANGED vars

ReviewSpec == ReviewInit /\ [][ReviewNext]_allVars
=============================================================================
