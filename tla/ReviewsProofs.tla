--------------------------- MODULE ReviewsProofs ---------------------------
(***************************************************************************)
(* Theorems about module Reviews, for any number of users, vendors, orders,*)
(* requests and reviews, checked by TLAPS.                                 *)
(***************************************************************************)
EXTENDS ReviewsProps, TLAPS

OrdersTyped == orders \in [OrderIds -> OrderRow \cup {NoRow}]

SameAuthor(a, b) == a.user = b.user /\ a.vendor = b.vendor

\* The author of a row has paid, and it is marked if it is not what came first.
RowInv(r) ==
  Stored(r) => /\ HasPurchased(reviews[r].user, reviews[r].vendor)
               /\ reviews[r].edited \/ reviews[r].text = first[r]

\* A request about a stored review keeps whose review it is.
Updates(w) == task[w].at \in {"save", "delete"}

TaskInv(w) ==
  /\ ~At(w, "idle") => /\ task[w].row \in ReviewRow
                       /\ HasPurchased(task[w].row.user, task[w].row.vendor)
  /\ Updates(w) => /\ task[w].id \in ReviewIds
                   /\ Stored(task[w].id) => SameAuthor(reviews[task[w].id], task[w].row)

\* Requests about the same review, stored or deleted meanwhile, agree whose it is.
Agree(w, x) ==
  Updates(w) /\ Updates(x) /\ task[w].id = task[x].id => SameAuthor(task[w].row, task[x].row)

\* The inductive invariant.
IInv ==
  /\ ReviewTypeOK /\ OrdersTyped /\ OnePerPair
  /\ \A r \in ReviewIds : RowInv(r)
  /\ \A w \in Workers : TaskInv(w)
  /\ \A w, x \in Workers : Agree(w, x)

LEMMA InitIInv == ReviewInit => IInv
  <1> SUFFICES ASSUME ReviewInit PROVE IInv
    OBVIOUS
  <1>1. ReviewTypeOK /\ OrdersTyped
    BY DEF ReviewInit, Init, ReviewTypeOK, OrdersTyped, Task, NoReview
  <1>2. (\A r \in ReviewIds : ~Stored(r)) /\ \A w \in Workers : At(w, "idle") /\ ~Updates(w)
    BY DEF ReviewInit, Stored, At, NoReview, Updates
  <1>3. QED
    BY <1>1, <1>2 DEF IInv, OnePerPair, RowInv, TaskInv, Agree

-----------------------------------------------------------------------------
(* The orders never take a payment back.                                    *)

LEMMA OrderStep ==
  ASSUME OrdersTyped, NEW o \in OrderIds, Next
  PROVE  /\ orders'[o] \in OrderRow \cup {NoRow}
         /\ Exists(o) /\ orders[o].status = "PAID" => orders'[o] = orders[o]
  <1> USE RowAssumption
  <1>1. ASSUME NEW q \in OrderIds, NEW u \in Users, NEW p \in Products, NEW flag \in BOOLEAN,
               Place(q, u, p, flag)
        PROVE  /\ orders'[o] \in OrderRow \cup {NoRow}
               /\ Exists(o) => orders'[o] = orders[o]
    BY <1>1 DEF Place, OrdersTyped, OrderRow, Exists
  <1>2. ASSUME NEW q \in OrderIds, NotifyPayment(q)
        PROVE  /\ orders'[o] \in OrderRow \cup {NoRow}
               /\ Exists(o) /\ orders[o].status = "PAID" => orders'[o] = orders[o]
    BY <1>2 DEF NotifyPayment, IsReserved, OrdersTyped, OrderRow, Exists
  <1>3. ASSUME NEW S, NEW outcome \in {"PAID", "CANCELLED"}, Settle(S, outcome)
        PROVE  /\ orders'[o] \in OrderRow \cup {NoRow}
               /\ Exists(o) /\ orders[o].status = "PAID" => orders'[o] = orders[o]
    <2>1. CASE o \in S
      <3>1. orders[o] \in OrderRow /\ orders[o].status = "RESERVED"
        BY <1>3, <2>1 DEF Settle, IsReserved, Exists, OrdersTyped
      <3>2. orders'[o] = [orders[o] EXCEPT !.status = outcome]
        BY <1>3, <2>1 DEF Settle
      <3>3. QED
        BY <3>1, <3>2 DEF OrderRow
    <2>2. CASE o \notin S
      BY <1>3, <2>2 DEF Settle, OrdersTyped
    <2>3. QED
      BY <2>1, <2>2
  <1>4. ASSUME NEW p \in Products, NEW r \in ProductRow, EditCatalogue(p, r)
        PROVE  orders'[o] = orders[o] /\ orders[o] \in OrderRow \cup {NoRow}
    BY <1>4 DEF EditCatalogue, OrdersTyped
  <1>5. QED
    BY <1>1, <1>2, <1>3, <1>4 DEF Next, Pay, Cancel

LEMMA OrdersKeepPayments ==
  ASSUME OrdersTyped, [Next]_vars
  PROVE  /\ OrdersTyped'
         /\ \A u, v : HasPurchased(u, v) => HasPurchased(u, v)'
  <1>1. CASE UNCHANGED vars
    BY <1>1 DEF vars, OrdersTyped, HasPurchased, Exists
  <1>2. CASE Next
    <2>1. OrdersTyped'
      <3>1. \E f : orders' = [o \in OrderIds |-> f[o]]
        <4>1. ASSUME NEW S, NEW outcome, Settle(S, outcome)
              PROVE  orders' = [o \in OrderIds |-> orders'[o]]
          BY <4>1 DEF Settle
        <4>2. ASSUME NEW q, NEW u, NEW p, NEW flag, Place(q, u, p, flag)
              PROVE  orders' = [o \in OrderIds |-> orders'[o]]
          BY <4>2 DEF Place, OrdersTyped
        <4>3. ASSUME NEW q, NotifyPayment(q)
              PROVE  orders' = [o \in OrderIds |-> orders'[o]]
          BY <4>3 DEF NotifyPayment, OrdersTyped
        <4>4. ASSUME NEW p, NEW r, EditCatalogue(p, r)
              PROVE  orders' = [o \in OrderIds |-> orders'[o]]
          BY <4>4 DEF EditCatalogue, OrdersTyped
        <4>5. QED
          BY <1>2, <4>1, <4>2, <4>3, <4>4 DEF Next, Pay, Cancel
      <3>2. \A o \in OrderIds : orders'[o] \in OrderRow \cup {NoRow}
        BY <1>2, OrderStep
      <3>3. QED
        BY <3>1, <3>2 DEF OrdersTyped
    <2>2. ASSUME NEW u, NEW v, HasPurchased(u, v) PROVE HasPurchased(u, v)'
      <3>1. PICK o \in OrderIds : /\ Exists(o) /\ orders[o].client = u
                                  /\ Owner[orders[o].product] = v /\ orders[o].status = "PAID"
        BY <2>2 DEF HasPurchased
      <3>2. orders'[o] = orders[o]
        BY <1>2, <3>1, OrderStep
      <3>3. QED
        BY <3>1, <3>2 DEF HasPurchased, Exists
    <2>3. QED
      BY <2>1, <2>2
  <1>3. QED
    BY <1>1, <1>2

-----------------------------------------------------------------------------
(* The requests.                                                            *)

\* A step that changes what request w does next, and no row.
LEMMA Turns ==
  ASSUME IInv, UNCHANGED <<vars, reviews, first>>, NEW w \in Workers, NEW t \in Task,
         task' = [task EXCEPT ![w] = t],
         t.at # "idle" => t.row \in ReviewRow /\ HasPurchased(t.row.user, t.row.vendor),
         t.at \in {"save", "delete"} =>
           /\ t.id \in ReviewIds
           /\ Stored(t.id) => SameAuthor(reviews[t.id], t.row)
           /\ \A x \in Workers : Updates(x) /\ task[x].id = t.id => SameAuthor(task[x].row, t.row)
  PROVE  IInv'
  <1>1. task \in [Workers -> Task] /\ task'[w] = t /\ \A x \in Workers \ {w} : task'[x] = task[x]
    BY DEF IInv, ReviewTypeOK
  <1>2. ReviewTypeOK' /\ OrdersTyped' /\ OnePerPair'
    BY DEF IInv, ReviewTypeOK, OrdersTyped, OnePerPair, Stored, vars
  <1>3. \A r \in ReviewIds : RowInv(r)'
    BY DEF IInv, RowInv, Stored, HasPurchased, Exists, vars
  <1>4. ASSUME NEW x \in Workers PROVE TaskInv(x)'
    BY <1>1 DEF IInv, TaskInv, Updates, At, Stored, SameAuthor, HasPurchased, Exists, vars
  <1>5. ASSUME NEW x \in Workers, NEW y \in Workers PROVE Agree(x, y)'
    BY <1>1 DEF IInv, Agree, Updates, SameAuthor
  <1>6. QED
    BY <1>2, <1>3, <1>4, <1>5 DEF IInv

\* A step that ends request w with a row in place r.
LEMMA Writes ==
  ASSUME IInv, UNCHANGED vars, NEW w \in Workers, NEW r \in ReviewIds,
         NEW row \in ReviewRow \cup {NoRow},
         reviews' = [reviews EXCEPT ![r] = row], Done(w),
         first' \in [ReviewIds -> Texts], \A q \in ReviewIds \ {r} : first'[q] = first[q],
         row # NoRow =>
           /\ HasPurchased(row.user, row.vendor)
           /\ row.edited \/ row.text = first'[r]
           /\ \A q \in ReviewIds \ {r} : Stored(q) => ~SameAuthor(reviews[q], row)
           /\ \A x \in Workers : Updates(x) /\ task[x].id = r => SameAuthor(row, task[x].row)
  PROVE  IInv'
  <1>1. /\ \A x \in Workers \ {w} : task'[x] = task[x]
        /\ task'[w] = NoReview /\ task' \in [Workers -> Task]
    BY DEF IInv, ReviewTypeOK, Done, NoReview, Task
  <1>2. /\ reviews' \in [ReviewIds -> ReviewRow \cup {NoRow}]
        /\ reviews'[r] = row /\ \A q \in ReviewIds \ {r} : reviews'[q] = reviews[q]
    BY DEF IInv, ReviewTypeOK
  <1>3. ReviewTypeOK' /\ OrdersTyped'
    BY <1>1, <1>2 DEF IInv, ReviewTypeOK, OrdersTyped, vars
  <1>4. OnePerPair'
    BY <1>2 DEF IInv, OnePerPair, Stored, SameAuthor
  <1>5. ASSUME NEW q \in ReviewIds PROVE RowInv(q)'
    BY <1>2 DEF IInv, RowInv, Stored, HasPurchased, Exists, vars
  <1>6. ASSUME NEW x \in Workers PROVE TaskInv(x)'
    <2>1. CASE x = w
      BY <1>1, <2>1 DEF TaskInv, Updates, At, NoReview
    <2>2. CASE x # w
      BY <1>1, <1>2, <2>2 DEF IInv, TaskInv, Updates, At, Stored, SameAuthor, HasPurchased, Exists, vars
    <2>3. QED
      BY <2>1, <2>2
  <1>7. ASSUME NEW x \in Workers, NEW y \in Workers PROVE Agree(x, y)'
    BY <1>1 DEF IInv, Agree, Updates, SameAuthor, NoReview
  <1>8. QED
    BY <1>3, <1>4, <1>5, <1>6, <1>7 DEF IInv

LEMMA ReviewStepInv ==
  ASSUME IInv, NEW w \in Workers, ReviewStep(w), UNCHANGED vars
  PROVE  IInv'
  <1>0. /\ task \in [Workers -> Task] /\ task[w] \in Task
        /\ reviews \in [ReviewIds -> ReviewRow \cup {NoRow}] /\ first \in [ReviewIds -> Texts]
        /\ TaskInv(w)
    BY DEF IInv, ReviewTypeOK
  <1>n. NoReview \in Task /\ NoReview.at = "idle"
    BY DEF NoReview, Task
  <1>1. CASE \E u, v \in Users, text \in Texts : CreateCheck(w, u, v, text)
    <2>1. PICK u \in Users, v \in Users, text \in Texts : CreateCheck(w, u, v, text)
      BY <1>1
    <2> DEFINE t == [at |-> "clean", id |-> NoRow,
                     row |-> [user |-> u, vendor |-> v, text |-> text, edited |-> FALSE]]
    <2>2. t \in Task /\ t.at = "clean" /\ t.row \in ReviewRow /\ t.row.user = u /\ t.row.vendor = v
      BY DEF Task, ReviewRow
    <2>3. HasPurchased(u, v) /\ task' = [task EXCEPT ![w] = t] /\ UNCHANGED <<reviews, first>>
      BY <2>1 DEF CreateCheck
    <2>4. QED
      BY <2>2, <2>3, Turns
  <1>2. CASE Clean(w)
    <2>1. CASE Done(w)
      BY <1>2, <1>n, <2>1, Turns DEF Clean, Done
    <2>2. CASE ~Done(w)
      <3> DEFINE t == [task[w] EXCEPT !.at = "insert"]
      <3>1. /\ t \in Task /\ t.at = "insert" /\ t.row = task[w].row
            /\ task[w].row \in ReviewRow /\ HasPurchased(task[w].row.user, task[w].row.vendor)
        BY <1>0, <1>2 DEF Clean, Task, TaskInv, At
      <3>2. task' = [task EXCEPT ![w] = t] /\ UNCHANGED <<reviews, first>>
        BY <1>0, <1>2, <2>2 DEF Clean
      <3>3. QED
        BY <3>1, <3>2, Turns
    <2>3. QED
      BY <2>1, <2>2
  <1>3. CASE \E r \in ReviewIds : Insert(w, r)
    <2>1. PICK r \in ReviewIds : Insert(w, r)
      BY <1>3
    <2>2. CASE Taken(task[w].row)
      BY <1>n, <2>1, <2>2, Turns DEF Insert, Done
    <2>3. CASE ~Taken(task[w].row)
      <3>1. task[w].row \in ReviewRow /\ HasPurchased(task[w].row.user, task[w].row.vendor)
        BY <1>0, <2>1 DEF Insert, TaskInv, At
      <3>2. /\ reviews' = [reviews EXCEPT ![r] = task[w].row] /\ Done(w)
            /\ first' = [first EXCEPT ![r] = task[w].row.text]
        BY <2>1, <2>3 DEF Insert
      <3>3. \A q \in ReviewIds : Stored(q) => ~SameAuthor(reviews[q], task[w].row)
        BY <2>3 DEF Taken, SamePair, SameAuthor
      <3>4. \A x \in Workers : task[x].id # r
        BY <2>1 DEF Insert, Unused
      <3>5. task[w].row.text \in Texts
        BY <3>1 DEF ReviewRow
      <3>6. QED
        BY <1>0, <3>1, <3>2, <3>3, <3>4, <3>5, Writes
    <2>4. QED
      BY <2>2, <2>3
  <1>4. CASE \E r \in ReviewIds, stage \in {"save", "delete"}, text \in Texts : Fetch(w, r, stage, text)
    <2>1. PICK r \in ReviewIds, stage \in {"save", "delete"}, text \in Texts : Fetch(w, r, stage, text)
      BY <1>4
    <2> DEFINE row == [reviews[r] EXCEPT !.text = IF stage = "save" THEN text ELSE @]
               t == [at |-> stage, id |-> r, row |-> row]
    <2>2. reviews[r] \in ReviewRow /\ Stored(r)
      BY <1>0, <2>1 DEF Fetch, Stored
    <2>3. row \in ReviewRow /\ row.user = reviews[r].user /\ row.vendor = reviews[r].vendor
      BY <2>2 DEF ReviewRow
    <2>4. t \in Task /\ t.at = stage /\ t.id = r /\ t.row = row
      BY <2>3 DEF Task
    <2>5. HasPurchased(row.user, row.vendor) /\ SameAuthor(reviews[r], row)
      BY <2>2, <2>3 DEF IInv, RowInv, SameAuthor
    <2>6. \A x \in Workers : Updates(x) /\ task[x].id = r => SameAuthor(task[x].row, row)
      BY <2>2, <2>3 DEF IInv, TaskInv, SameAuthor
    <2>7. task' = [task EXCEPT ![w] = t] /\ UNCHANGED <<reviews, first>>
      BY <2>1 DEF Fetch
    <2> HIDE DEF row, t
    <2>8. QED
      BY <2>3, <2>4, <2>5, <2>6, <2>7, Turns
  <1>5. CASE EditSave(w)
    <2> DEFINE row == Saved(task[w].row)  r == task[w].id
    <2>1. /\ Updates(w) /\ r \in ReviewIds /\ task[w].row \in ReviewRow
          /\ HasPurchased(task[w].row.user, task[w].row.vendor)
          /\ Stored(r) => SameAuthor(reviews[r], task[w].row)
      BY <1>0, <1>5 DEF EditSave, TaskInv, At, Updates
    <2>2. row \in ReviewRow /\ SameAuthor(row, task[w].row) /\ row.edited
      BY <2>1 DEF Saved, ReviewRow, SameAuthor
    <2>3. CASE Stored(r) \/ ~Taken(task[w].row)
      <3>1. reviews' = [reviews EXCEPT ![r] = row] /\ Done(w) /\ first' = first
        BY <1>5, <2>3 DEF EditSave
      <3>2. \A q \in ReviewIds \ {r} : Stored(q) => ~SameAuthor(reviews[q], task[w].row)
        BY <2>1, <2>3 DEF IInv, OnePerPair, Taken, SamePair, SameAuthor
      <3>3. \A x \in Workers : Updates(x) /\ task[x].id = r => SameAuthor(task[w].row, task[x].row)
        BY <2>1 DEF IInv, Agree
      <3>4. HasPurchased(row.user, row.vendor)
        BY <2>1, <2>2 DEF SameAuthor
      <3> HIDE DEF row, r
      <3>5. QED
        BY <1>0, <2>1, <2>2, <3>1, <3>2, <3>3, <3>4, Writes DEF SameAuthor
    <2>4. CASE ~(Stored(r) \/ ~Taken(task[w].row))
      BY <1>5, <1>n, <2>4, Turns DEF EditSave, Done
    <2>5. QED
      BY <2>3, <2>4
  <1>6. CASE Delete(w)
    <2>1. task[w].id \in ReviewIds /\ Done(w) /\ first' = first
          /\ reviews' = [reviews EXCEPT ![task[w].id] = NoRow]
      BY <1>0, <1>6 DEF Delete, TaskInv, At, Updates
    <2>2. QED
      BY <1>0, <2>1, Writes
  <1>7. CASE Die(w)
    BY <1>7, <1>n, Turns DEF Die, Done
  <1>8. QED
    BY <1>1, <1>2, <1>3, <1>4, <1>5, <1>6, <1>7 DEF ReviewStep

LEMMA NextIInv == IInv /\ [ReviewNext]_allVars => IInv'
  <1> SUFFICES ASSUME IInv, [ReviewNext]_allVars PROVE IInv'
    OBVIOUS
  <1>1. CASE UNCHANGED reviewVars /\ [Next]_vars
    <2>1. OrdersTyped' /\ \A u, v : HasPurchased(u, v) => HasPurchased(u, v)'
      BY <1>1, OrdersKeepPayments DEF IInv
    <2>2. ReviewTypeOK' /\ OnePerPair'
      BY <1>1 DEF IInv, ReviewTypeOK, OnePerPair, Stored, reviewVars
    <2>3. ASSUME NEW r \in ReviewIds PROVE RowInv(r)'
      BY <1>1, <2>1 DEF IInv, RowInv, Stored, reviewVars
    <2>4. ASSUME NEW w \in Workers PROVE TaskInv(w)'
      BY <1>1, <2>1 DEF IInv, TaskInv, Updates, At, Stored, SameAuthor, reviewVars
    <2>5. ASSUME NEW w \in Workers, NEW x \in Workers PROVE Agree(w, x)'
      BY <1>1 DEF IInv, Agree, Updates, SameAuthor, reviewVars
    <2>6. QED
      BY <2>1, <2>2, <2>3, <2>4, <2>5 DEF IInv
  <1>2. ASSUME NEW w \in Workers, ReviewStep(w), UNCHANGED vars PROVE IInv'
    BY <1>2, ReviewStepInv
  <1>3. QED
    BY <1>1, <1>2 DEF ReviewNext, allVars

LEMMA Invariance == ReviewSpec => []IInv
  BY InitIInv, NextIInv, PTL DEF ReviewSpec

-----------------------------------------------------------------------------
(* Theorems.                                                                *)

\* Whoever has a review of a vendor has paid an order of that vendor
\* (reviews/views.py:108-118, orders/models.py:98-105).
THEOREM OnlyBuyersReview == ReviewSpec => []AuthorsHavePaid
  <1>1. IInv => AuthorsHavePaid
    BY DEF IInv, RowInv, AuthorsHavePaid, HasPurchased
  <1>2. QED
    BY <1>1, Invariance, PTL

\* One review per author and vendor (reviews/models.py:34-36).
THEOREM OneReviewEach == ReviewSpec => []OnePerPair
  BY Invariance, PTL DEF IInv

\* A review that is not what its author published first says that it was edited
\* (reviews/models.py:41-46).
THEOREM EditsAreMarked == ReviewSpec => []EditsShow
  <1>1. IInv => EditsShow
    BY DEF IInv, RowInv, EditsShow
  <1>2. QED
    BY <1>1, Invariance, PTL
=============================================================================
