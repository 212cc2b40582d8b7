----------------------------- MODULE Publishing -----------------------------
(***************************************************************************)
(* The form for a new product, and the edit that adds pictures to one.     *)
(* The pictures go to the file store while the form is validated: before   *)
(* anyone asks whether the user may publish, and outside the transaction   *)
(* that stores the rows.                                                   *)
(***************************************************************************)
EXTENDS Catalogue

CONSTANT MaxImages  \* bound: pictures in a form

ASSUME ImagesAssumption == MaxImages \in Nat

VARIABLES
  hosted,  \* files in Cloudinary
  lost     \* history: files that no row refers to any more

files == <<hosted, lost>>

\* What is sent: the vendor, the status, the price, and how many pictures.
Form == [vendor: Vendors, status: {"PENDING", "AVAILABLE"}, price: Prices, images: 0..MaxImages]

FormRequest ==
  [at: {"upload", "create", "recheck", "update", "done", "broken"}, kind: {"create", "edit"},
   form: Form, copy: Product \cup {NoRow}, id: Products \cup {NoRow},
   left: 0..MaxImages, mine: SUBSET Files, failed: BOOLEAN]

Forms == {"create", "edit"}

\* A new product; any signed-in user reaches the validation.
Submit(w, form) ==
  /\ Begin(w, [at |-> "upload", kind |-> "create", form |-> form, copy |-> NoRow, id |-> NoRow,
        left |-> form.images, mine |-> {}, failed |-> FALSE])
  /\ UNCHANGED files

\* An edit of the price that sends pictures; get_object() finds the product
\* among those that the user manages.
SubmitEdit(w, form, p) ==
  /\ p \in Rows
  /\ Begin(w,
       [at |-> "upload", kind |-> "edit", form |-> form, copy |-> products[p], id |-> p,
        left |-> form.images, mine |-> {}, failed |-> FALSE])
  /\ UNCHANGED files

Uploading(w) == At(w, Forms, "upload") /\ request[w].left > 0

\* PImageWriteSerializer.validate: the picture, or what its URL returns.
Upload(w) ==
  /\ Uploading(w)
  /\ \E f \in Files \ hosted :
       /\ hosted' = hosted \cup {f}
       /\ request' = [request EXCEPT ![w].left = @ - 1, ![w].mine = @ \cup {f}]
  /\ UNCHANGED <<rest, lost>>

\* One that fails spoils the form; the remaining pictures are still sent.
UploadFails(w) ==
  /\ Uploading(w)
  /\ request' = [request EXCEPT ![w].left = @ - 1, ![w].failed = TRUE]
  /\ UNCHANGED <<rest, files>>

\* No one removes the files of a request that fails.
Fail(w) ==
  /\ request' = [request EXCEPT ![w].at = "broken"]
  /\ lost' = lost \cup request[w].mine
  /\ UNCHANGED <<rest, hosted>>

Validated(w) ==
  /\ At(w, Forms, "upload") /\ request[w].left = 0
  /\ ~request[w].failed
  /\ request' = [request EXCEPT ![w].at = IF request[w].kind = "create" THEN "create" ELSE "recheck"]
  /\ UNCHANGED <<rest, files>>

\* is_valid() raises, for a picture or for another field, or perform_create
\* refuses the user, who may not publish or not for that vendor.
Refused(w) ==
  /\ At(w, Forms, "upload") /\ request[w].left = 0
  /\ Fail(w)

\* mutant: the pictures are taken out of the data and never stored
NotStored(w) == {}

\* validated_data['images']
Uploaded(w) == request[w].mine

\* mutant: perform_create passes no vendor
SavedForNobody(w) == NoRow

\* serializer.save(vendor=..)
SavedFor(w) == request[w].form.vendor

\* CreProSerializer.create: the product and its pictures in one transaction.
Create(w) ==
  /\ At(w, {"create"}, "create")
  /\ LET form == request[w].form IN
     \E p \in Products, stock \in BOOLEAN :
       /\ products[p] = NoRow
       /\ products' = [products EXCEPT ![p] =
            [vendor |-> SavedFor(w), status |-> form.status, price |-> form.price,
             stock |-> stock, deleted |-> FALSE, pictures |-> Uploaded(w)]]
       /\ request' = [request EXCEPT ![w].at = "done", ![w].id = p]
  /\ writes' = writes + 1
  /\ UNCHANGED <<vendors, begun, files>>

\* perform_update: get_object() again, which misses a product archived since.
Recheck(w) ==
  /\ At(w, {"edit"}, "recheck")
  /\ request[w].id \in Rows
  /\ request' = [request EXCEPT ![w].at = "update"]
  /\ UNCHANGED <<rest, files>>

RecheckFails(w) ==
  /\ At(w, {"edit"}, "recheck")
  /\ request[w].id \notin Rows
  /\ Fail(w)

\* CreProSerializer.update: every column of the copy, and the new pictures.
Update(w) ==
  /\ At(w, {"edit"}, "update")
  /\ LET r == request[w] IN
       products' = [products EXCEPT ![r.id] =
         [r.copy EXCEPT !.price = r.form.price, !.pictures = products[r.id].pictures \cup Uploaded(w)]]
  /\ request' = [request EXCEPT ![w].at = "done"]
  /\ writes' = writes + 1
  /\ UNCHANGED <<vendors, begun, files>>

\* The transaction fails and is rolled back, or the worker dies.
Abort(w) ==
  /\ request[w].kind \in Forms /\ ~Free(w)
  /\ Fail(w)

Publish(w) ==
  \/ \E form \in Form : Submit(w, form) \/ \E p \in Products : SubmitEdit(w, form, p)
  \/ Upload(w) \/ UploadFails(w) \/ Validated(w) \/ Refused(w)
  \/ Create(w) \/ Recheck(w) \/ RecheckFails(w) \/ Update(w) \/ Abort(w)
=============================================================================
