----------------------------- MODULE Moderation -----------------------------
(***************************************************************************)
(* The manual review of one product and of its rejected images, by         *)
(* administrators who work at the same time, while its vendor edits,       *)
(* archives and restores it.                                               *)
(*                                                                         *)
(* No request of a moderator opens a transaction: each statement commits   *)
(* by itself and is a step.  An edit of the vendor reads the product, and  *)
(* later saves the whole row and adds images in one transaction.           *)
(*                                                                         *)
(* The rows under review were written by the automatic moderation of       *)
(* earlier releases, which this release does not run: ModInit is any state it *)
(* left.                                                                   *)
(***************************************************************************)
EXTENDS Naturals, FiniteSets

CONSTANTS
  Moderators,  \* requests of administrators
  Images,      \* images that the product may have
  MaxEdits,    \* bound: edits of the vendor
  NoImage

ASSUME ImageAssumption == NoImage \notin Images
ASSUME EditsAssumption == MaxEdits \in Nat

ProductStatus == {"REJECTED", "PENDING", "AVAILABLE"}
ModerationStatus == {"none", "APPROVED", "REJECTED"}
RecordStatus == {"none", "PENDING", "APPROVED", "CONFIRMED_REJECTED"}
ProductDecisions == {"APPROVED_PRODUCT", "REJECTED_PRODUCT", "APPROVED_IMAGES"}
ImageDecisions == {"APPROVED", "CONFIRMED_REJECTED"}
Decisions == ProductDecisions \cup ImageDecisions

\* Decisions that let the product, or the image, be shown.
Approving == {"APPROVED_PRODUCT", "APPROVED_IMAGES", "APPROVED"}

VARIABLES
  product,   \* status and soft deletion of the product
  images,    \* PImages.moderation_status, or "none"
  records,   \* RejectedImage.review_status, or "none"
  review,    \* ProductReview.review_status
  doing,     \* Moderators -> what the request does next
  draft,     \* the status in the instance of the vendor's edit, or "none"
  edits,     \* how many edits the vendor began
  rejected,  \* history: the product was rejected by a review
  opposed,   \* history: decisions that disagree were under way together
  missed,    \* history: an UPDATE found the product archived
  undone,    \* history: an edit wrote an older status back
  died       \* history: a request ended half-way

history == <<rejected, opposed, missed, undone, died>>
modVars == <<product, images, records, review, doing, draft, edits, history>>

Stages == {"idle", "images", "product", "records", "review",
           "record", "image", "look", "count", "publish"}
Task == [at: Stages, decision: Decisions \cup {"none"}, image: Images \cup {NoImage},
         status: ProductStatus \cup {"none"}]
Idle == [at |-> "idle", decision |-> "none", image |-> NoImage, status |-> "none"]

ModTypeOK ==
  /\ product \in [status: ProductStatus, deleted: BOOLEAN]
  /\ images \in [Images -> ModerationStatus]
  /\ records \in [Images -> RecordStatus]
  /\ \A i \in Images : records[i] # "none" => images[i] # "none"
  /\ review \in {"PENDING"} \cup ProductDecisions
  /\ doing \in [Moderators -> Task]
  /\ draft \in {"none"} \cup ProductStatus
  /\ edits \in 0..MaxEdits
  /\ {rejected, opposed, missed, undone, died} \subseteq BOOLEAN

\* A rejected product: some of its images were rejected, and wait for a review.
ModInit ==
  /\ product = [status |-> "REJECTED", deleted |-> FALSE]
  /\ images \in [Images -> ModerationStatus]
  /\ \E i \in Images : images[i] = "REJECTED"
  /\ records = [i \in Images |-> IF images[i] = "REJECTED" THEN "PENDING" ELSE "none"]
  /\ review = "PENDING"
  /\ doing = [a \in Moderators |-> Idle]
  /\ draft = "none" /\ edits = 0
  /\ rejected = FALSE /\ opposed = FALSE /\ missed = FALSE /\ undone = FALSE /\ died = FALSE

-----------------------------------------------------------------------------
At(a, stage) == doing[a].at = stage
GoesOn(a, stage) == doing' = [doing EXCEPT ![a].at = stage]
Done(a) == doing' = [doing EXCEPT ![a] = Idle]

\* The request begins: history notes the requests it disagrees with.
Begins(a, stage, d, i) ==
  /\ At(a, "idle")
  /\ doing' = [doing EXCEPT ![a] = [at |-> stage, decision |-> d, image |-> i, status |-> "none"]]
  /\ opposed' = (opposed \/ \E b \in Moderators :
       ~At(b, "idle") /\ (doing[b].decision \in Approving) # (d \in Approving))
  /\ UNCHANGED <<product, images, records, review, draft, edits, rejected, missed, undone, died>>

\* Product.objects.filter(pk=...).update(status=...): an archived product is
\* not among the objects.
UpdateProduct(status) ==
  /\ product' = IF product.deleted THEN product ELSE [product EXCEPT !.status = status]
  /\ missed' = (missed \/ product.deleted)

(* POST /products/review_full_product/                                      *)

\* The review is fetched, and must be pending.
ReviewFetch(a, d) ==
  /\ review = "PENDING"
  /\ Begins(a, IF d \in Approving THEN "images" ELSE "product", d, NoImage)

ApproveImages(a) ==
  /\ At(a, "images")
  /\ images' = [i \in Images |-> IF images[i] = "none" THEN "none" ELSE "APPROVED"]
  /\ GoesOn(a, "product")
  /\ UNCHANGED <<product, records, review, draft, edits, history>>

Decide(a) ==
  /\ At(a, "product")
  /\ UpdateProduct(IF doing[a].decision \in Approving THEN "AVAILABLE" ELSE "REJECTED")
  /\ rejected' = (rejected \/ doing[a].decision = "REJECTED_PRODUCT")
  /\ GoesOn(a, "records")
  /\ UNCHANGED <<images, records, review, draft, edits, opposed, undone, died>>

\* mutant: the rejection of a product leaves the records of its images pending
SettleApproved(a) ==
  /\ At(a, "records")
  /\ records' = [i \in Images |->
       IF records[i] = "none" \/ doing[a].decision \notin Approving
         THEN records[i] ELSE "APPROVED"]
  /\ GoesOn(a, "review")
  /\ UNCHANGED <<product, images, review, draft, edits, history>>

SettleRecords(a) ==
  /\ At(a, "records")
  /\ records' = [i \in Images |->
       IF records[i] = "none" THEN "none"
       ELSE IF doing[a].decision \in Approving THEN "APPROVED" ELSE "CONFIRMED_REJECTED"]
  /\ GoesOn(a, "review")
  /\ UNCHANGED <<product, images, review, draft, edits, history>>

SaveReview(a) ==
  /\ At(a, "review")
  /\ review' = doing[a].decision
  /\ Done(a)
  /\ UNCHANGED <<product, images, records, draft, edits, history>>

(* POST /products/approve_rejected_image/, confirm_rejected_image/          *)

\* The record is fetched, and must be pending.
ImageFetch(a, i, d) ==
  /\ records[i] = "PENDING"
  /\ Begins(a, "record", d, i)

\* rejected.save()
SaveRecord(a, decision) ==
  /\ At(a, "record") /\ doing[a].decision = decision
  /\ records' = [records EXCEPT ![doing[a].image] = decision]
  /\ UNCHANGED <<product, images, review, draft, edits, history>>

ConfirmRecord(a) == SaveRecord(a, "CONFIRMED_REJECTED") /\ Done(a)

ApproveRecord(a) == SaveRecord(a, "APPROVED") /\ GoesOn(a, "image")

ApproveImage(a) ==
  /\ At(a, "image")
  /\ images' = [images EXCEPT ![doing[a].image] = "APPROVED"]
  /\ GoesOn(a, "look")
  /\ UNCHANGED <<product, records, review, draft, edits, history>>

\* rejected.product, read now; archived or not.
Look(a) ==
  /\ At(a, "look")
  /\ doing' = [doing EXCEPT ![a].at = "count", ![a].status = product.status]
  /\ UNCHANGED <<product, images, records, review, draft, edits, history>>

\* mutant: the records are counted, not the images
AllRecordsApproved == \A i \in Images : records[i] \in {"none", "APPROVED"}

AllApproved == \A i \in Images : images[i] \in {"none", "APPROVED"}

\* product.images.all(), a later statement.
Count(a) ==
  /\ At(a, "count")
  /\ IF AllApproved /\ doing[a].status = "REJECTED" THEN GoesOn(a, "publish") ELSE Done(a)
  /\ UNCHANGED <<product, images, records, review, draft, edits, history>>

Publish(a) ==
  /\ At(a, "publish")
  /\ UpdateProduct("AVAILABLE")
  /\ Done(a)
  /\ UNCHANGED <<images, records, review, draft, edits, rejected, opposed, undone, died>>

\* A request ends half-way: a worker dies, or a statement fails and the error
\* is answered.
Die(a) ==
  /\ ~At(a, "idle")
  /\ Done(a)
  /\ died' = TRUE
  /\ UNCHANGED <<product, images, records, review, draft, edits,
                 rejected, opposed, missed, undone>>

(* The vendor.                                                              *)

\* An edit fetches the product; it may ask for another review.  perform_update
\* keeps a vendor from approving a product.
VendorFetch(resubmit) ==
  /\ draft = "none" /\ ~product.deleted
  /\ edits < MaxEdits /\ edits' = edits + 1
  /\ draft' = IF resubmit THEN "PENDING" ELSE product.status
  /\ UNCHANGED <<product, images, records, review, doing, history>>

\* perform_update reads the product again and finds it archived, or the worker
\* dies.
VendorEnds ==
  /\ draft # "none"
  /\ draft' = "none"
  /\ UNCHANGED <<product, images, records, review, doing, edits, history>>

\* The whole row is saved, is_deleted included, and the new images added:
\* approved, by default.
VendorSave(new) ==
  /\ draft # "none"
  /\ \A i \in new : images[i] = "none"
  /\ product' = [status |-> draft, deleted |-> FALSE]
  /\ undone' = (undone \/ draft \notin {product.status, "PENDING"})
  /\ images' = [i \in Images |-> IF i \in new THEN "APPROVED" ELSE images[i]]
  /\ draft' = "none"
  /\ UNCHANGED <<records, review, doing, edits, rejected, opposed, missed, died>>

ArchiveProduct ==
  /\ ~product.deleted
  /\ product' = [product EXCEPT !.deleted = TRUE]
  /\ UNCHANGED <<images, records, review, doing, draft, edits, history>>

RestoreProduct ==
  /\ product.deleted
  /\ product' = [product EXCEPT !.deleted = FALSE]
  /\ UNCHANGED <<images, records, review, doing, draft, edits, history>>

ModNext ==
  \/ \E a \in Moderators :
       \/ \E d \in ProductDecisions : ReviewFetch(a, d)
       \/ \E i \in Images, d \in ImageDecisions : ImageFetch(a, i, d)
       \/ ApproveImages(a) \/ Decide(a) \/ SettleRecords(a) \/ SaveReview(a)
       \/ ConfirmRecord(a) \/ ApproveRecord(a) \/ ApproveImage(a) \/ Look(a) \/ Count(a) \/ Publish(a)
       \/ Die(a)
  \/ \E resubmit \in BOOLEAN : VendorFetch(resubmit)
  \/ \E new \in SUBSET Images : VendorSave(new)
  \/ VendorEnds \/ ArchiveProduct \/ RestoreProduct

ModSpec == ModInit /\ [][ModNext]_modVars
=============================================================================
