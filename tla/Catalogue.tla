----------------------------- MODULE Catalogue -----------------------------
(***************************************************************************)
(* The tables that the public pages, the shopping assistant and the forms  *)
(* for products work on, the web workers that serve them, and the writes   *)
(* that the requests of the other modules commit meanwhile.  Nothing here  *)
(* is locked: a request that needs several statements sees the tables at   *)
(* several moments.                                                        *)
(***************************************************************************)
EXTENDS Naturals, FiniteSets

CONSTANTS
  Workers,    \* web workers
  Vendors,    \* users with the role VENDEDOR
  Products,   \* keys of products_product
  Spots,      \* coordinates of a vendor
  Prices,
  Files,      \* files in Cloudinary
  Written,    \* statuses that the other requests write
  MaxBegun,   \* bound: requests served and writes of other requests, together
  NoRow

ASSUME ProductsAssumption == IsFiniteSet(Products)
ASSUME PricesAssumption == Prices \subseteq Nat
ASSUME MaxBegunAssumption == MaxBegun \in Nat

Status == {"PENDING", "AVAILABLE", "INACTIVE", "REJECTED", "RESERVED", "SOLD"}
ASSUME WrittenAssumption == Written \subseteq Status

\* The statuses of a product that moderators have let through.
Approved == {"AVAILABLE", "RESERVED", "SOLD"}

\* A product with its rows in products_images.
Product == [vendor: Vendors, status: Status, price: Prices, stock: BOOLEAN,
            deleted: BOOLEAN, pictures: SUBSET Files]
ASSUME NoRowAssumption == NoRow \notin Product

\* A vendor with the row in geo_location.
Vendor == [active: BOOLEAN, spot: Spots \cup {NoRow}, visible: BOOLEAN]

VARIABLES
  products,  \* Products -> Product or NoRow
  vendors,   \* Vendors -> Vendor
  request,   \* Workers -> the request that each serves, or served last
  writes,    \* history: how many writes of these tables have committed
  begun      \* bound: how many requests and writes of other requests have begun

tables == <<products, vendors, writes>>
rest == <<tables, begun>>

Idle == [at |-> "idle", kind |-> "none"]

\* The worker may take a request: none yet, or the last one was answered.
Free(w) == request[w].at \in {"idle", "done", "broken"}
Begin(w, r) ==
  /\ Free(w)
  /\ begun < MaxBegun /\ begun' = begun + 1
  /\ request' = [request EXCEPT ![w] = r]
  /\ UNCHANGED tables

At(w, kinds, stage) == request[w].kind \in kinds /\ request[w].at = stage

\* Product.objects: the rows that are not deleted.
Rows == {p \in Products : products[p] # NoRow /\ ~products[p].deleted}

\* Products that were published before, and a key for another.
CatalogueInit ==
  /\ vendors \in [Vendors -> [active: {TRUE}, spot: Spots, visible: {TRUE}]]
  /\ products \in [Products -> {NoRow} \cup
       [vendor: Vendors, status: {"AVAILABLE"}, price: Prices, stock: {TRUE},
        deleted: {FALSE}, pictures: {{}}]]
  /\ \E p \in Products : products[p] = NoRow
  /\ request = [w \in Workers |-> Idle]
  /\ writes = 0 /\ begun = 0

\* A committed write of another request: an order or a moderator sets the
\* status, the vendor the price or the stock, or archives or restores.
ProductWrite ==
  /\ begun < MaxBegun /\ begun' = begun + 1
  /\ \E p \in Products : products[p] # NoRow /\
       \/ \E s \in Written : products' = [products EXCEPT ![p].status = s]
       \/ \E c \in Prices : products' = [products EXCEPT ![p].price = c]
       \/ products' = [products EXCEPT ![p].stock = ~@]
       \/ products' = [products EXCEPT ![p].deleted = ~@]
  /\ writes' = writes + 1
  /\ UNCHANGED <<vendors, request>>

\* An administrator blocks the vendor or lifts the block, or the vendor hides
\* or shows, moves, or removes the location.
VendorWrite ==
  /\ begun < MaxBegun /\ begun' = begun + 1
  /\ \E v \in Vendors :
       \/ vendors' = [vendors EXCEPT ![v].active = ~@]
       \/ vendors' = [vendors EXCEPT ![v].visible = ~@]
       \/ \E s \in Spots \cup {NoRow} : vendors' = [vendors EXCEPT ![v].spot = s]
  /\ writes' = writes + 1
  /\ UNCHANGED <<products, request>>
=============================================================================
