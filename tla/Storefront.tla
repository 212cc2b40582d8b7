----------------------------- MODULE Storefront -----------------------------
(***************************************************************************)
(* The pages that anybody may read: the catalogue, a product, the products *)
(* near a place, and the map of vendors with some of their products.  Each *)
(* page is put together from several statements.                           *)
(***************************************************************************)
EXTENDS Catalogue

CONSTANT OnMap  \* products of a vendor on the map (4 in the code)

Pages == {"catalogue", "detail", "nearby", "map"}
Described == {"catalogue", "detail", "nearby"}

\* A product on a page, with the position of its vendor as far as it was read.
Entry == [id: Products, lat: Spots \cup {NoRow}, lng: Spots \cup {NoRow}]

PageRequest ==
  [at: {"count", "places", "select", "lat", "lng", "done"}, kind: Pages,
   total: Nat, vendors: SUBSET Vendors, left: SUBSET Products, shown: SUBSET Entry,
   id: Products \cup {NoRow}, lat: Spots \cup {NoRow}]

First(kind) ==
  CASE kind = "catalogue" -> "count" [] kind = "detail" -> "select" [] OTHER -> "places"

Open(w, kind) ==
  Begin(w,
       [at |-> First(kind), kind |-> kind, total |-> 0, vendors |-> {}, left |-> {},
        shown |-> {}, id |-> NoRow, lat |-> NoRow])

-----------------------------------------------------------------------------
(* The queries.                                                             *)

\* mutant: no filter on the status
AnyOnSale == Rows

\* status__in=[AVAILABLE, RESERVED, SOLD]
OnSale == {p \in Rows : products[p].status \in Approved}

InStock == {p \in Rows : products[p].stock}

\* ProductService.get_public_catalog
PublicCatalog ==
  {p \in OnSale \cap InStock :
     LET v == vendors[products[p].vendor] IN v.active /\ v.spot # NoRow /\ v.visible}

\* nearby_products asks for active users, LocationViewSet for active locations.
OnTheMap(kind) ==
  {v \in Vendors : /\ vendors[v].spot # NoRow /\ vendors[v].visible
                   /\ kind = "nearby" => vendors[v].active}

Of(whose) == {p \in Products : products[p] # NoRow /\ products[p].vendor \in whose}

\* The sets that LIMIT n may leave of a set of rows.
Limited(rows, n) ==
  LET size == IF Cardinality(rows) < n THEN Cardinality(rows) ELSE n
  IN {page \in SUBSET rows : Cardinality(page) = size}

-----------------------------------------------------------------------------
\* The paginator counts before it slices, and slices what it counted.
Count(w) ==
  /\ At(w, {"catalogue"}, "count")
  /\ request' = [request EXCEPT ![w].total = Cardinality(PublicCatalog), ![w].at = "select"]
  /\ UNCHANGED rest

\* The locations in the radius or on the map, in one statement.
ReadPlaces(w) ==
  /\ At(w, {"nearby", "map"}, "places")
  /\ \E near \in SUBSET OnTheMap(request[w].kind) :
       request' = [request EXCEPT ![w].vendors = near,
                     ![w].at = IF near = {} THEN "done" ELSE "select"]
  /\ UNCHANGED rest

\* What the page may list; on a product's own page, the one asked for.
Found(w) ==
  CASE request[w].kind = "catalogue" -> Limited(PublicCatalog, request[w].total)
    [] request[w].kind = "detail" -> Limited(OnSale, 0) \cup Limited(OnSale, 1)
    [] OTHER -> {OnSale \cap InStock \cap Of(request[w].vendors)}

SelectProducts(w) ==
  /\ At(w, Described, "select")
  /\ \E found \in Found(w) :
       request' = [request EXCEPT ![w].left = found,
                     ![w].at = IF found = {} THEN "done" ELSE "lat"]
  /\ UNCHANGED rest

\* mutant: the serializer hides the position of a hidden vendor
VisibleSpot(p) ==
  IF vendors[products[p].vendor].visible THEN vendors[products[p].vendor].spot ELSE NoRow

\* ReadProSerializer: latitude and longitude look the location up anew, visible
\* or not.
Spot(p) == vendors[products[p].vendor].spot

ReadLatitude(w) ==
  /\ At(w, Described, "lat")
  /\ \E p \in request[w].left :
       request' = [request EXCEPT ![w].id = p, ![w].lat = Spot(p), ![w].at = "lng"]
  /\ UNCHANGED rest

ReadLongitude(w) ==
  /\ At(w, Described, "lng")
  /\ LET r == request[w] IN
       request' = [request EXCEPT
          ![w].shown = @ \cup {[id |-> r.id, lat |-> r.lat, lng |-> Spot(r.id)]},
          ![w].left = @ \ {r.id}, ![w].id = NoRow, ![w].lat = NoRow,
          ![w].at = IF r.left = {r.id} THEN "done" ELSE "lat"]
  /\ UNCHANGED rest

\* LocationSerializer.get_products: one statement for each location.
ListProducts(w) ==
  /\ At(w, {"map"}, "select")
  /\ \E v \in request[w].vendors :
     \E some \in Limited({p \in InStock \cap Of({v}) : products[p].status = "AVAILABLE"}, OnMap) :
       request' = [request EXCEPT
          ![w].shown = @ \cup {[id |-> p, lat |-> NoRow, lng |-> NoRow] : p \in some},
          ![w].vendors = @ \ {v},
          ![w].at = IF request[w].vendors = {v} THEN "done" ELSE "select"]
  /\ UNCHANGED rest

Browse(w) ==
  \/ \E kind \in Pages : Open(w, kind)
  \/ Count(w) \/ ReadPlaces(w) \/ SelectProducts(w)
  \/ ReadLatitude(w) \/ ReadLongitude(w) \/ ListProducts(w)
=============================================================================
