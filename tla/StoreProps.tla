----------------------------- MODULE StoreProps -----------------------------
(* The public pages, the assistant, the forms for products and the pictures *)
(* of profiles at work on the same tables and files, and what is claimed.   *)
EXTENDS Storefront, Chat, ProfilePictures

VARIABLE seen  \* history: what each worker's request could have seen so far

storeVars == <<products, vendors, request, writes, begun, hosted, lost, pictures, latest, seen>>

\* Products on offer at this moment, as the request understands it.
OnOffer(r) ==
  {p \in Products : LET row == products[p] IN
     row # NoRow /\ ~row.deleted /\
     CASE r.kind = "chat" -> row.status = "AVAILABLE" /\ p \in r.words
                           /\ (r.budget = NoRow \/ row.price <= r.budget)
       [] r.kind = "map" -> row.status = "AVAILABLE" /\ row.stock
       [] r.kind = "detail" -> row.status \in {"AVAILABLE", "RESERVED", "SOLD"}
       [] r.kind = "nearby" -> row.status \in {"AVAILABLE", "RESERVED", "SOLD"} /\ row.stock
       [] r.kind = "catalogue" ->
            /\ row.status \in {"AVAILABLE", "RESERVED", "SOLD"} /\ row.stock
            /\ vendors[row.vendor].active /\ vendors[row.vendor].visible
       [] OTHER -> FALSE}

\* Vendors that are in business at this moment.
InBusiness == {v \in Vendors : vendors[v].active /\ vendors[v].visible}

Reads == Pages \cup {"chat"}

Now(r) ==
  IF r.kind \notin Reads THEN [offers |-> {{}}, open |-> {}, spots |-> {}, apart |-> {}]
  ELSE [offers |-> {OnOffer(r)}, open |-> InBusiness,
        spots |-> {<<v, vendors[v].spot>> : v \in Vendors}, apart |-> {}]

\* The product whose latitude is read and longitude is not, if its vendor's
\* location is written in this step.
Crossed(r) ==
  {p \in Products : /\ r.at = "lng" /\ p = r.id
                    /\ LET v == products[p].vendor IN vendors'[v].spot # vendors[v].spot}

Joined(s, t, crossed) ==
  [offers |-> s.offers \cup t.offers, open |-> s.open \cup t.open,
   spots |-> s.spots \cup t.spots, apart |-> s.apart \cup crossed]

\* A request that begins sees the tables of this moment; one that goes on, of
\* every moment until it is answered.
Watch ==
  seen' = [w \in Workers |->
    IF Free(w)
      THEN IF Free(w)' THEN seen[w] ELSE Now(request[w])'
      ELSE Joined(seen[w], Now(request[w])', Crossed(request[w]))]

Init ==
  /\ CatalogueInit
  /\ PicturesInit
  /\ seen = [w \in Workers |-> Now(Idle)]

Next ==
  /\ \/ (ProductWrite \/ VendorWrite) /\ UNCHANGED <<files, gallery>>
     \/ \E w \in Workers : (Browse(w) \/ Assist(w)) /\ UNCHANGED <<files, gallery>>
     \/ \E w \in Workers : Publish(w) /\ UNCHANGED gallery
     \/ \E w \in Workers : Portray(w)
  /\ Watch

Spec == Init /\ [][Next]_storeVars

Request == {Idle} \cup PageRequest \cup ChatRequest \cup FormRequest \cup PictureRequest

TypeOK ==
  /\ products \in [Products -> Product \cup {NoRow}]
  /\ vendors \in [Vendors -> Vendor]
  /\ request \in [Workers -> Request]
  /\ writes \in Nat /\ begun \in 0..MaxBegun
  /\ hosted \subseteq Files /\ lost \subseteq hosted
  /\ pictures \in [Vendors -> ProfilePicture] /\ latest \in [Vendors -> Address]

-----------------------------------------------------------------------------
Shown(w) == {e.id : e \in request[w].shown}

Listed(w) ==
  CASE request[w].kind \in Pages -> Shown(w)
    [] request[w].kind = "chat" -> Ids(request[w].others \cup Picks(w))
    [] OTHER -> {}

\* Every product on a page or in an answer of the assistant was on offer at a
\* moment of the request, its vendor in business at the same or, on the page of
\* products nearby, at another moment; a page of the catalogue was all on offer
\* at one moment (products/services.py:12-32, views.py:638-668,
\* geo/serializers.py:49-60).
ShownWereOffered ==
  \A w \in Workers :
    /\ Listed(w) \subseteq UNION seen[w].offers
    /\ request[w].kind = "catalogue" => \E o \in seen[w].offers : Listed(w) \subseteq o
    /\ request[w].kind = "nearby" => \A p \in Listed(w) : products[p].vendor \in seen[w].open

\* Latitude and longitude are read in two statements, after the product and
\* without its conditions.  They are of one place unless the vendor moved between
\* the two reads, so neither a location that is hidden in between nor one written
\* before or after parts them, and each was the vendor's at a moment of the request
\* (products/serializers.py:213-225).
CoordinatesHeld ==
  \A w \in Workers :
    request[w].kind \in Described =>
      \A e \in request[w].shown : LET v == products[e.id].vendor IN
        /\ e.lat = e.lng \/ e.id \in seen[w].apart
        /\ <<v, e.lat>> \in seen[w].spots /\ <<v, e.lng>> \in seen[w].spots

\* The assistant lists at most five products and none twice, although it finds
\* them in three statements; unless a product was written while it searched, none
\* of them is cheaper than the one it calls the cheapest or dearer than the one it
\* calls the dearest; and it breaks down only if, after it saw some product, there
\* was a moment without any that matches (chat/views.py:72-86).
AssistantHolds ==
  \A w \in Workers :
    LET r == request[w] IN
      /\ r.kind = "chat" /\ r.at \in {"reply", "record", "done"} =>
           LET picks == {r.cheapest, r.dearest} \ {NoRow} IN
             /\ Ids(picks) \cap Ids(r.others) = {}
             /\ Cardinality(Ids(picks) \cup Ids(r.others)) <= MaxFound
             /\ picks # {} /\ r.quiet =>
                  \A o \in r.others \cup picks : r.cheapest.price <= o.price /\ o.price <= r.dearest.price
      /\ r.kind = "chat" /\ r.at = "broken" =>
           {} \in seen[w].offers /\ seen[w].offers # {{}}

\* The state is well typed; every file that was ever uploaded is behind a picture
\* of one product or profile, in the hands of a request that is under way, or lost
\* with a request that failed or a profile's picture that was replaced; and a
\* profile shows its latest picture or none, although a removal may write an
\* older one back (products/serializers.py:22-67, 122-155, users/views.py:189-241).
FilesAccounted ==
  LET Behind(f) == {p \in Products : products[p] # NoRow /\ f \in products[p].pictures}
                   \cup {v \in Vendors : pictures[v].image_url = f}
      Carried(f) == {w \in Workers : /\ request[w].kind \in Forms \cup {"post"}
                                     /\ ~Free(w) /\ f \in request[w].mine}
  IN /\ TypeOK
     /\ \A f \in Files :
          Cardinality(Behind(f)) + Cardinality(Carried(f)) + (IF f \in lost THEN 1 ELSE 0)
            = (IF f \in hosted THEN 1 ELSE 0)
     /\ \A v \in Vendors : {ShownPicture(v), PublicPicture(v)} \subseteq {latest[v], NoRow}
=============================================================================
