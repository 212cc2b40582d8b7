---------------------------- MODULE StoreProofs ----------------------------
(***************************************************************************)
(* Theorems about the public pages, the assistant, the forms for products  *)
(* and the pictures of profiles on the same tables and files, for any      *)
(* number of workers, vendors, products, files and writes, checked by      *)
(* TLAPS.                                                                  *)
(***************************************************************************)
EXTENDS StoreProps, FiniteSetTheorems, TLAPS

(* What the tables promise.                                                 *)

\* A request deals with products that exist, and an edit with one that stays with
\* its vendor.
RowsOk(r) ==
  /\ r.kind = "edit" =>
       /\ r.id \in Products /\ products[r.id] # NoRow
       /\ r.copy \in Product /\ r.copy.vendor = products[r.id].vendor
  /\ r.kind \in Pages =>
       /\ r.at = "lng" => r.id \in r.left
       /\ \A p \in r.left : products[p] # NoRow
       /\ \A e \in r.shown : products[e.id] # NoRow

\* The files that a request sent are in the store.
FilesOk(r) == r.kind \in Forms \cup PictureKinds => r.mine \subseteq hosted

TablesInv == TypeOK /\ \A w \in Workers : RowsOk(request[w]) /\ FilesOk(request[w])

\* No product is erased or given away, and every write of one is counted.
Keeps ==
  /\ \A p \in Products : products[p] # NoRow =>
       products'[p] # NoRow /\ products'[p].vendor = products[p].vendor
  /\ writes \in Nat /\ writes' \in Nat /\ writes <= writes'
  /\ writes' = writes => products' = products

(* What a request saw.                                                      *)

\* A request under way has seen the tables as they are.
Caught(w) ==
  ~Free(w) /\ request[w].kind \in Reads =>
    /\ OnOffer(request[w]) \in seen[w].offers
    /\ InBusiness \subseteq seen[w].open
    /\ \A v \in Vendors : <<v, vendors[v].spot>> \in seen[w].spots

\* Products that a page shows, or has selected.
Chosen(w) == Shown(w) \cup request[w].left

PageInv(w) ==
  LET r == request[w] IN
    r.kind \in Pages =>
      /\ r.at \in {"count", "places"} => Chosen(w) = {}
      /\ r.at = "select" /\ r.kind \in Described => Chosen(w) = {}
      /\ r.kind = "map" => r.left = {}
      /\ Chosen(w) \subseteq UNION seen[w].offers
      /\ r.kind = "catalogue" => \E o \in seen[w].offers : Chosen(w) \subseteq o
      /\ r.kind = "nearby" =>
           r.vendors \subseteq seen[w].open /\ \A p \in Chosen(w) : products[p].vendor \in r.vendors
      /\ r.kind \in Described => \A e \in r.shown : LET v == products[e.id].vendor IN
           /\ <<v, e.lat>> \in seen[w].spots /\ <<v, e.lng>> \in seen[w].spots
           /\ e.lat = e.lng \/ e.id \in seen[w].apart
      /\ r.at = "lng" => /\ <<products[r.id].vendor, r.lat>> \in seen[w].spots
                         /\ r.lat = Spot(r.id) \/ r.id \in seen[w].apart

\* What the search found first is first among what matches.
IsFirst(r, offer, ascending) ==
  /\ offer.id \in Matching(r) /\ offer.price = products[offer.id].price
  /\ \A p \in Matching(r) : Before(ascending, offer.id, p)

Answered == {"reply", "record", "done"}

\* The answer that AssistantHolds promises.
AnswerOk(w) ==
  LET r == request[w]
      picks == {r.cheapest, r.dearest} \ {NoRow}
  IN /\ Ids(picks) \cap Ids(r.others) = {}
     /\ Cardinality(Ids(picks) \cup Ids(r.others)) <= MaxFound
     /\ picks # {} /\ r.quiet =>
          \A o \in r.others \cup picks : r.cheapest.price <= o.price /\ o.price <= r.dearest.price

ChatInv(w) ==
  LET r == request[w] IN
    r.kind = "chat" =>
      /\ r.at \in {"exists", "slice", "cheapest"} => r.cheapest = NoRow
      /\ r.at \in {"exists", "slice", "cheapest", "dearest"} => r.dearest = NoRow
      /\ r.at \notin Answered => r.others = {}
      /\ r.at = "others" => r.cheapest # NoRow /\ r.dearest # NoRow
      /\ Ids(r.others \cup Picks(w)) \subseteq UNION seen[w].offers
      /\ r.since <= writes
      /\ r.at \in {"dearest", "others"} /\ r.cheapest # NoRow /\ r.since = writes =>
           IsFirst(r, r.cheapest, TRUE)
      /\ r.at = "others" /\ r.since = writes => IsFirst(r, r.dearest, FALSE)
      /\ r.at \in {"cheapest", "dearest", "broken"} => seen[w].offers # {{}}
      /\ (r.at = "dearest" /\ r.cheapest = NoRow) \/ r.at = "broken" => {} \in seen[w].offers
      /\ r.at \in Answered => AnswerOk(w)

SeenInv(w) ==
  /\ seen[w].offers # {}
  /\ Caught(w)
  /\ PageInv(w)
  /\ ChatInv(w)

(* Where the files are.                                                     *)

OnProduct(f, p) == products[p] # NoRow /\ f \in products[p].pictures
OnProfile(f, v) == pictures[v].image_url = f
InHands(f, w) == request[w].kind \in Forms \cup {"post"} /\ ~Free(w) /\ f \in request[w].mine

\* Every file that was uploaded is somewhere, and at one place.
FileInv(f) ==
  /\ f \in hosted <=> \/ \E p \in Products : OnProduct(f, p)
                      \/ \E v \in Vendors : OnProfile(f, v)
                      \/ \E w \in Workers : InHands(f, w)
                      \/ f \in lost
  /\ \A p \in Products : OnProduct(f, p) =>
       /\ f \notin lost
       /\ \A q \in Products : OnProduct(f, q) => q = p
       /\ \A v \in Vendors : ~OnProfile(f, v)
       /\ \A w \in Workers : ~InHands(f, w)
  /\ \A v \in Vendors : OnProfile(f, v) =>
       /\ f \notin lost
       /\ \A u \in Vendors : OnProfile(f, u) => u = v
       /\ \A w \in Workers : ~InHands(f, w)
  /\ \A w \in Workers : InHands(f, w) =>
       f \notin lost /\ \A x \in Workers : InHands(f, x) => x = w

TurningOff(w) == At(w, {"delete"}, "turnOff")

\* A removal that is under way holds a picture that its user posted: nobody
\* else's, and nowhere else unless it was replaced.
RemovalInv(w) ==
  /\ At(w, {"post"}, "store") => request[w].mine = Files \cap {request[w].row.image_url}
  /\ request[w].kind = "delete" => request[w].mine = {}
  /\ TurningOff(w) /\ request[w].row.image_url \in Files =>
       LET f == request[w].row.image_url IN
         /\ f \in lost \/ OnProfile(f, request[w].user)
         /\ \A x \in Workers :
              TurningOff(x) /\ request[x].row.image_url = f => request[x].user = request[w].user

FilesInv ==
  /\ \A f \in Files : FileInv(f)
  /\ \A w \in Workers : RemovalInv(w)
  /\ \A v \in Vendors : pictures[v].is_active => pictures[v].image_url = latest[v]

\* The inductive invariant.
IInv ==
  /\ TablesInv
  /\ \A w \in Workers : SeenInv(w)
  /\ FilesInv

-----------------------------------------------------------------------------
(* The kinds of requests, and steps of one of them.                         *)

USE ProductsAssumption, PricesAssumption, MaxBegunAssumption, NoRowAssumption, WrittenAssumption,
    NoOfferAssumption, MaxFoundAssumption, ImagesAssumption, ElsewhereAssumption

LEMMA Kinds ==
  ASSUME NEW r \in Request
  PROVE  /\ r.kind \in Pages => r \in PageRequest
         /\ r.kind = "chat" => r \in ChatRequest
         /\ r.kind \in Forms => r \in FormRequest
         /\ r.kind \in PictureKinds => r \in PictureRequest
  BY DEF Request, Idle, PageRequest, ChatRequest, FormRequest, PictureRequest,
         Pages, Forms, PictureKinds

LEMMA IdleIsRequest == Idle \in Request
  BY DEF Request

\* One worker's request moves.
LEMMA OneMoves ==
  ASSUME TypeOK, NEW w \in Workers, NEW r \in Request, request' = [request EXCEPT ![w] = r]
  PROVE  /\ request' \in [Workers -> Request]
         /\ request'[w] = r
         /\ \A x \in Workers \ {w} : request'[x] = request[x]
  BY DEF TypeOK

\* The tables of products are as they were.
LEMMA SameTables == ASSUME TypeOK, UNCHANGED <<products, writes>> PROVE Keeps
  BY DEF Keeps, TypeOK

FilesTyped ==
  /\ hosted \subseteq Files /\ lost \subseteq hosted
  /\ pictures \in [Vendors -> ProfilePicture] /\ latest \in [Vendors -> Address]

LEMMA RequestMoves ==
  ASSUME TablesInv, NEW w \in Workers, NEW r \in Request, request' = [request EXCEPT ![w] = r],
         RowsOk(r), r.kind \in Forms \cup PictureKinds => r.mine \subseteq hosted',
         UNCHANGED tables, begun' \in 0..MaxBegun, FilesTyped', hosted \subseteq hosted'
  PROVE  TablesInv' /\ Keeps
  <1>1. /\ request' \in [Workers -> Request]
        /\ request'[w] = r
        /\ \A x \in Workers \ {w} : request'[x] = request[x]
    BY OneMoves DEF TablesInv
  <1>2. TypeOK'
    BY <1>1 DEF TablesInv, TypeOK, FilesTyped, tables
  <1>3. ASSUME NEW x \in Workers PROVE RowsOk(request[x])' /\ FilesOk(request[x])'
    <2>1. RowsOk(request'[x])
      BY <1>1 DEF TablesInv
    <2>2. request'[x].kind \in Forms \cup PictureKinds => request'[x].mine \subseteq hosted'
      BY <1>1 DEF TablesInv, FilesOk
    <2>3. QED
      BY <2>1, <2>2 DEF RowsOk, FilesOk, tables
  <1>4. Keeps
    BY SameTables DEF TablesInv, tables
  <1>5. QED
    BY <1>2, <1>3, <1>4 DEF TablesInv

\* A page is opened or goes on.
LEMMA PageMoves ==
  ASSUME TablesInv, NEW w \in Workers, NEW r \in PageRequest, request' = [request EXCEPT ![w] = r],
         RowsOk(r), UNCHANGED <<tables, files, gallery>>, begun' \in 0..MaxBegun
  PROVE  TablesInv' /\ Keeps
  <1>1. r \in Request /\ r.kind \notin Forms \cup PictureKinds
    BY DEF Request, PageRequest, Pages, Forms, PictureKinds
  <1>2. FilesTyped'
    BY DEF TablesInv, TypeOK, FilesTyped, files, gallery
  <1>3. QED
    BY <1>1, <1>2, RequestMoves DEF files

LEMMA ChatMoves ==
  ASSUME TablesInv, NEW w \in Workers, NEW r \in ChatRequest, request' = [request EXCEPT ![w] = r],
         UNCHANGED <<tables, files, gallery>>, begun' \in 0..MaxBegun
  PROVE  TablesInv' /\ Keeps
  <1>1. r \in Request /\ RowsOk(r) /\ r.kind \notin Forms \cup PictureKinds
    BY DEF Request, ChatRequest, RowsOk, Pages, Forms, PictureKinds
  <1>2. FilesTyped'
    BY DEF TablesInv, TypeOK, FilesTyped, files, gallery
  <1>3. QED
    BY <1>1, <1>2, RequestMoves DEF files

LEMMA Limits ==
  ASSUME NEW rows \in SUBSET Products, NEW n, NEW page \in Limited(rows, n)
  PROVE  page \subseteq rows
  BY DEF Limited

\* The request of a worker that serves a page is a page's.
LEMMA ServesPage ==
  ASSUME TablesInv, NEW w \in Workers, request[w].kind \in Pages
  PROVE  request[w] \in PageRequest /\ RowsOk(request[w])
  BY Kinds DEF TablesInv, TypeOK

LEMMA BrowseTables ==
  ASSUME TablesInv, NEW w \in Workers, Browse(w), UNCHANGED <<files, gallery>>
  PROVE  TablesInv' /\ Keeps
  <1>1. begun \in 0..MaxBegun /\ products \in [Products -> Product \cup {NoRow}]
    BY DEF TablesInv, TypeOK
  <1>2. ASSUME NEW kind \in Pages, Open(w, kind) PROVE TablesInv' /\ Keeps
    <2> DEFINE r == [at |-> First(kind), kind |-> kind, total |-> 0, vendors |-> {}, left |-> {},
                     shown |-> {}, id |-> NoRow, lat |-> NoRow]
    <2>1. r \in PageRequest /\ RowsOk(r)
      BY DEF PageRequest, First, RowsOk, Pages
    <2>2. begun' \in 0..MaxBegun
      BY <1>2 DEF Open, Begin, TablesInv, TypeOK
    <2>3. QED
      BY <1>2, <2>1, <2>2, PageMoves DEF Open, Begin
  <1>3. CASE Count(w)
    <2> DEFINE r == [request[w] EXCEPT !.total = Cardinality(PublicCatalog), !.at = "select"]
    <2>1. Cardinality(PublicCatalog) \in Nat
      <3>1. IsFiniteSet(PublicCatalog)
        BY FS_Subset DEF PublicCatalog, OnSale, Rows
      <3>2. QED
        BY <3>1, FS_CardinalityType
    <2>2. r \in PageRequest /\ RowsOk(r)
      BY <1>3, <2>1, ServesPage DEF Count, At, PageRequest, Pages, RowsOk
    <2>3. request' = [request EXCEPT ![w] = r]
      BY <1>3 DEF Count
    <2>4. QED
      BY <1>1, <1>3, <2>2, <2>3, PageMoves DEF Count, rest
  <1>4. CASE ReadPlaces(w)
    <2>1. PICK near \in SUBSET OnTheMap(request[w].kind) :
             request' = [request EXCEPT ![w] = [request[w] EXCEPT !.vendors = near,
                           !.at = IF near = {} THEN "done" ELSE "select"]]
      BY <1>4 DEF ReadPlaces
    <2> DEFINE r == [request[w] EXCEPT !.vendors = near, !.at = IF near = {} THEN "done" ELSE "select"]
    <2>2. near \subseteq Vendors
      BY DEF OnTheMap
    <2>3. r \in PageRequest /\ RowsOk(r)
      BY <1>4, <2>2, ServesPage DEF ReadPlaces, At, PageRequest, Pages, RowsOk
    <2>4. QED
      BY <1>1, <1>4, <2>1, <2>3, PageMoves DEF ReadPlaces, rest
  <1>5. CASE SelectProducts(w)
    <2>1. PICK found \in Found(w) :
             request' = [request EXCEPT ![w] = [request[w] EXCEPT !.left = found,
                           !.at = IF found = {} THEN "done" ELSE "lat"]]
      BY <1>5 DEF SelectProducts
    <2> DEFINE r == [request[w] EXCEPT !.left = found, !.at = IF found = {} THEN "done" ELSE "lat"]
    <2>2. found \subseteq Rows
      <3>1. OnSale \subseteq Rows /\ PublicCatalog \subseteq Rows /\ Rows \subseteq Products
        BY DEF OnSale, Rows, PublicCatalog
      <3>2. QED
        BY <3>1, Limits DEF Found
    <2>3. r \in PageRequest /\ RowsOk(r)
      BY <1>5, <2>2, ServesPage DEF SelectProducts, At, PageRequest, Described, Pages, RowsOk, Rows
    <2>4. QED
      BY <1>1, <1>5, <2>1, <2>3, PageMoves DEF SelectProducts, rest
  <1>6. \A p \in Products : products[p] # NoRow => Spot(p) \in Spots \cup {NoRow}
    BY DEF Spot, Product, Vendor, TablesInv, TypeOK
  <1>7. CASE ReadLatitude(w)
    <2>1. PICK p \in request[w].left :
             request' = [request EXCEPT ![w] =
               [request[w] EXCEPT !.id = p, !.lat = Spot(p), !.at = "lng"]]
      BY <1>7 DEF ReadLatitude
    <2> DEFINE r == [request[w] EXCEPT !.id = p, !.lat = Spot(p), !.at = "lng"]
    <2>2. r \in PageRequest /\ RowsOk(r)
      <3>1. request[w] \in PageRequest /\ RowsOk(request[w]) /\ request[w].kind \in Pages
        BY <1>7, ServesPage DEF ReadLatitude, At, Described, Pages
      <3>2. p \in Products /\ products[p] # NoRow
        BY <3>1 DEF PageRequest, RowsOk
      <3>3. QED
        BY <1>6, <3>1, <3>2 DEF PageRequest, RowsOk, Pages
    <2>3. QED
      BY <1>1, <1>7, <2>1, <2>2, PageMoves DEF ReadLatitude, rest
  <1>8. CASE ReadLongitude(w)
    <2> DEFINE old == request[w]
               entry == [id |-> old.id, lat |-> old.lat, lng |-> Spot(old.id)]
               r == [old EXCEPT !.shown = @ \cup {entry}, !.left = @ \ {old.id},
                       !.id = NoRow, !.lat = NoRow,
                       !.at = IF old.left = {old.id} THEN "done" ELSE "lat"]
    <2>1. old \in PageRequest /\ RowsOk(old) /\ old.kind \in Pages /\ old.at = "lng"
      BY <1>8, ServesPage DEF ReadLongitude, At, Described, Pages
    <2>2. old.id \in Products /\ products[old.id] # NoRow
      BY <2>1 DEF PageRequest, RowsOk
    <2>3. entry \in Entry
      BY <1>6, <2>1, <2>2 DEF Entry, PageRequest
    <2>4. r \in PageRequest
      BY <2>1, <2>3 DEF PageRequest
    <2>5. RowsOk(r)
      BY <2>1, <2>2 DEF PageRequest, RowsOk, Pages
    <2>6. request' = [request EXCEPT ![w] = r]
      BY <1>8 DEF ReadLongitude
    <2>7. QED
      BY <1>1, <1>8, <2>4, <2>5, <2>6, PageMoves DEF ReadLongitude, rest
  <1>9. CASE ListProducts(w)
    <2>0. PICK v \in request[w].vendors :
             \E some \in Limited({p \in InStock \cap Of({v}) : products[p].status = "AVAILABLE"}, OnMap) :
               request' = [request EXCEPT
                 ![w].shown = @ \cup {[id |-> p, lat |-> NoRow, lng |-> NoRow] : p \in some},
                 ![w].vendors = @ \ {v},
                 ![w].at = IF request[w].vendors = {v} THEN "done" ELSE "select"]
      BY <1>9 DEF ListProducts
    <2>1. PICK some \in Limited({p \in InStock \cap Of({v}) : products[p].status = "AVAILABLE"}, OnMap) :
             request' = [request EXCEPT
               ![w].shown = @ \cup {[id |-> p, lat |-> NoRow, lng |-> NoRow] : p \in some},
               ![w].vendors = @ \ {v},
               ![w].at = IF request[w].vendors = {v} THEN "done" ELSE "select"]
      BY <2>0
    <2> DEFINE entries == {[id |-> p, lat |-> NoRow, lng |-> NoRow] : p \in some}
               r == [request[w] EXCEPT
                 !.shown = @ \cup entries, !.vendors = @ \ {v},
                 !.at = IF request[w].vendors = {v} THEN "done" ELSE "select"]
    <2>2. some \subseteq Rows
      <3>1. {p \in InStock \cap Of({v}) : products[p].status = "AVAILABLE"} \subseteq Rows
        BY DEF InStock
      <3>2. Rows \subseteq Products
        BY DEF Rows
      <3>3. QED
        BY <3>1, <3>2, Limits
    <2>3. entries \subseteq Entry /\ \A e \in entries : products[e.id] # NoRow
      BY <2>2 DEF Entry, Rows
    <2>4. request[w] \in PageRequest /\ RowsOk(request[w]) /\ request[w].kind \in Pages
      BY <1>9, ServesPage DEF ListProducts, At, Pages
    <2> HIDE DEF entries
    <2>5. r \in PageRequest
      BY <2>3, <2>4 DEF PageRequest
    <2>6. RowsOk(r)
      BY <2>3, <2>4 DEF PageRequest, RowsOk, Pages
    <2>7. request' = [request EXCEPT ![w] = r]
      BY <2>1 DEF entries
    <2>8. QED
      BY <1>1, <1>9, <2>5, <2>6, <2>7, PageMoves DEF ListProducts, rest
  <1>10. QED
    BY <1>2, <1>3, <1>4, <1>5, <1>7, <1>8, <1>9 DEF Browse

LEMMA ServesChat ==
  ASSUME TablesInv, NEW w \in Workers, request[w].kind = "chat"
  PROVE  request[w] \in ChatRequest
  BY Kinds DEF TablesInv, TypeOK

\* What the statements of a search return.
LEMMA Searches ==
  ASSUME TablesInv, NEW w \in Workers, NEW ascending \in BOOLEAN
  PROVE  /\ Matching(request[w]) \subseteq Products
         /\ \A p \in Matching(request[w]) : products[p] # NoRow /\ OfferOf(p) \in Offer
         /\ \A o \in FirstByPrice(w, ascending) :
              o # NoRow => o \in Offer /\ IsFirst(request[w], o, ascending)
         /\ NoRow \in FirstByPrice(w, ascending) <=> Matching(request[w]) = {}
         /\ \A some \in Slices(w) : some \subseteq Matching(request[w]) \ Ids(Picks(w))
  <1>1. /\ Matching(request[w]) \subseteq Products
        /\ \A p \in Matching(request[w]) : products[p] # NoRow
    BY DEF Matching, Rows
  <1>2. \A p \in Matching(request[w]) : OfferOf(p) \in Offer
    BY <1>1 DEF OfferOf, Offer, TablesInv, TypeOK, Product
  <1>3. \A some \in Slices(w) : some \subseteq Matching(request[w]) \ Ids(Picks(w))
    BY DEF Slices
  <1>4. CASE Matching(request[w]) = {}
    <2>1. FirstByPrice(w, ascending) = {NoRow}
      BY <1>4 DEF FirstByPrice
    <2>2. QED
      BY <1>1, <1>2, <1>3, <1>4, <2>1
  <1>5. CASE Matching(request[w]) # {}
    <2>1. FirstByPrice(w, ascending) =
            {OfferOf(p) : p \in {q \in Matching(request[w]) :
                                   \A o \in Matching(request[w]) : Before(ascending, q, o)}}
      BY <1>5 DEF FirstByPrice
    <2>2. \A o \in FirstByPrice(w, ascending) : o \in Offer /\ IsFirst(request[w], o, ascending)
      <3>1. ASSUME NEW o \in FirstByPrice(w, ascending)
            PROVE  o \in Offer /\ IsFirst(request[w], o, ascending)
        <4>1. PICK p \in Matching(request[w]) :
                 o = OfferOf(p) /\ \A q \in Matching(request[w]) : Before(ascending, p, q)
          BY <2>1
        <4>2. o.id = p /\ o.price = products[p].price
          BY <4>1 DEF OfferOf
        <4>3. QED
          BY <1>2, <4>1, <4>2 DEF IsFirst
      <3>2. QED
        BY <3>1
    <2>3. NoRow \notin FirstByPrice(w, ascending)
      BY <2>2
    <2>4. QED
      BY <1>1, <1>2, <1>3, <1>5, <2>2, <2>3
  <1>6. QED
    BY <1>4, <1>5

LEMMA AssistTables ==
  ASSUME TablesInv, NEW w \in Workers, Assist(w), UNCHANGED <<files, gallery>>
  PROVE  TablesInv' /\ Keeps
  <1>1. begun \in 0..MaxBegun /\ writes \in Nat
    BY DEF TablesInv, TypeOK
  <1>2. ASSUME NEW image \in BOOLEAN, NEW words \in Words, NEW budget \in Extracted,
               Ask(w, image, words, budget)
        PROVE  TablesInv' /\ Keeps
    <2> DEFINE r == [at |-> IF image THEN "exists" ELSE "slice", kind |-> "chat", words |-> words,
                     budget |-> budget, cheapest |-> NoRow, dearest |-> NoRow, others |-> {},
                     left |-> {}, since |-> writes, quiet |-> TRUE]
    <2>1. r \in ChatRequest
      BY <1>1 DEF ChatRequest, Words, Extracted
    <2>2. begun' \in 0..MaxBegun
      BY <1>1, <1>2 DEF Ask, Begin
    <2>3. QED
      BY <1>2, <2>1, <2>2, ChatMoves DEF Ask, Begin
  <1>3. CASE Exists(w)
    <2> DEFINE r == [request[w] EXCEPT !.at = IF Matching(request[w]) = {} THEN "slice" ELSE "cheapest"]
    <2>1. r \in ChatRequest
      BY <1>3, ServesChat DEF Exists, AtChat, At, ChatRequest
    <2>2. QED
      BY <1>1, <1>3, <2>1, ChatMoves DEF Exists, rest
  <1>4. CASE Cheapest(w)
    <2>1. PICK o \in FirstByPrice(w, TRUE) :
             request' = [request EXCEPT ![w] = [request[w] EXCEPT !.cheapest = o, !.at = "dearest"]]
      BY <1>4 DEF Cheapest
    <2>2. o \in Offer \cup {NoRow}
      BY Searches
    <2>3. [request[w] EXCEPT !.cheapest = o, !.at = "dearest"] \in ChatRequest
      BY <1>4, <2>2, ServesChat DEF Cheapest, AtChat, At, ChatRequest
    <2>4. QED
      BY <1>1, <1>4, <2>1, <2>3, ChatMoves DEF Cheapest, rest
  <1>5. CASE Dearest(w)
    <2>1. PICK o \in FirstByPrice(w, FALSE) :
             request' = [request EXCEPT ![w] = [request[w] EXCEPT !.dearest = o,
               !.at = IF NoRow \in {request[w].cheapest, o} THEN "broken" ELSE "others"]]
      BY <1>5 DEF Dearest
    <2>2. o \in Offer \cup {NoRow}
      BY Searches
    <2>3. [request[w] EXCEPT !.dearest = o,
             !.at = IF NoRow \in {request[w].cheapest, o} THEN "broken" ELSE "others"] \in ChatRequest
      BY <1>5, <2>2, ServesChat DEF Dearest, AtChat, At, ChatRequest
    <2>4. QED
      BY <1>1, <1>5, <2>1, <2>3, ChatMoves DEF Dearest, rest
  <1>6. CASE FindOthers(w)
    <2>1. PICK some \in Slices(w) :
             request' = [request EXCEPT ![w] = [request[w] EXCEPT
               !.others = {OfferOf(p) : p \in some}, !.left = some \cup Ids(Picks(w)),
               !.at = "reply", !.quiet = (writes = request[w].since)]]
      BY <1>6 DEF FindOthers
    <2>2. request[w] \in ChatRequest
      BY <1>6, ServesChat DEF FindOthers, AtChat, At
    <2>3. some \subseteq Products /\ {OfferOf(p) : p \in some} \subseteq Offer
      BY Searches
    <2>4. Ids(Picks(w)) \subseteq Products
      BY <2>2 DEF Ids, Picks, ChatRequest, Offer
    <2>5. [request[w] EXCEPT !.others = {OfferOf(p) : p \in some},
             !.left = some \cup Ids(Picks(w)), !.at = "reply", !.quiet = (writes = request[w].since)]
             \in ChatRequest
      BY <2>2, <2>3, <2>4 DEF ChatRequest
    <2>6. QED
      BY <1>1, <1>6, <2>1, <2>5, ChatMoves DEF FindOthers, rest
  <1>7. CASE Reply(w)
    <2> DEFINE r == [request[w] EXCEPT !.at = IF request[w].left = {} THEN "done" ELSE "record"]
    <2>1. r \in ChatRequest
      BY <1>7, ServesChat DEF Reply, AtChat, At, ChatRequest
    <2>2. QED
      BY <1>1, <1>7, <2>1, ChatMoves DEF Reply, rest
  <1>8. CASE Record(w)
    <2>1. PICK p \in request[w].left :
             request' = [request EXCEPT ![w] = [request[w] EXCEPT !.left = @ \ {p},
               !.at = IF request[w].left = {p} THEN "done" ELSE "record"]]
      BY <1>8 DEF Record
    <2>2. [request[w] EXCEPT !.left = @ \ {p},
             !.at = IF request[w].left = {p} THEN "done" ELSE "record"] \in ChatRequest
      BY <1>8, ServesChat DEF Record, AtChat, At, ChatRequest
    <2>3. QED
      BY <1>1, <1>8, <2>1, <2>2, ChatMoves DEF Record, rest
  <1>9. CASE RecordFails(w)
    <2> DEFINE r == [request[w] EXCEPT !.at = "done"]
    <2>1. r \in ChatRequest
      BY <1>9, ServesChat DEF RecordFails, AtChat, At, ChatRequest
    <2>2. QED
      BY <1>1, <1>9, <2>1, ChatMoves DEF RecordFails, rest
  <1>10. QED
    BY <1>2, <1>3, <1>4, <1>5, <1>6, <1>7, <1>8, <1>9 DEF Assist

LEMMA ServesForm ==
  ASSUME TablesInv, NEW w \in Workers, request[w].kind \in Forms
  PROVE  request[w] \in FormRequest /\ RowsOk(request[w]) /\ request[w].mine \subseteq hosted
  BY Kinds DEF TablesInv, TypeOK, FilesOk

LEMMA ServesPicture ==
  ASSUME TablesInv, NEW w \in Workers, request[w].kind \in PictureKinds
  PROVE  request[w] \in PictureRequest /\ request[w].mine \subseteq hosted
  BY Kinds DEF TablesInv, TypeOK, FilesOk

\* A form that goes on deals with the same row.
LEMMA FormMoves ==
  ASSUME TablesInv, NEW w \in Workers, NEW r \in FormRequest, request' = [request EXCEPT ![w] = r],
         RowsOk(r), r.mine \subseteq hosted', UNCHANGED <<tables, gallery>>, begun' \in 0..MaxBegun,
         hosted \subseteq hosted', hosted' \subseteq Files, lost' \subseteq hosted'
  PROVE  TablesInv' /\ Keeps
  <1>1. r \in Request
    BY DEF Request
  <1>2. FilesTyped'
    BY DEF TablesInv, TypeOK, FilesTyped, gallery
  <1>3. QED
    BY <1>1, <1>2, RequestMoves

\* A request for a picture fails, or a form.
LEMMA FailTables ==
  ASSUME TablesInv, NEW w \in Workers, request[w].kind \in Forms \cup PictureKinds, Fail(w),
         UNCHANGED gallery
  PROVE  TablesInv' /\ Keeps
  <1> DEFINE r == [request[w] EXCEPT !.at = "broken"]
  <1>1. request[w].mine \subseteq hosted
    BY DEF TablesInv, FilesOk
  <1>2. begun' \in 0..MaxBegun /\ lost' \subseteq hosted' /\ hosted' = hosted
    BY <1>1 DEF Fail, rest, TablesInv, TypeOK
  <1>3. CASE request[w].kind \in Forms
    <2>1. r \in FormRequest /\ RowsOk(r) /\ r.mine = request[w].mine
      BY <1>3, ServesForm DEF FormRequest, RowsOk, Forms, Pages
    <2>2. QED
      BY <1>1, <1>2, <2>1, FormMoves DEF Fail, rest, TablesInv, TypeOK
  <1>4. CASE request[w].kind \in PictureKinds
    <2>1. r \in PictureRequest /\ r.mine = request[w].mine
      BY <1>4, ServesPicture DEF PictureRequest
    <2>2. r \in Request /\ RowsOk(r)
      BY <2>1 DEF Request, PictureRequest, RowsOk, Pages
    <2>3. FilesTyped'
      BY <1>2 DEF TablesInv, TypeOK, FilesTyped, gallery
    <2>4. QED
      BY <1>1, <1>2, <2>1, <2>2, <2>3, RequestMoves DEF Fail, rest
  <1>5. QED
    BY <1>3, <1>4

\* A row of a product is written, by a request or around all of them.
LEMMA WriteTables ==
  ASSUME TablesInv, NEW p \in Products, NEW row \in Product,
         products[p] # NoRow => row.vendor = products[p].vendor,
         products' = [products EXCEPT ![p] = row], writes' = writes + 1,
         request' \in [Workers -> Request],
         \A w \in Workers : RowsOk(request'[w]) /\ FilesOk(request'[w]),
         begun' \in 0..MaxBegun, UNCHANGED <<vendors, files, gallery>>
  PROVE  TablesInv' /\ Keeps
  <1>1. Keeps
    BY DEF Keeps, TablesInv, TypeOK
  <1>2. TypeOK'
    BY DEF TablesInv, TypeOK, files, gallery
  <1>3. ASSUME NEW w \in Workers PROVE RowsOk(request[w])' /\ FilesOk(request[w])'
    <2>1. RowsOk(request'[w]) /\ FilesOk(request'[w])
      OBVIOUS
    <2>2. \A q \in Products : products[q] # NoRow =>
            products'[q] # NoRow /\ products'[q].vendor = products[q].vendor
      BY <1>1 DEF Keeps
    <2>3. request'[w].kind \in Pages => request'[w] \in PageRequest
      BY Kinds
    <2>4. RowsOk(request[w])'
      BY <2>1, <2>2, <2>3 DEF RowsOk, PageRequest, Entry
    <2>5. QED
      BY <2>1, <2>4 DEF FilesOk, files
  <1>4. QED
    BY <1>1, <1>2, <1>3 DEF TablesInv

LEMMA PublishTables ==
  ASSUME TablesInv, NEW w \in Workers, Publish(w), UNCHANGED gallery
  PROVE  TablesInv' /\ Keeps
  <1>1. /\ begun \in 0..MaxBegun /\ products \in [Products -> Product \cup {NoRow}]
        /\ hosted \subseteq Files /\ lost \subseteq hosted
    BY DEF TablesInv, TypeOK
  <1>2. ASSUME NEW form \in Form, Submit(w, form) PROVE TablesInv' /\ Keeps
    <2> DEFINE r == [at |-> "upload", kind |-> "create", form |-> form, copy |-> NoRow, id |-> NoRow,
                     left |-> form.images, mine |-> {}, failed |-> FALSE]
    <2>1. r \in FormRequest /\ RowsOk(r)
      BY DEF FormRequest, Form, RowsOk, Pages
    <2>2. begun' \in 0..MaxBegun
      BY <1>1, <1>2 DEF Submit, Begin
    <2>3. QED
      BY <1>1, <1>2, <2>1, <2>2, FormMoves DEF Submit, Begin, files
  <1>3. ASSUME NEW form \in Form, NEW p \in Products, SubmitEdit(w, form, p)
        PROVE  TablesInv' /\ Keeps
    <2> DEFINE r == [at |-> "upload", kind |-> "edit", form |-> form, copy |-> products[p], id |-> p,
                     left |-> form.images, mine |-> {}, failed |-> FALSE]
    <2>1. products[p] # NoRow /\ products[p] \in Product
      BY <1>1, <1>3 DEF SubmitEdit, Rows
    <2>2. r \in FormRequest /\ RowsOk(r)
      BY <2>1 DEF FormRequest, Form, RowsOk, Pages
    <2>3. begun' \in 0..MaxBegun
      BY <1>1, <1>3 DEF SubmitEdit, Begin
    <2>4. QED
      BY <1>1, <1>3, <2>2, <2>3, FormMoves DEF SubmitEdit, Begin, files
  <1>4. CASE Upload(w)
    <2>1. PICK f \in Files \ hosted :
             /\ hosted' = hosted \cup {f}
             /\ request' = [request EXCEPT ![w] =
                  [request[w] EXCEPT !.left = @ - 1, !.mine = @ \cup {f}]]
      BY <1>4 DEF Upload
    <2> DEFINE r == [request[w] EXCEPT !.left = @ - 1, !.mine = @ \cup {f}]
    <2>2. request[w] \in FormRequest /\ RowsOk(request[w]) /\ request[w].mine \subseteq hosted
      BY <1>4, ServesForm DEF Upload, Uploading, At
    <2>3. request[w].left - 1 \in 0..MaxImages
      BY <1>4, <2>2 DEF Upload, Uploading, FormRequest
    <2>4. r \in FormRequest /\ RowsOk(r) /\ r.mine \subseteq hosted'
      BY <2>1, <2>2, <2>3 DEF FormRequest, RowsOk, Forms, Pages
    <2>5. QED
      BY <1>1, <1>4, <2>1, <2>4, FormMoves DEF Upload, rest
  <1>5. CASE UploadFails(w)
    <2> DEFINE r == [request[w] EXCEPT !.left = @ - 1, !.failed = TRUE]
    <2>1. request[w] \in FormRequest /\ RowsOk(request[w]) /\ request[w].mine \subseteq hosted
      BY <1>5, ServesForm DEF UploadFails, Uploading, At
    <2>2. request[w].left - 1 \in 0..MaxImages
      BY <1>5, <2>1 DEF UploadFails, Uploading, FormRequest
    <2>3. r \in FormRequest /\ RowsOk(r) /\ r.mine \subseteq hosted
      BY <2>1, <2>2 DEF FormRequest, RowsOk, Forms, Pages
    <2>4. QED
      BY <1>1, <1>5, <2>3, FormMoves DEF UploadFails, rest, files
  <1>6. CASE Validated(w)
    <2> DEFINE r == [request[w] EXCEPT !.at = IF request[w].kind = "create" THEN "create" ELSE "recheck"]
    <2>1. r \in FormRequest /\ RowsOk(r) /\ r.mine \subseteq hosted
      BY <1>6, ServesForm DEF Validated, At, FormRequest, RowsOk, Forms, Pages
    <2>2. QED
      BY <1>1, <1>6, <2>1, FormMoves DEF Validated, rest, files
  <1>7. CASE Recheck(w)
    <2> DEFINE r == [request[w] EXCEPT !.at = "update"]
    <2>1. r \in FormRequest /\ RowsOk(r) /\ r.mine \subseteq hosted
      BY <1>7, ServesForm DEF Recheck, At, FormRequest, RowsOk, Forms, Pages
    <2>2. QED
      BY <1>1, <1>7, <2>1, FormMoves DEF Recheck, rest, files
  <1>8. CASE Refused(w) \/ RecheckFails(w) \/ Abort(w)
    BY <1>8, FailTables DEF Refused, RecheckFails, Abort, At, Forms
  <1>9. CASE Create(w)
    <2>1. request[w] \in FormRequest /\ RowsOk(request[w]) /\ request[w].mine \subseteq hosted
      BY <1>9, ServesForm DEF Create, At, Forms
    <2> DEFINE form == request[w].form
    <2>2. PICK p \in Products : \E stock \in BOOLEAN :
            /\ products[p] = NoRow
            /\ products' = [products EXCEPT ![p] =
                 [vendor |-> SavedFor(w), status |-> form.status, price |-> form.price,
                  stock |-> stock, deleted |-> FALSE, pictures |-> Uploaded(w)]]
            /\ request' = [request EXCEPT ![w] = [request[w] EXCEPT !.at = "done", !.id = p]]
      BY <1>9 DEF Create
    <2>3. PICK stock \in BOOLEAN :
            products' = [products EXCEPT ![p] =
              [vendor |-> SavedFor(w), status |-> form.status, price |-> form.price,
               stock |-> stock, deleted |-> FALSE, pictures |-> Uploaded(w)]]
      BY <2>2
    <2> DEFINE row == [vendor |-> SavedFor(w), status |-> form.status, price |-> form.price,
                       stock |-> stock, deleted |-> FALSE, pictures |-> Uploaded(w)]
               r == [request[w] EXCEPT !.at = "done", !.id = p]
    <2>4. row \in Product
      BY <2>1 DEF Product, FormRequest, Form, Status, SavedFor, Uploaded
    <2>5. r \in FormRequest /\ RowsOk(r) /\ FilesOk(r) /\ r \in Request
      BY <1>9, <2>1 DEF Create, At, FormRequest, RowsOk, FilesOk, Forms, Pages, Request
    <2>6. /\ request' \in [Workers -> Request]
          /\ \A x \in Workers : RowsOk(request'[x]) /\ FilesOk(request'[x])
      BY <2>2, <2>5, OneMoves DEF TablesInv
    <2>7. QED
      BY <1>1, <1>9, <2>2, <2>3, <2>4, <2>6, WriteTables DEF Create
  <1>10. CASE Update(w)
    <2>1. request[w] \in FormRequest /\ RowsOk(request[w]) /\ request[w].mine \subseteq hosted
      BY <1>10, ServesForm DEF Update, At, Forms
    <2> DEFINE old == request[w]
               row == [old.copy EXCEPT !.price = old.form.price,
                         !.pictures = products[old.id].pictures \cup Uploaded(w)]
               r == [old EXCEPT !.at = "done"]
    <2>2. /\ old.id \in Products /\ old.copy \in Product /\ products[old.id] \in Product
          /\ old.copy.vendor = products[old.id].vendor
      BY <1>1, <1>10, <2>1 DEF Update, At, RowsOk
    <2>3. row \in Product /\ row.vendor = products[old.id].vendor
      BY <2>1, <2>2 DEF Product, FormRequest, Form, Uploaded
    <2>4. r \in FormRequest /\ RowsOk(r) /\ FilesOk(r) /\ r \in Request
      BY <1>10, <2>1 DEF Update, At, FormRequest, RowsOk, FilesOk, Forms, Pages, Request
    <2>5. request' = [request EXCEPT ![w] = r] /\ products' = [products EXCEPT ![old.id] = row]
      BY <1>10 DEF Update
    <2>6. /\ request' \in [Workers -> Request]
          /\ \A x \in Workers : RowsOk(request'[x]) /\ FilesOk(request'[x])
      BY <2>4, <2>5, OneMoves DEF TablesInv
    <2>7. QED
      BY <1>1, <1>10, <2>2, <2>3, <2>5, <2>6, WriteTables DEF Update
  <1>11. QED
    BY <1>2, <1>3, <1>4, <1>5, <1>6, <1>7, <1>8, <1>9, <1>10 DEF Publish

\* A request for a picture begins or goes on.
LEMMA PictureMoves ==
  ASSUME TablesInv, NEW w \in Workers, NEW r \in PictureRequest, request' = [request EXCEPT ![w] = r],
         r.mine \subseteq hosted', UNCHANGED tables, begun' \in 0..MaxBegun, FilesTyped',
         hosted \subseteq hosted'
  PROVE  TablesInv' /\ Keeps
  <1>1. r \in Request /\ RowsOk(r)
    BY DEF Request, PictureRequest, RowsOk, Pages
  <1>2. QED
    BY <1>1, RequestMoves

LEMMA ReplaceTyped ==
  ASSUME TablesInv, NEW v \in Vendors, NEW row \in ProfilePicture, Replace(v, row),
         \A u \in Vendors : pictures[u].image_url \in Files => pictures[u].image_url \in hosted,
         UNCHANGED hosted, latest' \in [Vendors -> Address]
  PROVE  FilesTyped'
  <1>1. pictures' \in [Vendors -> ProfilePicture]
    BY DEF Replace, TablesInv, TypeOK
  <1>2. lost' \subseteq hosted
    BY DEF Replace, TablesInv, TypeOK
  <1>3. QED
    BY <1>1, <1>2 DEF FilesTyped, TablesInv, TypeOK

LEMMA PortrayTables ==
  ASSUME TablesInv, NEW w \in Workers, Portray(w),
         \A u \in Vendors : pictures[u].image_url \in Files => pictures[u].image_url \in hosted
  PROVE  TablesInv' /\ Keeps
  <1>1. begun \in 0..MaxBegun /\ FilesTyped
    BY DEF TablesInv, TypeOK, FilesTyped
  <1>2. ASSUME NEW v \in Vendors, Post(w, v) PROVE TablesInv' /\ Keeps
    <2>1. PICK url \in Address \ hosted :
             /\ hosted' = hosted \cup ({url} \cap Files)
             /\ Begin(w, [at |-> "store", kind |-> "post", user |-> v, mine |-> {url} \cap Files,
                          row |-> [image_url |-> url, is_active |-> TRUE]])
      BY <1>2 DEF Post
    <2> DEFINE r == [at |-> "store", kind |-> "post", user |-> v, mine |-> {url} \cap Files,
                     row |-> [image_url |-> url, is_active |-> TRUE]]
    <2>2. r \in PictureRequest
      BY DEF PictureRequest, ProfilePicture
    <2>3. begun' \in 0..MaxBegun /\ UNCHANGED tables /\ request' = [request EXCEPT ![w] = r]
      BY <1>1, <2>1 DEF Begin
    <2>4. FilesTyped'
      BY <1>1, <1>2, <2>1 DEF FilesTyped, Post, gallery
    <2>5. r.mine \subseteq hosted' /\ hosted \subseteq hosted'
      BY <2>1
    <2>6. QED
      BY <2>2, <2>3, <2>4, <2>5, PictureMoves
  <1>3. ASSUME NEW v \in Vendors, Look(w, v) PROVE TablesInv' /\ Keeps
    <2> DEFINE r == [at |-> "turnOff", kind |-> "delete", user |-> v, mine |-> {}, row |-> pictures[v]]
    <2>1. r \in PictureRequest
      BY DEF PictureRequest, TablesInv, TypeOK
    <2>2. begun' \in 0..MaxBegun /\ UNCHANGED tables /\ request' = [request EXCEPT ![w] = r]
      BY <1>1, <1>3 DEF Look, Begin
    <2>3. FilesTyped' /\ hosted' = hosted
      BY <1>1, <1>3 DEF FilesTyped, Look, files, gallery
    <2>4. QED
      BY <2>1, <2>2, <2>3, PictureMoves
  <1>4. CASE Store(w)
    <2>1. request[w] \in PictureRequest /\ request[w].mine \subseteq hosted
      BY <1>4, ServesPicture DEF Store, At, PictureKinds
    <2> DEFINE r == [request[w] EXCEPT !.at = "done"]
    <2>2. r \in PictureRequest /\ r.mine = request[w].mine
      BY <2>1 DEF PictureRequest
    <2>3. /\ request[w].user \in Vendors /\ request[w].row \in ProfilePicture
          /\ request[w].row.image_url \in Address
      BY <2>1 DEF PictureRequest, ProfilePicture
    <2>4. latest' \in [Vendors -> Address]
      BY <1>4, <2>3 DEF Store, TablesInv, TypeOK
    <2>5. FilesTyped'
      BY <1>4, <2>3, <2>4, ReplaceTyped DEF Store
    <2>6. QED
      BY <1>1, <1>4, <2>1, <2>2, <2>5, PictureMoves DEF Store, rest
  <1>5. CASE TurnOff(w)
    <2>1. request[w] \in PictureRequest /\ request[w].mine \subseteq hosted
      BY <1>5, ServesPicture DEF TurnOff, At, PictureKinds
    <2> DEFINE r == [request[w] EXCEPT !.at = "done"]
    <2>2. r \in PictureRequest /\ r.mine = request[w].mine
      BY <2>1 DEF PictureRequest
    <2>3. request[w].user \in Vendors /\ TurnedOff(request[w].row) \in ProfilePicture
      BY <2>1 DEF PictureRequest, ProfilePicture, TurnedOff
    <2>4. FilesTyped'
      BY <1>1, <1>5, <2>3, ReplaceTyped DEF TurnOff, FilesTyped
    <2>5. QED
      BY <1>1, <1>5, <2>1, <2>2, <2>4, PictureMoves DEF TurnOff, rest
  <1>6. CASE request[w].kind \in PictureKinds /\ ~Free(w) /\ Fail(w) /\ UNCHANGED gallery
    BY <1>6, FailTables
  <1>7. QED
    BY <1>2, <1>3, <1>4, <1>5, <1>6 DEF Portray

\* Writes of the other modules' requests.
LEMMA ProductWriteTables ==
  ASSUME TablesInv, ProductWrite, UNCHANGED <<files, gallery>>
  PROVE  TablesInv' /\ Keeps
  <1>1. PICK p \in Products :
          /\ products[p] # NoRow
          /\ \/ \E s \in Written : products' = [products EXCEPT ![p].status = s]
             \/ \E c \in Prices : products' = [products EXCEPT ![p].price = c]
             \/ products' = [products EXCEPT ![p].stock = ~@]
             \/ products' = [products EXCEPT ![p].deleted = ~@]
    BY DEF ProductWrite
  <1>2. products[p] \in Product /\ products \in [Products -> Product \cup {NoRow}]
    BY <1>1 DEF TablesInv, TypeOK
  <1>3. PICK row \in Product : row.vendor = products[p].vendor /\ products' = [products EXCEPT ![p] = row]
    <2>1. CASE \E s \in Written : products' = [products EXCEPT ![p].status = s]
      <3>1. PICK s \in Written : products' = [products EXCEPT ![p] = [products[p] EXCEPT !.status = s]]
        BY <2>1
      <3>2. [products[p] EXCEPT !.status = s] \in Product
        BY <1>2 DEF Product
      <3>3. QED
        BY <1>2, <3>1, <3>2 DEF Product
    <2>2. CASE \E c \in Prices : products' = [products EXCEPT ![p].price = c]
      <3>1. PICK c \in Prices : products' = [products EXCEPT ![p] = [products[p] EXCEPT !.price = c]]
        BY <2>2
      <3>2. [products[p] EXCEPT !.price = c] \in Product
        BY <1>2 DEF Product
      <3>3. QED
        BY <1>2, <3>1, <3>2 DEF Product
    <2>3. CASE products' = [products EXCEPT ![p].stock = ~@]
      <3>1. [products[p] EXCEPT !.stock = ~@] \in Product
        BY <1>2 DEF Product
      <3>2. QED
        BY <1>2, <2>3, <3>1 DEF Product
    <2>4. CASE products' = [products EXCEPT ![p].deleted = ~@]
      <3>1. [products[p] EXCEPT !.deleted = ~@] \in Product
        BY <1>2 DEF Product
      <3>2. QED
        BY <1>2, <2>4, <3>1 DEF Product
    <2>5. QED
      BY <1>1, <2>1, <2>2, <2>3, <2>4
  <1>4. request' \in [Workers -> Request] /\ begun' \in 0..MaxBegun /\ UNCHANGED vendors
    BY DEF TablesInv, TypeOK, ProductWrite
  <1>5. \A w \in Workers : RowsOk(request'[w]) /\ FilesOk(request'[w])
    BY DEF TablesInv, ProductWrite
  <1>6. QED
    BY <1>3, <1>4, <1>5, WriteTables DEF ProductWrite

LEMMA VendorWriteTables ==
  ASSUME TablesInv, VendorWrite, UNCHANGED <<files, gallery>>
  PROVE  TablesInv' /\ Keeps
  <1>1. vendors' \in [Vendors -> Vendor]
    <2>1. PICK v \in Vendors :
            \/ vendors' = [vendors EXCEPT ![v].active = ~@]
            \/ vendors' = [vendors EXCEPT ![v].visible = ~@]
            \/ \E s \in Spots \cup {NoRow} : vendors' = [vendors EXCEPT ![v].spot = s]
      BY DEF VendorWrite
    <2>2. vendors \in [Vendors -> Vendor] /\ vendors[v] \in Vendor
      BY DEF TablesInv, TypeOK
    <2>3. CASE vendors' = [vendors EXCEPT ![v].active = ~@]
      <3>1. [vendors[v] EXCEPT !.active = ~@] \in Vendor
        BY <2>2 DEF Vendor
      <3>2. QED
        BY <2>2, <2>3, <3>1
    <2>4. CASE vendors' = [vendors EXCEPT ![v].visible = ~@]
      <3>1. [vendors[v] EXCEPT !.visible = ~@] \in Vendor
        BY <2>2 DEF Vendor
      <3>2. QED
        BY <2>2, <2>4, <3>1
    <2>5. CASE \E s \in Spots \cup {NoRow} : vendors' = [vendors EXCEPT ![v].spot = s]
      BY <2>2, <2>5 DEF Vendor
    <2>6. QED
      BY <2>1, <2>3, <2>4, <2>5
  <1>2. Keeps /\ TypeOK'
    BY <1>1 DEF VendorWrite, TablesInv, TypeOK, Keeps, files, gallery
  <1>3. \A w \in Workers : RowsOk(request[w])' /\ FilesOk(request[w])'
    BY DEF VendorWrite, TablesInv, RowsOk, FilesOk, files
  <1>4. QED
    BY <1>2, <1>3 DEF TablesInv

LEMMA InitTables == Init => TablesInv
  <1> SUFFICES ASSUME Init PROVE TablesInv
    OBVIOUS
  <1>1. products \in [Products -> Product \cup {NoRow}] /\ vendors \in [Vendors -> Vendor]
    BY DEF Init, CatalogueInit, Product, Vendor, Status
  <1>2. hosted \subseteq Files /\ lost \subseteq hosted
    BY DEF Init, PicturesInit
  <1>3. pictures \in [Vendors -> ProfilePicture] /\ latest \in [Vendors -> Address]
    <2>1. latest \in [Vendors -> Address]
      BY DEF Init, PicturesInit, Address
    <2>2. pictures = [v \in Vendors |-> [image_url |-> latest[v], is_active |-> TRUE]]
      BY DEF Init, PicturesInit
    <2>3. QED
      BY <2>1, <2>2 DEF ProfilePicture
  <1>4. request \in [Workers -> Request] /\ \A w \in Workers : request[w] = Idle
    BY IdleIsRequest DEF Init, CatalogueInit
  <1>5. RowsOk(Idle) /\ FilesOk(Idle)
    BY DEF RowsOk, FilesOk, Idle, Pages, Forms, PictureKinds
  <1>6. QED
    BY <1>1, <1>2, <1>3, <1>4, <1>5 DEF Init, CatalogueInit, TablesInv, TypeOK

-----------------------------------------------------------------------------
(* What a request saw.                                                      *)

\* What a request under way saw, it has seen, and it sees the tables of now.
LEMMA Grows ==
  ASSUME Watch, NEW w \in Workers
  PROVE  /\ ~Free(w) => /\ seen[w].offers \subseteq seen'[w].offers
                        /\ seen[w].open \subseteq seen'[w].open
                        /\ seen[w].spots \subseteq seen'[w].spots
                        /\ seen[w].apart \subseteq seen'[w].apart
                        /\ Crossed(request[w]) \subseteq seen'[w].apart
         /\ Free(w) /\ Free(w)' => seen'[w] = seen[w]
         /\ Caught(w)'
         /\ seen[w].offers # {} => seen'[w].offers # {}
  <1>1. CASE Free(w) /\ Free(w)'
    <2>1. seen'[w] = seen[w]
      BY <1>1 DEF Watch
    <2>2. QED
      BY <1>1, <2>1 DEF Caught
  <1>2. CASE Free(w) /\ ~Free(w)'
    <2>1. seen'[w] = Now(request[w])'
      BY <1>2 DEF Watch
    <2>2. QED
      BY <1>2, <2>1 DEF Now, Caught
  <1>3. CASE ~Free(w)
    <2>1. seen'[w] = Joined(seen[w], Now(request[w])', Crossed(request[w]))
      BY <1>3 DEF Watch
    <2>2. QED
      BY <1>3, <2>1 DEF Joined, Now, Caught
  <1>4. QED
    BY <1>1, <1>2, <1>3

\* A request that does not move: what it shows was seen, and stays as it is.
LEMMA SeenStays ==
  ASSUME TablesInv, Keeps, Watch, NEW w \in Workers, SeenInv(w), request'[w] = request[w]
  PROVE  SeenInv(w)'
  <1> DEFINE r == request[w]
  <1>1. /\ seen[w].offers \subseteq seen'[w].offers
        /\ seen[w].open \subseteq seen'[w].open
        /\ seen[w].spots \subseteq seen'[w].spots
        /\ seen'[w].offers # {} /\ Caught(w)'
    BY Grows DEF SeenInv, Free
  <1>a. seen[w].apart \subseteq seen'[w].apart /\ (~Free(w) => Crossed(r) \subseteq seen'[w].apart)
    BY Grows DEF Free
  <1>2. PageInv(w)'
    <2>1. SUFFICES ASSUME r.kind \in Pages PROVE PageInv(w)'
      BY DEF PageInv
    <2>2. r \in PageRequest /\ RowsOk(r)
      BY <2>1, ServesPage
    <2>3. \A p \in Chosen(w) : p \in Products /\ products'[p].vendor = products[p].vendor
      BY <2>1, <2>2 DEF Chosen, Shown, RowsOk, PageRequest, Entry, Keeps
    <2>4. Chosen(w)' = Chosen(w) /\ Shown(w) \subseteq Chosen(w)
      BY DEF Chosen, Shown
    <2>5. r.at = "lng" => r.id \in Chosen(w)
      BY <2>1, <2>2 DEF RowsOk, Chosen
    <2>6. \A e \in r.shown : e.id \in Chosen(w)
      BY DEF Chosen, Shown
    <2>7. PageInv(w)
      BY DEF SeenInv
    <2>8. ASSUME r.at = "lng" PROVE r.lat = Spot(r.id)' \/ r.id \in seen'[w].apart
      <3>1. r.lat = Spot(r.id) \/ r.id \in seen[w].apart
        BY <2>1, <2>7, <2>8 DEF PageInv
      <3>2. r.id \in Products /\ products'[r.id].vendor = products[r.id].vendor /\ ~Free(w)
        BY <2>3, <2>5, <2>8 DEF Free
      <3>3. Spot(r.id)' = Spot(r.id) \/ r.id \in Crossed(r)
        BY <2>8, <3>2 DEF Spot, Crossed
      <3>4. QED
        BY <1>a, <3>1, <3>2, <3>3
    <2>9. QED
      BY <1>1, <1>a, <2>1, <2>3, <2>4, <2>5, <2>6, <2>7, <2>8 DEF PageInv
  <1>3. ChatInv(w)'
    <2>1. SUFFICES ASSUME r.kind = "chat" PROVE ChatInv(w)'
      BY DEF ChatInv
    <2>2. ChatInv(w) /\ r.since <= writes /\ r.since \in Nat
      BY <2>1, ServesChat DEF SeenInv, ChatInv, ChatRequest
    <2>3. r.since <= writes'
      BY <2>2 DEF Keeps
    <2>4. r.since = writes' => r.since = writes /\ products' = products
      BY <2>2 DEF Keeps
    <2>5. products' = products =>
            \A offer, ascending : IsFirst(r, offer, ascending)' <=> IsFirst(r, offer, ascending)
      BY DEF IsFirst, Matching, Rows, Before
    <2>6. AnswerOk(w)' <=> AnswerOk(w)
      BY DEF AnswerOk
    <2>7. Picks(w)' = Picks(w)
      BY DEF Picks
    <2>8. seen'[w].offers = {{}} => seen[w].offers = {{}}
      BY <1>1 DEF SeenInv
    <2>9. QED
      BY <1>1, <2>1, <2>2, <2>3, <2>4, <2>5, <2>6, <2>7, <2>8 DEF ChatInv
  <1>4. QED
    BY <1>1, <1>2, <1>3 DEF SeenInv

\* What the pages select is on offer, and a request under way has seen it.
LEMMA Selects ==
  ASSUME TablesInv, NEW w \in Workers, SeenInv(w), request[w].kind \in Pages, ~Free(w)
  PROVE  LET r == request[w] IN
         /\ r.at = "select" /\ r.kind \in Described => \A found \in Found(w) :
              /\ \E o \in seen[w].offers : found \subseteq o
              /\ found \subseteq Products
              /\ r.kind = "nearby" => \A p \in found : products[p].vendor \in r.vendors
         /\ r.kind = "map" =>
              {p \in InStock : products[p].status = "AVAILABLE"} \subseteq UNION seen[w].offers
         /\ r.kind = "nearby" => OnTheMap("nearby") \subseteq seen[w].open
  <1> DEFINE r == request[w]
  <1>1. OnOffer(r) \in seen[w].offers /\ InBusiness \subseteq seen[w].open
    BY DEF SeenInv, Caught, Reads
  <1>2. ASSUME r.at = "select", r.kind \in Described, NEW found \in Found(w)
        PROVE  /\ found \subseteq OnOffer(r) /\ found \subseteq Products
               /\ r.kind = "nearby" => \A p \in found : products[p].vendor \in r.vendors
    <2>1. OnSale \subseteq Products /\ PublicCatalog \subseteq Products
      BY DEF OnSale, Rows, PublicCatalog
    <2>2. CASE r.kind = "catalogue"
      <3>1. found \subseteq PublicCatalog
        BY <1>2, <2>1, <2>2, Limits DEF Found
      <3>2. PublicCatalog \subseteq OnOffer(r)
        BY <2>2 DEF PublicCatalog, OnSale, InStock, Rows, Approved, OnOffer
      <3>3. QED
        BY <2>1, <2>2, <3>1, <3>2
    <2>3. CASE r.kind = "detail"
      <3>1. found \subseteq OnSale
        BY <1>2, <2>1, <2>3, Limits DEF Found
      <3>2. OnSale \subseteq OnOffer(r)
        BY <2>3 DEF OnSale, Rows, Approved, OnOffer
      <3>3. QED
        BY <2>1, <2>3, <3>1, <3>2
    <2>4. CASE r.kind = "nearby"
      <3>1. found = OnSale \cap InStock \cap Of(r.vendors)
        BY <1>2, <2>4 DEF Found
      <3>2. OnSale \cap InStock \subseteq OnOffer(r)
        BY <2>4 DEF OnSale, InStock, Rows, Approved, OnOffer
      <3>3. QED
        BY <2>1, <3>1, <3>2 DEF Of
    <2>5. QED
      BY <1>2, <2>2, <2>3, <2>4 DEF Described
  <1>3. r.kind = "map" => {p \in InStock : products[p].status = "AVAILABLE"} \subseteq OnOffer(r)
    BY DEF InStock, Rows, OnOffer
  <1>4. OnTheMap("nearby") \subseteq InBusiness
    BY DEF OnTheMap, InBusiness
  <1>5. QED
    BY <1>1, <1>2, <1>3, <1>4

\* A page that has gone on: what it shows of what was seen is a page's.
LEMMA PageSeen ==
  ASSUME Watch, NEW w \in Workers, SeenInv(w), request'[w].kind \in Pages, PageInv(w)'
  PROVE  SeenInv(w)'
  <1>1. seen'[w].offers # {} /\ Caught(w)'
    BY Grows DEF SeenInv
  <1>2. ChatInv(w)'
    BY DEF ChatInv, Pages
  <1>3. QED
    BY <1>1, <1>2 DEF SeenInv

LEMMA OpenSeen ==
  ASSUME Watch, NEW w \in Workers, SeenInv(w), NEW kind \in Pages, Open(w, kind), TablesInv
  PROVE  SeenInv(w)'
  <1>1. request'[w] = [at |-> First(kind), kind |-> kind, total |-> 0, vendors |-> {}, left |-> {},
                       shown |-> {}, id |-> NoRow, lat |-> NoRow]
    BY DEF Open, Begin, TablesInv, TypeOK
  <1>2. seen'[w].offers # {} /\ Chosen(w)' = {} /\ request'[w].at # "lng"
    BY <1>1, Grows DEF SeenInv, Chosen, Shown, First
  <1>3. PageInv(w)'
    BY <1>1, <1>2 DEF PageInv
  <1>4. QED
    BY <1>1, <1>3, PageSeen

\* The steps before anything is selected.
LEMMA CountSeen ==
  ASSUME Watch, NEW w \in Workers, SeenInv(w), Count(w), TablesInv
  PROVE  SeenInv(w)'
  <1> DEFINE r == request[w]
  <1>1. r.kind = "catalogue" /\ r.at = "count" /\ r \in PageRequest
    BY ServesPage DEF Count, At, Pages
  <1>2. request'[w] = [r EXCEPT !.total = Cardinality(PublicCatalog), !.at = "select"]
    BY DEF Count, TablesInv, TypeOK
  <1>3. request'[w].kind = "catalogue" /\ request'[w].at = "select"
    BY <1>1, <1>2 DEF PageRequest
  <1>4. Chosen(w)' = {} /\ Shown(w)' = {} /\ request'[w].shown = {}
    BY <1>1, <1>2 DEF SeenInv, PageInv, Chosen, Shown, PageRequest, Pages
  <1>5. seen'[w].offers # {}
    BY Grows DEF SeenInv
  <1>6. PageInv(w)'
    BY <1>3, <1>4, <1>5 DEF PageInv
  <1>7. QED
    BY <1>3, <1>6, PageSeen DEF Pages

LEMMA ReadPlacesSeen ==
  ASSUME Watch, NEW w \in Workers, SeenInv(w), ReadPlaces(w), TablesInv
  PROVE  SeenInv(w)'
  <1> DEFINE r == request[w]
  <1>1. r.kind \in {"nearby", "map"} /\ r.at = "places" /\ r \in PageRequest /\ ~Free(w)
    BY ServesPage DEF ReadPlaces, At, Pages, Free
  <1>2. PICK near \in SUBSET OnTheMap(r.kind) :
          request'[w] = [r EXCEPT !.vendors = near, !.at = IF near = {} THEN "done" ELSE "select"]
    BY DEF ReadPlaces, TablesInv, TypeOK
  <1>3. /\ request'[w].kind = r.kind /\ request'[w].at \in {"select", "done"}
        /\ request'[w].vendors = near /\ request'[w].left = r.left /\ request'[w].shown = r.shown
    BY <1>1, <1>2 DEF PageRequest
  <1>4. r.left = {} /\ r.shown = {}
    BY <1>1 DEF SeenInv, PageInv, Chosen, Shown, PageRequest, Pages
  <1>5. Chosen(w)' = {}
    BY <1>3, <1>4 DEF Chosen, Shown
  <1>6. r.kind = "nearby" => near \subseteq seen'[w].open
    BY <1>1, Selects, Grows DEF Pages
  <1>7. seen'[w].offers # {}
    BY Grows DEF SeenInv
  <1>8. PageInv(w)'
    BY <1>1, <1>3, <1>4, <1>5, <1>6, <1>7 DEF PageInv
  <1>9. QED
    BY <1>1, <1>3, <1>8, PageSeen DEF Pages

LEMMA SelectProductsSeen ==
  ASSUME Watch, NEW w \in Workers, SeenInv(w), SelectProducts(w), TablesInv
  PROVE  SeenInv(w)'
  <1> DEFINE r == request[w]
  <1>1. r.kind \in Described /\ r.at = "select" /\ r \in PageRequest /\ ~Free(w) /\ r.kind \in Pages
    BY ServesPage DEF SelectProducts, At, Described, Pages, Free
  <1>2. PICK found \in Found(w) :
          request'[w] = [r EXCEPT !.left = found, !.at = IF found = {} THEN "done" ELSE "lat"]
    BY DEF SelectProducts, TablesInv, TypeOK
  <1>3. /\ request'[w].kind = r.kind /\ request'[w].at \in {"lat", "done"}
        /\ request'[w].vendors = r.vendors /\ request'[w].left = found /\ request'[w].shown = r.shown
    BY <1>1, <1>2 DEF PageRequest
  <1>4. r.left = {} /\ r.shown = {}
    BY <1>1 DEF SeenInv, PageInv, Chosen, Shown, PageRequest
  <1>5. Chosen(w)' = found
    BY <1>3, <1>4 DEF Chosen, Shown
  <1>6. /\ \E o \in seen'[w].offers : found \subseteq o
        /\ found \subseteq Products
        /\ r.kind = "nearby" => \A p \in found : products[p].vendor \in r.vendors
        /\ seen[w].open \subseteq seen'[w].open
    BY <1>1, Selects, Grows
  <1>7. r.kind = "nearby" => r.vendors \subseteq seen[w].open
    BY <1>1 DEF SeenInv, PageInv
  <1>8. UNCHANGED products
    BY DEF SelectProducts, rest, tables
  <1>9. PageInv(w)'
    BY <1>1, <1>3, <1>4, <1>5, <1>6, <1>7, <1>8 DEF PageInv, Described
  <1>10. QED
    BY <1>1, <1>3, <1>9, PageSeen

\* The coordinates are the vendor's of this moment.
LEMMA ReadLatitudeSeen ==
  ASSUME Watch, NEW w \in Workers, SeenInv(w), ReadLatitude(w), TablesInv
  PROVE  SeenInv(w)'
  <1> DEFINE r == request[w]
  <1>1. /\ r.kind \in Described /\ r.at = "lat" /\ r \in PageRequest /\ ~Free(w) /\ r.kind \in Pages
        /\ RowsOk(r)
    BY ServesPage DEF ReadLatitude, At, Described, Pages, Free
  <1>2. PICK p \in r.left : request'[w] = [r EXCEPT !.id = p, !.lat = Spot(p), !.at = "lng"]
    BY DEF ReadLatitude, TablesInv, TypeOK
  <1>3. /\ request'[w].kind = r.kind /\ request'[w].at = "lng"
        /\ request'[w].vendors = r.vendors /\ request'[w].left = r.left /\ request'[w].shown = r.shown
        /\ request'[w].id = p /\ request'[w].lat = Spot(p)
    BY <1>1, <1>2 DEF PageRequest
  <1>4. Chosen(w)' = Chosen(w)
    BY <1>3 DEF Chosen, Shown
  <1>5. products[p].vendor \in Vendors
    BY <1>1 DEF PageRequest, RowsOk, TablesInv, TypeOK, Product
  <1>6. <<products[p].vendor, Spot(p)>> \in seen[w].spots
    BY <1>1, <1>5 DEF SeenInv, Caught, Reads, Spot
  <1>7. /\ seen[w].offers \subseteq seen'[w].offers
        /\ seen[w].open \subseteq seen'[w].open
        /\ seen[w].spots \subseteq seen'[w].spots
        /\ seen[w].apart \subseteq seen'[w].apart
    BY <1>1, Grows
  <1>8. UNCHANGED products /\ PageInv(w)
    BY DEF ReadLatitude, rest, tables, SeenInv
  <1>9. Spot(p)' = Spot(p)
    BY DEF ReadLatitude, rest, tables, Spot
  <1>10. PageInv(w)'
    BY <1>1, <1>3, <1>4, <1>6, <1>7, <1>8, <1>9 DEF PageInv, Described
  <1>11. QED
    BY <1>1, <1>3, <1>10, PageSeen

LEMMA ReadLongitudeSeen ==
  ASSUME Watch, NEW w \in Workers, SeenInv(w), ReadLongitude(w), TablesInv
  PROVE  SeenInv(w)'
  <1> DEFINE r == request[w]
             entry == [id |-> r.id, lat |-> r.lat, lng |-> Spot(r.id)]
  <1>1. /\ r.kind \in Described /\ r.at = "lng" /\ r \in PageRequest /\ ~Free(w) /\ r.kind \in Pages
        /\ RowsOk(r)
    BY ServesPage DEF ReadLongitude, At, Described, Pages, Free
  <1>2. request'[w] = [r EXCEPT !.shown = @ \cup {entry}, !.left = @ \ {r.id}, !.id = NoRow,
                         !.lat = NoRow, !.at = IF r.left = {r.id} THEN "done" ELSE "lat"]
    BY DEF ReadLongitude, TablesInv, TypeOK
  <1>3. /\ request'[w].kind = r.kind /\ request'[w].at \in {"lat", "done"}
        /\ request'[w].vendors = r.vendors /\ request'[w].left = r.left \ {r.id}
        /\ request'[w].shown = r.shown \cup {entry}
    BY <1>1, <1>2 DEF PageRequest
  <1>4. r.id \in r.left
    BY <1>1 DEF RowsOk
  <1>5. Chosen(w)' = Chosen(w)
    <2>1. entry.id = r.id
      OBVIOUS
    <2>2. Shown(w)' = Shown(w) \cup {r.id}
      BY <1>3, <2>1 DEF Shown
    <2>3. QED
      BY <1>3, <1>4, <2>2 DEF Chosen
  <1>6. products[r.id].vendor \in Vendors
    BY <1>1, <1>4 DEF PageRequest, RowsOk, TablesInv, TypeOK, Product
  <1>7. <<products[r.id].vendor, Spot(r.id)>> \in seen[w].spots
    BY <1>1, <1>6 DEF SeenInv, Caught, Reads, Spot
  <1>8. /\ <<products[r.id].vendor, r.lat>> \in seen[w].spots
        /\ r.lat = Spot(r.id) \/ r.id \in seen[w].apart
    BY <1>1 DEF SeenInv, PageInv
  <1>9. /\ seen[w].offers \subseteq seen'[w].offers
        /\ seen[w].open \subseteq seen'[w].open
        /\ seen[w].spots \subseteq seen'[w].spots
        /\ seen[w].apart \subseteq seen'[w].apart
    BY <1>1, Grows
  <1>10. UNCHANGED products /\ PageInv(w)
    BY DEF ReadLongitude, rest, tables, SeenInv
  <1>11. \A e \in request'[w].shown :
           /\ <<products'[e.id].vendor, e.lat>> \in seen'[w].spots
           /\ <<products'[e.id].vendor, e.lng>> \in seen'[w].spots
           /\ e.lat = e.lng \/ e.id \in seen'[w].apart
    BY <1>1, <1>3, <1>7, <1>8, <1>9, <1>10 DEF PageInv
  <1>12. PageInv(w)'
    BY <1>1, <1>3, <1>5, <1>9, <1>10, <1>11 DEF PageInv, Described
  <1>13. QED
    BY <1>1, <1>3, <1>12, PageSeen

LEMMA ListProductsSeen ==
  ASSUME Watch, NEW w \in Workers, SeenInv(w), ListProducts(w), TablesInv
  PROVE  SeenInv(w)'
  <1> DEFINE r == request[w]
             listed == {p \in InStock : products[p].status = "AVAILABLE"}
  <1>1. r.kind = "map" /\ r.at = "select" /\ r \in PageRequest /\ ~Free(w) /\ r.kind \in Pages
    BY ServesPage DEF ListProducts, At, Pages, Free
  <1>2. PICK some :
          /\ some \subseteq listed
          /\ request'[w].kind = "map" /\ request'[w].left = r.left
          /\ request'[w].at \in {"done", "select"}
          /\ request'[w].shown = r.shown \cup {[id |-> p, lat |-> NoRow, lng |-> NoRow] : p \in some}
    <2>1. PICK v \in r.vendors :
            \E some \in Limited({p \in InStock \cap Of({v}) : products[p].status = "AVAILABLE"}, OnMap) :
              request' = [request EXCEPT
                ![w].shown = @ \cup {[id |-> p, lat |-> NoRow, lng |-> NoRow] : p \in some},
                ![w].vendors = @ \ {v},
                ![w].at = IF request[w].vendors = {v} THEN "done" ELSE "select"]
      BY DEF ListProducts
    <2>2. PICK some \in Limited({p \in InStock \cap Of({v}) : products[p].status = "AVAILABLE"}, OnMap) :
            request' = [request EXCEPT
              ![w].shown = @ \cup {[id |-> p, lat |-> NoRow, lng |-> NoRow] : p \in some},
              ![w].vendors = @ \ {v},
              ![w].at = IF request[w].vendors = {v} THEN "done" ELSE "select"]
      BY <2>1
    <2>3. some \subseteq listed
      BY DEF Limited
    <2> DEFINE entries == {[id |-> p, lat |-> NoRow, lng |-> NoRow] : p \in some}
    <2>4. /\ request'[w].kind = r.kind /\ request'[w].left = r.left
          /\ request'[w].at \in {"done", "select"}
          /\ request'[w].shown = r.shown \cup entries
      <3> HIDE DEF entries
      <3>1. request' = [request EXCEPT ![w].shown = @ \cup entries, ![w].vendors = @ \ {v},
                          ![w].at = IF request[w].vendors = {v} THEN "done" ELSE "select"]
        BY <2>2 DEF entries
      <3>2. QED
        BY <1>1, <3>1 DEF PageRequest, TablesInv, TypeOK
    <2>5. QED
      BY <1>1, <2>3, <2>4
  <1>3. r.left = {} /\ Chosen(w) \subseteq UNION seen[w].offers
    BY <1>1 DEF SeenInv, PageInv
  <1>4. Chosen(w)' = Chosen(w) \cup some
    <2> DEFINE entries == {[id |-> p, lat |-> NoRow, lng |-> NoRow] : p \in some}
    <2>1. {e.id : e \in entries} = some
      <3>1. \A e \in entries : e.id \in some
        OBVIOUS
      <3>2. ASSUME NEW p \in some PROVE \E e \in entries : e.id = p
        <4>1. [id |-> p, lat |-> NoRow, lng |-> NoRow] \in entries
          OBVIOUS
        <4>2. QED
          BY <4>1
      <3> HIDE DEF entries
      <3>3. QED
        BY <3>1, <3>2
    <2>2. request'[w].shown = r.shown \cup entries
      BY <1>2
    <2> HIDE DEF entries
    <2>3. Shown(w)' = Shown(w) \cup some
      BY <2>1, <2>2 DEF Shown
    <2>4. QED
      BY <1>2, <2>3 DEF Chosen
  <1>5. listed \subseteq UNION seen[w].offers
    BY <1>1, Selects
  <1>6. seen[w].offers \subseteq seen'[w].offers
    BY <1>1, Grows
  <1>7. Chosen(w)' \subseteq UNION seen'[w].offers
    BY <1>2, <1>3, <1>4, <1>5, <1>6
  <1>8. PageInv(w)'
    BY <1>2, <1>3, <1>7 DEF PageInv, Described
  <1>9. QED
    BY <1>1, <1>2, <1>8, PageSeen

LEMMA BrowseSeen ==
  ASSUME Watch, NEW w \in Workers, SeenInv(w), Browse(w), TablesInv
  PROVE  SeenInv(w)'
  BY OpenSeen, CountSeen, ReadPlacesSeen, SelectProductsSeen, ReadLatitudeSeen, ReadLongitudeSeen,
     ListProductsSeen DEF Browse

-----------------------------------------------------------------------------
(* What the assistant saw.                                                  *)

\* What matches is what is on offer, and a search under way has seen it.
LEMMA MatchingSeen ==
  ASSUME NEW w \in Workers, SeenInv(w), request[w].kind = "chat", ~Free(w)
  PROVE  Matching(request[w]) \in seen[w].offers
  <1>1. Matching(request[w]) = OnOffer(request[w])
    BY DEF Matching, OnOffer, Rows
  <1>2. QED
    BY <1>1 DEF SeenInv, Caught, Reads

LEMMA ChatSeen ==
  ASSUME Watch, NEW w \in Workers, SeenInv(w), request'[w].kind = "chat", ChatInv(w)'
  PROVE  SeenInv(w)'
  <1>1. seen'[w].offers # {} /\ Caught(w)'
    BY Grows DEF SeenInv
  <1>2. PageInv(w)'
    BY DEF PageInv, Pages
  <1>3. QED
    BY <1>1, <1>2 DEF SeenInv

\* What matches depends on what was asked only.
LEMMA SameSearch ==
  ASSUME NEW r, NEW t, r.words = t.words, r.budget = t.budget, UNCHANGED products
  PROVE  /\ Matching(r)' = Matching(t)
         /\ \A offer, ascending : IsFirst(r, offer, ascending)' <=> IsFirst(t, offer, ascending)
  <1>1. Matching(r)' = Matching(t) /\ Matching(r) = Matching(t)
    BY DEF Matching, Rows
  <1>2. QED
    BY <1>1 DEF IsFirst, Before

LEMMA AskSeen ==
  ASSUME Watch, NEW w \in Workers, SeenInv(w), TablesInv,
         NEW image \in BOOLEAN, NEW words \in Words, NEW budget \in Extracted,
         Ask(w, image, words, budget)
  PROVE  SeenInv(w)'
  <1>1. request'[w] =
          [at |-> IF image THEN "exists" ELSE "slice", kind |-> "chat", words |-> words,
           budget |-> budget, cheapest |-> NoRow, dearest |-> NoRow, others |-> {},
           left |-> {}, since |-> writes, quiet |-> TRUE]
    BY DEF Ask, Begin, TablesInv, TypeOK
  <1>2. /\ request'[w].kind = "chat" /\ request'[w].at \in {"exists", "slice"}
        /\ request'[w].cheapest = NoRow /\ request'[w].dearest = NoRow /\ request'[w].others = {}
        /\ request'[w].since = writes
    BY <1>1
  <1>3. writes' = writes /\ writes \in Nat
    BY DEF Ask, Begin, tables, TablesInv, TypeOK
  <1>4. Ids(request[w].others \cup Picks(w))' = {}
    BY <1>2 DEF Picks, Ids
  <1>5. ChatInv(w)'
    <2>1. request'[w].since <= writes'
      BY <1>2, <1>3
    <2>2. Ids(request'[w].others \cup Picks(w)') \subseteq UNION seen'[w].offers
      BY <1>4
    <2>3. request'[w].at \notin Answered \cup {"cheapest", "dearest", "others", "broken"}
      BY <1>2 DEF Answered
    <2>4. QED
      BY <1>2, <2>1, <2>2, <2>3 DEF ChatInv
  <1>6. QED
    BY <1>2, <1>5, ChatSeen

LEMMA ExistsSeen ==
  ASSUME Watch, NEW w \in Workers, SeenInv(w), TablesInv, Exists(w)
  PROVE  SeenInv(w)'
  <1> DEFINE r == request[w]
  <1>1. r.kind = "chat" /\ r.at = "exists" /\ r \in ChatRequest /\ ~Free(w)
    BY ServesChat DEF Exists, AtChat, At, Free
  <1>2. request'[w] = [r EXCEPT !.at = IF Matching(r) = {} THEN "slice" ELSE "cheapest"]
    BY DEF Exists, TablesInv, TypeOK
  <1>3. /\ request'[w].kind = "chat" /\ request'[w].at \in {"slice", "cheapest"}
        /\ request'[w].at = "cheapest" => Matching(r) # {}
        /\ request'[w].cheapest = r.cheapest /\ request'[w].dearest = r.dearest
        /\ request'[w].others = r.others /\ request'[w].since = r.since
    BY <1>1, <1>2 DEF ChatRequest
  <1>4. Matching(r) \in seen'[w].offers /\ seen[w].offers \subseteq seen'[w].offers
    BY <1>1, MatchingSeen, Grows
  <1>5. Picks(w)' = Picks(w) /\ UNCHANGED writes
    BY <1>3 DEF Picks, Exists, rest, tables
  <1>6. ChatInv(w)'
    BY <1>1, <1>3, <1>4, <1>5 DEF SeenInv, ChatInv, Answered
  <1>7. QED
    BY <1>3, <1>6, ChatSeen

LEMMA CheapestSeen ==
  ASSUME Watch, NEW w \in Workers, SeenInv(w), TablesInv, Cheapest(w)
  PROVE  SeenInv(w)'
  <1> DEFINE r == request[w]
  <1>1. r.kind = "chat" /\ r.at = "cheapest" /\ r \in ChatRequest /\ ~Free(w) /\ ChatInv(w)
    BY ServesChat DEF Cheapest, AtChat, At, Free, SeenInv
  <1>2. PICK o \in FirstByPrice(w, TRUE) : request'[w] = [r EXCEPT !.cheapest = o, !.at = "dearest"]
    BY DEF Cheapest, TablesInv, TypeOK
  <1>3. /\ request'[w].kind = "chat" /\ request'[w].at = "dearest"
        /\ request'[w].cheapest = o /\ request'[w].dearest = r.dearest
        /\ request'[w].others = r.others /\ request'[w].since = r.since
        /\ request'[w].words = r.words /\ request'[w].budget = r.budget
    BY <1>1, <1>2 DEF ChatRequest
  <1>4. Matching(r) \in seen'[w].offers /\ seen[w].offers \subseteq seen'[w].offers
    BY <1>1, MatchingSeen, Grows
  <1>5. UNCHANGED <<products, writes>>
    BY DEF Cheapest, rest, tables
  <1>6. /\ o # NoRow => IsFirst(r, o, TRUE)
        /\ o = NoRow => Matching(r) = {}
    BY Searches
  <1>7. r.dearest = NoRow /\ r.others = {} /\ r.cheapest = NoRow
    BY <1>1 DEF ChatInv, Answered
  <1>8. Ids(request'[w].others \cup Picks(w)') \subseteq UNION seen'[w].offers
    <2>1. Picks(w)' \subseteq {o} \ {NoRow}
      BY <1>3, <1>7 DEF Picks
    <2>2. o # NoRow => o.id \in Matching(r)
      BY <1>6 DEF IsFirst
    <2>3. QED
      BY <1>3, <1>4, <1>7, <2>1, <2>2 DEF Ids
  <1>9. IsFirst(request[w], o, TRUE)' <=> IsFirst(r, o, TRUE)
    BY <1>3, <1>5, SameSearch
  <1>10. seen'[w].offers = {{}} => seen[w].offers = {{}}
    BY <1>4 DEF SeenInv
  <1>11. ChatInv(w)'
    BY <1>1, <1>3, <1>4, <1>5, <1>6, <1>7, <1>8, <1>9, <1>10 DEF ChatInv, Answered
  <1>12. QED
    BY <1>3, <1>11, ChatSeen

LEMMA DearestSeen ==
  ASSUME Watch, NEW w \in Workers, SeenInv(w), TablesInv, Dearest(w)
  PROVE  SeenInv(w)'
  <1> DEFINE r == request[w]
  <1>1. r.kind = "chat" /\ r.at = "dearest" /\ r \in ChatRequest /\ ~Free(w) /\ ChatInv(w)
    BY ServesChat DEF Dearest, AtChat, At, Free, SeenInv
  <1>2. PICK o \in FirstByPrice(w, FALSE) :
          request'[w] = [r EXCEPT !.dearest = o,
            !.at = IF NoRow \in {r.cheapest, o} THEN "broken" ELSE "others"]
    BY DEF Dearest, TablesInv, TypeOK
  <1>3. /\ request'[w].kind = "chat" /\ request'[w].at \in {"broken", "others"}
        /\ request'[w].at = "broken" <=> r.cheapest = NoRow \/ o = NoRow
        /\ request'[w].cheapest = r.cheapest /\ request'[w].dearest = o
        /\ request'[w].others = r.others /\ request'[w].since = r.since
        /\ request'[w].words = r.words /\ request'[w].budget = r.budget
    BY <1>1, <1>2 DEF ChatRequest
  <1>4. Matching(r) \in seen'[w].offers /\ seen[w].offers \subseteq seen'[w].offers
    BY <1>1, MatchingSeen, Grows
  <1>5. UNCHANGED <<products, writes>>
    BY DEF Dearest, rest, tables
  <1>6. /\ o # NoRow => IsFirst(r, o, FALSE)
        /\ o = NoRow => Matching(r) = {}
    BY Searches
  <1>7. r.others = {}
    BY <1>1 DEF ChatInv, Answered
  <1>8. Ids(request'[w].others \cup Picks(w)') \subseteq UNION seen'[w].offers
    <2>1. Picks(w)' \subseteq Picks(w) \cup ({o} \ {NoRow})
      BY <1>3 DEF Picks
    <2>2. o # NoRow => o.id \in Matching(r)
      BY <1>6 DEF IsFirst
    <2>3. Ids(Picks(w)) \subseteq UNION seen[w].offers
      BY <1>1 DEF ChatInv, Ids
    <2>4. QED
      BY <1>3, <1>4, <1>7, <2>1, <2>2, <2>3 DEF Ids
  <1>9. /\ IsFirst(request[w], o, FALSE)' <=> IsFirst(r, o, FALSE)
        /\ IsFirst(request[w], r.cheapest, TRUE)' <=> IsFirst(r, r.cheapest, TRUE)
    BY <1>3, <1>5, SameSearch
  <1>10. seen'[w].offers = {{}} => seen[w].offers = {{}}
    BY <1>4 DEF SeenInv
  <1>11. ChatInv(w)'
    BY <1>1, <1>3, <1>4, <1>5, <1>6, <1>7, <1>8, <1>9, <1>10 DEF ChatInv, Answered
  <1>12. QED
    BY <1>3, <1>11, ChatSeen

\* At most two products are picked, and the slice leaves room for them.
LEMMA RoomForPicks ==
  ASSUME TablesInv, NEW w \in Workers, request[w].kind = "chat", NEW some \in Slices(w)
  PROVE  Cardinality(Ids(Picks(w)) \cup some) <= MaxFound
  <1> DEFINE r == request[w]
             picked == Ids(Picks(w))
             rows == Matching(r) \ picked
             room == MaxFound - Cardinality(picked)
             size == IF Cardinality(rows) < room THEN Cardinality(rows) ELSE room
  <1>1. IsFiniteSet(picked) /\ Cardinality(picked) \in 0..2
    <2>1. picked \subseteq {r.cheapest.id, r.dearest.id}
      BY DEF Ids, Picks
    <2>3. IsFiniteSet({r.cheapest.id, r.dearest.id}) /\ Cardinality({r.cheapest.id, r.dearest.id}) <= 2
      <3> DEFINE c == r.cheapest.id
                 d == r.dearest.id
      <3> HIDE DEF c, d
      <3>1. IsFiniteSet({c}) /\ Cardinality({c}) = 1
        BY FS_Singleton
      <3>2. /\ IsFiniteSet({c} \cup {d})
            /\ Cardinality({c} \cup {d}) = IF d \in {c} THEN Cardinality({c}) ELSE Cardinality({c}) + 1
        BY <3>1, FS_AddElement
      <3>3. {c, d} = {c} \cup {d}
        OBVIOUS
      <3>4. IsFiniteSet({c, d}) /\ Cardinality({c, d}) <= 2
        BY <3>1, <3>2, <3>3
      <3>5. QED
        BY <3>4 DEF c, d
    <2>4. IsFiniteSet(picked) /\ Cardinality(picked) <= Cardinality({r.cheapest.id, r.dearest.id})
      BY <2>1, <2>3, FS_Subset
    <2>5. Cardinality(picked) \in Nat /\ Cardinality({r.cheapest.id, r.dearest.id}) \in Nat
      BY <2>3, <2>4, FS_CardinalityType
    <2>6. QED
      BY <2>3, <2>4, <2>5
  <1>2. some \subseteq rows /\ Cardinality(some) = size
    BY DEF Slices
  <1>3. IsFiniteSet(some) /\ Cardinality(some) \in Nat
    <2>1. some \subseteq Products
      BY <1>2, Searches
    <2>2. QED
      BY <2>1, FS_Subset, FS_CardinalityType
  <1>4. IsFiniteSet(rows) /\ Cardinality(rows) \in Nat
    <2>1. rows \subseteq Products
      BY Searches
    <2>2. QED
      BY <2>1, FS_Subset, FS_CardinalityType
  <1> HIDE DEF picked, rows
  <1>5. Cardinality(some) <= room
    BY <1>1, <1>2, <1>4
  <1>6. picked \cap some = {}
    BY <1>2 DEF rows
  <1>7. Cardinality(picked \cup some) = Cardinality(picked) + Cardinality(some)
    <2>1. Cardinality(picked \cup some) =
            Cardinality(picked) + Cardinality(some) - Cardinality(picked \cap some)
      BY <1>1, <1>3, FS_Union
    <2>2. Cardinality(picked \cap some) = 0
      BY <1>6, FS_EmptySet
    <2>3. QED
      BY <1>1, <1>3, <2>1, <2>2
  <1>8. Cardinality(picked \cup some) <= MaxFound
    BY <1>1, <1>3, <1>5, <1>7
  <1>9. QED
    BY <1>8 DEF picked

LEMMA IdsOfSlice == ASSUME NEW some PROVE Ids({OfferOf(p) : p \in some}) = some
  <1> DEFINE offers == {OfferOf(p) : p \in some}
  <1>1. \A o \in offers : o.id \in some
    BY DEF OfferOf
  <1>2. ASSUME NEW p \in some PROVE \E o \in offers : o.id = p
    <2>1. OfferOf(p) \in offers /\ OfferOf(p).id = p
      BY DEF OfferOf
    <2>2. QED
      BY <2>1
  <1> HIDE DEF offers
  <1>3. Ids(offers) = some
    BY <1>1, <1>2 DEF Ids
  <1>4. QED
    BY <1>3 DEF offers

\* Unless somebody wrote, what was the cheapest or dearest still is.
LEMMA FindOthersSeen ==
  ASSUME Watch, NEW w \in Workers, SeenInv(w), TablesInv, FindOthers(w)
  PROVE  SeenInv(w)'
  <1> DEFINE r == request[w]
  <1>1. r.kind = "chat" /\ r.at \in {"others", "slice"} /\ r \in ChatRequest /\ ~Free(w) /\ ChatInv(w)
    BY ServesChat DEF FindOthers, AtChat, At, Free, SeenInv
  <1>2. PICK some \in Slices(w) :
          request'[w] = [r EXCEPT !.others = {OfferOf(p) : p \in some},
            !.left = some \cup Ids(Picks(w)), !.at = "reply", !.quiet = (writes = r.since)]
    BY DEF FindOthers, TablesInv, TypeOK
  <1> DEFINE others == {OfferOf(p) : p \in some}
             t == request'[w]
  <1>3. /\ t.kind = "chat" /\ t.at = "reply" /\ t.others = others
        /\ t.cheapest = r.cheapest /\ t.dearest = r.dearest /\ t.since = r.since
        /\ t.quiet <=> writes = r.since
    BY <1>1, <1>2 DEF ChatRequest
  <1>4. Matching(r) \in seen'[w].offers /\ seen[w].offers \subseteq seen'[w].offers
    BY <1>1, MatchingSeen, Grows
  <1>5. UNCHANGED <<products, writes>>
    BY DEF FindOthers, rest, tables
  <1>6. some \subseteq Matching(r) \ Ids(Picks(w)) /\ Ids(others) = some
    BY Searches, IdsOfSlice
  <1>7. Picks(w)' = Picks(w)
    BY <1>3 DEF Picks
  <1>8. Ids(others \cup Picks(w)) \subseteq UNION seen'[w].offers
    <2>1. Ids(others \cup Picks(w)) = some \cup Ids(Picks(w))
      BY <1>6 DEF Ids
    <2>2. Ids(Picks(w)) \subseteq UNION seen[w].offers
      BY <1>1 DEF ChatInv, Ids
    <2>3. QED
      BY <1>4, <1>6, <2>1, <2>2
  <1>9. AnswerOk(w)'
    <2>1. Ids(Picks(w)) \cap Ids(others) = {}
      BY <1>6
    <2>2. Cardinality(Ids(Picks(w)) \cup Ids(others)) <= MaxFound
      BY <1>1, <1>6, RoomForPicks
    <2>3. ASSUME Picks(w) # {}, writes = r.since, NEW o \in others \cup Picks(w)
          PROVE  r.cheapest.price <= o.price /\ o.price <= r.dearest.price
      <3>1. r.at = "others"
        BY <1>1, <2>3 DEF ChatInv, Picks
      <3>2. /\ r.cheapest # NoRow /\ r.dearest # NoRow
            /\ IsFirst(r, r.cheapest, TRUE) /\ IsFirst(r, r.dearest, FALSE)
        BY <1>1, <2>3, <3>1 DEF ChatInv
      <3>3. o.id \in Matching(r) /\ o.price = products[o.id].price
        <4>1. CASE o \in Picks(w)
          BY <3>2, <4>1 DEF Picks, IsFirst
        <4>2. CASE o \in others
          <5>1. PICK p \in some : o = OfferOf(p)
            BY <4>2
          <5>2. QED
            BY <1>6, <5>1 DEF OfferOf
        <4>3. QED
          BY <2>3, <4>1, <4>2
      <3>4. QED
        BY <3>2, <3>3 DEF IsFirst, Before
    <2> HIDE DEF others
    <2>4. QED
      BY <1>3, <2>1, <2>2, <2>3 DEF AnswerOk, Picks
  <1>10. r.since <= writes
    BY <1>1 DEF ChatInv
  <1> HIDE DEF others
  <1>11. ChatInv(w)'
    BY <1>1, <1>3, <1>5, <1>7, <1>8, <1>9, <1>10 DEF ChatInv, Answered
  <1>12. QED
    BY <1>3, <1>11, ChatSeen

\* The answer is written, and recorded as far as that goes.
LEMMA AnswerSeen ==
  ASSUME Watch, NEW w \in Workers, SeenInv(w), TablesInv, Reply(w) \/ Record(w) \/ RecordFails(w)
  PROVE  SeenInv(w)'
  <1> DEFINE r == request[w]
             t == request'[w]
  <1>1. /\ r.kind = "chat" /\ r.at \in Answered /\ r \in ChatRequest /\ ~Free(w) /\ ChatInv(w)
    BY ServesChat DEF Reply, Record, RecordFails, AtChat, At, Free, SeenInv, Answered
  <1>2. t = [r EXCEPT !.at = IF r.left = {} THEN "done" ELSE "record"] \/
        t = [r EXCEPT !.at = "done"] \/
        \E p \in r.left : t = [r EXCEPT !.left = @ \ {p}, !.at = IF r.left = {p} THEN "done" ELSE "record"]
    <2>1. CASE Reply(w)
      BY <2>1 DEF Reply, TablesInv, TypeOK
    <2>2. CASE Record(w)
      BY <2>2 DEF Record, TablesInv, TypeOK
    <2>3. CASE RecordFails(w)
      BY <2>3 DEF RecordFails, TablesInv, TypeOK
    <2>4. QED
      BY <2>1, <2>2, <2>3
  <1>3. /\ t.kind = "chat" /\ t.at \in {"record", "done"} /\ t.others = r.others
        /\ t.cheapest = r.cheapest /\ t.dearest = r.dearest /\ t.since = r.since
        /\ t.quiet = r.quiet
    BY <1>1, <1>2 DEF ChatRequest
  <1>4. seen[w].offers \subseteq seen'[w].offers
    BY <1>1, Grows
  <1>5. Picks(w)' = Picks(w)
    BY <1>3 DEF Picks
  <1>6. AnswerOk(w)'
    BY <1>1, <1>3 DEF ChatInv, AnswerOk
  <1>7. UNCHANGED writes
    BY DEF Reply, Record, RecordFails, rest, tables
  <1>8. ChatInv(w)'
    BY <1>1, <1>3, <1>4, <1>5, <1>6, <1>7 DEF ChatInv, Answered
  <1>9. QED
    BY <1>3, <1>8, ChatSeen

LEMMA AssistSeen ==
  ASSUME Watch, NEW w \in Workers, SeenInv(w), TablesInv, Assist(w)
  PROVE  SeenInv(w)'
  BY AskSeen, ExistsSeen, CheapestSeen, DearestSeen, FindOthersSeen, AnswerSeen DEF Assist

-----------------------------------------------------------------------------
(* One request moves at a time.                                             *)

LEMMA OthersWait ==
  ASSUME TablesInv, NEW w \in Workers, Browse(w) \/ Assist(w) \/ Publish(w) \/ Portray(w)
  PROVE  \A x \in Workers \ {w} : request'[x] = request[x]
  <1>1. CASE Browse(w)
    BY <1>1 DEF TablesInv, TypeOK, Browse, Open, Begin, Count, ReadPlaces, SelectProducts,
                ReadLatitude, ReadLongitude, ListProducts
  <1>2. CASE Assist(w)
    BY <1>2 DEF TablesInv, TypeOK, Assist, Ask, Begin, Exists, Cheapest, Dearest, FindOthers,
                Reply, Record, RecordFails
  <1>3. CASE Publish(w)
    BY <1>3 DEF TablesInv, TypeOK, Publish, Submit, SubmitEdit, Begin, Upload, UploadFails, Validated,
                Refused, Create, Recheck, RecheckFails, Update, Abort, Fail
  <1>4. CASE Portray(w)
    BY <1>4 DEF TablesInv, TypeOK, Portray, Post, Look, Begin, Store, TurnOff, Fail
  <1>5. QED
    BY <1>1, <1>2, <1>3, <1>4

LEMMA StaysAForm ==
  ASSUME TablesInv, NEW w \in Workers, Publish(w)
  PROVE  request'[w].kind \in Forms
  <1>1. ASSUME NEW form \in Form, Submit(w, form) \/ \E p \in Products : SubmitEdit(w, form, p)
        PROVE  request'[w].kind \in Forms
    BY <1>1 DEF Submit, SubmitEdit, Begin, Forms, TablesInv, TypeOK
  <1>2. ASSUME \/ Upload(w) \/ UploadFails(w) \/ Validated(w) \/ Refused(w) \/ Create(w)
               \/ Recheck(w) \/ RecheckFails(w) \/ Update(w) \/ Abort(w)
        PROVE  request'[w].kind \in Forms
    <2>1. request[w].kind \in Forms
      BY <1>2 DEF Upload, UploadFails, Uploading, Validated, Refused, Create, Recheck, RecheckFails,
                  Update, Abort, At, Forms
    <2>2. request[w] \in FormRequest
      BY <2>1, ServesForm
    <2>3. request'[w].kind = request[w].kind
      BY <1>2, <2>2 DEF Upload, UploadFails, Validated, Refused, Create, Recheck, RecheckFails,
                        Update, Abort, Fail, FormRequest, TablesInv, TypeOK
    <2>4. QED
      BY <2>1, <2>3
  <1>3. QED
    BY <1>1, <1>2 DEF Publish

LEMMA StaysAPicture ==
  ASSUME TablesInv, NEW w \in Workers, Portray(w)
  PROVE  request'[w].kind \in PictureKinds
  <1>1. ASSUME NEW v \in Vendors, Post(w, v) \/ Look(w, v) PROVE request'[w].kind \in PictureKinds
    BY <1>1 DEF Post, Look, Begin, PictureKinds, TablesInv, TypeOK
  <1>2. ASSUME Store(w) \/ TurnOff(w) \/ (request[w].kind \in PictureKinds /\ Fail(w))
        PROVE  request'[w].kind \in PictureKinds
    <2>1. request[w].kind \in PictureKinds
      BY <1>2 DEF Store, TurnOff, At, PictureKinds
    <2>2. request[w] \in PictureRequest
      BY <2>1, ServesPicture
    <2>3. request'[w].kind = request[w].kind
      BY <1>2, <2>2 DEF Store, TurnOff, Fail, PictureRequest, TablesInv, TypeOK
    <2>4. QED
      BY <2>1, <2>3
  <1>3. QED
    BY <1>1, <1>2 DEF Portray

\* A form and a request for a picture list nothing.
LEMMA ListsNothing ==
  ASSUME Watch, NEW w \in Workers, SeenInv(w), request'[w].kind \in Forms \cup PictureKinds
  PROVE  SeenInv(w)'
  <1>1. seen'[w].offers # {} /\ Caught(w)'
    BY Grows DEF SeenInv
  <1>2. PageInv(w)' /\ ChatInv(w)'
    BY DEF PageInv, ChatInv, Pages, Forms, PictureKinds
  <1>3. QED
    BY <1>1, <1>2 DEF SeenInv

\* The profiles' pictures that are files of ours are in the store.
LEMMA ProfilesHosted ==
  ASSUME FilesInv
  PROVE  \A u \in Vendors : pictures[u].image_url \in Files => pictures[u].image_url \in hosted
  BY DEF FilesInv, FileInv, OnProfile

\* The tables and what was seen, after any step.
LEMMA NextTables ==
  ASSUME TablesInv, FilesInv, Next
  PROVE  TablesInv' /\ Keeps
  <1>1. CASE (ProductWrite \/ VendorWrite) /\ UNCHANGED <<files, gallery>>
    BY <1>1, ProductWriteTables, VendorWriteTables
  <1>2. CASE \E w \in Workers : (Browse(w) \/ Assist(w)) /\ UNCHANGED <<files, gallery>>
    BY <1>2, BrowseTables, AssistTables
  <1>3. CASE \E w \in Workers : Publish(w) /\ UNCHANGED gallery
    BY <1>3, PublishTables
  <1>4. CASE \E w \in Workers : Portray(w)
    BY <1>4, PortrayTables, ProfilesHosted
  <1>5. QED
    BY <1>1, <1>2, <1>3, <1>4 DEF Next

LEMMA NextSeen ==
  ASSUME IInv, Next, NEW x \in Workers
  PROVE  SeenInv(x)'
  <1>1. TablesInv /\ Keeps /\ Watch /\ SeenInv(x)
    BY NextTables DEF IInv, Next
  <1>2. request'[x] = request[x] => SeenInv(x)'
    BY <1>1, SeenStays
  <1>3. CASE ProductWrite \/ VendorWrite
    BY <1>2, <1>3 DEF ProductWrite, VendorWrite
  <1>4. ASSUME NEW w \in Workers, Browse(w) \/ Assist(w) PROVE SeenInv(x)'
    BY <1>1, <1>2, <1>4, OthersWait, BrowseSeen, AssistSeen
  <1>5. ASSUME NEW w \in Workers, Publish(w) \/ Portray(w) PROVE SeenInv(x)'
    BY <1>1, <1>2, <1>5, OthersWait, StaysAForm, StaysAPicture, ListsNothing
  <1>6. QED
    BY <1>3, <1>4, <1>5 DEF Next

LEMMA InitSeen == Init => \A w \in Workers : SeenInv(w)
  <1> SUFFICES ASSUME Init, NEW w \in Workers PROVE SeenInv(w)
    OBVIOUS
  <1>1. request[w] = Idle /\ seen[w] = Now(Idle)
    BY DEF Init, CatalogueInit
  <1>2. Idle.kind = "none" /\ Idle.at = "idle"
    BY DEF Idle
  <1>3. seen[w].offers = {{}}
    BY <1>1, <1>2 DEF Now, Reads, Pages
  <1>4. QED
    BY <1>1, <1>2, <1>3 DEF SeenInv, Caught, PageInv, ChatInv, Free, Pages

-----------------------------------------------------------------------------
(* Where the files are, after any step.                                     *)

SamePlaces(f) ==
  /\ f \in hosted' <=> f \in hosted
  /\ f \in lost' <=> f \in lost
  /\ \A p \in Products : OnProduct(f, p)' <=> OnProduct(f, p)
  /\ \A v \in Vendors : OnProfile(f, v)' <=> OnProfile(f, v)
  /\ \A w \in Workers : InHands(f, w)' <=> InHands(f, w)

LEMMA StaysPut == ASSUME NEW f, FileInv(f), SamePlaces(f) PROVE FileInv(f)'
  BY DEF FileInv, SamePlaces

\* A file that is sent is in the hands of the request that sent it.
LEMMA ToHands ==
  ASSUME NEW f, FileInv(f), NEW w \in Workers, f \notin hosted, f \in hosted', InHands(f, w)',
         \A x \in Workers \ {w} : InHands(f, x)' <=> InHands(f, x),
         \A p \in Products : OnProduct(f, p)' <=> OnProduct(f, p),
         \A v \in Vendors : OnProfile(f, v)' <=> OnProfile(f, v), f \in lost' <=> f \in lost
  PROVE  FileInv(f)'
  BY DEF FileInv

\* The files of a request that fails are lost.
LEMMA FailFiles ==
  ASSUME TablesInv, NEW w \in Workers, request[w].kind \in Forms \cup PictureKinds, ~Free(w),
         RemovalInv(w), Fail(w), UNCHANGED gallery, NEW f, FileInv(f)
  PROVE  FileInv(f)'
  <1>1. request[w] \in FormRequest \/ request[w] \in PictureRequest
    BY ServesForm, ServesPicture
  <1>2. request'[w] = [request[w] EXCEPT !.at = "broken"] /\ \A x \in Workers \ {w} : request'[x] = request[x]
    BY DEF Fail, TablesInv, TypeOK
  <1>3. Free(w)'
    BY <1>1, <1>2 DEF Free, FormRequest, PictureRequest
  <1>4. ~InHands(f, w)' /\ \A x \in Workers \ {w} : InHands(f, x)' <=> InHands(f, x)
    BY <1>2, <1>3 DEF InHands, Free
  <1>5. /\ UNCHANGED <<hosted, products, pictures>>
        /\ lost' = lost \cup request[w].mine
    BY DEF Fail, rest, tables, gallery
  <1>6. /\ \A p \in Products : OnProduct(f, p)' <=> OnProduct(f, p)
        /\ \A v \in Vendors : OnProfile(f, v)' <=> OnProfile(f, v)
    BY <1>5 DEF OnProduct, OnProfile
  <1>7. f \in request[w].mine => InHands(f, w)
    BY DEF InHands, RemovalInv, Forms, PictureKinds
  <1>8. CASE f \in request[w].mine
    BY <1>4, <1>5, <1>6, <1>7, <1>8 DEF FileInv
  <1>9. CASE f \notin request[w].mine
    <2>1. ~InHands(f, w) /\ SamePlaces(f)
      BY <1>4, <1>5, <1>6, <1>9 DEF InHands, SamePlaces
    <2>2. QED
      BY <2>1, StaysPut
  <1>10. QED
    BY <1>8, <1>9

\* A step of a form that stores no row and sends no file.
LEMMA FormWaits ==
  ASSUME NEW w \in Workers, UNCHANGED <<products, pictures, files>>, NEW f, FileInv(f),
         \A x \in Workers \ {w} : request'[x] = request[x],
         InHands(f, w)' <=> InHands(f, w)
  PROVE  FileInv(f)'
  <1>1. \A x \in Workers : InHands(f, x)' <=> InHands(f, x)
    BY DEF InHands, Free
  <1>2. SamePlaces(f)
    BY <1>1 DEF SamePlaces, OnProduct, OnProfile, files
  <1>3. QED
    BY <1>2, StaysPut

LEMMA BeginFiles ==
  ASSUME TablesInv, NEW w \in Workers, NEW r, r.mine = {}, Begin(w, r), UNCHANGED <<files, gallery>>,
         NEW f, FileInv(f)
  PROVE  FileInv(f)'
  <1>1. request'[w] = r /\ \A x \in Workers \ {w} : request'[x] = request[x]
    BY DEF Begin, TablesInv, TypeOK
  <1>2. ~InHands(f, w) /\ ~InHands(f, w)'
    BY <1>1 DEF Begin, InHands
  <1>3. QED
    BY <1>1, <1>2, FormWaits DEF Begin, tables, gallery

LEMMA UploadFiles ==
  ASSUME TablesInv, NEW w \in Workers, Upload(w), UNCHANGED gallery, NEW f, FileInv(f)
  PROVE  FileInv(f)'
  <1>1. request[w] \in FormRequest /\ request[w].kind \in Forms /\ request[w].at = "upload"
    BY ServesForm DEF Upload, Uploading, At
  <1>2. PICK g \in Files \ hosted :
          /\ hosted' = hosted \cup {g}
          /\ request' = [request EXCEPT ![w].left = @ - 1, ![w].mine = @ \cup {g}]
    BY DEF Upload
  <1>3. /\ request'[w] = [request[w] EXCEPT !.left = @ - 1, !.mine = @ \cup {g}]
        /\ \A x \in Workers \ {w} : request'[x] = request[x]
    BY <1>2 DEF TablesInv, TypeOK
  <1>4. /\ request'[w].kind \in Forms /\ ~Free(w) /\ ~Free(w)'
        /\ request'[w].mine = request[w].mine \cup {g}
    BY <1>1, <1>3 DEF FormRequest, Free
  <1>5. InHands(f, w)' <=> InHands(f, w) \/ f = g
    BY <1>1, <1>4 DEF InHands
  <1>6. \A x \in Workers \ {w} : InHands(f, x)' <=> InHands(f, x)
    BY <1>3 DEF InHands, Free
  <1>7. /\ \A p \in Products : OnProduct(f, p)' <=> OnProduct(f, p)
        /\ \A v \in Vendors : OnProfile(f, v)' <=> OnProfile(f, v)
        /\ f \in lost' <=> f \in lost
    BY DEF Upload, rest, tables, gallery, OnProduct, OnProfile
  <1>8. CASE f = g
    BY <1>2, <1>5, <1>6, <1>7, <1>8, ToHands
  <1>9. CASE f # g
    <2>1. SamePlaces(f)
      BY <1>2, <1>5, <1>6, <1>7, <1>9 DEF SamePlaces
    <2>2. QED
      BY <2>1, StaysPut
  <1>10. QED
    BY <1>8, <1>9

LEMMA FormGoesOnFiles ==
  ASSUME TablesInv, NEW w \in Workers, UploadFails(w) \/ Validated(w) \/ Recheck(w), UNCHANGED gallery,
         NEW f, FileInv(f)
  PROVE  FileInv(f)'
  <1>1. /\ request[w] \in FormRequest /\ request[w].kind \in Forms
        /\ request[w].at \in {"upload", "recheck"}
    BY ServesForm DEF UploadFails, Uploading, Validated, Recheck, At, Forms
  <1>2. \A x \in Workers \ {w} : request'[x] = request[x]
    BY DEF UploadFails, Validated, Recheck, TablesInv, TypeOK
  <1>3. /\ request'[w].kind = request[w].kind /\ request'[w].mine = request[w].mine
        /\ request'[w].at \in {"upload", "create", "recheck", "update"}
    <2>1. CASE UploadFails(w)
      BY <1>1, <2>1 DEF UploadFails, TablesInv, TypeOK, FormRequest
    <2>2. CASE Validated(w)
      BY <1>1, <2>2 DEF Validated, TablesInv, TypeOK, FormRequest
    <2>3. CASE Recheck(w)
      BY <1>1, <2>3 DEF Recheck, TablesInv, TypeOK, FormRequest
    <2>4. QED
      BY <2>1, <2>2, <2>3
  <1>4. InHands(f, w)' <=> InHands(f, w)
    BY <1>1, <1>3 DEF InHands, Free
  <1>5. UNCHANGED <<products, pictures, files>>
    BY DEF UploadFails, Validated, Recheck, rest, tables, gallery
  <1>6. QED
    BY <1>2, <1>4, <1>5, FormWaits

\* The files of a form are handed over to the product that is stored.
LEMMA StoredFiles ==
  ASSUME NEW w \in Workers, NEW q \in Products, NEW f, FileInv(f), UNCHANGED <<files, pictures>>,
         \A x \in Workers \ {w} : request'[x] = request[x], ~InHands(f, w)',
         \A p \in Products \ {q} : products'[p] = products[p],
         OnProduct(f, q)' <=> OnProduct(f, q) \/ InHands(f, w)
  PROVE  FileInv(f)'
  <1>1. /\ \A p \in Products \ {q} : OnProduct(f, p)' <=> OnProduct(f, p)
        /\ \A v \in Vendors : OnProfile(f, v)' <=> OnProfile(f, v)
        /\ \A x \in Workers \ {w} : InHands(f, x)' <=> InHands(f, x)
        /\ f \in hosted' <=> f \in hosted
        /\ f \in lost' <=> f \in lost
    BY DEF OnProduct, OnProfile, InHands, Free, files
  <1>2. CASE InHands(f, w)
    BY <1>1, <1>2 DEF FileInv
  <1>3. CASE ~InHands(f, w)
    BY <1>1, <1>3 DEF FileInv
  <1>4. QED
    BY <1>2, <1>3

LEMMA CreateFiles ==
  ASSUME TablesInv, NEW w \in Workers, Create(w), UNCHANGED gallery, NEW f, FileInv(f)
  PROVE  FileInv(f)'
  <1>1. request[w] \in FormRequest /\ request[w].kind = "create" /\ request[w].at = "create"
    BY ServesForm DEF Create, At, Forms
  <1>2. PICK q \in Products, stock \in BOOLEAN :
          /\ products[q] = NoRow
          /\ products' = [products EXCEPT ![q] =
               [vendor |-> SavedFor(w), status |-> request[w].form.status, price |-> request[w].form.price,
                stock |-> stock, deleted |-> FALSE, pictures |-> Uploaded(w)]]
          /\ request' = [request EXCEPT ![w].at = "done", ![w].id = q]
    BY DEF Create
  <1>3. /\ request'[w] = [request[w] EXCEPT !.at = "done", !.id = q]
        /\ \A x \in Workers \ {w} : request'[x] = request[x]
    BY <1>2 DEF TablesInv, TypeOK
  <1>4. ~InHands(f, w)'
    BY <1>1, <1>3 DEF InHands, Free, FormRequest
  <1>5. InHands(f, w) <=> f \in request[w].mine
    BY <1>1 DEF InHands, Free, Forms
  <1> DEFINE row == [vendor |-> SavedFor(w), status |-> request[w].form.status,
                     price |-> request[w].form.price, stock |-> stock, deleted |-> FALSE,
                     pictures |-> Uploaded(w)]
  <1>6. row \in Product /\ row.pictures = request[w].mine
    BY <1>1 DEF FormRequest, Form, Product, SavedFor, Uploaded, Status
  <1>7. products'[q] = row /\ \A p \in Products \ {q} : products'[p] = products[p]
    BY <1>2 DEF TablesInv, TypeOK
  <1>8. OnProduct(f, q)' <=> f \in request[w].mine
    BY <1>6, <1>7 DEF OnProduct
  <1>9. ~OnProduct(f, q)
    BY <1>2 DEF OnProduct
  <1>10. UNCHANGED <<files, pictures>>
    BY DEF Create, gallery
  <1>11. QED
    BY <1>3, <1>4, <1>5, <1>7, <1>8, <1>9, <1>10, StoredFiles

LEMMA UpdateFiles ==
  ASSUME TablesInv, NEW w \in Workers, Update(w), UNCHANGED gallery, NEW f, FileInv(f)
  PROVE  FileInv(f)'
  <1>1. request[w] \in FormRequest /\ request[w].kind = "edit" /\ RowsOk(request[w])
    BY ServesForm DEF Update, At, Forms
  <1>2. PICK i \in Products : i = request[w].id /\ products[i] # NoRow /\ request[w].copy \in Product
    BY <1>1 DEF RowsOk
  <1>3. /\ request'[w] = [request[w] EXCEPT !.at = "done"]
        /\ \A x \in Workers \ {w} : request'[x] = request[x]
    BY DEF Update, TablesInv, TypeOK
  <1>4. ~InHands(f, w)'
    BY <1>1, <1>3 DEF InHands, Free, FormRequest
  <1>5. InHands(f, w) <=> f \in request[w].mine
    BY <1>1 DEF InHands, Update, At, Free, Forms
  <1> DEFINE row == [request[w].copy EXCEPT !.price = request[w].form.price,
                       !.pictures = products[i].pictures \cup request[w].mine]
  <1>6. products'[i] = row /\ \A p \in Products \ {i} : products'[p] = products[p]
    BY <1>2 DEF Update, Uploaded, TablesInv, TypeOK
  <1>7. row \in Product /\ row.pictures = products[i].pictures \cup request[w].mine
    <2>1. products[i] \in Product
      BY <1>2 DEF TablesInv, TypeOK
    <2>2. QED
      BY <1>1, <1>2, <2>1 DEF Product, FormRequest, Form
  <1>8. OnProduct(f, i)' <=> OnProduct(f, i) \/ f \in request[w].mine
    BY <1>2, <1>6, <1>7 DEF OnProduct
  <1>9. UNCHANGED <<files, pictures>>
    BY DEF Update, gallery
  <1>10. QED
    BY <1>3, <1>4, <1>5, <1>6, <1>8, <1>9, StoredFiles

LEMMA PublishFiles ==
  ASSUME TablesInv, FilesInv, NEW w \in Workers, Publish(w), UNCHANGED gallery, NEW f \in Files
  PROVE  FileInv(f)'
  <1>1. FileInv(f) /\ RemovalInv(w)
    BY DEF FilesInv
  <1>2. ASSUME NEW form \in Form, Submit(w, form) PROVE FileInv(f)'
    BY <1>1, <1>2, BeginFiles DEF Submit
  <1>3. ASSUME NEW form \in Form, NEW p \in Products, SubmitEdit(w, form, p) PROVE FileInv(f)'
    BY <1>1, <1>3, BeginFiles DEF SubmitEdit
  <1>4. CASE Refused(w) \/ RecheckFails(w) \/ Abort(w)
    <2>1. Fail(w) /\ ~Free(w) /\ request[w].kind \in Forms
      BY <1>4 DEF Refused, RecheckFails, Abort, At, Free, Forms
    <2>2. QED
      BY <1>1, <2>1, FailFiles
  <1>5. QED
    BY <1>1, <1>2, <1>3, <1>4, UploadFiles, FormGoesOnFiles, CreateFiles, UpdateFiles DEF Publish

LEMMA PostFiles ==
  ASSUME TablesInv, NEW w \in Workers, NEW v \in Vendors, Post(w, v), NEW f, FileInv(f)
  PROVE  FileInv(f)'
  <1>1. PICK url \in Address \ hosted :
          LET mine == {url} \cap Files IN
            /\ hosted' = hosted \cup mine
            /\ Begin(w, [at |-> "store", kind |-> "post", user |-> v, mine |-> mine,
                         row |-> [image_url |-> url, is_active |-> TRUE]])
    BY DEF Post
  <1> DEFINE r == [at |-> "store", kind |-> "post", user |-> v, mine |-> {url} \cap Files,
                   row |-> [image_url |-> url, is_active |-> TRUE]]
  <1>2. /\ request'[w] = r /\ Free(w)
        /\ \A x \in Workers \ {w} : request'[x] = request[x]
        /\ UNCHANGED products
    BY <1>1 DEF Begin, tables, TablesInv, TypeOK
  <1>3. ~InHands(f, w) /\ (InHands(f, w)' <=> f \in Files /\ f = url)
    BY <1>2 DEF InHands, Free
  <1>4. \A x \in Workers \ {w} : InHands(f, x)' <=> InHands(f, x)
    BY <1>2 DEF InHands, Free
  <1>5. /\ \A p \in Products : OnProduct(f, p)' <=> OnProduct(f, p)
        /\ \A u \in Vendors : OnProfile(f, u)' <=> OnProfile(f, u)
        /\ f \in lost' <=> f \in lost
    BY <1>2 DEF Post, gallery, OnProduct, OnProfile
  <1>6. CASE f \in Files /\ f = url
    BY <1>1, <1>3, <1>4, <1>5, <1>6, ToHands
  <1>7. CASE ~(f \in Files /\ f = url)
    <2>1. f \in hosted' <=> f \in hosted
      BY <1>1, <1>7
    <2>2. SamePlaces(f)
      BY <1>3, <1>4, <1>5, <1>7, <2>1 DEF SamePlaces
    <2>3. QED
      BY <2>2, StaysPut
  <1>8. QED
    BY <1>6, <1>7

\* The file of the picture that is replaced is lost, and the one that replaces
\* it is the user's: it comes from the hands of the request, or it was lost
\* before, or it was there.
LEMMA ReplaceFiles ==
  ASSUME TablesInv, NEW w \in Workers, NEW v \in Vendors, NEW row \in ProfilePicture, Replace(v, row),
         UNCHANGED <<hosted, products>>, NEW f \in Files, FileInv(f), ~InHands(f, w)',
         \A x \in Workers \ {w} : request'[x] = request[x],
         InHands(f, w) => f = row.image_url,
         f = row.image_url => InHands(f, w) \/ f \in lost \/ OnProfile(f, v)
  PROVE  FileInv(f)'
  <1>1. /\ \A p \in Products : OnProduct(f, p)' <=> OnProduct(f, p)
        /\ \A x \in Workers \ {w} : InHands(f, x)' <=> InHands(f, x)
        /\ f \in hosted' <=> f \in hosted
    BY DEF OnProduct, InHands, Free
  <1>2. /\ pictures'[v] = row
        /\ \A u \in Vendors \ {v} : pictures'[u] = pictures[u]
    BY DEF Replace, TablesInv, TypeOK
  <1>3. /\ OnProfile(f, v)' <=> f = row.image_url
        /\ \A u \in Vendors \ {v} : OnProfile(f, u)' <=> OnProfile(f, u)
    BY <1>2 DEF OnProfile
  <1>4. f \in lost' <=> f # row.image_url /\ (f \in lost \/ OnProfile(f, v))
    BY DEF Replace, OnProfile
  <1>5. CASE f = row.image_url
    <2>1. ~InHands(f, w)' /\ f \notin lost' /\ OnProfile(f, v)'
      BY <1>3, <1>4, <1>5
    <2>2. CASE InHands(f, w)
      BY <1>1, <1>3, <2>1, <2>2 DEF FileInv
    <2>3. CASE ~InHands(f, w) /\ f \in lost
      BY <1>1, <1>3, <2>1, <2>3 DEF FileInv
    <2>4. CASE ~InHands(f, w) /\ OnProfile(f, v)
      BY <1>1, <1>3, <2>1, <2>4 DEF FileInv
    <2>5. QED
      BY <1>5, <2>2, <2>3, <2>4
  <1>6. CASE f # row.image_url
    <2>1. ~InHands(f, w) /\ ~OnProfile(f, v)'
      BY <1>3, <1>6
    <2>2. CASE OnProfile(f, v)
      BY <1>1, <1>3, <1>4, <1>6, <2>1, <2>2 DEF FileInv
    <2>3. CASE ~OnProfile(f, v)
      BY <1>1, <1>3, <1>4, <1>6, <2>1, <2>3 DEF FileInv
    <2>4. QED
      BY <2>2, <2>3
  <1>7. QED
    BY <1>5, <1>6

LEMMA StoreFiles ==
  ASSUME TablesInv, NEW w \in Workers, RemovalInv(w), Store(w), NEW f \in Files, FileInv(f)
  PROVE  FileInv(f)'
  <1>1. /\ request[w] \in PictureRequest /\ request[w].kind = "post" /\ request[w].at = "store"
        /\ request[w].mine = Files \cap {request[w].row.image_url}
    BY ServesPicture DEF Store, At, PictureKinds, RemovalInv
  <1>2. request[w].user \in Vendors /\ request[w].row \in ProfilePicture
    BY <1>1 DEF PictureRequest
  <1>3. /\ request'[w] = [request[w] EXCEPT !.at = "done"]
        /\ \A x \in Workers \ {w} : request'[x] = request[x]
        /\ UNCHANGED <<hosted, products>>
    BY DEF Store, rest, tables, TablesInv, TypeOK
  <1>4. ~InHands(f, w)'
    BY <1>1, <1>3 DEF InHands, Free, PictureRequest
  <1>5. InHands(f, w) <=> f = request[w].row.image_url
    BY <1>1 DEF InHands, Free
  <1>6. Replace(request[w].user, request[w].row)
    BY DEF Store
  <1>7. QED
    BY <1>2, <1>3, <1>4, <1>5, <1>6, ReplaceFiles

LEMMA TurnOffFiles ==
  ASSUME TablesInv, NEW w \in Workers, RemovalInv(w), TurnOff(w), NEW f \in Files, FileInv(f)
  PROVE  FileInv(f)'
  <1> DEFINE row == TurnedOff(request[w].row)
  <1>1. /\ request[w] \in PictureRequest /\ request[w].kind = "delete" /\ request[w].at = "turnOff"
        /\ TurningOff(w)
    BY ServesPicture DEF TurnOff, At, PictureKinds, TurningOff
  <1>2. /\ request[w].user \in Vendors /\ row \in ProfilePicture
        /\ row.image_url = request[w].row.image_url
    BY <1>1 DEF PictureRequest, ProfilePicture, TurnedOff
  <1>3. /\ request'[w] = [request[w] EXCEPT !.at = "done"]
        /\ \A x \in Workers \ {w} : request'[x] = request[x]
        /\ UNCHANGED <<hosted, products>>
    BY DEF TurnOff, rest, tables, TablesInv, TypeOK
  <1>4. ~InHands(f, w) /\ ~InHands(f, w)'
    BY <1>1, <1>3 DEF InHands, Free, PictureRequest, Forms
  <1>5. Replace(request[w].user, row)
    BY DEF TurnOff
  <1>6. f = row.image_url => f \in lost \/ OnProfile(f, request[w].user)
    BY <1>1, <1>2 DEF RemovalInv
  <1> HIDE DEF row
  <1>7. QED
    BY <1>2, <1>3, <1>4, <1>5, <1>6, ReplaceFiles

LEMMA PortrayFiles ==
  ASSUME TablesInv, FilesInv, NEW w \in Workers, Portray(w), NEW f \in Files
  PROVE  FileInv(f)'
  <1>1. FileInv(f) /\ RemovalInv(w)
    BY DEF FilesInv
  <1>2. ASSUME NEW v \in Vendors, Look(w, v) PROVE FileInv(f)'
    BY <1>1, <1>2, BeginFiles DEF Look
  <1>3. CASE request[w].kind \in PictureKinds /\ ~Free(w) /\ Fail(w) /\ UNCHANGED gallery
    BY <1>1, <1>3, FailFiles
  <1>4. QED
    BY <1>1, <1>2, <1>3, PostFiles, StoreFiles, TurnOffFiles DEF Portray

\* A page or an answer begins on a free worker, and remains one.
LEMMA StaysARead ==
  ASSUME TablesInv, NEW w \in Workers, Browse(w) \/ Assist(w)
  PROVE  (Free(w) \/ request[w].kind \in Reads) /\ request'[w].kind \in Reads
  <1>1. ASSUME NEW kind \in Pages, Open(w, kind) PROVE Free(w) /\ request'[w].kind \in Reads
    BY <1>1 DEF Open, Begin, Reads, TablesInv, TypeOK
  <1>2. ASSUME NEW image \in BOOLEAN, NEW words \in Words, NEW budget \in Extracted,
               Ask(w, image, words, budget)
        PROVE  Free(w) /\ request'[w].kind \in Reads
    BY <1>2 DEF Ask, Begin, Reads, TablesInv, TypeOK
  <1>3. CASE \/ Count(w) \/ ReadPlaces(w) \/ SelectProducts(w) \/ ReadLatitude(w) \/ ReadLongitude(w)
             \/ ListProducts(w)
    <2>1. request[w].kind \in Pages
      BY <1>3 DEF Count, ReadPlaces, SelectProducts, ReadLatitude, ReadLongitude, ListProducts,
                  At, Described, Pages
    <2>2. request[w] \in PageRequest
      BY <2>1, ServesPage
    <2>3. request'[w].kind = request[w].kind
      <3>1. CASE Count(w)
        BY <2>2, <3>1 DEF Count, PageRequest, TablesInv, TypeOK
      <3>2. CASE ReadPlaces(w)
        BY <2>2, <3>2 DEF ReadPlaces, PageRequest, TablesInv, TypeOK
      <3>3. CASE SelectProducts(w)
        BY <2>2, <3>3 DEF SelectProducts, PageRequest, TablesInv, TypeOK
      <3>4. CASE ReadLatitude(w)
        BY <2>2, <3>4 DEF ReadLatitude, PageRequest, TablesInv, TypeOK
      <3>5. CASE ReadLongitude(w)
        BY <2>2, <3>5 DEF ReadLongitude, PageRequest, TablesInv, TypeOK
      <3>6. CASE ListProducts(w)
        <4>1. PICK v \in request[w].vendors :
                \E some \in Limited({p \in InStock \cap Of({v}) : products[p].status = "AVAILABLE"}, OnMap) :
                  request' = [request EXCEPT
                    ![w].shown = @ \cup {[id |-> p, lat |-> NoRow, lng |-> NoRow] : p \in some},
                    ![w].vendors = @ \ {v},
                    ![w].at = IF request[w].vendors = {v} THEN "done" ELSE "select"]
          BY <3>6 DEF ListProducts
        <4>2. \E new : request' = [request EXCEPT ![w].shown = @ \cup new, ![w].vendors = @ \ {v},
                                   ![w].at = IF request[w].vendors = {v} THEN "done" ELSE "select"]
          BY <4>1
        <4>3. QED
          BY <2>2, <4>2 DEF PageRequest, TablesInv, TypeOK
      <3>7. QED
        BY <1>3, <3>1, <3>2, <3>3, <3>4, <3>5, <3>6
    <2>4. QED
      BY <2>1, <2>3 DEF Reads
  <1>4. CASE \/ Exists(w) \/ Cheapest(w) \/ Dearest(w) \/ FindOthers(w) \/ Reply(w) \/ Record(w)
             \/ RecordFails(w)
    <2>1. request[w].kind = "chat"
      BY <1>4 DEF Exists, Cheapest, Dearest, FindOthers, Reply, Record, RecordFails, AtChat, At
    <2>2. request[w] \in ChatRequest
      BY <2>1, ServesChat
    <2>3. request'[w].kind = request[w].kind
      <3>1. CASE Exists(w)
        BY <2>2, <3>1 DEF Exists, ChatRequest, TablesInv, TypeOK
      <3>2. CASE Cheapest(w)
        BY <2>2, <3>2 DEF Cheapest, ChatRequest, TablesInv, TypeOK
      <3>3. CASE Dearest(w)
        BY <2>2, <3>3 DEF Dearest, ChatRequest, TablesInv, TypeOK
      <3>4. CASE FindOthers(w)
        <4>1. PICK some \in Slices(w) :
                request' = [request EXCEPT ![w].others = {OfferOf(p) : p \in some},
                  ![w].left = some \cup Ids(Picks(w)), ![w].at = "reply",
                  ![w].quiet = writes = request[w].since]
          BY <3>4 DEF FindOthers
        <4>2. \E new : request' = [request EXCEPT ![w].others = new,
                  ![w].left = some \cup Ids(Picks(w)), ![w].at = "reply",
                  ![w].quiet = writes = request[w].since]
          BY <4>1
        <4>3. QED
          BY <2>2, <4>2 DEF ChatRequest, TablesInv, TypeOK
      <3>5. CASE Reply(w)
        BY <2>2, <3>5 DEF Reply, ChatRequest, TablesInv, TypeOK
      <3>6. CASE Record(w)
        BY <2>2, <3>6 DEF Record, ChatRequest, TablesInv, TypeOK
      <3>7. CASE RecordFails(w)
        BY <2>2, <3>7 DEF RecordFails, ChatRequest, TablesInv, TypeOK
      <3>8. QED
        BY <1>4, <3>1, <3>2, <3>3, <3>4, <3>5, <3>6, <3>7
    <2>4. QED
      BY <2>1, <2>3 DEF Reads
  <1>5. QED
    BY <1>1, <1>2, <1>3, <1>4 DEF Browse, Assist

\* Pages and answers have no file in hands, before or after.
LEMMA ReadsFiles ==
  ASSUME TablesInv, NEW w \in Workers, Browse(w) \/ Assist(w), UNCHANGED <<files, gallery>>,
         NEW f, FileInv(f)
  PROVE  FileInv(f)'
  <1>1. \A x \in Workers \ {w} : request'[x] = request[x]
    BY OthersWait
  <1>2. (Free(w) \/ request[w].kind \in Reads) /\ request'[w].kind \in Reads
    BY StaysARead
  <1>3. ~InHands(f, w) /\ ~InHands(f, w)'
    BY <1>2 DEF InHands, Reads, Pages, Forms
  <1>4. UNCHANGED products
    BY DEF Browse, Assist, Open, Ask, Begin, Count, ReadPlaces, SelectProducts, ReadLatitude,
           ReadLongitude, ListProducts, Exists, Cheapest, Dearest, FindOthers, Reply, Record,
           RecordFails, rest, tables
  <1>5. QED
    BY <1>1, <1>3, <1>4, FormWaits DEF gallery

LEMMA OtherWritesFiles ==
  ASSUME TablesInv, ProductWrite \/ VendorWrite, UNCHANGED <<files, gallery>>, NEW f, FileInv(f)
  PROVE  FileInv(f)'
  <1>1. UNCHANGED request
    BY DEF ProductWrite, VendorWrite
  <1>2. \A p \in Products : OnProduct(f, p)' <=> OnProduct(f, p)
    <2>1. CASE ProductWrite
      <3>1. PICK p \in Products : products[p] # NoRow /\
              \E row : /\ products' = [products EXCEPT ![p] = row]
                       /\ row \in Product /\ row.pictures = products[p].pictures
        <4>1. PICK p \in Products : products[p] # NoRow /\
                \/ \E s \in Written : products' = [products EXCEPT ![p].status = s]
                \/ \E c \in Prices : products' = [products EXCEPT ![p].price = c]
                \/ products' = [products EXCEPT ![p].stock = ~@]
                \/ products' = [products EXCEPT ![p].deleted = ~@]
          BY <2>1 DEF ProductWrite
        <4>2. products[p] \in Product
          BY <4>1 DEF TablesInv, TypeOK
        <4>3. /\ \A s \in Written : LET r == [products[p] EXCEPT !.status = s] IN
                   r \in Product /\ r.pictures = products[p].pictures
              /\ \A c \in Prices : LET r == [products[p] EXCEPT !.price = c] IN
                   r \in Product /\ r.pictures = products[p].pictures
              /\ LET r == [products[p] EXCEPT !.stock = ~@] IN
                   r \in Product /\ r.pictures = products[p].pictures
              /\ LET r == [products[p] EXCEPT !.deleted = ~@] IN
                   r \in Product /\ r.pictures = products[p].pictures
          BY <4>2 DEF Product
        <4>4. QED
          BY <4>1, <4>3
      <3>2. PICK row : /\ products' = [products EXCEPT ![p] = row]
                       /\ row \in Product /\ row.pictures = products[p].pictures
        BY <3>1
      <3>3. products'[p] = row /\ \A q \in Products \ {p} : products'[q] = products[q]
        BY <3>2 DEF TablesInv, TypeOK
      <3>4. QED
        BY <3>1, <3>2, <3>3 DEF OnProduct
    <2>2. CASE VendorWrite
      BY <2>2 DEF VendorWrite, OnProduct
    <2>3. QED
      BY <2>1, <2>2
  <1>3. SamePlaces(f)
    BY <1>1, <1>2 DEF SamePlaces, OnProfile, InHands, Free, files, gallery
  <1>4. QED
    BY <1>3, StaysPut

\* The pictures that removals hold stay where they may be.
LEMMA RemovalsWait ==
  ASSUME TablesInv, FilesInv, NEW w \in Workers, \A x \in Workers \ {w} : request'[x] = request[x],
         ~TurningOff(w)', request'[w].kind = "delete" => request'[w].mine = {},
         At(w, {"post"}, "store")' => request'[w].mine = Files \cap {request'[w].row.image_url},
         \A x \in Workers \ {w} : TurningOff(x) /\ request[x].row.image_url \in Files =>
           LET f == request[x].row.image_url IN f \in lost' \/ OnProfile(f, request[x].user)'
  PROVE  \A x \in Workers : RemovalInv(x)'
  <1>1. \A x \in Workers \ {w} : (TurningOff(x)' <=> TurningOff(x)) /\
                                 (At(x, {"post"}, "store")' <=> At(x, {"post"}, "store"))
    BY DEF TurningOff, At
  <1>2. ASSUME NEW x \in Workers PROVE RemovalInv(x)'
    <2>1. CASE x = w
      BY <2>1 DEF RemovalInv
    <2>2. CASE x # w
      <3>1. RemovalInv(x)
        BY DEF FilesInv
      <3>2. request'[x] = request[x]
        BY <2>2
      <3>3. ASSUME TurningOff(x), request[x].row.image_url \in Files
            PROVE  LET f == request[x].row.image_url IN
                     /\ f \in lost' \/ OnProfile(f, request[x].user)'
                     /\ \A y \in Workers : TurningOff(y)' /\ request'[y].row.image_url = f =>
                          request'[y].user = request[x].user
        BY <1>1, <2>2, <3>1, <3>3 DEF RemovalInv
      <3>4. QED
        BY <1>1, <2>2, <3>1, <3>2, <3>3 DEF RemovalInv, OnProfile
    <2>3. QED
      BY <2>1, <2>2
  <1>3. QED
    BY <1>2

\* A request that is no removal, or ends, leaves the profiles and the lost files.
LEMMA RemovalsKeep ==
  ASSUME TablesInv, FilesInv, NEW w \in Workers, \A x \in Workers \ {w} : request'[x] = request[x],
         ~TurningOff(w)', request'[w].kind = "delete" => request'[w].mine = {},
         At(w, {"post"}, "store")' => request'[w].mine = Files \cap {request'[w].row.image_url},
         UNCHANGED gallery, lost \subseteq lost'
  PROVE  /\ \A x \in Workers : RemovalInv(x)'
         /\ (\A v \in Vendors : pictures[v].is_active => pictures[v].image_url = latest[v])'
  <1>1. \A x \in Workers \ {w} : TurningOff(x) /\ request[x].row.image_url \in Files =>
          LET f == request[x].row.image_url IN f \in lost' \/ OnProfile(f, request[x].user)'
    BY DEF FilesInv, RemovalInv, OnProfile, gallery
  <1>2. \A x \in Workers : RemovalInv(x)'
    BY <1>1, RemovalsWait
  <1>3. QED
    BY <1>2 DEF FilesInv, gallery

\* No other removal holds the file of a picture that a request stores, and none of
\* another user the file of a picture that a removal writes back.
LEMMA ReplaceRemovals ==
  ASSUME TablesInv, FilesInv, NEW w \in Workers, \A x \in Workers \ {w} : request'[x] = request[x],
         Free(w)', request'[w].kind = "delete" => request'[w].mine = {},
         NEW v \in Vendors, NEW row \in ProfilePicture, Replace(v, row),
         \A x \in Workers \ {w} : TurningOff(x) /\ row.image_url \in Files =>
           (request[x].row.image_url = row.image_url => request[x].user = v)
  PROVE  \A x \in Workers : RemovalInv(x)'
  <1>1. ~TurningOff(w)' /\ ~At(w, {"post"}, "store")'
    BY DEF TurningOff, At, Free
  <1>2. pictures'[v] = row /\ \A u \in Vendors \ {v} : pictures'[u] = pictures[u]
    BY DEF Replace, TablesInv, TypeOK
  <1>3. ASSUME NEW x \in Workers \ {w}, TurningOff(x), request[x].row.image_url \in Files
        PROVE  LET f == request[x].row.image_url IN f \in lost' \/ OnProfile(f, request[x].user)'
    <2> DEFINE f == request[x].row.image_url
    <2>1. f \in lost \/ OnProfile(f, request[x].user)
      BY <1>3 DEF FilesInv, RemovalInv
    <2>2. request[x].user \in Vendors
      BY <1>3, ServesPicture DEF TurningOff, At, PictureKinds, PictureRequest
    <2>3. CASE f = row.image_url
      BY <1>2, <1>3, <2>3 DEF OnProfile
    <2>4. CASE f # row.image_url /\ pictures[v].image_url = f
      BY <1>3, <2>4 DEF Replace
    <2>5. CASE f # row.image_url /\ pictures[v].image_url # f
      <3>1. CASE f \in lost
        BY <2>5, <3>1 DEF Replace
      <3>2. CASE OnProfile(f, request[x].user)
        <4>1. request[x].user # v
          BY <2>5, <3>2 DEF OnProfile
        <4>2. pictures'[request[x].user].image_url = f
          BY <1>2, <2>2, <3>2, <4>1 DEF OnProfile
        <4>3. request'[x].user = request[x].user /\ request'[x].row = request[x].row
          BY <1>3
        <4>4. QED
          BY <4>2, <4>3 DEF OnProfile
      <3>3. QED
        BY <2>1, <3>1, <3>2
    <2>6. QED
      BY <2>3, <2>4, <2>5
  <1>4. QED
    BY <1>1, <1>3, RemovalsWait

ShowsLatest == \A v \in Vendors : pictures[v].is_active => pictures[v].image_url = latest[v]

LEMMA PostRemovals ==
  ASSUME TablesInv, FilesInv, NEW w \in Workers, NEW v \in Vendors, Post(w, v)
  PROVE  (\A x \in Workers : RemovalInv(x)') /\ ShowsLatest'
  <1>1. PICK url \in Address \ hosted :
          Begin(w, [at |-> "store", kind |-> "post", user |-> v, mine |-> {url} \cap Files,
                    row |-> [image_url |-> url, is_active |-> TRUE]])
    BY DEF Post
  <1> DEFINE r == [at |-> "store", kind |-> "post", user |-> v, mine |-> {url} \cap Files,
                   row |-> [image_url |-> url, is_active |-> TRUE]]
  <1>2. request'[w] = r /\ \A x \in Workers \ {w} : request'[x] = request[x]
    BY <1>1 DEF Begin, TablesInv, TypeOK
  <1>3. /\ ~TurningOff(w)' /\ request'[w].kind # "delete"
        /\ request'[w].mine = Files \cap {request'[w].row.image_url}
    BY <1>2 DEF TurningOff, At
  <1>4. QED
    BY <1>2, <1>3, RemovalsKeep DEF Post, gallery, ShowsLatest

\* A removal takes the picture that is on the profile.
LEMMA LookRemovals ==
  ASSUME TablesInv, FilesInv, NEW w \in Workers, NEW v \in Vendors, Look(w, v)
  PROVE  (\A x \in Workers : RemovalInv(x)') /\ ShowsLatest'
  <1> DEFINE r == [at |-> "turnOff", kind |-> "delete", user |-> v, mine |-> {}, row |-> pictures[v]]
  <1>0. PICK f : f = pictures[v].image_url
    OBVIOUS
  <1>1. request'[w] = r /\ \A x \in Workers \ {w} : request'[x] = request[x]
    BY DEF Look, Begin, TablesInv, TypeOK
  <1>2. UNCHANGED <<lost, pictures, latest>>
    BY DEF Look, files, gallery
  <1>3. TurningOff(w)' /\ ~At(w, {"post"}, "store")'
    BY <1>1 DEF TurningOff, At
  <1>4. \A x \in Workers \ {w} : (TurningOff(x)' <=> TurningOff(x)) /\
                                 (At(x, {"post"}, "store")' <=> At(x, {"post"}, "store"))
    BY <1>1 DEF TurningOff, At
  <1>5. ASSUME NEW x \in Workers \ {w}, TurningOff(x), request[x].row.image_url = f, f \in Files
        PROVE  request[x].user = v
    <2>1. f \in lost \/ OnProfile(f, request[x].user)
      BY <1>5 DEF FilesInv, RemovalInv
    <2>2. request[x].user \in Vendors
      BY <1>5, ServesPicture DEF TurningOff, At, PictureKinds, PictureRequest
    <2>3. FileInv(f) /\ OnProfile(f, v)
      BY <1>0, <1>5 DEF FilesInv, OnProfile
    <2>4. QED
      BY <2>1, <2>2, <2>3 DEF FileInv
  <1>6. RemovalInv(w)'
    <2>1. request'[w].mine = {} /\ request'[w].user = v /\ request'[w].row.image_url = f
      BY <1>0, <1>1
    <2>2. OnProfile(f, v)'
      BY <1>0, <1>2 DEF OnProfile
    <2>3. \A x \in Workers : f \in Files /\ TurningOff(x)' /\ request'[x].row.image_url = f =>
            request'[x].user = v
      <3>1. ASSUME NEW x \in Workers \ {w}, f \in Files, TurningOff(x)', request'[x].row.image_url = f
            PROVE  request'[x].user = v
        <4>1. request'[x] = request[x] /\ TurningOff(x)
          BY <1>1, <1>4, <3>1
        <4>2. QED
          BY <1>5, <3>1, <4>1
      <3>2. QED
        BY <2>1, <3>1
    <2>4. QED
      BY <1>3, <2>1, <2>2, <2>3 DEF RemovalInv, OnProfile
  <1>7. ASSUME NEW x \in Workers \ {w} PROVE RemovalInv(x)'
    <2>1. RemovalInv(x) /\ request'[x] = request[x]
      BY <1>1 DEF FilesInv
    <2>2. ASSUME TurningOff(x), request[x].row.image_url \in Files
          PROVE  LET g == request[x].row.image_url IN
                   /\ g \in lost' \/ OnProfile(g, request[x].user)'
                   /\ \A y \in Workers : TurningOff(y)' /\ request'[y].row.image_url = g =>
                        request'[y].user = request[x].user
      <3>0. PICK g : g = request[x].row.image_url
        OBVIOUS
      <3>1. g \in lost' \/ pictures'[request[x].user].image_url = g
        BY <1>2, <2>1, <2>2, <3>0 DEF RemovalInv, OnProfile
      <3>2. \A y \in Workers \ {w} : TurningOff(y)' /\ request'[y].row.image_url = g =>
              request'[y].user = request[x].user
        <4>1. ASSUME NEW y \in Workers \ {w}, TurningOff(y)', request'[y].row.image_url = g
              PROVE  request'[y].user = request[x].user
          <5>1. request'[y] = request[y] /\ TurningOff(y)
            BY <1>1, <1>4, <4>1
          <5>2. QED
            BY <2>1, <2>2, <3>0, <4>1, <5>1 DEF RemovalInv
        <4>2. QED
          BY <4>1
      <3>3. request'[w].row.image_url = g => request'[w].user = request[x].user
        BY <1>0, <1>1, <1>5, <2>2, <3>0
      <3>4. QED
        BY <2>1, <3>0, <3>1, <3>2, <3>3 DEF OnProfile
    <2>3. QED
      BY <1>4, <2>1, <2>2 DEF RemovalInv, OnProfile
  <1>8. QED
    BY <1>2, <1>6, <1>7 DEF ShowsLatest, FilesInv

LEMMA StoreRemovals ==
  ASSUME TablesInv, FilesInv, NEW w \in Workers, Store(w)
  PROVE  (\A x \in Workers : RemovalInv(x)') /\ ShowsLatest'
  <1> DEFINE row == request[w].row
             v == request[w].user
  <1>1. /\ request[w] \in PictureRequest /\ request[w].kind = "post" /\ request[w].at = "store"
        /\ request[w].mine = Files \cap {row.image_url}
    BY ServesPicture DEF Store, At, PictureKinds, RemovalInv, FilesInv
  <1>2. v \in Vendors /\ row \in ProfilePicture
    BY <1>1 DEF PictureRequest
  <1>3. /\ request'[w] = [request[w] EXCEPT !.at = "done"]
        /\ \A x \in Workers \ {w} : request'[x] = request[x]
    BY DEF Store, TablesInv, TypeOK
  <1>4. Free(w)' /\ request'[w].kind = "post"
    BY <1>1, <1>3 DEF Free, PictureRequest
  <1>5. ASSUME NEW x \in Workers \ {w}, TurningOff(x), row.image_url \in Files
        PROVE  request[x].row.image_url # row.image_url
    <2>1. SUFFICES ASSUME request[x].row.image_url = row.image_url PROVE FALSE
      OBVIOUS
    <2>2. row.image_url \in lost \/ OnProfile(row.image_url, request[x].user)
      BY <1>5, <2>1 DEF FilesInv, RemovalInv
    <2>3. request[x].user \in Vendors
      BY <1>5, ServesPicture DEF TurningOff, At, PictureKinds, PictureRequest
    <2>4. InHands(row.image_url, w) /\ FileInv(row.image_url)
      BY <1>1, <1>5 DEF InHands, Free, FilesInv
    <2>5. QED
      BY <2>2, <2>3, <2>4 DEF FileInv
  <1>6. Replace(v, row)
    BY DEF Store
  <1>7. \A x \in Workers : RemovalInv(x)'
    <2> HIDE DEF v, row
    <2>1. QED
      BY <1>2, <1>3, <1>4, <1>5, <1>6, ReplaceRemovals
  <1>8. /\ pictures' = [pictures EXCEPT ![request[w].user] = request[w].row]
        /\ latest' = [latest EXCEPT ![request[w].user] = request[w].row.image_url]
    BY DEF Store, Replace
  <1>9. ShowsLatest'
    BY <1>2, <1>8 DEF ShowsLatest, FilesInv, TablesInv, TypeOK
  <1>10. QED
    BY <1>7, <1>9

LEMMA TurnOffRemovals ==
  ASSUME TablesInv, FilesInv, NEW w \in Workers, TurnOff(w)
  PROVE  (\A x \in Workers : RemovalInv(x)') /\ ShowsLatest'
  <1> DEFINE row == TurnedOff(request[w].row)
             v == request[w].user
  <1>1. /\ request[w] \in PictureRequest /\ request[w].kind = "delete" /\ request[w].at = "turnOff"
        /\ TurningOff(w) /\ request[w].mine = {}
    BY ServesPicture DEF TurnOff, At, PictureKinds, RemovalInv, FilesInv, TurningOff
  <1>2. /\ v \in Vendors /\ row \in ProfilePicture
        /\ row.image_url = request[w].row.image_url /\ row.is_active = FALSE
    BY <1>1 DEF PictureRequest, ProfilePicture, TurnedOff
  <1>3. /\ request'[w] = [request[w] EXCEPT !.at = "done"]
        /\ \A x \in Workers \ {w} : request'[x] = request[x]
    BY DEF TurnOff, TablesInv, TypeOK
  <1>4. Free(w)' /\ request'[w].mine = {}
    BY <1>1, <1>3 DEF Free, PictureRequest
  <1>5. \A x \in Workers \ {w} : TurningOff(x) /\ row.image_url \in Files =>
          (request[x].row.image_url = row.image_url => request[x].user = v)
    BY <1>1, <1>2 DEF FilesInv, RemovalInv
  <1>6. Replace(v, row)
    BY DEF TurnOff
  <1>7. pictures' = [pictures EXCEPT ![v] = row] /\ latest' = latest
    BY DEF TurnOff, Replace
  <1>8. ShowsLatest'
    <2> HIDE DEF v, row
    <2>1. QED
      BY <1>2, <1>7 DEF ShowsLatest, FilesInv, TablesInv, TypeOK
  <1>9. \A x \in Workers : RemovalInv(x)'
    <2> HIDE DEF v, row
    <2>1. QED
      BY <1>2, <1>3, <1>4, <1>5, <1>6, ReplaceRemovals
  <1>10. QED
    BY <1>8, <1>9

LEMMA PortrayRemovals ==
  ASSUME TablesInv, FilesInv, NEW w \in Workers, Portray(w)
  PROVE  (\A x \in Workers : RemovalInv(x)') /\ ShowsLatest'
  <1>1. CASE request[w].kind \in PictureKinds /\ ~Free(w) /\ Fail(w) /\ UNCHANGED gallery
    <2>1. request[w] \in PictureRequest /\ (request[w].kind = "delete" => request[w].mine = {})
      BY <1>1, ServesPicture DEF RemovalInv, FilesInv
    <2>2. /\ request'[w] = [request[w] EXCEPT !.at = "broken"]
          /\ \A x \in Workers \ {w} : request'[x] = request[x]
      BY <1>1 DEF Fail, TablesInv, TypeOK
    <2>3. /\ ~TurningOff(w)' /\ ~At(w, {"post"}, "store")'
          /\ request'[w].kind = "delete" => request'[w].mine = {}
      BY <2>1, <2>2 DEF TurningOff, At, PictureRequest
    <2>4. lost \subseteq lost'
      BY <1>1 DEF Fail
    <2>5. QED
      BY <1>1, <2>2, <2>3, <2>4, RemovalsKeep DEF ShowsLatest
  <1>2. QED
    BY <1>1, PostRemovals, LookRemovals, StoreRemovals, TurnOffRemovals DEF Portray

-----------------------------------------------------------------------------
(* The inductive invariant, and what it says.                               *)

LEMMA InitFiles == Init => FilesInv
  <1> SUFFICES ASSUME Init PROVE FilesInv
    OBVIOUS
  <1>1. PICK u \in Vendors, url \in Address :
          /\ latest = [v \in Vendors |-> IF v = u THEN url ELSE Elsewhere]
          /\ pictures = [v \in Vendors |-> [image_url |-> latest[v], is_active |-> TRUE]]
          /\ hosted = Files \cap {url} /\ lost = {}
    BY DEF Init, PicturesInit
  <1>2. \A v \in Vendors : pictures[v].image_url = latest[v] /\ latest[v] = IF v = u THEN url ELSE Elsewhere
    BY <1>1
  <1>3. \A w \in Workers : request[w] = Idle
    BY DEF Init, CatalogueInit
  <1>4. Idle.kind = "none" /\ Idle.at = "idle"
    BY DEF Idle
  <1>5. \A f \in Files, p \in Products : ~OnProduct(f, p)
    <2>1. products \in [Products -> {NoRow} \cup
            [vendor: Vendors, status: {"AVAILABLE"}, price: Prices, stock: {TRUE},
             deleted: {FALSE}, pictures: {{}}]]
      BY DEF Init, CatalogueInit
    <2>2. QED
      BY <2>1 DEF OnProduct
  <1>6. \A f \in Files, w \in Workers : ~InHands(f, w)
    BY <1>3, <1>4 DEF InHands, Forms
  <1>7. \A f \in Files, v \in Vendors : OnProfile(f, v) <=> v = u /\ f = url
    BY <1>2 DEF OnProfile
  <1>8. ASSUME NEW f \in Files PROVE FileInv(f)
    BY <1>1, <1>5, <1>6, <1>7 DEF FileInv
  <1>9. ASSUME NEW w \in Workers PROVE RemovalInv(w)
    BY <1>3, <1>4 DEF RemovalInv, TurningOff, At
  <1>10. QED
    BY <1>2, <1>8, <1>9 DEF FilesInv

LEMMA PublishRemovals ==
  ASSUME TablesInv, FilesInv, NEW w \in Workers, Publish(w), UNCHANGED gallery
  PROVE  (\A x \in Workers : RemovalInv(x)') /\ ShowsLatest'
  <1>1. request'[w].kind \in Forms /\ \A x \in Workers \ {w} : request'[x] = request[x]
    BY StaysAForm, OthersWait
  <1>2. ~TurningOff(w)' /\ ~At(w, {"post"}, "store")' /\ request'[w].kind # "delete"
    BY <1>1 DEF TurningOff, At, Forms
  <1>3. lost \subseteq lost'
    BY DEF Publish, Submit, SubmitEdit, Upload, UploadFails, Validated, Refused, Create, Recheck,
           RecheckFails, Update, Abort, Fail, files
  <1>4. QED
    BY <1>1, <1>2, <1>3, RemovalsKeep DEF ShowsLatest

LEMMA NextFiles ==
  ASSUME TablesInv, FilesInv, Next
  PROVE  FilesInv'
  <1>1. SUFFICES (\A f \in Files : FileInv(f)') /\ (\A x \in Workers : RemovalInv(x)') /\ ShowsLatest'
    BY DEF FilesInv, ShowsLatest
  <1>2. \A f \in Files : FileInv(f)
    BY DEF FilesInv
  <1>3. CASE (ProductWrite \/ VendorWrite) /\ UNCHANGED <<files, gallery>>
    <2>1. UNCHANGED request
      BY <1>3 DEF ProductWrite, VendorWrite
    <2>2. (\A x \in Workers : RemovalInv(x)') /\ ShowsLatest'
      BY <1>3, <2>1 DEF FilesInv, RemovalInv, TurningOff, At, OnProfile, ShowsLatest, files, gallery
    <2>3. QED
      BY <1>2, <1>3, <2>2, OtherWritesFiles
  <1>4. ASSUME NEW w \in Workers, Browse(w) \/ Assist(w), UNCHANGED <<files, gallery>>
        PROVE  (\A f \in Files : FileInv(f)') /\ (\A x \in Workers : RemovalInv(x)') /\ ShowsLatest'
    <2>1. \A f \in Files : FileInv(f)'
      BY <1>2, <1>4, ReadsFiles
    <2>2. request'[w].kind \in Reads
      BY <1>4, StaysARead
    <2>3. ~TurningOff(w)' /\ ~At(w, {"post"}, "store")' /\ request'[w].kind # "delete"
      BY <2>2 DEF TurningOff, At, Reads, Pages
    <2>4. QED
      BY <1>4, <2>1, <2>3, OthersWait, RemovalsKeep DEF files, ShowsLatest
  <1>5. ASSUME NEW w \in Workers, Publish(w), UNCHANGED gallery
        PROVE  (\A f \in Files : FileInv(f)') /\ (\A x \in Workers : RemovalInv(x)') /\ ShowsLatest'
    BY <1>5, PublishFiles, PublishRemovals
  <1>6. ASSUME NEW w \in Workers, Portray(w)
        PROVE  (\A f \in Files : FileInv(f)') /\ (\A x \in Workers : RemovalInv(x)') /\ ShowsLatest'
    BY <1>6, PortrayFiles, PortrayRemovals
  <1>7. QED
    BY <1>3, <1>4, <1>5, <1>6 DEF Next

\* Nothing changes.
LEMMA Stutters ==
  ASSUME IInv, UNCHANGED storeVars
  PROVE  IInv'
  <1>1. TablesInv'
    BY DEF IInv, TablesInv, TypeOK, RowsOk, FilesOk, storeVars
  <1>2. ASSUME NEW w \in Workers PROVE SeenInv(w)'
    <2>1. SeenInv(w)
      BY DEF IInv
    <2>2. Caught(w)'
      BY <2>1 DEF SeenInv, Caught, Free, OnOffer, InBusiness, storeVars
    <2>3. PageInv(w)'
      BY <2>1 DEF SeenInv, PageInv, Chosen, Shown, Spot, storeVars
    <2>4. ChatInv(w)'
      BY <2>1 DEF SeenInv, ChatInv, Picks, IsFirst, Matching, Rows, Before, AnswerOk, storeVars
    <2>5. QED
      BY <2>1, <2>2, <2>3, <2>4 DEF SeenInv, storeVars
  <1>3. FilesInv'
    BY DEF IInv, FilesInv, FileInv, OnProduct, OnProfile, InHands, Free, RemovalInv, TurningOff, At,
           storeVars
  <1>4. QED
    BY <1>1, <1>2, <1>3 DEF IInv

LEMMA Invariant == Spec => []IInv
  <1>1. Init => IInv
    BY InitTables, InitSeen, InitFiles DEF IInv
  <1>2. IInv /\ [Next]_storeVars => IInv'
    <2>1. ASSUME IInv, Next PROVE IInv'
      BY <2>1, NextTables, NextSeen, NextFiles DEF IInv
    <2>2. QED
      BY <2>1, Stutters
  <1>3. QED
    BY <1>1, <1>2, PTL DEF Spec

\* A product that a page or an answer lists was on offer, by the conditions of
\* that page or answer, at a moment of the request: the selections of
\* products/services.py:12-32, products/views.py:638-668 and
\* geo/serializers.py:49-60 hold what OnOffer says of the tables as they are, and
\* nothing enters the list that no selection found.
THEOREM ListedWereOffered == Spec => []ShownWereOffered
  <1>1. IInv => ShownWereOffered
    <2> SUFFICES ASSUME IInv, NEW w \in Workers
                 PROVE  /\ Listed(w) \subseteq UNION seen[w].offers
                        /\ request[w].kind = "catalogue" => \E o \in seen[w].offers : Listed(w) \subseteq o
                        /\ request[w].kind = "nearby" =>
                             \A p \in Listed(w) : products[p].vendor \in seen[w].open
      BY DEF ShownWereOffered
    <2>1. PageInv(w) /\ ChatInv(w)
      BY DEF IInv, SeenInv
    <2>2. CASE request[w].kind \in Pages
      <3>1. Listed(w) = Shown(w)
        BY <2>2 DEF Listed, Pages
      <3>2. Listed(w) \subseteq Chosen(w)
        BY <3>1 DEF Chosen
      <3>3. QED
        BY <2>1, <2>2, <3>2 DEF PageInv
    <2>3. CASE request[w].kind = "chat"
      BY <2>1, <2>3 DEF ChatInv, Listed, Pages
    <2>4. CASE request[w].kind \notin Pages \cup {"chat"}
      BY <2>4 DEF Listed, Pages
    <2>5. QED
      BY <2>2, <2>3, <2>4
  <1>2. QED
    BY <1>1, Invariant, PTL

\* The two coordinates that a page shows are of one place unless the vendor's
\* location was written between ProductSerializer.get_latitude and get_longitude,
\* and each was the vendor's at a moment of the request
\* (products/serializers.py:213-225).
THEOREM CoordinatesWereHeld == Spec => []CoordinatesHeld
  <1>1. IInv => CoordinatesHeld
    BY DEF IInv, SeenInv, PageInv, CoordinatesHeld, Described, Pages
  <1>2. QED
    BY <1>1, Invariant, PTL

\* ChatView answers with at most five different products, between the cheapest and
\* the dearest unless somebody wrote meanwhile, and breaks down only after a moment
\* without any product that matches (chat/views.py:72-86).
THEOREM AnswersHold == Spec => []AssistantHolds
  <1>1. IInv => AssistantHolds
    <2> SUFFICES ASSUME IInv, NEW w \in Workers, request[w].kind = "chat"
                 PROVE  /\ request[w].at \in Answered => AnswerOk(w)
                        /\ request[w].at = "broken" => {} \in seen[w].offers /\ seen[w].offers # {{}}
      BY DEF AssistantHolds, Answered, AnswerOk
    <2>1. QED
      BY DEF IInv, SeenInv, ChatInv
  <1>2. QED
    BY <1>1, Invariant, PTL

-----------------------------------------------------------------------------
(* Where the files are, counted.                                            *)

\* FilesAccounted names these two sets in a LET.
Behind(f) == {p \in Products : products[p] # NoRow /\ f \in products[p].pictures}
             \cup {v \in Vendors : pictures[v].image_url = f}
Carried(f) == {w \in Workers : /\ request[w].kind \in Forms \cup {"post"}
                               /\ ~Free(w) /\ f \in request[w].mine}

LEMMA CountsOne ==
  ASSUME NEW S, NEW T, NEW x, S = {x}, T = {}
  PROVE  Cardinality(S) = 1 /\ Cardinality(T) = 0
  BY FS_EmptySet, FS_Singleton

LEMMA FileCounted ==
  ASSUME NEW f, FileInv(f)
  PROVE  Cardinality(Behind(f)) + Cardinality(Carried(f)) + (IF f \in lost THEN 1 ELSE 0)
           = (IF f \in hosted THEN 1 ELSE 0)
  <1>1. /\ Behind(f) = {p \in Products : OnProduct(f, p)} \cup {v \in Vendors : OnProfile(f, v)}
        /\ Carried(f) = {w \in Workers : InHands(f, w)}
    BY DEF Behind, Carried, OnProduct, OnProfile, InHands
  <1>2. ASSUME NEW p \in Products, OnProduct(f, p)
        PROVE  Behind(f) = {p} /\ Carried(f) = {} /\ f \notin lost /\ f \in hosted
    BY <1>1, <1>2 DEF FileInv
  <1>3. ASSUME NEW v \in Vendors, OnProfile(f, v)
        PROVE  Behind(f) = {v} /\ Carried(f) = {} /\ f \notin lost /\ f \in hosted
    <2>1. \A p \in Products : ~OnProduct(f, p)
      BY <1>3 DEF FileInv
    <2>2. QED
      BY <1>1, <1>3, <2>1 DEF FileInv
  <1>4. ASSUME NEW w \in Workers, InHands(f, w)
        PROVE  Behind(f) = {} /\ Carried(f) = {w} /\ f \notin lost /\ f \in hosted
    <2>1. (\A p \in Products : ~OnProduct(f, p)) /\ (\A v \in Vendors : ~OnProfile(f, v))
      BY <1>4 DEF FileInv
    <2>2. QED
      BY <1>1, <1>4, <2>1 DEF FileInv
  <1>5. ASSUME \A p \in Products : ~OnProduct(f, p), \A v \in Vendors : ~OnProfile(f, v),
               \A w \in Workers : ~InHands(f, w)
        PROVE  Behind(f) = {} /\ Carried(f) = {} /\ (f \in hosted <=> f \in lost)
    BY <1>1, <1>5 DEF FileInv
  <1>6. CASE \E p \in Products : OnProduct(f, p)
    <2>1. PICK p \in Products : Behind(f) = {p} /\ Carried(f) = {} /\ f \notin lost /\ f \in hosted
      BY <1>2, <1>6
    <2>2. Cardinality(Behind(f)) = 1 /\ Cardinality(Carried(f)) = 0
      BY <2>1, CountsOne
    <2>3. QED
      BY <2>1, <2>2
  <1>7. CASE \E v \in Vendors : OnProfile(f, v)
    <2>1. PICK v \in Vendors : Behind(f) = {v} /\ Carried(f) = {} /\ f \notin lost /\ f \in hosted
      BY <1>3, <1>7
    <2>2. Cardinality(Behind(f)) = 1 /\ Cardinality(Carried(f)) = 0
      BY <2>1, CountsOne
    <2>3. QED
      BY <2>1, <2>2
  <1>8. CASE \E w \in Workers : InHands(f, w)
    <2>1. PICK w \in Workers : Behind(f) = {} /\ Carried(f) = {w} /\ f \notin lost /\ f \in hosted
      BY <1>4, <1>8
    <2>2. Cardinality(Behind(f)) = 0 /\ Cardinality(Carried(f)) = 1
      BY <2>1, CountsOne
    <2>3. QED
      BY <2>1, <2>2
  <1>9. CASE /\ \A p \in Products : ~OnProduct(f, p)
             /\ \A v \in Vendors : ~OnProfile(f, v)
             /\ \A w \in Workers : ~InHands(f, w)
    <2>1. Behind(f) = {} /\ Carried(f) = {} /\ (f \in hosted <=> f \in lost)
      BY <1>5, <1>9
    <2>2. Cardinality(Behind(f)) = 0 /\ Cardinality(Carried(f)) = 0
      BY <2>1, FS_EmptySet
    <2>3. QED
      BY <2>1, <2>2
  <1>10. QED
    BY <1>6, <1>7, <1>8, <1>9

\* Every file that a form or a profile's picture put in the store is behind one
\* product or profile, in the hands of one request, or lost; and a profile shows
\* the picture that was posted last, or none, whatever a removal writes back
\* (products/serializers.py:22-67, 122-155, users/views.py:189-241).
THEOREM FilesAreAccounted == Spec => []FilesAccounted
  <1>1. IInv => FilesAccounted
    <2> SUFFICES ASSUME IInv PROVE FilesAccounted
      OBVIOUS
    <2>1. TypeOK /\ FilesInv
      BY DEF IInv, TablesInv
    <2>2. ASSUME NEW f \in Files
          PROVE  Cardinality(Behind(f)) + Cardinality(Carried(f)) + (IF f \in lost THEN 1 ELSE 0)
                   = (IF f \in hosted THEN 1 ELSE 0)
      BY <2>1, FileCounted DEF FilesInv
    <2>3. \A v \in Vendors : {ShownPicture(v), PublicPicture(v)} \subseteq {latest[v], NoRow}
      BY <2>1 DEF FilesInv, ShownPicture, PublicPicture
    <2>4. QED
      BY <2>1, <2>2, <2>3 DEF FilesAccounted, Behind, Carried
  <1>2. QED
    BY <1>1, Invariant, PTL
=============================================================================
