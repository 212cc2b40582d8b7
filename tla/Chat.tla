-------------------------------- MODULE Chat --------------------------------
(***************************************************************************)
(* The shopping assistant: a message or a picture becomes a search for     *)
(* available products, and what was found becomes an answer and a history  *)
(* for the vendors.  With a picture the search is four statements: are     *)
(* there any, the cheapest, the dearest, and some of the others.           *)
(***************************************************************************)
EXTENDS Catalogue

CONSTANT MaxFound  \* products in an answer (5 in the code)

ASSUME MaxFoundAssumption == MaxFound \in Nat \ {0, 1}

\* A product as a statement returned it.
Offer == [id: Products, price: Prices]
ASSUME NoOfferAssumption == NoRow \notin Offer

ChatRequest ==
  [at: {"exists", "cheapest", "dearest", "slice", "others", "reply", "record", "done", "broken"},
   kind: {"chat"}, words: SUBSET Products, budget: Prices \cup {NoRow},
   cheapest: Offer \cup {NoRow}, dearest: Offer \cup {NoRow}, others: SUBSET Offer,
   left: SUBSET Products, since: Nat, quiet: BOOLEAN]

AtChat(w, stage) == At(w, {"chat"}, stage)
OfferOf(p) == [id |-> p, price |-> products[p].price]
Ids(offers) == {o.id : o \in offers}

\* What the words of a search match, in names, descriptions and categories.
\* With a picture, analyze_image_for_search or the product's stored description
\* contributes words; without any, everything matches.
Words == SUBSET Products

\* extract_search_parameters: the highest price that the language model
\* understood, or none, as when the call fails.
Extracted == Prices \cup {NoRow}

\* all_matching
Matching(r) ==
  {p \in Rows \cap r.words :
     /\ products[p].status = "AVAILABLE"
     /\ r.budget # NoRow => products[p].price <= r.budget}

\* Both models have answered; only a request with an image asks for extremes.
Ask(w, image, words, budget) ==
  Begin(w,
    [at |-> IF image THEN "exists" ELSE "slice", kind |-> "chat", words |-> words,
     budget |-> budget, cheapest |-> NoRow, dearest |-> NoRow, others |-> {},
     left |-> {}, since |-> writes, quiet |-> TRUE])

\* mutant: exists() of the whole table
ExistsAny(w) ==
  /\ AtChat(w, "exists")
  /\ request' = [request EXCEPT ![w].at = IF Rows = {} THEN "slice" ELSE "cheapest"]
  /\ UNCHANGED rest

Exists(w) ==
  /\ AtChat(w, "exists")
  /\ request' = [request EXCEPT ![w].at =
       IF Matching(request[w]) = {} THEN "slice" ELSE "cheapest"]
  /\ UNCHANGED rest

\* order_by('price') or order_by('-price')
Before(ascending, p, q) ==
  IF ascending THEN products[p].price <= products[q].price
               ELSE products[p].price >= products[q].price

\* order_by(..).first(): a first row, or None.
FirstByPrice(w, ascending) ==
  LET rows == Matching(request[w])
  IN IF rows = {} THEN {NoRow}
     ELSE {OfferOf(p) : p \in {q \in rows : \A o \in rows : Before(ascending, q, o)}}

Cheapest(w) ==
  /\ AtChat(w, "cheapest")
  /\ \E o \in FirstByPrice(w, TRUE) :
       request' = [request EXCEPT ![w].cheapest = o, ![w].at = "dearest"]
  /\ UNCHANGED rest

\* Then both are compared by their keys; None has none, and the request fails.
Dearest(w) ==
  /\ AtChat(w, "dearest")
  /\ \E o \in FirstByPrice(w, FALSE) :
       request' = [request EXCEPT ![w].dearest = o,
         ![w].at = IF NoRow \in {request[w].cheapest, o} THEN "broken" ELSE "others"]
  /\ UNCHANGED rest

\* mutant: the extremes are not excluded
NoPicks(w) == {}

\* selected_products
Picks(w) == {request[w].cheapest, request[w].dearest} \ {NoRow}

\* The slices of the rows that may follow the picks, unordered.
Slices(w) ==
  LET rows == Matching(request[w]) \ Ids(Picks(w))
      room == MaxFound - Cardinality(Ids(Picks(w)))
      size == IF Cardinality(rows) < room THEN Cardinality(rows) ELSE room
  IN {some \in SUBSET rows : Cardinality(some) = size}

\* all_matching.exclude(..)[:n], or all_matching[:5]; nothing is read later.
FindOthers(w) ==
  /\ AtChat(w, "others") \/ AtChat(w, "slice")
  /\ \E some \in Slices(w) :
       request' = [request EXCEPT ![w].others = {OfferOf(p) : p \in some},
         ![w].left = some \cup Ids(Picks(w)), ![w].at = "reply",
         ![w].quiet = writes = request[w].since]
  /\ UNCHANGED rest

\* The language model writes a text, or a fixed one stands in for it.
Reply(w) ==
  /\ AtChat(w, "reply")
  /\ request' = [request EXCEPT ![w].at = IF request[w].left = {} THEN "done" ELSE "record"]
  /\ UNCHANGED rest

\* AIRecommendationEvent.objects.create(), one transaction for each product;
\* the first that fails ends the recording, and not the request.
Record(w) ==
  /\ AtChat(w, "record")
  /\ \E p \in request[w].left :
       request' = [request EXCEPT ![w].left = @ \ {p},
                     ![w].at = IF request[w].left = {p} THEN "done" ELSE "record"]
  /\ UNCHANGED rest

RecordFails(w) ==
  /\ AtChat(w, "record")
  /\ request' = [request EXCEPT ![w].at = "done"]
  /\ UNCHANGED rest

Assist(w) ==
  \/ \E image \in BOOLEAN, words \in Words, budget \in Extracted : Ask(w, image, words, budget)
  \/ Exists(w) \/ Cheapest(w) \/ Dearest(w) \/ FindOthers(w)
  \/ Reply(w) \/ Record(w) \/ RecordFails(w)
=============================================================================
