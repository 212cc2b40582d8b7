---------------------------- MODULE ReviewsProps ----------------------------
(* What is claimed of module Reviews.                                       *)
EXTENDS Reviews

\* Whoever has a review of a vendor has paid an order of that vendor, also long
\* after the request that looked for one: the orders never take a payment back
\* (reviews/views.py:108-118, orders/models.py:98-105).
AuthorsHavePaid ==
  \A r \in ReviewIds : Stored(r) =>
    \E o \in OrderIds : /\ Exists(o)
                        /\ orders[o].status = "PAID"
                        /\ orders[o].client = reviews[r].user
                        /\ Owner[orders[o].product] = reviews[r].vendor

\* One review per author and vendor, whatever creations, deletions and edits of
\* deleted reviews overlap; the look of full_clean() alone would not do
\* (reviews/models.py:34-36).
OnePerPair ==
  \A r, s \in ReviewIds :
    Stored(r) /\ Stored(s) /\ r # s =>
      <<reviews[r].user, reviews[r].vendor>> # <<reviews[s].user, reviews[s].vendor>>

\* The state is well typed, and a review that does not say what its author
\* published first is marked as edited, even one that an edit brought back after
\* its deletion
\* (reviews/models.py:41-46).
EditsShow ==
  ReviewTypeOK /\ \A r \in ReviewIds : Stored(r) /\ reviews[r].text # first[r] => reviews[r].edited
=============================================================================
