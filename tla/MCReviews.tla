----------------------------- MODULE MCReviews -----------------------------
(* Small instances of module Reviews for TLC.                               *)
EXTENDS ReviewsProps, TLC

CONSTANTS vendor, p1

\* The other users are the clients of one vendor.
OwnerOf == p1 :> vendor

\* Clients, requests, orders and reviews are alike.
Symmetry == Permutations(Users \ {vendor}) \cup Permutations(Workers) 
            \cup Permutations(OrderIds) \cup Permutations(ReviewIds)
=============================================================================
