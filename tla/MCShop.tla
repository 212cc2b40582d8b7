------------------------------- MODULE MCShop -------------------------------
(* Small instances of module Shop for TLC.                                  *)
EXTENDS ShopProps, TLC

CONSTANTS buyer, seller

\* One vendor sells every product.
OneSeller == [p \in Products |-> seller]

\* A PATCH that offers the product again, one that takes it out of the shop's
\* hands in every column, and (NoChange, always allowed) one of other columns.
PutOnSale == [NoChange EXCEPT !.status = "AVAILABLE"]
TakeDown == [status |-> "INACTIVE", stock |-> FALSE, deleted |-> TRUE]
TwoChanges == {PutOnSale, TakeDown}

Symmetry == Permutations(OrderIds) \cup Permutations(Workers) \cup Permutations(Editors)
=============================================================================
