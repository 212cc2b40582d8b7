------------------------------ MODULE MCOrders ------------------------------
(* Small instances of module Orders for TLC.                                *)
EXTENDS OrdersProps, TLC

CONSTANTS buyer, seller

\* One vendor sells every product.
OneSeller == [p \in Products |-> seller]

\* Clients compete through equal rights, so any two of them are alike; order
\* ids, products of the one vendor, workers and sweeps are alike too.
Symmetry == Permutations(OrderIds) \cup Permutations(Products) \cup
            Permutations(Workers) \cup Permutations(Sweeps)

\* The orders app next to soft deletions and restorations of the products,
\* without the payment flag, which no lock depends on: a create does not preset
\* it, and notify-payment takes the locks that cancel takes.  mark-as-paid takes
\* them too, and leaves the same status on the product.
ProgressSpec ==
  /\ Init
  /\ [][/\ \/ OrdersNext
           \/ \E p \in Products : CatalogueWrite(p) /\ products'[p].stock
        /\ \A w \in Workers : /\ req'[w] # NoReq => req'[w].op \in {"create", "cancel"}
                              /\ inst'[w] # NoRow => ~inst'[w].notified]_vars
  /\ Fairness
=============================================================================
