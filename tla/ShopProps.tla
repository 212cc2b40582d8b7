----------------------------- MODULE ShopProps -----------------------------
(* What is claimed of module Shop.                                          *)
EXTENDS Shop

\* Request e takes effect in this step.
Finishes(e, op) == stage[e] = "write" /\ stage'[e] = "idle" /\ edit[e].op = op

\* An archive, a restoration or a toggle that began before a reservation, a
\* payment or a review does not undo it, nor one another: each writes its own
\* column only (core/models/base.py:17-28, products/views.py:199-200).
NarrowSaves ==
  [][\A e \in Editors :
       LET p == edit[e].product IN
         /\ Finishes(e, "archive") \/ Finishes(e, "restore") =>
              products'[p].status = products[p].status /\ products'[p].stock = products[p].stock
         /\ Finishes(e, "toggle") =>
              products'[p].status = products[p].status /\ products'[p].deleted = products[p].deleted
    ]_shopVars

\* A vendor's edit does not publish what the moderators withhold: with a product
\* that was PENDING or REJECTED whenever it could have been looked at, the edit
\* ends in any other way, although the guards judge one read of the row and the
\* save writes another one back (products/views.py:115-121, serializers.py:138-148).
\* An edit that began before the rejection may still put the product on sale.
RefusalsStand ==
  [][\A e \in Editors :
       Finishes(e, "edit") /\ edit[e].user \in Vendors /\ withheld[e]
         => products'[edit[e].product].status # "AVAILABLE"]_shopVars
=============================================================================
