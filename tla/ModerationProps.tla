-------------------------- MODULE ModerationProps --------------------------
(* What is claimed of module Moderation.                                    *)
EXTENDS Moderation

InFlight(decisions) == \E a \in Moderators : doing[a].decision \in decisions

\* Whoever approves the last image publishes the product, although each
\* approval looks at the images in a statement of its own: with every image
\* approved and no approval under way, the product is not left REJECTED, unless
\* a review rejected it, an approval died half-way, the product was archived
\* when it was to be published, or an edit wrote an older status back
\* (products/views.py:457-471).
LastApprovalPublishes ==
  (\A i \in Images : images[i] # "REJECTED") /\ product.status = "REJECTED" =>
    rejected \/ missed \/ undone \/ died \/ InFlight(Approving)

\* Reviews that agree may overlap in any order, with each other, with approvals
\* of images, and with archiving, and die anywhere: a settled review and the
\* product do not contradict each other, whatever is still under way
\* (products/views.py:316-367).
ReviewAndProductAgree ==
  ~opposed /\ ~missed /\ ~undone =>
    /\ review = "REJECTED_PRODUCT" => product.status # "AVAILABLE"
    /\ review \in Approving => product.status # "REJECTED"
=============================================================================
