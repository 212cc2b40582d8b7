---------------------------- MODULE MCModeration ----------------------------
(* Small instances of module Moderation for TLC.                            *)
EXTENDS ModerationProps, TLC

\* Administrators are alike, and so are images.
Symmetry == Permutations(Moderators) \cup Permutations(Images)
=============================================================================
