------------------------------- MODULE MCGeo -------------------------------
(* Small instances of module Geo for TLC.                                   *)
EXTENDS GeoProps, TLC

\* No picture, a main one, and a main one after another.
ThreeLists == {<<>>, <<TRUE>>, <<FALSE, TRUE>>}

\* Requests are alike, and so are users and keys.
Symmetry == Permutations(Workers) \cup Permutations(Users) \cup Permutations(Ids)
=============================================================================
