------------------------------ MODULE MCStore ------------------------------
(* A small instance of the public pages, the assistant and the forms.       *)
EXTENDS StoreProps, TLC

CONSTANTS w1, w2, v1, p1, p2, p3, s1, s2, f1, f2

\* Products, coordinates and files are alike.
Symmetry == Permutations(Workers) \cup Permutations(Products) \cup Permutations(Spots) \cup Permutations(Files)
=============================================================================
