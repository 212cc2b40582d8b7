----------------------------- MODULE MCAccounts -----------------------------
(* Small instances of module Accounts for TLC.                              *)
EXTENDS AccountsProps, TLC

\* Requests are alike, and so are addresses, and the keys not in use at the start.
Symmetry == Permutations(Requests) \cup Permutations(Addresses) \cup Permutations(Ids \ Legacy)
=============================================================================
