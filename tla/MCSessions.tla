----------------------------- MODULE MCSessions -----------------------------
(* Small instances of module Sessions for TLC.                              *)
EXTENDS SessionsProps, TLC

\* Requests are alike, and so are sessions.
Symmetry == Permutations(Requests) \cup Permutations(SessionIds)
=============================================================================
