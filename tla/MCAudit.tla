------------------------------ MODULE MCAudit ------------------------------
(* Small instances of module Audit for TLC.                                 *)
EXTENDS AuditProps, TLC

\* The threads that serve requests are alike, and so are addresses.
Symmetry == Permutations(Workers \ Celery) \cup Permutations(Addresses)
=============================================================================
