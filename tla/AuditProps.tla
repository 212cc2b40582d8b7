----------------------------- MODULE AuditProps -----------------------------
(* What is claimed of module Audit.                                         *)
EXTENDS Audit

\* An address is banned by its third suspicious attempt, or as many attempts
\* later as there are other workers: each of them may be counting while the
\* entries of the others are not written yet (audit services.py:88-98).
BannedInTime ==
  \A a \in Addresses : logged[a] >= 2 + Cardinality(Workers \ Celery) => a \in banned

\* The state is well typed; concurrent penalties overwrite each other, but neither
\* cost more than half a point each nor vanish altogether (audit services.py:101-104).
PenaltiesCount ==
  /\ TypeOK
  /\ score + penalties >= FullScore
  /\ penalties > 0 => score < FullScore \/ FullScore = 0

\* Every committed change of an audited row has an entry, or one that is about to
\* be written, unless it was a bulk update or its worker died in between; and the
\* entry has the address of the request that made the change, or none for a task,
\* never what an earlier request left in the thread (audit/signals.py:9-30,
\* middleware.py:112-119).
ChangesAreLogged ==
  /\ \A v \in 1..version :
       \/ v \in silent
       \/ \E e \in entries : e.change = v
       \/ \E w \in Workers : At(w, "entry") /\ task[w].change = v
  /\ \A e \in entries : e.ip = origin[e.change]
=============================================================================
