--------------------------- MODULE AccountsProps ---------------------------
(* What is claimed of module Accounts.                                      *)
EXTENDS Accounts

\* Two accounts share an address, up to case, only if an administrator typed it
\* for one of them: although a registration and a profile edit look for
\* duplicates before they write (users/serializers.py:30, 224), both write in
\* lower case, so the unique constraint decides their races.
SelfServiceEmailsUnique ==
  \A u, w \in Rows :
    u # w /\ users[u].email.address = users[w].email.address => {u, w} \cap retyped # {}

\* The state is well typed, and who registered as a vendor has no session before an
\* administrator touched the account, whatever stale rows are saved (application/services.py:17).
VendorsWait ==
  TypeOK /\ \A u \in Ids : session[u] # 0 /\ joined[u] = "VENDEDOR" => u \in approved

\* A registered account has accepted some version, and says so in
\* terms_accepted, at every moment; only a save that inserted the row again
\* after its deletion lost the acceptances (terms/services.py:115-124).
RegistrationIsWhole ==
  \A u \in Rows :
    joined[u] # Nobody /\ u \notin revived =>
      users[u].terms /\ \E v \in Versions : TermsStatus(u, v)

\* A session started under the version of the terms that was deployed, and that
\* its user has accepted, however the hooks of the login interleave with a
\* deployment and with other requests (terms/services.py:43-50, 142-145).
StartedUnderTerms ==
  \A u \in Ids : session[u] # 0 => TermsStatus(u, session[u]) \/ u \in revived
=============================================================================
