--------------------------- MODULE SessionsProps ---------------------------
(* What is claimed of module Sessions.                                      *)
EXTENDS Sessions

\* The life of the sessions implements module Access: a logout, of one device or
\* of all, is final, although refreshes that read the session before it are
\* still to write it (auth_service.py:128-150, authentication.py:63-66).
SessionAccess == INSTANCE Access WITH
  phase <- sessions,
  inside <- [r \in Requests |-> IF pc[r] = "serve" THEN sid[r] ELSE Nobody]
LogoutIsFinal == SessionAccess!Spec

\* The state is well typed, and a refresh token in the blacklist belongs to a
\* closed session, at every moment, so that a refresh which checked the blacklist
\* before the logout is still stopped by the session (auth_service.py:62-67).
BlacklistedIsClosed ==
  TypeOK /\ \A s \in SessionIds : blacklisted[s] => sessions[s] = "closed"

\* A token that authentication would let in now, whatever key it carries.
Accepted(t) == t.key = user.key /\ MayUse(user) /\ sessions[t.session] = "open"

\* Once a logout of all devices has answered, no token issued until then is ever
\* accepted again: not one with the new key that a refresh or a login obtained
\* between its two statements, and not the old ones when a request that fetched
\* the row before saves it whole and puts the old key back (auth_service.py:78-88,
\* 128-150, users/views.py:134, password_reset_views.py:74).
LogoutAllReachesEveryToken ==
  \A t \in revoked : ~Accepted(t)

\* users/models.py:58, "Cambiar este valor invalida todos los access tokens del
\* usuario": once the key was replaced, a token with an older key is refused.
ReplacedKeyIsRefused ==
  [][user.key # user'.key => \A t \in tokens : t.key # user'.key]_sessionVars
=============================================================================
