SPECIFICATION Spec
CONSTANTS
  SessionIds = {s1, s2}
  Requests = {r1, r2}
  Statuses = {"ACTIVE", "BLOCKED"}
  MaxKeys = 2
  Recovery = TRUE
  Nobody = Nobody
  NoUser = NoUser
SYMMETRY Symmetry
INVARIANTS BlacklistedIsClosed LogoutAllReachesEveryToken
PROPERTIES LogoutIsFinal
