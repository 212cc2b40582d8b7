SPECIFICATION Spec
CONSTANTS
  SessionIds = {s1, s2}
  Requests = {r1, r2}
  Statuses = {"ACTIVE", "PENDING", "BLOCKED"}
  MaxKeys = 2
  Recovery = FALSE
  Nobody = Nobody
  NoUser = NoUser
PROPERTIES ReplacedKeyIsRefused
