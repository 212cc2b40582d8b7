SPECIFICATION Spec
CONSTANTS
  Workers = {w1, w2, w3}
  Celery = {w3}
  Addresses = {ip1, ip2}
  FullScore = 2
  MaxAttempts = 5
  MaxVersion = 2
SYMMETRY Symmetry
INVARIANTS BannedInTime PenaltiesCount ChangesAreLogged
CHECK_DEADLOCK FALSE
