SPECIFICATION Spec
CONSTANTS
  Ids = {u1, u2, u3}
  Legacy = {u1}
  Requests = {r1, r2}
  Addresses = {a, b}
  MaxEdits = 1
  MaxVersion = 2
  Statuses = {"ACTIVE", "BLOCKED"}
  Nobody = Nobody
  NoUser = NoUser
SYMMETRY Symmetry
INVARIANTS SelfServiceEmailsUnique VendorsWait RegistrationIsWhole StartedUnderTerms
CHECK_DEADLOCK FALSE
