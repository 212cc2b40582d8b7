SPECIFICATION Spec
CONSTANTS
  buyer = buyer
  seller = seller
  Owner <- OneSeller
  None = None
  NoRow = NoRow
  NoReq = NoReq
  Products = {p1}
  OrderIds = {o1, o2}
  Users = {buyer, seller}
  Admins = {}
  Superusers = {}
  Workers = {w1, w2}
  Sweeps = {s1}
  Killable = {w1, w2, s1}
  CatalogueStatus = {"REJECTED", "RESERVED"}
SYMMETRY Symmetry
INVARIANTS TypeOK LockInv OnlySweepsDeadlock
PROPERTIES OnlyEditsStrand SettledIsFinal NotificationKept ReservedInStock Implements
