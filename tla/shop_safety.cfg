SPECIFICATION ShopSpec
CONSTANTS
  buyer = buyer
  seller = seller
  Owner <- OneSeller
  None = None
  NoRow = NoRow
  NoReq = NoReq
  Products = {p1}
  OrderIds = {o1}
  Users = {buyer, seller}
  Admins = {}
  Superusers = {}
  Vendors = {seller}
  Workers = {w1}
  Sweeps = {}
  Killable = {}
  Editors = {e1, e2}
  Changes <- TwoChanges
  CatalogueStatus = {"PENDING", "AVAILABLE", "RESERVED", "SOLD", "REJECTED", "INACTIVE"}
SYMMETRY Symmetry
INVARIANTS ShopTypeOK
PROPERTIES NarrowSaves RefusalsStand
