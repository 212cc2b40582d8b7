SPECIFICATION ProgressSpec
CONSTANTS
  buyer = buyer
  seller = seller
  Owner <- OneSeller
  None = None
  NoRow = NoRow
  NoReq = NoReq
  Products = {p1, p2}
  OrderIds = {o1, o2}
  Users = {buyer, seller}
  Admins = {}
  Superusers = {}
  Workers = {w1, w2}
  Sweeps = {s1}
  Killable = {w1}
  CatalogueStatus = {}
PROPERTIES RequestsAnswered ExpiredAreReleased
