SPECIFICATION ReviewSpec
CONSTANTS
  vendor = vendor
  p1 = p1
  Users = {alice, bob, vendor}
  Products = {p1}
  OrderIds = {o1, o2}
  Owner <- OwnerOf
  NoRow = NoRow
  ProductStatus = {"AVAILABLE", "RESERVED"}
  Workers = {w1, w2}
  ReviewIds = {r1, r2, r3}
  Texts = {t1, t2}
SYMMETRY Symmetry
INVARIANTS AuthorsHavePaid OnePerPair EditsShow
