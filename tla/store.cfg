SPECIFICATION Spec
CONSTANTS
  w1 = w1
  w2 = w2
  v1 = v1
  p1 = p1
  p2 = p2
  p3 = p3
  s1 = s1
  s2 = s2
  f1 = f1
  f2 = f2
  NoRow = NoRow
  Elsewhere = Elsewhere
  Workers = {w1, w2}
  Vendors = {v1}
  Products = {p1, p2, p3}
  Spots = {s1, s2}
  Prices = {1, 2}
  Files = {f1, f2}
  Written = {"RESERVED", "PENDING"}
  MaxBegun = 2
  MaxFound = 2
  MaxImages = 2
  OnMap = 1
SYMMETRY Symmetry
CHECK_DEADLOCK FALSE
INVARIANTS ShownWereOffered CoordinatesHeld AssistantHolds FilesAccounted
