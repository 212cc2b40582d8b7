SPECIFICATION Spec
CONSTANTS
  Workers = {w1, w2}
  Users = {u1, u2}
  Vendors = {u1, u2}
  Places = {home}
  Ids = {l1, l2}
  MaxImages = 2
  Uploads <- ThreeLists
  None = None
SYMMETRY Symmetry
INVARIANTS AlbumOfOneRequest PicturesHaveLocation
PROPERTIES HiddenIsTheOwners
