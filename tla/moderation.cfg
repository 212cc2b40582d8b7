SPECIFICATION ModSpec
CONSTANTS
  Moderators = {a1, a2}
  Images = {i1, i2, i3}
  MaxEdits = 2
  NoImage = NoImage
SYMMETRY Symmetry
INVARIANTS LastApprovalPublishes 
