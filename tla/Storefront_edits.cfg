SPECIFICATION Spec
CONSTANTS
  Categories = {c1, c2}
  Items = {i1}
  Sessions = {s1, s2}
  NoCategory = NoCategory
  NoItem = NoItem
  Keep = Keep
INVARIANTS TypeOK ListedWasVerified
PROPERTIES OnlyOutdatedChecksHarm OthersWritesStay
SYMMETRY Symmetric
