SPECIFICATION Spec
CONSTANTS
  Leaves = {l1, l2, l3, l4}
  NoLeaf = NoLeaf
  Keys = {0, 1, 2, 3}
  NodePages = {p1, p2}
  NoPage = NoPage
  PageSlots = 3
  MaxLevel = 3
  AllWrites = FALSE
SYMMETRY Symmetry
INVARIANTS
  TypeOK
  DescentExact
  TowersSound
  OneNodePerLeaf
  NodePagesChained
PROPERTIES
  ImplementsLeafMap
