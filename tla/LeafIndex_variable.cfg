SPECIFICATION Spec
CONSTANTS
  small = small
  large = large
  Leaves = {l1, l2, l3}
  NoLeaf = NoLeaf
  Keys = {0, 1, 2, 3}
  SeqSpan = 2
  Vals = {small, large}
  Size <- MCSize
  Absent = Absent
  RecordSize = 0
  FixedCap = 0
  LeafBytes = 6
  SlotSize = 1
  TopTime = 9
  PutFlags = {TRUE, FALSE}
  MaxBatch = 1
  AllWrites = FALSE
SYMMETRY Symmetry
INVARIANT LeafWithinPage
