SPECIFICATION Spec
CONSTANTS
  small = small
  large = large
  Leaves = {l1, l2, l3, l4}
  NoLeaf = NoLeaf
  Keys = {0, 1, 2, 3, 4}
  SeqSpan = 2
  Vals = {small, large}
  Size <- MCSizeFixed
  Absent = Absent
  RecordSize = 1
  FixedCap = 2
  LeafBytes = 0
  SlotSize = 1
  TopTime = 9
  PutFlags = {TRUE, FALSE}
  MaxBatch = 2
  AllWrites = TRUE
SYMMETRY Symmetry
INVARIANT GetFindsEveryRecord
