SPECIFICATION Spec
CONSTANTS
  Keys = {0, 1, 2, 3, 4}
  SeqSpan = 2
  Chunk = 2
  MaxTxn = 2
  SeekRaces = FALSE
  SharedHandle = FALSE
INVARIANTS
  TypeOK
  WalkInOrder
  NothingSkipped
  StaysAhead
  StableView
