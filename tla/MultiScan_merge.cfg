SPECIFICATION Spec
CONSTANTS
  Keys = {0, 1, 2}
  SeqSpan = 2
  Symbols = {1, 2}
  Done = Done
  Chunk = 2
  MaxTxn = 2
INVARIANTS
  TypeOK
  MergeInOrder
  NothingSkipped
  NothingForeign
