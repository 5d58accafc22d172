SPECIFICATION Spec
CONSTANTS
  Handles = {h1}
  NoHandle = NoHandle
  LastPage = 3
  NoPage = NoPage
  Bytes = {a, b}
  Unowned = Unowned
  Zeros = Zeros
  Out = Out
  Torn = Torn
  CacheSlots = 2
  FreeCap = 1
  MaxTxn = 4
  AllSpills = FALSE
  NoSync = FALSE
SYMMETRY Symmetry
INVARIANTS
  TypeOK
  CommittedIntact
  OwnWritesSeen
  NoPageLostOrShared
