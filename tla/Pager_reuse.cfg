SPECIFICATION Spec
CONSTANTS
  Handles = {h1}
  NoHandle = NoHandle
  LastPage = 3
  NoPage = NoPage
  Bytes = {a, b}
  Unowned = Unowned
  Zeros = Zeros
  Out = Out
  Torn = Torn
  CacheSlots = 2
  FreeCap = 1
  MaxTxn = 3
  AllSpills = TRUE
  NoSync = FALSE
SYMMETRY Symmetry
INVARIANTS
  CommittedIntact
