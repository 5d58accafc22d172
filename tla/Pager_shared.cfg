SPECIFICATION Spec
CONSTANTS
  Handles = {h1, h2}
  NoHandle = NoHandle
  LastPage = 2
  NoPage = NoPage
  Bytes = {a, b}
  Unowned = Unowned
  Zeros = Zeros
  Out = Out
  Torn = Torn
  CacheSlots = 2
  FreeCap = 1
  MaxTxn = 4
  AllSpills = FALSE
  NoSync = FALSE
SYMMETRY Symmetry
INVARIANTS
  CacheCurrent
