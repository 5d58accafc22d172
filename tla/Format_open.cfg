SPECIFICATION Spec
CONSTANTS
  Handles = {h1, h2, h3}
  DirPages = 3
  Zero = Zero
  Foreign = Foreign
  Symbols = Symbols
  Torn = Torn
  MaxTxn = 4
  Overlaps = FALSE
  LateStops = FALSE
INVARIANTS
  TypeOK
  RefusesOnlyForeign
PROPERTY KeepsWhatItHolds
