SPECIFICATION Spec
CONSTANTS
  s1 = s1
  s2 = s2
  s3 = s3
  s4 = s4
  SymbolIds = {s1, s2, s3, s4}
  TotalSlots = 5
  Home <- MCHome
INVARIANTS
  LookupExact
  OneSlotEach
