SPECIFICATION Spec
CONSTANTS
  Writers = {h1, h2}
  Followers = {h2}
  NoHandle = NoHandle
  Times = {0, 1}
  UserKeys = {k1}
  Lengths = {1, 2, 3}
  Capacity = 3
  Torn = Torn
  MaxTxn = 3
  Timeouts = {0, 4}
  BackoffCap = 3
  WordSize = 8
  RereadFails = FALSE
INVARIANTS
  UnchangedMeansUnchanged
  PositionExact
  MaxTimeTrue
PROPERTIES
  CounterMonotonic
  WaitReturns
