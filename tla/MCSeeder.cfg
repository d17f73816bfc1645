CONSTANTS
  ZeroAddress = Zero
  Stranger = Stranger
  ByteSize = 256
  WordSize = 65536
  Right = Right
  Ahead = Ahead
  Nodes <- MCNodes
  Skew <- MCSkew
  EndPoints = {e1, e2}
  Calls = {c1, c2, c3}
  ChainId = 1
  MaxClock = 1
  MaxProofs = 2
SPECIFICATION Spec
CHECK_DEADLOCK FALSE
INVARIANTS
  RecordsAuthentic
  RefusedOnlyForeign
  NobodyCrowdedOut
  NotUndone
PROPERTY
  StoreRefined
