SPECIFICATION HSpec
CONSTANTS
  Pools <- PoolsIn
  SCALE = 2
  MAXPRICE = 5
  Slots = 2
  MAXSLOTS = 4
  GrowsWrapped = FALSE
  MaxTime = 7
INVARIANTS ObserveExact SearchBrackets
PROPERTIES ForgetsOldest
