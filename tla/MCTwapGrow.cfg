SPECIFICATION HSpec
CONSTANTS
  Pools <- PoolsIn
  SCALE = 2
  MAXPRICE = 100
  Slots = 2
  MAXSLOTS = 4
  GrowsWrapped = TRUE
  MaxTime = 6
INVARIANT SearchBrackets
