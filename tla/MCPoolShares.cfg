SPECIFICATION Spec
CONSTANTS
  Holders = {h1, h2}
  BPS = 10
  ONE = 10
  MINIMUM_LIQUIDITY = 1
  Deposits <- DepositsIn
  Offers = {1, 3}
  FeeRates = {0, 3}
  HookLists <- HooksIn
  Limits <- LimitsIn
  Gifts = {1}
  Escrows = {1}
  MaxReserve = 4
  MaxEscrow = 1
  MaxGifts = 1
  Pools <- PoolsIn
  SCALE = 2
  MAXPRICE = 6
  Slots = 1
  MAXSLOTS = 2
  GrowsWrapped = FALSE
  MaxTime = 1
SYMMETRY Sym
INVARIANTS Accounted NeverDrained LockedForever
PROPERTIES ShareWorthKept ObservesFirst
