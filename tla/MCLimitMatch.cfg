SPECIFICATION Spec
CONSTANTS
  Owners = {alice, bob}
  PairKey = pair
  ONE = 10
  BPS = 10
  DUST = 2
  MAX_PARKS = 1
  MAX_SCAN = 2
  Offers <- MCOffers
  Hints = {0, 2}
  StepCaps = {9}
  RepricePrices = {}
  FeeRates = {4}
  Budgets = {3, 7}
  MakerCaps = {3}
  Pools <- MCPools
  CleanCaps <- MCCleanCaps
  CleanMins = {}
  RungCaps = {1}
  Legacy <- MCLegacy
  Switches = {}
  Blacklistable = {bob}
  MaxId = 3
  MaxTime = 1
INVARIANTS EscrowIsOwed TokensBackEscrow NoTradeThrough
PROPERTIES KeepsPromises
