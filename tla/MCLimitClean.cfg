SPECIFICATION Spec
CONSTANTS
  Owners = {alice}
  PairKey = pair
  ONE = 10
  BPS = 10
  DUST = 2
  MAX_PARKS = 1
  MAX_SCAN = 3
  Offers <- MCOffers
  Hints = {0, 2}
  StepCaps = {9}
  RepricePrices = {10}
  FeeRates = {0}
  Budgets = {3}
  MakerCaps = {1}
  Pools <- MCPools
  CleanCaps <- MCCleanCaps
  CleanMins = {0, 6}
  RungCaps = {1, 2}
  Legacy <- MCLegacy
  Switches = {"pause", "code ids"}
  Blacklistable = {alice, pair}
  MaxId = 2
  MaxTime = 1
INVARIANTS CleanLeavesNothing
PROPERTIES KeepsPromises
