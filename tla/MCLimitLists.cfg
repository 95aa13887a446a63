SPECIFICATION Spec
CONSTANTS
  Owners = {alice}
  PairKey = pair
  ONE = 10
  BPS = 10
  DUST = 2
  MAX_PARKS = 1
  MAX_SCAN = 3
  Offers <- MCOffers
  Hints = {0, 1, 2, 3}
  StepCaps = {1, 9}
  RepricePrices = {10, 20}
  FeeRates = {0}
  Budgets = {2}
  MakerCaps = {1}
  Pools <- MCPools
  CleanCaps <- MCCleanCaps
  CleanMins = {0}
  RungCaps = {2}
  Legacy = {}
  Switches = {}
  Blacklistable = {}
  MaxId = 3
  MaxTime = 0
INVARIANTS BookLinked TokensBackEscrow
PROPERTIES KeepsPromises MessagesEnd ClosedForGood
