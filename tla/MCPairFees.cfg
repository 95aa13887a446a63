CONSTANTS
  alice = alice  router = router  cl8y = cl8y  other = other  new = new
  t1 = t1  t2 = t2  silent = silent  reg = reg  None = None
  Wallets = {alice, router}
  Contracts = {router}
  TierIds = {1, 255}
  Terms <- MCTerms
  Ladder <- MCLadder
  Starts <- MCStarts
  MaxBalance = 1
  MaxEpoch = 3
  Keys = {cl8y, other, new}
  Offered <- MCOffered
  Config <- MCConfig
  Listed <- MCListed
  AllMax = 2
  PageLimits = {1}
  MaxBlock = 2
  Registry = reg
  PaysCl8y = {cl8y}
  Requests <- MCRequests
  BPS = 10
  TTL = 2
  MaxActs = 2
SPECIFICATION HSpec
CHECK_DEADLOCK FALSE
INVARIANTS SwapUnharmed RolloutReaches ChargeWasDue
PROPERTY OnlyLapsedEvicted
