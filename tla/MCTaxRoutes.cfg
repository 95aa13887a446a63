SPECIFICATION Spec
CONSTANTS
  BPS = 10
  ONE = 10
  Tax = "tax"
  Wallets = {"ann", "bob"}
  House = "house"
  Treasury = "treasury"
  Router = "router"
  Nobody = "nobody"
  Burn = "burn"
  Tokens = {"usd", "tax", "cl8y"}
  Pairs <- AllPairs
  PairTokens <- TokensOf
  Paths <- AllPaths
  FeeBps = 2
  MaxSpread = 9
  InitialPool = 20
  InitialHeld <- HeldBy
  Setups <- AllSetups
  Exemptions = {{}, {"ann"}}
  Amounts = {4, 8}
  Gift = 5
  MaxActs = 2
  MaxHeight = 2
INVARIANTS BooksBalance RouteIsItsTrades QuoteKept ReverseExact RefusedForCause
PROPERTIES GuardsHold
CHECK_DEADLOCK FALSE
