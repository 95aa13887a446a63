# TLA+ models of cl8y-dex-terraclassic

TLA+ modules, TLC model-checking runs and TLAPS proofs for the on-chain exchange
and its indexer. The reference is the code under `src/`; every
definition that models code is listed with its source lines in `PROJECT.json`
(`map`). The hazards the properties were chosen for are listed there too.

Run everything from this directory:

    tlc -workers 2 -config MCLimitLists.cfg MCLimitLists     # likewise the other runs
    tlapm LimitBookProofs.tla                                 # likewise the other ...Proofs,
                                                              # and DataLemmas

## 1. The system

The repository is a decentralised exchange for Terra Classic. CosmWasm contracts
keep the money; a Rust indexer follows the chain into Postgres and answers
quotes; a web front end and deployment tooling sit around them.

| component | state it keeps | operations | talks to |
|---|---|---|---|
| **pair: limit book** (`contracts/pair/src/orderbook.rs`, `limit_placement.rs`, `limit_batch_withdraw.rs`, `limit_book_clean.rs`, `greedy.rs`) | `ORDERS` (two doubly linked price-time lists), `HEAD_BID`, `HEAD_ASK`, `ORDER_NEXT_ID`, `PENDING_ESCROW_TOKEN0/1`, `EXPIRED_LIMIT_CLAIMS`, clean and batch settings | place batch or ladder, update price, cancel(s), claim expired(s), clean book, book leg of a swap | cw20 tokens, treasury, fee registry, factory (blacklist), code-id guard |
| **pair: pool** (`contracts/pair/src/contract.rs`) | `RESERVES`, LP supply, `FEE_CONFIG`, hooks, `PAUSED`, locked LP | swap, provide and withdraw liquidity, sweep, admin messages, hook settlement | the book, the oracle, hooks, tokens |
| **pair: TWAP oracle** (`contract.rs`, `dex-common/oracle.rs`) | ring of `OBSERVATIONS`, cumulative prices | update on each reserve change, grow, observe | the pool |
| **pair: discount cache** (`discount_cache.rs`) | per-trader discount with expiry | resolve on swap and place | fee registry |
| **factory** | pairs by assets and by index, pending pair, settings, blacklist, whitelisted code ids | create pair (reply), settings, paginated rollouts to all pairs, migrations | pairs |
| **router** | the route of the running multi-hop swap | execute operations, hop reply, minimum receive | pairs, tokens |
| **fee discount registry** | tiers, registrations, trusted routers | register, deregister (also lazily, by anyone when the holding is gone), settings | pairs |
| **bridge debt and its token** | positions per epoch, daily limits, recovery mode | issue, repay, recover, roles | bridge, debt token |
| **community tax token, invoices, auto-LP, launcher** | balances, tax split, exemptions, invoices, reentrancy flag, launch limits | transfers with tax, pay invoice, skim (two replies), adopt, launch (reply) | router, pair, factory |
| **hooks, faucet** | settings only | burn, tax or forward on `AfterSwap`; faucet drips | pair, tokens |
| **indexer: chain client** (`indexer/src/lcd`) | per-provider circuit, in-flight counts, half-open permit, pair discovery permits | admit, succeed, fail, drop; discover | LCD nodes |
| **indexer: ingestion** (`block_indexer.rs`, `poller.rs`, `parser.rs`) | checkpoint height and hash, event rows | poll, process a block, reorg guard, backfill | chain client, Postgres |
| **indexer: book snapshots, local quotes** | snapshots with walk index, admission table, generations, jobs | observe, publish, expire, quote | Postgres, API |
| **front end, scripts, docs** | none the others rely on | | |

Interaction. A user's transaction is one message to the pair, the router or a
token (`cw20 Send` calls `Receive` on the pair). Within a transaction contracts
call each other through submessages and replies; between transactions anybody
may act. A message that returns `Err` leaves no trace. The factory pushes
settings to pairs and is asked for the blacklist at each gate; governance can
pause a pair; a token's wasm code id is compared with its pin on each message.

### What is hard here

* **Sequences of messages.** Orders are linked, walked from client-supplied
  hints, relinked, part-filled, parked, claimed and cleaned, each by another
  handler with its own idea of expiry, dust and price. A wrong link or a
  mismatched rounding shows only many messages later.
* **Partial success inside a message.** A batch skips rungs whose walk takes too
  many steps and must refund precisely those; a swap parks some dead orders,
  passes over others and books its debit once, at the end.
* **Settings that move in between**: pause, blacklist, code-id drift, dust
  floors, fee discounts.
* **Replies** (factory, router, auto-LP, launcher): one pending slot, balance
  differences, flags that must be lowered again.
* **Concurrency in the indexer**: requests admitted before a failure and
  answered after it, two pollers, a crash between block and checkpoint, late
  observations against newer ones.

There is no concurrency inside the contracts: the chain runs one message at a
time. What interleaves is *whole messages*, with block time and settings
changing between them.

### What makes each component correct

* limit book: lists sound and in price-time order; escrow equals what makers are
  owed and is backed by tokens; each order is paid out once; no trade-through;
  dead orders are never filled; gates hold on every path; every message ends.
* pool: `k` never falls through swaps; shares never worth more than reserves;
  sweep never touches reserves or escrow.
* oracle: a query brackets its time by the two right observations; growth keeps
  the past.
* factory: each asset pair has one pair contract; a rollout reaches every pair.
* router: pays out at least the minimum, keeps nothing, counts only the swap.
* registry and cache: a discount outlives its cause by at most the cache's time.
* bridge debt: no limit overrun per day or in total; recovery never mints.
* tax token: parts of the tax sum to the tax; the skim leaves its flag lowered.
* chain client: an old success never closes a circuit opened since; counts do
  not leak; at most one half-open probe.
* ingestion: each block's rows once; the checkpoint never runs ahead of them, but
  for the events policy leaves out, and what counts rows counts each once.

## 2. What is modelled

| module | models |
|---|---|
| `LimitBook` | the whole limit order book: every message that writes `ORDERS`, the heads, the id counter, the claims or the pending escrow |
| `PriceTimeBook` | the abstract promise: who is served before whom, by price and arrival; a vault that holds what is owed; who may touch an order when. No lists, hints, walks or batches |
| `LimitBookRefinement` | the mapping under which `LimitBook` implements `PriceTimeBook` (`KeepsPromises`) |
| `TwapOracle` | the pair's ring of price observations: its writers, its growth, the search of a reader |
| `TwapHistory` | `TwapOracle` beside the true integral of the prices |
| `PoolMath` | the arithmetic of swaps, shares, commissions, hook deductions, inverse swaps and spread limits |
| `PairPool` | the pair's pool: swaps with a book leg, liquidity, sweep and settings, over reserves, shares and balances; a user of `TwapOracle` (`ObservesFirst`) |
| `FeeDiscount` | the discount registry: tiers, registrations with epochs, trusted routers |
| `Factory` | the list of pairs, the defaults of new ones, settings of one pair, of all, or page by page |
| `PairFees` | the composition of both with the pairs' discount caches: what a pair charges whom, and whom a trade throws out |
| `FeeHistory` | `PairFees` beside the fees that were due in the last seconds |
| `BlockIngest` | block ingestion by pollers that share a database, with pair discovery, skipped events, crashes, errors, outages, lost locks and reorganisations |
| `RouteTax` | the arithmetic of a community token's taxes on a route, and its inverses |
| `TaxToken` | the community tax token: who is taxed what, where it goes, launch guards, settlement of routes, governance |
| `TaxRoutes` | the composition of token, router and pairs: routes of several hops, direct trades, gifts, forward and reverse quotes |
| `ProviderPool` | one upstream provider of the indexer's chain client: rate budget, circuit, half-open probe, permits, and what its concurrent callers do with them |
| `MC...` | the inputs for TLC, one module per model, three for the book |
| `DataLemmas` | lemmas about numbers and finite sets: a least number, a smallest subset, sums, search by halves |
| `...Proofs` | inductive invariants and theorems; `LimitBookProofs` also that `LimitBook` implements `PriceTimeBook`, and the first part of `TaxRoutesProofs` is about amounts, with no state |

### How `LimitBook` follows the code

*Grain.* A message runs alone, so `tx` holds the locals of the one running
message (`tx = Idle` between messages) and `ins` those of the insert walk inside
it. Each iteration of a loop of the code is one step, so the invariants are
checked at every point in the middle of a message, and termination of the loops
is a liveness property instead of an assumption.

*Errors.* A message that fails before it wrote anything is not a step. Where the
code writes first and can fail later the undo is modelled: a price update whose
walk runs out of steps puts the row back (`RevertUpdatePrice`), and a batch none
of whose rungs is placed gives back the reserved ids (`FinishPlace` with
`tx.resting = 0`). A claim, cancel or match whose final escrow subtraction would
underflow is an error in the code; here its last step is disabled, so TLC reports
a deadlock were it reachable, and `MessagesEnd` and `EscrowIsOwed` fail.

*State.* `orders`, `head`, `nextId`, `claims`, `escrow`, `paused`,
`minRemaining`, `maxRungs` are the storage items. `tokens[s]` is the pair's cw20
balance of the side's token beyond its reserves. `drifted` stands for what the
code-id guard finds, `blacklisted` for the factory's list, `now` for block time.
Id 0 is `None`, because ids start at 1.

*Actions.*

| action | code |
|---|---|
| `PlaceBatch`, then `Probe`/`WalkForward`/`WalkBack` and `PlaceRung` or `SkipRung` per rung, `FinishPlace` | `execute_place_limit_orders_batch`: sorted rungs, thread cursor, hint, bounded walk in both directions, refund, maker fee. A ladder expands to a batch |
| `UpdatePrice`, walk, `Relink` or `RevertUpdatePrice` | `execute_update_limit_order_price`, `detach_limit_order_from_book`, `relink_limit_order_at_price` |
| `Cancel`, `CancelOne`, `FinishWithdraw`; `Claim`, `ClaimOne`, `FinishWithdraw` | single and batch cancel and claim |
| `CleanBook`, `CleanVisit`, `FinishClean` | `execute_clean_limit_book` with both caps, hint and resume cursor |
| `MatchBook`, `MatchDead`, `MatchFill`, `MatchPass`, `FinishMatch` | `match_bids` and `match_asks` (mirror images, one definition by side), `finalize_order_after_fill`, the greedy stop |
| `SetPaused`, `CodeIdsChange`, `SetBlacklisted`, `UpdateLimitCleanConfig`, `UpdateLimitOrderConfig`, `Tick` | the settings around the book, and block time |

*Arithmetic.* Prices are fixed-point integers over `ONE`, and every division
truncates as `Decimal` and `Uint128` do. `Affordable` is the closed form of the
code's loop that takes one unit off a fill until its cost fits. Nothing wraps:
the code uses checked operations on 128-bit numbers far above any amount here.

*Abstractions.* Owners and tokens are names. Attributes and events are left out,
also the cap on the price band (inputs are inside it) and the discount lookup
(the effective fee rate is an input in `FeeRates`). The router as trader is one
more owner. A taker's wallet is not one of the makers': a self-trade changes
nothing in the book's bookkeeping. A greedy swap that meets a pool with an empty
reserve fails in the swap later, so it is no step. `Legacy` starts the book with
an order that present placement rules would refuse: migration leaves such rows.

### How `ProviderPool` follows the code

*Grain.* The client's tasks run on several threads and share `ProviderState`
through a mutex. One action is one critical section of that mutex, or a step a
task takes between two of them, at which another thread can run:

| action | code |
|---|---|
| `Ask` | `admit` reads `Instant::now()`; the mutex is taken later, in `admit_at` |
| `Denied`, `RateDenied`, `Admit` | the outcomes of `admit_at`; scheduled clients mark the permit in the same breath (`scheduled_observation`) |
| `Refused` | headers of a refusal make a later cancellation count; the body still decides |
| `Negative` | a failure is known, and the attempt waits for the metadata lock (`mark_failed` and its like) |
| `Record`, `Fail` | the lock is there: `failed` reads the clock, then `failed_at` takes the mutex; the future resolves and `completed` is called without another await |
| `Succeed`, `Finish` | `succeeded`; `completed` for answers that say nothing of the provider's health |
| `Abandon`, `Fail`, `Release` | the two critical sections of `Drop`: the failure, unless the end is neutral, then the permit |

Every wait of an attempt can be cut short: by its own deadline (`Negative`, even
while it is waiting to record another failure) or by its caller's (`Abandon`).
Code without an await in between, such as `failed` and `completed`, cannot be.

*State.* `openUntil = Closed` is `open_until = None`. `call[c]` is the permit of
caller `c` with its flags and generation, `at` the instant read before the
mutex. Tokens are whole and the clock ticks in steps that earn `Rate` of them;
jitter and Retry-After are chosen from all values the code can produce. Left
out: the counters of denials, which nothing but a status page reads, and the
parsing of the header.

### How the oracle follows the code

*Grain.* A handler's write of the oracle is one step: it observes the reserves it
found, then stores new ones (`Touch`; which ones is left to `PairPool`). The
growth message and the clock are the other steps. Reading is the operator
`Observe(t)`, defined for every time at once; `Search` is the code's bisection
as a recursive function of its two bounds.

`observations` has only the slots that were written, as the storage map has.
`Ratio` truncates as `Decimal::from_ratio`; a price beyond `MAXPRICE` is the
error on which `oracle_update` returns without an observation. Sums do not wrap.
Two conjuncts are no guards of the code: `GrowsWrapped` is a bound of the
instance (section 3, violations), and `Touch` never empties a funded pool,
which `PairPool` shows of its handlers (`NeverDrained`).

`TwapHistory` adds `truth`, for each second the sum of the closing prices up to
it, and compares.

### How the pool follows the code

One action per message: `ProvideLiquidity`, `WithdrawLiquidity`, `Swap` (pool leg
and book leg), `Sweep`, `UpdateFee`, `UpdateHooks`, the oracle's growth. The checks
the code makes after its divisions are guards (`SwapSane`, `DepositSane`,
`PortionSane`), the narrowing of the square root to 128 bits being
`Isqrt(..) \in Nat`. `minted` is the LP token's own total supply, `supply` what the
pair counts; they differ by the first deposit's lock and by what holders burn
without the pair.

The book is here only what it does to balances: escrow rests, is taken out, or is
paid to a taker (`paid`, of which the commission `bookFee` goes to the treasury).
That escrow and tokens move together is what `LimitBook` proves
(`TokensBackEscrow`). The fee rate of a swap is any listed rate up to the pair's:
`PairFees` says which discount is due. Tokens move what they are told to move, and
what a hook does with its share is not followed. `gifts` is history: what was
sent to the pair without a message.

### How the fees follow the code

*Registry.* A registration carries the epoch it was made in, from a counter that
only grows. `Answer` is the query: the trader is the one named only if the
sender is the trader or a trusted router, and a registration whose tier is gone
or whose holding is too small is answered with its epoch, to be removed.
`DeregisterOutcome` is what the registry does with that message.

*Cache.* Entries are keyed by pair, trader and sender, live `TTL` seconds and are
thrown out by a lapsed answer. Nothing else clears one: `UpdateFee` and a new
registry leave it, so a charge may be as old as `TTL` seconds and no older
(`ChargeWasDue`).

*Order.* A swap sends the deregistration after its transfers, so the registry sees
the balance with what was bought; a placement sends it first. A failed message
fails the trade. The documents call the message fire-and-forget
(`docs/security-model.md:155`); it is added with `add_messages` (`contract.rs:1422`),
so its failure reverts the swap. It does fail for a holder who sold CL8Y and buys it
back by one swap: after the transfers the balance is enough again and the registry
answers `Unauthorized`. Therefore `SwapUnharmed` speaks of trades that pay out no
CL8Y. A trade on another pair, a placement or a deregistration of one's own clears
the way.

*Factory.* A message, the instantiation it causes, its reply and the messages to
pairs are one transaction, hence one step; the pending-pair slot is written and
read inside it and can never be shared. `rollout` records how far governance,
feeding `next_start_after` back, has got with the pages of a setting.

Left out: the pair-creation fee and its funds, and the LP-admin and code-id
batches, which are the same loop with another message.

### How routes follow the code

*Grain.* A message with all its submessages and replies is one transaction, so one
step. Inside it the order of the code is kept by mapping one record, `chain`, from
call to call: `Routed` sends the input to the router, runs `Hop` after `Hop`
(`execute_swap_operations`, then `reply_swap_hop`), each with the token's `Transfer`
to the pair, the pair's `PairSwap` with its two payouts, and the balance difference;
`Settle` is the last reply with its refunds. `chain.failed` collects *why* a message
is refused; a message with a cause is not a step, which is the revert. Where the code
stops at the first error the model names every error of the same call, so a property
can ask whether a refusal was somebody's own doing.

*Token.* `TradeKind` is `classify_trade` with the routed purchase that
`apply_transfer` adds; `Protocol` is what the code keeps in `PROTOCOL_EXEMPT` of
accounts that hold tokens: listed pairs and the official router. `ctx` is the router's
`RouteTaxContext`, which the token asks for in the middle of the route, `used` its
`SETTLEMENT_CONSUMPTION`. `settings` are the manager's and the governance's, and may
change between messages.

*Router.* `Funded`, `SellTax` and `BuyNet` are the previews a route, a quote and a
floor share. Routes are taken without minimum and floors, which can only refuse them;
`QuoteKept` tries them with and without. Quotes look at every pair as it is before the
route. A path that visits a pair twice (usd - tax - usd) is quoted with reserves its
own first hop changes; the code does not forbid it, and the properties of quotes speak
of paths with `OncePerPair`.

*Pairs the token does not know.* Listing a pair is a message of its own, so a pair can
trade the token before. What it pays out is then neither a purchase nor taxed like one
(`classify_trade`), and a wallet's transfer to it is no sale. The properties that compare
a route with its trades, its quote or its causes speak of paths whose pairs of the token
are listed (`Listed`): elsewhere quotes tax what the token does not, and wallets pay the
transfer tax the router does not. And `GuardsHold` has to say one thing more: the token
skips the cooldown of a route's trader where the route has acquired the token already
(`ctx.acquired`, `tax.rs:508`), on the ground that the purchase was checked. A purchase
from an unlisted pair was not, so a route that buys there and goes on through a listed
pair sells in its trader's cooldown. The fourth setting of `tax_routes` lists one pair of
two to have this case.

*Pairs.* Reserves, one fee, the spread limit: no hooks, no book, no discount, which
`PairPool` and `PairFees` have. `given` is history: what strayed to pairs and router
outside of trades.

### How `BlockIngest` follows the code

*Grain.* One action per await. At each the process may die, the SQL statement may
fail, the provider may be away or another poller may run. The read and the upsert
of a counter are one step, since only two writers at once could tell them apart.

| action | code |
|---|---|
| `AcquireLock`, then `SyncPairs`, `BackfillFees`, `HealTraders`, `CheckPositions`, `SnapshotSwaps`, `ReplaySwap` | leadership, the factory's pairs and the repairs at startup |
| `LoadCursor`, `VerifyHeight`, `CompareHash`, `ReadMarker` | the guards before a height |
| `FetchHash`, `FetchTxs`, then per event `DiscoverPair` or `PassOver`, `CheckExists`, `TooLarge`, `InsertRow` or `InsertConflict`, `IngestFee`, `UpdateCandles`, `UpdateTrader`, `UpdatePosition` | one block |
| `Commit`, `ClearFailed` | the checkpoint and the failure marker |
| `Outage`, `LcdError`, `ReadFails`, `WriteFails`, `RepairFails` | what can fail, and the retry policy |
| `Restart`, `LoseSession`, `LeadershipLost`, `Reorg` | crash or shutdown, the lock session, the chain |

*Events left out.* The code does not store every event, and the block is checkpointed
all the same. An event's pair is looked up in the `pairs` table and, if it is not there,
discovered. Discovery stores it (`DiscoverPair`), or an outage, an error of the database
or unusable chain evidence stops the block (`Outage`, `WriteFails`), or
`get_or_discover_pair` gives `Ok(None)` and the event is passed over (`PassOver`). It does
so for a pair that is not a pair or not listed, for the hour such a verdict is
remembered, for an identifier that only names a listing, and for any answer of a
contract of which nothing can be made (`discovery_soft_failure`,
`pair_discovery.rs:359`, `381`, `409-415`). That last case can meet a pair the factory
lists, so `PassOver` is possible for every pair the database does not know; what a
provider says is not modelled beyond that. A new swap whose derived price or reserves
do not fit their columns is passed over too (`TooLarge`, `parser.rs:628-635`,
`705-708`); `Large` are the swaps that may be, since both depend on reserves and
decimals known elsewhere. Amounts that cannot be parsed never become events and are not
in `Block`. The documents record the policy ("the failed event may be omitted",
`docs/indexer-invariants.md:144-147`, and the exception at its line 335).

So the properties speak of the events that must be there, `Indexable`: their values fit,
and their pair was in the database before the block in question. `since` is history for
this: the height as of which a pair entered the table, with nothing stored about it in
the code. A pair found in the middle of a block is known for the blocks after it, since
an earlier event of the same block may have been passed over. A second writer without
the lock may discover a pair at a height the first has already passed; once a lock was
lost the properties are only about `Synced`, the pairs in the database from the start.
`SyncPairs` stores any of the factory's pairs, because failures to list or sync them are
logged and the poller goes on.

*Abstractions.* All swaps are of one trader and one candle, so a projection is a count.
The queue and the budgets in front of discovery only delay a block. Liquidity,
placement and cancellation rows are idempotent inserts like the fills'; amounts, profit and loss, the start block and the lag
behind the newest height are left out. `lost` is history: some lock session was
lost while its poller went on.

*What the model says about the code.* None of this contradicts a document, with one small
exception: `docs/indexer-invariants.md:144-145` says that transient failures of discovery
are skipped softly, where `must_preserve_discovery_error` now turns a provider's outage
into an error that stops the block; only ambiguous answers are still skipped. The model
follows the code.

A crash between a swap's row and its candle leaves the candle short for good,
since only trader totals and positions are rebuilt; the retry policy's stop for
an operator exists for failures that were recorded, not for crashes. Fees are
complete once a startup's backfill has run; until then a lock lost between row
and fee can leave a gap. A reorganisation between the guard and the fetch of the
next block is noticed one height later only if it reaches the parent. Fills have
a unique index but no `ON CONFLICT` clause, so two writers stop each other there.

## 3. What the runs check

| run | instance | properties |
|---|---|---|
| `limit_lists` | one side, two prices, three ids, every live or dead id as hint, walks of 1 or 9 steps, batches of up to 2 | `BookLinked`, `TokensBackEscrow`, `KeepsPromises`, `ClosedForGood`, `MessagesEnd` under all inserts, skips, reprices and withdrawals |
| `limit_match` | both sides, two owners, one of them blacklistable, expiring, dust and unfillable orders, fees, greedy and plain swaps, park cap 1, scan cap 2 | `EscrowIsOwed`, `TokensBackEscrow`, `NoTradeThrough`, `KeepsPromises` |
| `limit_clean` | cleaning with both caps tight and loose, resumed or from the head, a dust floor that moves, expiry, fills, reprices; pause, code ids and blacklist flipped at any time between messages | `CleanLeavesNothing`, `KeepsPromises` |
| `provider_circuit` | three callers, two permits, a bucket of two admissions, backoff and Retry-After up to two ticks | `PermitsCounted`, `OneProbe`, `CountedOnce`, `OnlyProbeCloses`, `CooldownHolds`, `ProbeEnds` |
| `twap_ring` | two slots growing to four, four prices, seven seconds | `ObserveExact`, `SearchBrackets`, `ForgetsOldest` |
| `pool_shares` | two holders, reserves up to 4, a book leg, two hooks, gifts and sweeps, a price too large for the oracle | `Accounted`, `NeverDrained`, `LockedForever`, `ShareWorthKept`, `ObservesFirst` |
| `pair_fees` | a registered trader and a trusted router, a tier to earn and one given, two pairs and a third to be created, two messages around trades and creations, two blocks | `SwapUnharmed`, `RolloutReaches`, `ChargeWasDue`, `OnlyLapsedEvicted` |
| `block_ingest` | two pollers, two blocks of up to two events, a known and an unknown pair, a swap that may not fit, two faults of any kind at any await | `NothingSkipped`, `HashTellsRows`, `CountedAtMostOnce`, `RepairedTotals`, `CatchesUp` |
| `tax_routes` | two wallets, a taxed token between two others on two pairs, five paths, four settings to begin with, one of them with a pair the token does not know, rates of up to 30 %, guards, exemptions, rotations, gifts; two messages, and in every state every route, trade and quote that could come next | `BooksBalance`, `RouteIsItsTrades`, `QuoteKept`, `ReverseExact`, `RefusedForCause`, `GuardsHold` |
| `provider_rate` | two callers, two ticks | `WithinRate` is **violated** |
| `twap_grow` | as `twap_ring`, growth at any time | `SearchBrackets` is **violated** |
| `tax_cooldown` | as `tax_routes` | `OnlyOwnCooldown` is **violated** |

The properties of the book, in words:

* `BookLinked` - between any two steps neighbours point at each other, the first
  order is the head, prices do not improve towards the tail, no row hangs loose
  but the one whose price is being updated.
* `EscrowIsOwed` - pending escrow plus what the running message still has to book
  is exactly what resting and parked orders are owed (the docs' L1).
* `TokensBackEscrow` - the tokens held beyond reserves equal that escrow: refunds,
  maker fees, commissions and payouts add up.
* `NoTradeThrough` - a swap's walk from the head leaves a live order behind only
  if rounding makes at most one more unit of it tradable.
* `CleanLeavesNothing` - a clean from the head left nothing to clean before the
  cursor it reports.
* `ClosedForGood` - an id once paid out never names an order again.
* `KeepsPromises` - every step is one operation of `PriceTimeBook` or invisible.
  This covers time priority at a price whatever hint is given, a repriced order
  going to the end of its new price (L14, L23), who may act when, no fill of
  expired, blacklisted or shut-out orders, and that a failed price update is
  undone without a trace.
* `MessagesEnd` - no loop of a message runs forever.

And of the provider:

* `PermitsCounted` - the counter admission looks at is the number of permits out.
* `OneProbe` - the half-open flag is up exactly while one probe is out; an older
  permit that is dropped meanwhile does not lower it.
* `CountedOnce` - successes, failures, neutral cancellations and unfinished
  attempts together are no more than the attempts: a deadline that strikes while
  a failure waits to be recorded does not make it two.
* `OnlyProbeCloses` - an open circuit closes by the success of its probe only,
  and only if nothing failed since the probe was admitted.
* `CooldownHolds` - while the circuit is open nothing shortens the cooldown.
* `ProbeEnds` - a probe does not stay out for ever.
* `WithinRate` - what was admitted and still can be is at most `Burst` and `Rate`
  per tick. The QA checklist asks for "bounded rate/in-flight work" under
  concurrent callers (`docs/qa/issue-1453/README.md:49`), and the code says that
  attestation "cannot bypass the rate budget" (`provider_pool.rs:125`).

Of the oracle:

* `ObserveExact` - whatever `Observe` answers, by look-up, interpolation or
  extrapolation, is the integral of the closing prices of each second, as long as
  every price fitted: a price made and unmade within a block never shows.
* `SearchBrackets` - the two observations found enclose the time asked for, with
  none stored between them.
* `ForgetsOldest` - a write overwrites nothing but the oldest observation.

Of the pool:

* `Accounted` - the balance of each token is reserves, escrow and gifts, to the
  unit, whatever mixture of book leg, hooks and commission a swap pays.
* `NeverDrained` - a pool with shares has both reserves, so no later deposit can
  pass for the first one.
* `LockedForever` - the first deposit's lock cannot be withdrawn.
* `ShareWorthKept` - no step lowers the product of the reserves per squared supply.
* `ObservesFirst` - every step of the pair is a step of `TwapOracle` or leaves it
  alone: the refinement of the oracle's specification.

Of the fees:

* `ChargeWasDue` - every fee charged, discount and base together, was due to this
  trader through this sender at some moment of the last `TTL` seconds.
* `OnlyLapsedEvicted` - a trade removes only the registration it was answered for,
  lapsed before it and short after it.
* `SwapUnharmed` - a trade that pays out no CL8Y is never refused for the
  deregistration message.
* `RolloutReaches` - every pair behind a rollout's cursor has the value; with no
  page left, a registry is what every pair asks, later ones included.

Of routes:

* `BooksBalance` - after any messages every pair holds its reserves and what was given
  to it, the router what strayed and nothing of a route, and every unit of every
  token is somewhere or burned.
* `RouteIsItsTrades` - a route leaves every account, pool and sink exactly as its
  trader would have by trading with the pairs one after the other.
* `QuoteKept` - the quote, hop by hop, is what the route gets: as minimum and as
  per-hop floors it passes, one unit more in any place is refused for that.
* `ReverseExact` - the budget a reverse quote names is enough and one unit less is
  not, through the floors of fees, taxes and products.
* `RefusedForCause` - while the token trusts the router and knows the pairs, a route
  is refused for what its trader asked or for a guard, never for the router's own
  funding, context, slots or settlement.
* `GuardsHold` - no message leaves a wallet with more than it had and more than the
  cap, and a listed pool of the token moves only while trading is open and for a wallet
  that is marked and was free to trade, or has got the token from a pair that is not
  listed in the same step.
* `OnlyOwnCooldown` - nobody is refused a trade for somebody else's cooldown.

Of ingestion:

* `NothingSkipped` - events are left out by policy alone: every block up to the
  checkpoint has each event stored that fits and whose pair was known before that
  block, and while there was one writer the fees of such swaps. Nothing is promised of
  an event whose pair was still unknown then, or whose price or reserves may not fit.
* `HashTellsRows` - the hash at the checkpoint is that of the branch its rows are
  of, whatever is reorganised between the two fetches; with the same exceptions.
* `CountedAtMostOnce` - while there was one writer no swap is counted twice.
* `RepairedTotals` - a poller whose repairs ran works with totals that agree with
  the swaps stored.
* `CatchesUp` - the tip is reached, or everybody has halted.

**The violations.**

`WithinRate`: `admit` reads the clock before the mutex, and `admit_at` stores
what it was given as `refilled_at` without comparing. In the trace caller 2 reads
tick 0 and is overtaken; caller 1 reads tick 1, refills the bucket, is admitted;
caller 2 gets the mutex, is denied for want of tokens and sets `refilled_at` back
to 0; the next caller at tick 1 refills once more. In production the overshoot
is the delay of the overtaken thread times the rate, so it is small, but it
grows with contention, which is what the budget is there for. Reading the clock
inside `admit_at`, or keeping the later instant, would remove it.

`SearchBrackets` under `GrowsWrapped = TRUE`: anybody may raise the cardinality at
any time. If the ring is full and its newest observation is not in the last
slot, slots 0 to `index` are newer than those after it; the larger ring continues
behind the last slot, and readers take slot 0 for the oldest. The bisection then
runs over slots that are not in order of time: it returns two observations that
do not bracket the time asked for, or refuses times that are stored. The order
comes back once the larger ring has wrapped past those slots.

`OnlyOwnCooldown`: a pair pays its commission with a `Transfer` to its fee treasury.
In the tax token that is a purchase, since it comes from a listed pair and the treasury
is no protocol account (`classify_trade`), so the treasury is asked for its cooldown and
marked like a wallet. In the trace one wallet buys; the next, which never traded, is
refused in the same block. The launch-guard rules say that "two different wallets can
buy or sell in the same block" and that the pair "must never rate-limit a third party"
(`skills/AGENTS_COMMUNITY_TAX_LAUNCH_GUARDS.md:23`). The wallet cap applies to the
treasury in the same way. `RefusedForCause` allows this one cause and no other.

**Bounds and why they suffice.** `MaxId` limits ids ever assigned to 3 (2 in
`limit_clean`). Three orders on a side are a head, a middle and a tail: every
case of the link operations (no neighbour, one, two, and adjacent to the order
just handled) and every outcome of a walk (before the cursor, behind it, on) is
met. Ids are never reused, so the bound also limits the length of a history:
three placements with any number of fills, reprices and withdrawals between.
What needs *many* orders, soundness of lists of any length, is proved instead
(section 4). `MaxTime = 1` has a moment before and one after an expiry. `ONE = 10`
and `DUST = 2` make truncation visible: the price 25 leaves remainders no trade
can use, the legacy rows are unfillable from the start. `MAX_PARKS = 1` and
`MAX_SCAN = 2` or 3 let the caps bind with three orders.

For the provider two permits are the least with which an old attempt and a probe
overlap, and the third caller is the one that is denied or overtakes. Two ticks
let a cooldown of one tick pass, and a Retry-After of two outlast it. `MaxTime`
bounds the attempts as well, since tokens come with time. What holds for any
number of callers is proved.

Seven seconds let the ring fill two slots, wrap, grow to four in order, fill those
and wrap again. The prices 1/3, 1/2 and 1 in half units truncate. In `pool_shares`
reserves of four are enough for every rounding to bite (a withdrawal of one share
pays nothing, a swap of one unit returns nothing) while the state space stays
complete; larger numbers are what the proofs are for. `MaxTime = 1` is one
observation after the first.

For the fees, the trader starts registered (`Starts`), as after messages that ran
before. Two messages besides trades, creations and clock let a rollout start, be
overtaken by a creation, and go on, or a registration lapse and be made anew
between a cached answer and its use. Two blocks are the life of a cache
entry (`TTL = 2`) and the moment after. For routes, two messages are a change of
settings and a route under it, or two routes around a rotation; the invariants try the
third in every state. Paths of one and two hops have every combination of taxed offer
and taxed ask, the continuation of a purchase in the same route included. `BPS = 10`
makes every tax, fee and share truncate at amounts of 4 and 8 in pools of 20, a cap of 7
binds for one wallet and not the other, and a cooldown of two ends in the third block.
The settlement slots beyond the second would need paths of three taxed tokens. For
ingestion, two blocks are a
checkpoint and the block after it. The first has an event of a pair not yet known, which
may be discovered there, so that the swap of that pair in the second must be stored, or
be passed over; on its other branch it has a swap that may not fit. The second branch of
block 2 keeps one swap and gains another, of the pair known from the start, and two
faults allow a crash during the recovery from a crash,
or a lost session followed by a crash of either poller. `MaxRetries = 1` is the
last attempt; the proofs cover any number.

**Fairness.** `WF_vars(TxStep)`: a message that has started is run to its end by
the virtual machine; nothing else is fair. In particular nobody has to send a
message and time need not pass. `MessagesEnd` says that under this alone each
message finishes. In `ProviderPool` the fairness is `WF_vars(Attempt(c))` for each
caller: `timeout_at` with the attempt's own deadline ends every wait for the
upstream, the metadata lock is fair, and a dropped permit runs its destructor.
Nobody needs to ask for admission, and time need not pass. In `BlockIngest` it is
`WF_vars(Work(p))` and `WF_vars(LeadershipLost(p))`: the runtime keeps scheduling a
poller's loop and the heartbeat beside it, and a free lock is asked for twice a
second. No fault has to happen, and none has to stop but by its bound.

**Deadlock** is checked in the runs of the book, the provider, the oracle and
`pool_shares`: settings can always change, somebody can always ask. In the others
the system may stop: pollers may all have halted at the tip or for an operator
(`block_ingest`), and the instance's messages are used up (`pair_fees`, `tax_routes`,
`tax_cooldown`).

Each property of a run has a mutant of the code it must catch, for instance a
neighbour left pointing at an unlinked order, a refund of skipped rungs
forgotten, dust deleted with its order, expiry compared one second late, the
blacklist not asked for makers, a provider asked after a swap's row is written,
shares minted by the more generous side, a cached discount served one second
too long (see `mutants` in `PROJECT.json`; the mutated definitions stand next to
the true ones).

## 4. What is proved

`LimitBookProofs` proves for **every** value of the constants, that is any number
of orders, prices, amounts, fee rates, caps, hints and step limits:

| theorem | states |
|---|---|
| `AlwaysIInv` | `Spec => []IInv` |
| `AlwaysTypeOK` | `Spec => []TypeOK` |
| `AlwaysBookLinked` | `Spec => []BookLinked` |
| `AlwaysInOnePlace` | `Spec => []NeverInBothPlaces` |
| `AlwaysBacked` | `Spec => []TokensBackEscrow` |

Assumptions: `UnitAssumption` (the units and the dust threshold are not zero),
`InputAssumption` (inputs are unsigned, a price is not zero, a fee rate is at
most 100 %), `BoundAssumption`. TLC evaluates them in every run.

None of the last four is inductive alone. The invariant `IInv` has three parts:

* `BookInv`: the types, the two equalities, both lists `Linked`, all ids below
  `nextId`. `Linked` asks for a *rank* that grows along the links; local
  conditions on neighbours would allow a cycle apart from the list, and an
  order unlinked from a two-cycle would break the invariant.
* `TxInv`: the running message. Ids of a batch still to place are unused, and if
  nothing was placed none of its block is, so they may be given back
  (`PlaceOK`); the place a repriced order came from is still free (`RepriceOK`);
  ids still to withdraw are distinct and there (`WithdrawOK`); the cursor of a
  clean or match is a live order (`CursorOK`); payouts so far are the debit so
  far (`MatchOK`).
* `WalkInv`: the insert walk. What the walk knows of the orders around its
  cursor, so that where it stops is a `Slot`, a gap in price order; the thread
  cursor of a batch still names adjacent orders; a walk runs exactly while an
  order waits to be put in.

The argument: `UnlinkLists` and `LinkInLists` show that
closing up over an order, and putting one into a slot, keep lists sound; the
rank of an inserted order is found by doubling all ranks and taking the odd
number next to a neighbour's. One lemma per action then shows that `IInv` is kept
(`ProbeStep` ... `FinishMatchStep`), and `NextIInv` puts them together.
`IInv` was model-checked on the three instances before it was proved, with the
rank drawn from a small range.

The second part of the module goes on from there, under the same assumptions:

| theorem | states |
|---|---|
| `EscrowAlwaysOwed` | `Spec => []EscrowIsOwed`: the pending escrow of a side is what its orders and claims are owed |
| `IdsClosedForGood` | `Spec => ClosedForGood`: the id of an order that was paid out never comes back |
| `CleanNeverMisses` | `Spec => []CleanLeavesNothing`: nothing to clean is left before the cursor of a clean that began at the head |

*What is owed* is a sum over two maps that change. The proof keeps one ledger, id by
id (`LedgerOf`): parking an order moves its amount from one map to the other and
leaves the ledger alone, and every other step changes it at one id at most
(`BesidesStand`), where `DataLemmas` says by how much the sum changes. While a match
or a withdrawal runs, the escrow is still ahead by what its loop has added up and
will book at the end (`Unbooked`). The one thing `IInv` does not give is that the
cursor of a clean or match stays on its side (`OnItsSide`), or the amount taken
from an order would be booked on the other one.

*Spent ids.* A batch that places nothing gives its ids back, so an id below the
counter may come back; `BlockPending` says that then the whole block is still to be
placed, none of it was used, and so none of it was ever paid out.

*Cleaning.* `Reach(i)` is what a walk from `i` along the links comes to, the smallest
set closed under `next`. `Linked` speaks of neighbours only; that a walk from the head
comes to every order (`HeadReachesAll`) takes the rank: among orders not come to, one
with the least rank would have a predecessor the walk does come to. From there, each
iteration leaves at most the visited order behind the cursor, and only if there was
nothing to clean about it.

The third part proves, under the same assumptions, that the book is one that serves
by price and time:

| theorem | states |
|---|---|
| `BookKeepsPromises` | `Spec => KeepsPromises`: the first state is one `PriceTimeBook` begins with, each step is one of its operations or invisible |
| `AlwaysSound` | `Spec => []Promised!Sound`: on each side the service is one total order with better prices first, and the vault is what the orders add up to |

*The mapping.* The promised `ahead` is a set of pairs: `i` is before `j` if the links
lead from `i` to `j` (`Served`). An order whose price update runs is at its old place
still (`Settled`), so detaching it and a failed walk that puts it back are invisible.
The vault is the pending escrow plus what the running message has still to book.

*Links and service.* With sound lists any rank of them serves the same pairs
(`ServedByRank`), so the service does not depend on how one walks. Unlinking takes
away the pairs of the order that leaves (`UnlinkServes`). An order put into a slot
keeps the order of the others (`LinkServes`); if all up to the slot quote no worse a
price, and what follows is worse, it has arrived where price and time say
(`LinkArrives`).

*In the middle of a message.* `IInv` and the ledger are not enough: a message asks the
gates once and acts many steps later, and that a walk stops *behind* its price depends
on the key it carries. `PromInv` says both: the gates a message passed are still open,
for settings and time move between messages only (`GatesHeld`); the key of a repriced
order is the largest, and that of a rung exceeds the id of every resting order of its
price and of every rung placed before it (`LastAtPrice`); what the walk has ahead of it
when it turns back or stops is worse (`WalkInOrder`). One lemma per action then names
its operation: `FillKeepsPromise`, `RelinkKeepsPromise` and so on, and
`StepKeepsPromise` puts them together. `PromInv` was model-checked on the three
instances first.

`ProviderPoolProofs` does the same for any finite set of callers and any policy
(`PolicyAssumption`, which is what `ProviderPolicy::bounded` guarantees):

| theorem | states |
|---|---|
| `AlwaysIInv` | `Spec => []IInv` |
| `AlwaysTypeOK` | `Spec => []TypeOK` |
| `AlwaysPermitsCounted` | `Spec => []PermitsCounted` |
| `AlwaysOneProbe` | `Spec => []OneProbe` |
| `AlwaysCountedOnce` | `Spec => []CountedOnce` |
| `OnlyTheProbeCloses` | `Spec => OnlyProbeCloses` |
| `AlwaysCooldownHolds` | `Spec => CooldownHolds` |

Here the strengthening is small. `Generations` says why the generation of a
permit is enough: one that was granted while the circuit was closed can be fresh
only while it still is, so a fresh permit under an open circuit is the probe. It
also says that a permit which knows of a failure is never neutral, without which
a failure could be counted as a cancellation too. `Past` says that instants read
before the mutex have passed. Steps that move no permit share the lemmas
`OutsideStep` and `InsideStep`; admission, success, failure and release have one
each.

`TwapProofs` proves, for any pools, any cardinality and any growth:

| theorem | states |
|---|---|
| `RingTypes` | exactly the slots counted as initialized are written, and the index is one of them |
| `SumsNeverFall` | `HSpec => []NeverFallsBack`: later observations have sums no smaller |
| `OldestForgotten` | `HSpec => ForgetsOldest`, unless a wrapped ring is grown |
| `SearchAlwaysBrackets` | `HSpec => []SearchBrackets`, unless a wrapped ring is grown |
| `ObserveAlwaysExact` | `HSpec => []ObserveExact`, unless a wrapped ring is grown |

The first two follow from `RingInv`: the shape of the ring, and that the newest
observation has the latest time and the largest sums. For the third `OrderInv` adds
that the slots are sorted by time from the oldest on, and that a ring with unused
slots starts at slot 0. `GrowsWrapped = FALSE` is a hypothesis there, and has to be
(`twap_grow` is the counterexample); the code makes no such promise, it is up to the
governance that sets the cardinality.

The search halves a range of *logical* slots, counted from the oldest. `SlotsInOrder`
turns `OrderInv` from a statement about neighbours into one about any two slots, and
`BisectionFinds` (in `DataLemmas`) gives the last slot at or before the time asked
for, for a ring of any size. For `ObserveExact` the invariant `TruthInv` compares ring
and true integral second by second: what a slot stores is the integral at its time
(`StoredTrue`), between two neighbouring slots the integral grows by the same amount
each second (`SteadyBetween`), so interpolating is exact, and since the latest slot it
has grown at the price of the present reserves (`SinceLatest`), so extrapolating is.
That a swap writes the *old* reserves first is what keeps the last of them.

`PairPoolProofs` proves for any fees, hooks, limits, amounts and holders:

| theorem | states |
|---|---|
| `BalanceAccounted` | `Spec => []Accounted` |
| `PoolNeverDrained` | `Spec => []NeverDrained` |
| `LockStays` | `Spec => []LockedForever` |
| `ShareNeverDiluted` | `Spec => ShareWorthKept` |
| `PairObserves` | `Spec => Twap!Spec`: the pair implements the oracle |

`NeverDrained` is not inductive without the lock: a withdrawal of the whole supply
would empty the pool. `LockedForever` says that it cannot happen, as long as what
is minted stays below the supply; both need the types. The rounding lemmas
(`CeilDiv`, `Portion`, the product after a swap) are stated once, over arbitrary
numbers, and `ShareNeverDiluted` is three of them, one per kind of step.
`PairObserves` shows of the initial states and of every action that they map to
those of `TwapOracle` or to a stutter, and needs `NeverDrained` for `Touch`.

`BlockIngestProofs` proves for any chain, any pollers and any number of faults:

| theorem | states |
|---|---|
| `Invariant` | `Spec => []IInv` |
| `CheckpointSkipsNothing` | `Spec => []NothingSkipped` |
| `CheckpointTellsRows` | `Spec => []HashTellsRows` |
| `NothingCountedTwice` | `Spec => []CountedAtMostOnce` |
| `RepairsRepair` | `Spec => []RepairedTotals` |

`CheckpointSkipsNothing` and `CheckpointTellsRows` are about `Indexable` events, as the
properties are: that the database holds an event nobody could have stored is not claimed.

`IInv` has six parts. `Shape` is the types with each poller's position in its
block. `Mutex`: unless a session was lost, whoever works holds the lock. `Founded`:
while no session was lost, every working poller is at the checkpoint or, between
checkpoint and marker, one behind (`Abreast`), and the pairs of `Synced` count from
height 0 (`Entered`). It is needed because `Indexable` is not constant: a pair that is
discovered makes demands on the blocks after it, and `Founded` says that these have not
been passed yet. So what was complete stays complete (`StoredStays`, `StaysCovered`).
`Storage`: the indexable events before a poller's position are stored, with their fees while there is
one writer, whichever attempt stored them; that is what lets the checkpoint
pass. `Hashes`: a poller's hash is not newer than the branch of its transactions,
so if the chain still serves the hash they are the same. `Counts` says by how much
each projection may lag behind the rows: by one for the swap in hand, by the
swaps a rebuild has yet to replay, and by what an unhealed poller inherited. Each
is kept by each action; sums over sets are avoided, because the cardinality of
the swaps stored grows by one with a new row.

`PairFeesProofs` proves for any wallets, tiers, pairs, settings and messages:

| theorem | states |
|---|---|
| `Invariant` | `Spec => []IInv` |
| `RegistriesReachEveryPair` | `Spec => []RolloutReaches` |
| `TradesAreNotRefused` | `Spec => []SwapUnharmed` |
| `TradesEvictOnlyLapsed` | `Spec => OnlyLapsedEvicted` |
| `ChargesWereDue` | `HSpec => []ChargeWasDue` |

`RolloutReaches` alone is not inductive: a pair created during a rollout is behind
the cursor only in a sense, so `DefaultFollows` adds that the default is the value
being rolled out. `EpochsUnique` says that an epoch names one registration of one
wallet, so an answer for another trader's registration is told by its epoch and
skipped. For the history the invariant is that every cached answer that is still
served is among the answers due when it was stored.

`TaxRoutesProofs` begins with the arithmetic alone, for all reserves, amounts, fees and
rates:

| theorem | states |
|---|---|
| `NoGainByReturning` | swapping the proceeds straight back returns no more than was offered |
| `NoGainBySplitting` | an offer split in two gets no more than in one |
| `InverseExact` | the input computed from a target suffices, one unit less does not, and it is refused only when no input would do |
| `FloorMovesExactly` | a floor moved before a purchase's tax is the same floor |
| `BookCannotHideLoss` | a swap that passes its spread limit lost no more to the book than the limit allows of the whole |
| `SellUsesTheBudget` | a sale found by bisection fits its budget with the tax, and one unit more does not |

All but the last rest on two lemmas, that a quotient rounded down is the largest number
that fits and one rounded up the least that is enough. A
hop reaches a target exactly when it starts with what its reverse computes:
`ProbeFindsRate` and `SellInverse` say so of a sale's tax, `BuyInverse` of a purchase's,
`SwapInverse` of the pool between them.

It goes on with whole messages, for any wallets, tokens and pairs, paths of any length,
amounts, settings, messages in any number and rotations of the router:

| theorem | states |
|---|---|
| `BooksAlwaysBalance` | `Spec => []BooksBalance` |
| `GuardsAlwaysHold` | `Spec => GuardsHold` |
| `QuotesAlwaysReverse` | `Spec => []ReverseExact` |
| `RoutesRefusedForCause` | `Spec => []RefusedForCause` |

Assumptions: `AccountAssumption` (an account is one thing only: a wallet, a pair, the
router, the treasury or the one for commissions) and `RouteAssumption` (amounts are
unsigned, rates at most 100 %, a fee less than that, a pair trades two different tokens,
the pools of the first state are not empty, listed pairs trade the token, taxes go to the
treasury or are burned).

*Why not at once.* Messages are single steps here, so `IInv` has little to add to
`BooksBalance`: the types (`Whole`), sensible settings (`SettingsOK`), and that no route
is under way between messages (`Idle`). The work is inside a step. A route is a chain of
up to four transfers per hop and two at the end, each by another contract's rules, and
the code never sums up what it did. The proof therefore runs along the calls, with one
lemma per call that says what it moves: `TransferMoves` and `DeliverMoves` for the token
(the debit is the credit and what the sinks get: `SharesAddUp`), `PairSwapMoves` for the
pair (it pays out what leaves its reserves), `SendSwapMoves` for a sale, `HopMoves` for a
hop, `SettleMoves` for the settlement.

*Along a route* an invariant over the hops done (`OnRoute`) says what the router has: its
own strays, plus what the last hop brought, plus the refund of the one hop that can leave
one, since a path has the taxed token in one stretch (`ValidPath`). After settlement the
strays are left. `OnWatch` says beside it what the guards have seen: what a refund may
restore is no more than the trader put in, which is why it may pass the cap
(`restore_owned_input`); the trader is marked at the first trade of the token on a listed
pair, and then was free to trade, for it was checked, or an unlisted pair traded before.
That recursive functions of a number of hops exist, which the proofs need to speak of the
state after hop `i`, is shown with `NumberInduction` (`HopsExist`).

*Quotes.* `HopInverse` puts the inverses of the sale's tax, the pool and the purchase's
tax together: a hop yields a target exactly from what its reverse asks for. `QuoteInverse`
carries that over a path, forwards amount by amount and backwards need by need, with
`NumberInduction`; the check a reverse quote ends with, simulating its own answer, then
never refuses anything. A path that visits a pair twice is quoted as if the pair had not
moved, so the run and `QuoteKept` leave such paths out; the reverse of the *quote* is
exact there too.

*Refusals.* That a cause never arises asks for more than that the books balance. `RInv`
adds to `IInv` that nobody takes back a gift, so that a pair can pay from its reserves and
the router is never short (`Solvent`), and that the slots spent so far are of routes begun
before (`Behind`), which a rotation must not undo: the new router starts at a floor. Along
a route `OnTrack` says that its context is its own, no slot of it is spent and its refund
will be restored, not checked. Each transfer is refused only for the causes of its kind
(`HopOpens`, `DeliverRefused`): a hop for a guard, a spread or an output of nothing, the
settlement (`SettleRefused`) for a wallet's cap where the path acquires the token, and for
nothing else. A path the code does not take names the taxed token twice; the run's one such
path leads from the token back to it.

*A finding.* The first `GuardsHold` said that every trade on a listed pair is by a wallet
that was free to. The step `i > 1` of `HopWatched` could not be proved: what the route has
acquired need not have been checked. TLC then found the route, with the fourth setting,
that section 2 describes under "Pairs the token does not know".

`DataLemmas` carries the sums, searches and smallest sets of the modules above. Induction with an operator as a
parameter is out of the provers' reach, but the library also has well-foundedness of
the numbers as a fact about sets, without operators. From it come a least number, an
induction principle for sets of numbers (`NumberInduction`), a smallest member of any
collection of subsets of a finite set (`SmallestSubset`), what adding, moving or
changing one entry does to a sum, and that the recursive function of a search by
halves exists (`BisectionExists`) and finds the last number of an initial segment
(`BisectionFinds`). For this the searches of `TwapOracle` and `RouteTax` are recursive
functions of one range `<<lo, hi>>`, and the sums of `LimitBook` are the community
modules' `SumFunctionOnSet`.

Only model-checked, not proved: `NoTradeThrough`, which is stated for the prices
of the instances (at other prices rounding may leave more than one unit tradable);
`RouteIsItsTrades` and `QuoteKept`, which compare two routes, or a route and a quote;
and the liveness properties `MessagesEnd`, `ProbeEnds` and `CatchesUp` (liveness is out of the prover's reach).

## 5. What is not modelled

* **Router**: unwrapping through the wrap mapper, hybrid and greedy legs of a hop, the
  reverse query's budget, deadlines, the blacklist gate, which `LimitBook` has for the
  pair, the older hook, which refuses taxed tokens, and how a token's capability is
  found out.
* **Community tax token**: allowances, minting and burning, the invoices settings are
  paid with and the limits on rates, adoption of foreign tokens, sinks that are pairs or
  the router, and liquidity of taxed pairs. The **auto-LP** skim and the **launcher**,
  which build on it.
* **Bridge debt** and its token: a ledger of its own with limits per epoch, on which
  nothing of the exchange depends.
* **Hooks**: they forward one amount; what they take is an input of `PairPool`.
  **Faucet**: test network only.
* **Chain client**: the choice among providers, the paced ingestion lanes, and
  admission to pair discovery with its cache of refusals; what discovery answers is in
  `BlockIngest`. Their use of permits is in `ProviderPool`.
* **Book snapshots and local quotes**: caches in memory over stored rows and chain
  observations, rebuilt from them; the arithmetic of the quotes is `PoolMath`'s and
  the book's. **API and statistics**: read-only.
* **Front end, scripts, deployment**: they hold no state others rely on.
* Everywhere: gas, event texts, JSON encodings, logging.

What would come next: the composition of `LimitBook` with `PairPool` in one state
machine instead of by the interface of `escrow`, the proof that a
route is its trades, and local quotes as observers of late and reordered chain
answers.
