----------------------------- MODULE LimitBook -----------------------------
(***************************************************************************)
(* The limit order book of the pair contract: two doubly linked price-time *)
(* lists (bids and asks) kept in contract storage, the escrow that backs   *)
(* them, and the parked orders waiting for their owner's claim.            *)
(*                                                                         *)
(* A contract message runs alone and its loops (insert walk, match walk,   *)
(* clean walk, batch loops) advance one iteration per step here; tx holds  *)
(* the loop's local variables and every other message waits for tx to be   *)
(* idle.  A message that ends in Err leaves storage as it was, so it is no *)
(* step, except where the error shows only after writes: those are undone. *)
(*                                                                         *)
(* Ids start at 1; 0 stands for None (no neighbour, no expiry, no hint).   *)
(* A bid escrows token1 and an ask token0, so one side names one token.    *)
(* Prices are fixed-point multiples of 1/ONE, as cosmwasm's Decimal.       *)
(***************************************************************************)
EXTENDS Integers, Sequences, FiniteSets, FiniteSetsExt

CONSTANTS
  Owners,        \* wallets that place orders
  PairKey,       \* stands for the pair and its tokens on the blacklist
  ONE,           \* Decimal::one() in atomics
  BPS,           \* 10000 in the code
  DUST,          \* LIMIT_ORDER_DUST_FLUSH_THRESHOLD
  MAX_PARKS,     \* MAX_EXPIRED_PARKS_PER_SWAP
  MAX_SCAN,      \* MAX_SCAN_STEPS
  \* inputs the messages are tried with
  Offers,        \* rungs: [side, price, amount, expires]
  Hints,         \* client-supplied order ids, 0 for none
  StepCaps,      \* max_adjust_steps after min(MAX_ADJUST_STEPS_HARD_CAP)
  RepricePrices, \* new prices of UpdateLimitOrderPrice
  FeeRates,      \* effective fee bps after a possible discount
  Budgets,       \* book legs of swaps, in the offer token
  MakerCaps,     \* max_maker_fills after min(MAX_MAKER_FILLS_HARD_CAP)
  Pools,         \* greedy pool snapshots [rin, rout]; rin = 0 is not greedy
  CleanCaps,     \* pairs <<max_orders, max_steps>> of CleanLimitBook
  CleanMins,     \* governance dust floors, one value per side
  RungCaps,      \* max_batch_rungs settings
  Legacy,        \* rows an older version of the contract may have left behind
  Switches,      \* which of {"pause", "code ids"} the environment flips
  Blacklistable, \* subset of Owners and PairKey the factory may list
  \* bounds of the model
  MaxId, MaxTime

Sides == {"bid", "ask"}
Rung == [side : Sides, price : Nat \ {0}, amount : Nat, expires : Nat]

\* Decimal::one(), the basis of the fee rates and the dust threshold are not 0.
ASSUME UnitAssumption ==
  ONE \in Nat \ {0} /\ BPS \in Nat \ {0} /\ DUST \in Nat \ {0}

\* Inputs are unsigned; a zero price is refused, and never was on the book.
ASSUME InputAssumption ==
  /\ Offers \subseteq Rung /\ Legacy \subseteq {r \in Rung : r.amount > 0}
  /\ Hints \subseteq Nat /\ StepCaps \subseteq Nat /\ RungCaps \subseteq Nat
  /\ RepricePrices \subseteq Nat \ {0} /\ FeeRates \subseteq 0 .. BPS
  /\ Budgets \subseteq Nat /\ MakerCaps \subseteq Nat
  /\ Pools \subseteq [rin : Nat, rout : Nat]
  /\ CleanCaps \subseteq Nat \X Nat /\ CleanMins \subseteq Nat

ASSUME BoundAssumption ==
  MAX_PARKS \in Nat /\ MAX_SCAN \in Nat /\ MaxId \in Nat \ {0} /\ MaxTime \in Nat

Links == 0 .. MaxId
Ids == 1 .. MaxId

(***************************************************************************)
(* Fixed-point arithmetic of the walker (checked_div and checked_mul_floor *)
(* of Decimal truncate).                                                   *)
(***************************************************************************)
MulFloor(amount, factor) == (amount * factor) \div ONE
PriceInverse(price) == (ONE * ONE) \div price

Better(s, p, q) == IF s = "bid" THEN p > q ELSE p < q

BeforeOrEqual(s, p, i, q, j) == ~Better(s, q, p)  \* mutant: ids ignored
\* Key (p, i) sits closer to the head than key (q, j).
Before(s, p, i, q, j) == Better(s, p, q) \/ (p = q /\ i < j)

\* RELINK_EQUAL_PRICE_SORT_ID: above every id that is ever assigned.
SortLast == MaxId + 1

BidCapacity(rem, p) == MulFloor(rem, PriceInverse(p))

Fillable(s, rem, p) ==
  /\ rem > 0 /\ PriceInverse(p) > 0
  /\ \/ s = "ask" /\ rem * p >= ONE
     \/ /\ s = "bid"
        /\ BidCapacity(rem, p) > 0
        /\ MulFloor(BidCapacity(rem, p), p) \in 1 .. rem

MakerFee(amount, bps) == (amount * (bps \div 2)) \div BPS
TakerBps(bps) == bps - (bps \div 2)

VARIABLES
  orders,       \* ORDERS: id -> record, the resting orders
  head,         \* HEAD_BID, HEAD_ASK
  nextId,       \* ORDER_NEXT_ID
  claims,       \* EXPIRED_LIMIT_CLAIMS: id -> record, the parked orders
  escrow,       \* PENDING_ESCROW_TOKEN1 (bid) and _TOKEN0 (ask)
  tokens,       \* the pair's balance of the side's token beyond its reserves
  now,          \* block time
  paused,       \* PAUSED
  drifted,      \* a live asset code id differs from its pin
  blacklisted,  \* the factory's trading blacklist
  minRemaining, \* LIMIT_CLEAN_CONFIG
  maxRungs,     \* LIMIT_ORDER_CONFIG.max_batch_rungs
  tx,           \* the running message and its locals
  ins           \* locals of the insert walk, when one runs

vars == <<orders, head, nextId, claims, escrow, tokens, now, paused, drifted,
          blacklisted, minRemaining, maxRungs, tx, ins>>
book == <<orders, head>>
money == <<escrow, tokens>>
config == <<now, paused, drifted, blacklisted, minRemaining, maxRungs>>


Idle == [op |-> "idle"]
NoWalk == [phase |-> "none"]
NoCursor == [after |-> 0, next |-> 0]

NoEscrow == [s \in Sides |-> 0]
NoHead == [s \in Sides |-> 0]

\* Rows placed before fillability was checked at placement may still rest.
LegacyBook(o, r) ==
  /\ orders = [i \in {1} |-> [owner |-> o, side |-> r.side, price |-> r.price,
                 remaining |-> r.amount, expires |-> r.expires,
                 prev |-> 0, next |-> 0]]
  /\ head = [NoHead EXCEPT ![r.side] = 1] /\ nextId = 2
  /\ escrow = [NoEscrow EXCEPT ![r.side] = r.amount]

EmptyBook == orders = <<>> /\ head = NoHead /\ nextId = 1 /\ escrow = NoEscrow

Init ==
  /\ EmptyBook \/ \E o \in Owners, r \in Legacy : LegacyBook(o, r)
  /\ claims = <<>> /\ tokens = escrow
  /\ now = 0 /\ paused = FALSE /\ drifted = FALSE /\ blacklisted = {}
  /\ minRemaining = [s \in Sides |-> 0]
  /\ maxRungs \in RungCaps
  /\ tx = Idle /\ ins = NoWalk

(***************************************************************************)
(* The gates of the execute dispatcher.                                    *)
(***************************************************************************)
Writable == ~paused /\ ~drifted
MayTradeUnlisted(who) == Writable                 \* mutant: no blacklist
MayTrade(who) == Writable /\ {who, PairKey} \cap blacklisted = {}

(***************************************************************************)
(* The two lists.                                                          *)
(***************************************************************************)
LinkIn(os, id, rec, p, n) ==
  [i \in DOMAIN os \cup {id} |->
     IF i = id THEN [rec EXCEPT !.prev = p, !.next = n]
     ELSE IF i = p THEN [os[i] EXCEPT !.next = id]
     ELSE IF i = n THEN [os[i] EXCEPT !.prev = id]
     ELSE os[i]]

HeadAfterLink(hs, s, id, p) == IF p = 0 THEN [hs EXCEPT ![s] = id] ELSE hs

\* Mutant: the next order keeps pointing back at id.
BypassForwardOnly(os, id) ==
  [i \in DOMAIN os |-> IF i = os[id].prev THEN [os[i] EXCEPT !.next = os[id].next]
                       ELSE os[i]]
\* The neighbours of id close up; its own row is untouched.
Bypass(os, id) ==
  [i \in DOMAIN os |->
     IF i = os[id].prev THEN [os[i] EXCEPT !.next = os[id].next]
     ELSE IF i = os[id].next THEN [os[i] EXCEPT !.prev = os[id].prev]
     ELSE os[i]]

Unlink(os, id) == [i \in DOMAIN os \ {id} |-> Bypass(os, id)[i]]

Detach(os, id) == [Bypass(os, id) EXCEPT ![id].prev = 0, ![id].next = 0]

HeadAfterUnlink(hs, os, id) ==
  IF hs[os[id].side] = id THEN [hs EXCEPT ![os[id].side] = os[id].next] ELSE hs

\* park_limit_order_for_clean: row os[id] leaves the book for the claims.
Park(os, id, reason) ==
  /\ id \notin DOMAIN claims
  /\ orders' = Unlink(os, id)
  /\ head' = HeadAfterUnlink(head, os, id)
  /\ claims' = [i \in DOMAIN claims \cup {id} |->
       IF i = id THEN [owner |-> os[id].owner, side |-> os[id].side,
                       remaining |-> os[id].remaining, reason |-> reason]
       ELSE claims[i]]

OnSide(i, s) == i \in DOMAIN orders /\ orders[i].side = s

\* book_start_hint and start_hint: used when live on the side, else the head.
StartAt(hint, s) == IF OnSide(hint, s) THEN hint ELSE head[s]

Expired(o) == o.expires # 0 /\ now >= o.expires

(***************************************************************************)
(* find_insert_bid and find_insert_ask.  A cursor left by the previous rung*)
(* is tried first, then the hint, then a bounded walk: from the head, from *)
(* the hint's successor, or back from the hint.                            *)
(***************************************************************************)
BeginWalk(s, price, sort, hint, max, cursor) ==
  ins' = [phase |-> "probe", side |-> s, price |-> price, sort |-> sort,
          hint |-> IF hint = 0 THEN cursor.after ELSE hint, max |-> max,
          cursor |-> cursor, cur |-> 0, steps |-> 0, prev |-> 0, next |-> 0]

NewBefore(i) == Before(ins.side, ins.price, ins.sort, orders[i].price, i)
NewAfter(i) == Before(ins.side, orders[i].price, i, ins.price, ins.sort)

Found(p, n) == ins' = [ins EXCEPT !.phase = "found", !.prev = p, !.next = n]
Walk(dir, from, steps) ==
  ins' = [ins EXCEPT !.phase = dir, !.cur = from, !.steps = steps]

CursorFits ==
  /\ ins.cursor.after # 0
  /\ NewAfter(ins.cursor.after)
  /\ ins.cursor.next # 0 => NewBefore(ins.cursor.next)

\* try_insert_after_hint: on this side and linked in (a detached row is not).
HintUsable ==
  /\ ins.hint # 0 /\ OnSide(ins.hint, ins.side)
  /\ orders[ins.hint].prev # 0 \/ head[ins.side] = ins.hint

TryHint(h, n) ==
  \/ ~NewAfter(h) /\ Walk("back", h, 1)
  \/ NewAfter(h) /\ n = 0 /\ Found(h, 0)
  \/ NewAfter(h) /\ n # 0 /\ NewBefore(n) /\ Found(h, n)
  \/ NewAfter(h) /\ n # 0 /\ ~NewBefore(n) /\ Walk("forward", n, 2)

Probe ==
  /\ ins.phase = "probe"
  /\ \/ head[ins.side] = 0 /\ Found(0, 0)
     \/ /\ head[ins.side] # 0 /\ CursorFits
        /\ Found(ins.cursor.after, ins.cursor.next)
     \/ /\ head[ins.side] # 0 /\ ~CursorFits /\ HintUsable
        /\ TryHint(ins.hint, orders[ins.hint].next)
     \/ /\ head[ins.side] # 0 /\ ~CursorFits /\ ~HintUsable
        /\ Walk("forward", head[ins.side], IF ins.hint = 0 THEN 0 ELSE 1)
  /\ UNCHANGED <<book, nextId, claims, money, config, tx>>

StepsExceeded == ins' = [ins EXCEPT !.phase = "exceeded"]

WalkForward ==
  /\ ins.phase = "forward"
  /\ \/ ins.cur = 0 /\ Found(ins.prev, 0)
     \/ ins.cur # 0 /\ ins.steps >= ins.max /\ StepsExceeded
     \/ /\ ins.cur # 0 /\ ins.steps < ins.max
        /\ IF NewBefore(ins.cur)
           THEN Found(orders[ins.cur].prev, ins.cur)
           ELSE ins' = [ins EXCEPT !.prev = ins.cur, !.steps = @ + 1,
                                   !.cur = orders[ins.cur].next]
  /\ UNCHANGED <<book, nextId, claims, money, config, tx>>

WalkBack ==
  /\ ins.phase = "back"
  /\ LET p == orders[ins.cur].prev IN
     \/ ins.steps >= ins.max /\ StepsExceeded
     \/ /\ ins.steps < ins.max
        /\ IF p = 0 \/ NewAfter(p)
           THEN Found(p, ins.cur)
           ELSE ins' = [ins EXCEPT !.cur = p, !.steps = @ + 1]
  /\ UNCHANGED <<book, nextId, claims, money, config, tx>>

(***************************************************************************)
(* PlaceLimitOrderBatch (a ladder expands to one).  The block of ids is    *)
(* reserved in input order and the rungs are inserted in book order.       *)
(***************************************************************************)
ForBook(r, bps) == r.amount - MakerFee(r.amount, bps)

ValidRung(r, bps) ==
  /\ r.expires = 0 \/ r.expires > now
  /\ ForBook(r, bps) > 0 /\ ForBook(r, bps) >= DUST
  /\ Fillable(r.side, ForBook(r, bps), r.price)

\* The rungs with their reserved ids, sorted by book_order_cmp; rank[k] is the
\* input position of the k-th rung in book order.
Plan(input, rank) ==
  [k \in DOMAIN input |-> [id |-> nextId + rank[k] - 1, rung |-> input[rank[k]]]]

InBookOrder(s, plan) ==
  \A j, k \in DOMAIN plan : j < k =>
    Before(s, plan[j].rung.price, plan[j].id, plan[k].rung.price, plan[k].id)

BeginRung(s, plan, k, cursor) ==
  IF k > Len(plan) THEN ins' = NoWalk
  ELSE BeginWalk(s, plan[k].rung.price, plan[k].id, plan[k].rung.hint,
                 plan[k].rung.max, cursor)

\* The cw20 amount that came with the message: a checked sum over the rungs.
Sent(input) == MapThenSumSet(LAMBDA k : input[k].amount, DOMAIN input)

\* reserve_order_id_block
Reserved(n) == nextId + n

PlaceBatch(o, s, input, rank, bps) ==
  /\ tx = Idle /\ MayTrade(o) /\ Len(input) \in 1 .. maxRungs
  /\ nextId + Len(input) - 1 <= MaxId
  /\ Sent(input) \in Nat
  /\ \A k \in DOMAIN input : input[k].side = s /\ ValidRung(input[k], bps)
  /\ InBookOrder(s, Plan(input, rank))
  /\ nextId' = Reserved(Len(input))
  /\ tx' = [op |-> "place", owner |-> o, side |-> s, bps |-> bps,
            plan |-> Plan(input, rank), k |-> 1, cursor |-> NoCursor,
            sent |-> Sent(input), gross |-> 0, fees |-> 0, resting |-> 0]
  /\ BeginRung(s, Plan(input, rank), 1, NoCursor)
  /\ UNCHANGED <<book, claims, money, config>>

NextRung(cursor) == BeginRung(tx.side, tx.plan, tx.k + 1, cursor)

\* insert_bid_with_id_for_batch and insert_ask_with_id_for_batch: save and link.
PlaceRung ==
  /\ tx.op = "place" /\ ins.phase = "found"
  /\ LET id == tx.plan[tx.k].id
         r == tx.plan[tx.k].rung
         rec == [owner |-> tx.owner, side |-> tx.side, price |-> r.price,
                 remaining |-> ForBook(r, tx.bps), expires |-> r.expires,
                 prev |-> 0, next |-> 0]
         cursor == [after |-> id, next |-> ins.next] IN
     /\ orders' = LinkIn(orders, id, rec, ins.prev, ins.next)
     /\ head' = HeadAfterLink(head, tx.side, id, ins.prev)
     /\ tx' = [tx EXCEPT !.k = @ + 1, !.cursor = cursor,
                         !.gross = @ + r.amount,
                         !.fees = @ + MakerFee(r.amount, tx.bps),
                         !.resting = @ + ForBook(r, tx.bps)]
     /\ NextRung(cursor)
  /\ UNCHANGED <<nextId, claims, money, config>>

\* Mutant: the loop meets the skipped rung again.
SkipRungAgain ==
  /\ tx.op = "place" /\ ins.phase = "exceeded"
  /\ BeginRung(tx.side, tx.plan, tx.k, tx.cursor)
  /\ UNCHANGED <<book, nextId, claims, money, config, tx>>

SkipRung ==
  /\ tx.op = "place" /\ ins.phase = "exceeded"
  /\ tx' = [tx EXCEPT !.k = @ + 1]
  /\ NextRung(tx.cursor)
  /\ UNCHANGED <<book, nextId, claims, money, config>>

RefundNothing == 0                                \* mutant: skipped rungs kept
Refund == tx.sent - tx.gross

\* Mutant: the next id is recounted from the rows still in storage.
FinishPlaceRecount ==
  /\ tx.op = "place" /\ tx.k > Len(tx.plan)
  /\ nextId' = Max(DOMAIN orders \cup DOMAIN claims \cup {0}) + 1
  /\ IF tx.resting = 0
     THEN UNCHANGED money
     ELSE /\ escrow' = [escrow EXCEPT ![tx.side] = @ + tx.resting]
          /\ tokens' = [tokens EXCEPT ![tx.side] = @ + tx.sent - Refund - tx.fees]
  /\ tx' = Idle
  /\ UNCHANGED <<book, claims, config, ins>>

\* The sender paid every rung's amount: the skipped ones are refunded and the
\* maker fees go to the treasury.  No rung placed reverts the whole message.
FinishPlace ==
  /\ tx.op = "place" /\ tx.k > Len(tx.plan)
  /\ IF tx.resting = 0
     THEN nextId' = nextId - Len(tx.plan) /\ UNCHANGED money
     ELSE /\ escrow' = [escrow EXCEPT ![tx.side] = @ + tx.resting]
          /\ tokens' = [tokens EXCEPT ![tx.side] = @ + tx.sent - Refund - tx.fees]
          /\ UNCHANGED nextId
  /\ tx' = Idle
  /\ UNCHANGED <<book, claims, config, ins>>

(***************************************************************************)
(* UpdateLimitOrderPrice: detach, then insert behind the orders already    *)
(* quoting the new price.  An insert walk out of steps reverts.            *)
(***************************************************************************)
UpdatePrice(id, price, hint, max) ==
  /\ tx = Idle /\ id \in DOMAIN orders
  /\ MayTrade(orders[id].owner) /\ ~Expired(orders[id])
  /\ Fillable(orders[id].side, orders[id].remaining, price)
  /\ orders[id].price # price
  /\ tx' = [op |-> "reprice", id |-> id, price |-> price, old |-> orders[id]]
  /\ orders' = Detach(orders, id)
  /\ head' = HeadAfterUnlink(head, orders, id)
  /\ BeginWalk(orders[id].side, price, SortLast, hint, max, NoCursor)
  /\ UNCHANGED <<nextId, claims, money, config>>

Relink ==
  /\ tx.op = "reprice" /\ ins.phase = "found"
  /\ orders' = LinkIn(orders, tx.id, [tx.old EXCEPT !.price = tx.price],
                      ins.prev, ins.next)
  /\ head' = HeadAfterLink(head, tx.old.side, tx.id, ins.prev)
  /\ tx' = Idle /\ ins' = NoWalk
  /\ UNCHANGED <<nextId, claims, money, config>>

\* The rollback puts the row and its neighbours' links back.
RevertUpdatePrice ==
  /\ tx.op = "reprice" /\ ins.phase = "exceeded"
  /\ orders' = LinkIn(orders, tx.id, tx.old, tx.old.prev, tx.old.next)
  /\ head' = HeadAfterLink(head, tx.old.side, tx.id, tx.old.prev)
  /\ tx' = Idle /\ ins' = NoWalk
  /\ UNCHANGED <<nextId, claims, money, config>>

(***************************************************************************)
(* CancelLimitOrder(s) and ClaimExpiredLimitOrder(s): all or nothing, one  *)
(* owner, no id twice; escrow is debited once per side at the end.         *)
(***************************************************************************)
Withdraw(op, rows, o, ids) ==
  /\ tx = Idle /\ MayTrade(o)
  /\ Len(ids) \in 1 .. maxRungs
  /\ \A j, k \in DOMAIN ids : j # k => ids[j] # ids[k]
  /\ \A k \in DOMAIN ids : ids[k] \in DOMAIN rows /\ rows[ids[k]].owner = o
  /\ tx' = [op |-> op, todo |-> ids, refund |-> [s \in Sides |-> 0]]
  /\ UNCHANGED <<book, nextId, claims, money, config, ins>>

Cancel(o, ids) == Withdraw("cancel", orders, o, ids)
Claim(o, ids) == Withdraw("claim", claims, o, ids)

Refunded(row) ==
  tx' = [tx EXCEPT !.todo = Tail(@), !.refund[row.side] = @ + row.remaining]

CancelOne ==
  /\ tx.op = "cancel" /\ tx.todo # <<>>
  /\ LET id == Head(tx.todo) IN
     /\ Refunded(orders[id])
     /\ orders' = Unlink(orders, id)
     /\ head' = HeadAfterUnlink(head, orders, id)
  /\ UNCHANGED <<nextId, claims, money, config, ins>>

ClaimOne ==
  /\ tx.op = "claim" /\ tx.todo # <<>>
  /\ LET id == Head(tx.todo) IN
     /\ Refunded(claims[id])
     /\ claims' = [i \in DOMAIN claims \ {id} |-> claims[i]]
  /\ UNCHANGED <<book, nextId, money, config, ins>>

FinishWithdraw ==
  /\ tx.op \in {"cancel", "claim"} /\ tx.todo = <<>>
  /\ \A s \in Sides : escrow[s] >= tx.refund[s]
  /\ escrow' = [s \in Sides |-> escrow[s] - tx.refund[s]]
  /\ tokens' = [s \in Sides |-> tokens[s] - tx.refund[s]]
  /\ tx' = Idle
  /\ UNCHANGED <<book, nextId, claims, config, ins>>

(***************************************************************************)
(* CleanLimitBook: anyone parks expired, unfillable and sub-floor orders   *)
(* from the head or a hint on, within two caps.  It ends at tx.cur, which  *)
(* is the resume cursor it reports (0: the end of the book).               *)
(***************************************************************************)
CleanReason(o) ==
  IF Expired(o) THEN "expired"
  ELSE IF ~Fillable(o.side, o.remaining, o.price) THEN "unfillable"
  ELSE IF o.remaining < minRemaining[o.side] THEN "force_cleaned"
  ELSE "none"

CleanBook(s, caps, hint) ==
  /\ tx = Idle /\ Writable
  /\ tx' = [op |-> "clean", side |-> s, cur |-> StartAt(hint, s), cleaned |-> 0,
            steps |-> 0, caps |-> caps, whole |-> StartAt(hint, s) = head[s]]
  /\ UNCHANGED <<book, nextId, claims, money, config, ins>>

CleanOn == tx.cur # 0 /\ tx.cleaned < tx.caps[1] /\ tx.steps < tx.caps[2]

\* Mutant: steps over the order after o.
PassedTwice(o) ==
  [tx EXCEPT !.cur = IF o.next = 0 THEN 0 ELSE orders[o.next].next, !.steps = @ + 1]
Passed(o) == [tx EXCEPT !.cur = o.next, !.steps = @ + 1]

CleanVisit ==
  /\ tx.op = "clean" /\ CleanOn
  /\ LET o == orders[tx.cur] IN
     \/ /\ CleanReason(o) # "none"
        /\ Park(orders, tx.cur, CleanReason(o))
        /\ tx' = [Passed(o) EXCEPT !.cleaned = @ + 1]
     \/ /\ CleanReason(o) = "none"
        /\ tx' = Passed(o)
        /\ UNCHANGED <<book, claims>>
  /\ UNCHANGED <<nextId, money, config, ins>>

FinishClean ==
  /\ tx.op = "clean" /\ ~CleanOn
  /\ tx' = Idle
  /\ UNCHANGED <<book, nextId, claims, money, config, ins>>

(***************************************************************************)
(* The book leg of a swap: match_bids and match_asks.  The taker offers    *)
(* token0 to bids and token1 to asks; fill is in token0, cost in token1.   *)
(***************************************************************************)
\* The largest token0 amount at most n with MulFloor(amount, p) <= limit, where
\* the code's loop that takes one off until the cost fits ends up.
Affordable(n, p, limit) ==
  LET most == ((limit + 1) * ONE - 1) \div p IN IF n < most THEN n ELSE most

\* What a taker with budget left gets from order o: token0 and token1 moved.
Trade(o, left) ==
  LET cap == BidCapacity(IF o.side = "bid" THEN o.remaining ELSE left, o.price)
      most == IF o.side = "bid" THEN left ELSE o.remaining
      fill == Affordable(IF cap < most THEN cap ELSE most, o.price,
                         IF o.side = "bid" THEN o.remaining ELSE left) IN
  [fill |-> fill, cost |-> MulFloor(fill, o.price)]

Tradable(o, left) == Trade(o, left).fill > 0 /\ Trade(o, left).cost > 0

\* bid_beats_residual_pool and ask_beats_residual_pool: the maker's rate after
\* taker commission against the pool's spot after the full fee.
BeatsPool(o, pool, bps) ==
  LET keep(b) == ((BPS - b) * ONE) \div BPS
      rate == IF o.side = "bid" THEN o.price ELSE PriceInverse(o.price)
      spot == (pool.rout * ONE) \div pool.rin IN
  pool.rin # 0 =>
    MulFloor(rate, keep(TakerBps(bps))) > MulFloor(spot, keep(bps))

MatchBook(s, budget, makerCap, hint, bps, pool) ==
  /\ tx = Idle /\ MayTrade(PairKey)
  /\ tx' = [op |-> "match", side |-> s, cur |-> StartAt(hint, s),
            left |-> budget, used |-> 0, cap |-> makerCap, parks |-> 0,
            scans |-> 0, bps |-> bps, pool |-> pool, debit |-> 0, net |-> 0,
            fees |-> 0, whole |-> StartAt(hint, s) = head[s]]
  /\ UNCHANGED <<book, nextId, claims, money, config, ins>>

\* Mutant: the blacklist is not asked for makers.
DeadReasonUnlisted(o) ==
  IF Expired(o) THEN "expired"
  ELSE IF ~Fillable(o.side, o.remaining, o.price) THEN "unfillable" ELSE "none"

\* Why a resting order is passed over: it is no longer there for takers.
DeadReason(o) ==
  IF Expired(o) THEN "expired"
  ELSE IF o.owner \in blacklisted THEN "blacklisted"
  ELSE IF ~Fillable(o.side, o.remaining, o.price) THEN "unfillable"
  ELSE "none"

MatchOn == tx.cur # 0 /\ tx.used < tx.cap /\ tx.scans < MAX_SCAN

\* Mutant: steps over the order after o.
AdvanceTwice(o) ==
  [tx EXCEPT !.cur = IF o.next = 0 THEN 0 ELSE orders[o.next].next, !.scans = @ + 1]
Advance(o) == [tx EXCEPT !.cur = o.next, !.scans = @ + 1]

MatchDead ==
  /\ tx.op = "match" /\ MatchOn
  /\ LET o == orders[tx.cur] IN
     /\ DeadReason(o) # "none"
     /\ \/ /\ tx.parks < MAX_PARKS
           /\ Park(orders, tx.cur, DeadReason(o))
           /\ tx' = [Advance(o) EXCEPT !.parks = @ + 1]
        \/ /\ tx.parks = MAX_PARKS
           /\ tx' = Advance(o)
           /\ UNCHANGED <<book, claims>>
  /\ UNCHANGED <<nextId, money, config, ins>>

\* Mutant: dust is deleted with the order.
FinalizeDropsDust(id, rem) ==
  LET os == [orders EXCEPT ![id].remaining = rem] IN
  \/ /\ rem \in 0 .. DUST - 1
     /\ orders' = Unlink(os, id) /\ head' = HeadAfterUnlink(head, os, id)
     /\ UNCHANGED claims
  \/ rem >= DUST /\ orders' = os /\ UNCHANGED <<head, claims>>

\* finalize_order_after_fill: a spent order goes, dust or an unfillable rest is
\* parked (outside the park cap), anything else stays.
Finalize(id, rem) ==
  LET os == [orders EXCEPT ![id].remaining = rem] IN
  \/ /\ rem = 0
     /\ orders' = Unlink(os, id) /\ head' = HeadAfterUnlink(head, os, id)
     /\ UNCHANGED claims
  \/ /\ rem \in 1 .. DUST - 1
     /\ Park(os, id, "dust_filled")
  \/ /\ rem >= DUST /\ ~Fillable(os[id].side, rem, os[id].price)
     /\ Park(os, id, "unfillable")
  \/ /\ rem >= DUST /\ Fillable(os[id].side, rem, os[id].price)
     /\ orders' = os /\ UNCHANGED <<head, claims>>

MatchFill ==
  /\ tx.op = "match" /\ MatchOn
  /\ LET o == orders[tx.cur]
         t == Trade(o, tx.left)
         out == IF o.side = "bid" THEN t.cost ELSE t.fill
         in == IF o.side = "bid" THEN t.fill ELSE t.cost
         commission == (out * TakerBps(tx.bps)) \div BPS IN
     /\ DeadReason(o) = "none" /\ tx.left > 0 /\ Tradable(o, tx.left)
     /\ BeatsPool(o, tx.pool, tx.bps)
     /\ Finalize(tx.cur, o.remaining - out)
     /\ tx' = [Advance(o) EXCEPT !.used = @ + 1, !.left = @ - in,
                 !.debit = @ + out, !.net = @ + (out - commission),
                 !.fees = @ + commission]
  /\ UNCHANGED <<nextId, money, config, ins>>

\* Too little budget left for one unit of this order.
MatchPass ==
  /\ tx.op = "match" /\ MatchOn
  /\ LET o == orders[tx.cur] IN
     /\ DeadReason(o) = "none" /\ tx.left > 0 /\ ~Tradable(o, tx.left)
     /\ tx' = Advance(o)
  /\ UNCHANGED <<book, nextId, claims, money, config, ins>>

NetOnly == tx.net                                 \* mutant: commission kept
\* To the receiver and to the treasury.
PaidOut == tx.net + tx.fees

FinishMatch ==
  /\ tx.op = "match"
  /\ \/ ~MatchOn
     \/ /\ MatchOn /\ DeadReason(orders[tx.cur]) = "none"
        /\ \/ tx.left = 0
           \/ /\ tx.left > 0 /\ Tradable(orders[tx.cur], tx.left)
              /\ ~BeatsPool(orders[tx.cur], tx.pool, tx.bps)
  /\ escrow[tx.side] >= tx.debit
  /\ escrow' = [escrow EXCEPT ![tx.side] = @ - tx.debit]
  /\ tokens' = [tokens EXCEPT ![tx.side] = @ - PaidOut]
  /\ tx' = Idle
  /\ UNCHANGED <<book, nextId, claims, config, ins>>

(***************************************************************************)
(* The factory's settings, the code ids the chain reports, and block time. *)
(***************************************************************************)
SetPaused ==
  /\ "pause" \in Switches /\ tx = Idle /\ paused' = ~paused
  /\ UNCHANGED <<book, nextId, claims, money, now, drifted, blacklisted,
                 minRemaining, maxRungs, tx, ins>>

\* A token's code id moves off its pin or whitelist, or is restored or re-pinned.
CodeIdsChange ==
  /\ "code ids" \in Switches /\ tx = Idle /\ drifted' = ~drifted
  /\ UNCHANGED <<book, nextId, claims, money, now, paused, blacklisted,
                 minRemaining, maxRungs, tx, ins>>

SetBlacklisted(who) ==
  /\ tx = Idle
  /\ \/ who \notin blacklisted /\ blacklisted' = blacklisted \cup {who}
     \/ who \in blacklisted /\ blacklisted' = blacklisted \ {who}
  /\ UNCHANGED <<book, nextId, claims, money, now, paused, drifted,
                 minRemaining, maxRungs, tx, ins>>

UpdateLimitCleanConfig(s, min) ==
  /\ tx = Idle /\ minRemaining' = [minRemaining EXCEPT ![s] = min]
  /\ UNCHANGED <<book, nextId, claims, money, now, paused, drifted,
                 blacklisted, maxRungs, tx, ins>>

UpdateLimitOrderConfig(max) ==
  /\ tx = Idle /\ maxRungs' = max
  /\ UNCHANGED <<book, nextId, claims, money, now, paused, drifted,
                 blacklisted, minRemaining, tx, ins>>

Tick ==
  /\ tx = Idle /\ now < MaxTime /\ now' = now + 1
  /\ UNCHANGED <<book, nextId, claims, money, paused, drifted, blacklisted,
                 minRemaining, maxRungs, tx, ins>>

Place ==
  \E o \in Owners, s \in Sides, bps \in FeeRates, n \in 1 .. maxRungs :
  \E offer \in [1 .. n -> Offers], hint \in [1 .. n -> Hints],
     max \in [1 .. n -> StepCaps], rank \in [1 .. n -> 1 .. n] :
    /\ \A j, k \in 1 .. n : j # k => rank[j] # rank[k]
    /\ PlaceBatch(o, s,
         [k \in 1 .. n |-> [side |-> offer[k].side, price |-> offer[k].price,
                            amount |-> offer[k].amount,
                            expires |-> offer[k].expires,
                            hint |-> hint[k], max |-> max[k]]],
         rank, bps)

Reprice ==
  \E id \in DOMAIN orders, p \in RepricePrices, h \in Hints, m \in StepCaps :
    UpdatePrice(id, p, h, m)

IdLists == UNION {[1 .. n -> Ids] : n \in 1 .. maxRungs}

Exit == \E o \in Owners, ids \in IdLists : Cancel(o, ids) \/ Claim(o, ids)

Clean == \E s \in Sides, caps \in CleanCaps, h \in Hints : CleanBook(s, caps, h)

Match ==
  \E s \in Sides, b \in Budgets, c \in MakerCaps, h \in Hints,
     bps \in FeeRates, pool \in Pools : MatchBook(s, b, c, h, bps, pool)

Message == Place \/ Reprice \/ Exit \/ Clean \/ Match

Environment ==
  \/ SetPaused \/ CodeIdsChange \/ Tick
  \/ \E who \in Blacklistable : SetBlacklisted(who)
  \/ \E s \in Sides, m \in CleanMins : UpdateLimitCleanConfig(s, m)
  \/ \E m \in RungCaps : UpdateLimitOrderConfig(m)

\* One more iteration of the running message.
TxStep ==
  \/ Probe \/ WalkForward \/ WalkBack
  \/ PlaceRung \/ SkipRung \/ FinishPlace
  \/ Relink \/ RevertUpdatePrice
  \/ CancelOne \/ ClaimOne \/ FinishWithdraw
  \/ CleanVisit \/ FinishClean
  \/ MatchDead \/ MatchFill \/ MatchPass \/ FinishMatch

Next == Message \/ TxStep \/ Environment

\* The virtual machine runs a started message to its end.
Spec == Init /\ [][Next]_vars /\ WF_vars(TxStep)

(***************************************************************************)
(* Properties.                                                             *)
(***************************************************************************)
Row == [owner : Owners, side : Sides, price : Nat \ {0}, remaining : Nat \ {0},
        expires : Nat, prev : Links, next : Links]
Reasons == {"expired", "blacklisted", "unfillable", "dust_filled", "force_cleaned"}
ClaimRow == [owner : Owners, side : Sides, remaining : Nat \ {0}, reason : Reasons]

\* Every variable holds what its storage item can: in particular no order and
\* no claim is ever empty, though fills, fees and refunds all subtract.
TypeOK ==
  /\ DOMAIN orders \subseteq Ids /\ \A i \in DOMAIN orders : orders[i] \in Row
  /\ DOMAIN claims \subseteq Ids /\ \A i \in DOMAIN claims : claims[i] \in ClaimRow
  /\ head \in [Sides -> Links] /\ nextId \in 1 .. MaxId + 1
  /\ escrow \in [Sides -> Nat] /\ tokens \in [Sides -> Nat]
  /\ now \in Nat /\ paused \in BOOLEAN /\ drifted \in BOOLEAN
  /\ blacklisted \subseteq Blacklistable
  /\ minRemaining \in [Sides -> Nat] /\ maxRungs \in RungCaps

\* A row is out of its list only while its own price update runs.
InBook(i) == i \in DOMAIN orders /\ ~(tx.op = "reprice" /\ tx.id = i)

\* Between any two steps, also in the middle of a message, both lists are sound:
\* neighbours point at each other, the first order is the head, and prices never
\* improve towards the tail (orderbook.rs insert, unlink, detach and relink).
BookLinked ==
  /\ \A s \in Sides : head[s] # 0 =>
       InBook(head[s]) /\ orders[head[s]].side = s /\ orders[head[s]].prev = 0
  /\ \A i \in DOMAIN orders : InBook(i) =>
       LET o == orders[i] IN
       /\ o.prev = 0 => head[o.side] = i
       /\ o.prev # 0 => InBook(o.prev) /\ orders[o.prev].next = i
       /\ o.next # 0 => /\ InBook(o.next) /\ orders[o.next].prev = i
                        /\ orders[o.next].side = o.side
                        /\ ~Better(o.side, orders[o.next].price, o.price)

\* An order is on the book or waiting to be claimed, never both, so its escrow
\* can be paid out by cancel or by claim but not twice.
NeverInBothPlaces == DOMAIN orders \cap DOMAIN claims = {}

\* What the rows of side s add up to.
TotalOn(rows, s) ==
  SumFunctionOnSet([i \in DOMAIN rows |-> rows[i].remaining],
                   {i \in DOMAIN rows : rows[i].side = s})

OwedTo(s) == TotalOn(orders, s) + TotalOn(claims, s)

\* What the running message has yet to add to the side's pending escrow.
Unbooked(s) ==
  IF tx.op = "place" THEN IF tx.side = s THEN tx.resting ELSE 0
  ELSE IF tx.op = "match" THEN IF tx.side = s THEN -tx.debit ELSE 0
  ELSE IF tx.op \in {"cancel", "claim"} THEN -tx.refund[s]
  ELSE 0

\* L1: pending escrow is exactly what resting and parked orders are owed, so
\* neither the checked subtractions nor a sweep can ever eat into it.
EscrowIsOwed == \A s \in Sides : escrow[s] + Unbooked(s) = OwedTo(s)

\* The tokens beyond reserves equal the pending escrow after every message:
\* refunds of skipped rungs, maker fees, fills and withdrawals all add up.
TokensBackEscrow == tokens = escrow

\* The orders a walk at i still comes to: those in every set of orders that has
\* i and with each order the next one.
Onward(i, S) == S \subseteq DOMAIN orders /\ {i} \cup {orders[k].next : k \in S} \subseteq S \cup {0}
Reach(i) == {j \in DOMAIN orders : \A S \in SUBSET DOMAIN orders : Onward(i, S) => j \in S}

\* Orders of the walked side that the walk, begun at the head, has left behind.
LeftBehind == {i \in DOMAIN orders : orders[i].side = tx.side} \ Reach(tx.cur)

\* A walk from the head trades through nobody: with budget to spare it leaves a
\* live order behind only when rounding makes at most one more unit tradable.
NoTradeThrough ==
  tx.op = "match" /\ tx.whole =>
    \A i \in LeftBehind :
      DeadReason(orders[i]) = "none" => Trade(orders[i], tx.left).fill <= 1

\* A clean from the head that has reached tx.cur left no order in need of
\* cleaning before it, so keepers may resume from the cursor it reports.
CleanLeavesNothing ==
  tx.op = "clean" /\ tx.whole => \A i \in LeftBehind : CleanReason(orders[i]) = "none"

Pending(i) == tx.op = "place" /\ \E k \in DOMAIN tx.plan : tx.plan[k].id = i
Closed(i) == i \in 1 .. nextId - 1 /\ i \notin DOMAIN orders \cup DOMAIN claims /\ ~Pending(i)

\* The id of an order that was paid out is never given to another one.
ClosedForGood == [][\A i \in Ids : Closed(i) => Closed(i)']_vars

\* No loop of a message runs forever.
MessagesEnd == tx # Idle ~> tx = Idle
=============================================================================
