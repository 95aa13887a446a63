------------------------------ MODULE PoolMath ------------------------------
(***************************************************************************)
(* The arithmetic of a pair's constant-product pool: swaps, commissions,   *)
(* hook deductions, shares, payouts, the inverse of a swap and the checks  *)
(* of a trader's spread limit.  All products are of 256 bits in the code,  *)
(* so nothing wraps; divisions truncate.                                   *)
(***************************************************************************)
EXTENDS Integers, Sequences

CONSTANTS BPS,    \* a fee of 100 % (10000)
          ONE     \* Decimal's fractional unit (10^18)

ASSUME PoolMathAssumption == BPS \in Nat \ {0} /\ ONE \in Nat \ {0}

Smaller(a, b) == IF a <= b THEN a ELSE b
Larger(a, b) == IF a >= b THEN a ELSE b
Excess(a, b) == IF a > b THEN a - b ELSE 0

CeilDiv(n, d) == n \div d + (IF n % d = 0 THEN 0 ELSE 1)

\* Mutant: the rounding left to the trader.
GrossOutDown(rin, rout, x) == rout - (rin * rout) \div (rin + x)

\* What the pool gives up for x: the new product is rounded up, for the pool.
GrossOut(rin, rout, x) == rout - CeilDiv(rin * rout, rin + x)

Commission(gross, bps) == (gross * bps) \div BPS

NetOut(rin, rout, x, bps) ==
  LET gross == GrossOut(rin, rout, x) IN gross - Commission(gross, bps)

\* execute_swap refuses a swap whose rounding is off by a whole unit.
SwapSane(rin, rout, x, bps) ==
  LET newIn == rin + x
      newOut == CeilDiv(rin * rout, newIn)
      gross == rout - newOut
  IN  /\ newIn * newOut >= rin * rout
      /\ newIn * newOut - rin * rout < newIn
      /\ gross * bps - Commission(gross, bps) * BPS < BPS

\* Newton's iteration from above, as in isqrt_u256.
Isqrt(n) ==
  LET step[x \in Nat, y \in Nat] == IF y < x THEN step[y, (y + n \div y) \div 2] ELSE x
  IN  IF n = 0 THEN 0 ELSE step[n, (n + 1) \div 2]

SqrtSane(n) == Isqrt(n) * Isqrt(n) <= n /\ (Isqrt(n) + 1) * (Isqrt(n) + 1) > n

\* The share of supply that amount is of reserve, for deposits and withdrawals.
Portion(amount, supply, reserve) == (amount * supply) \div reserve
PortionSane(amount, supply, reserve) ==
  amount * supply - Portion(amount, supply, reserve) * reserve < reserve

-----------------------------------------------------------------------------
(* min_pool_input_for_net_output: the least input that yields the target.  *)

Unreachable == -1

MinGross(net, bps) == ((net - 1) * BPS) \div (BPS - bps) + 1

MinPoolInput(rin, rout, bps, net) ==
  IF net = 0 THEN 0
  ELSE IF rin = 0 \/ rout = 0 \/ bps >= BPS \/ MinGross(net, bps) >= rout THEN Unreachable
  ELSE CeilDiv(rin * rout, rout - MinGross(net, bps)) - rin

-----------------------------------------------------------------------------
(* A trader's limit on the spread.  Spreads are fractions over ONE.         *)

NoBelief == 0

\* The shortfall of a swap against the price before it.
Spread(rin, rout, x, gross) == Excess((x * rout) \div rin, gross)

\* A tenth of the offer, or one unit, has to go to the pool.
MinPoolLeg(offer) == IF offer = 0 THEN 0 ELSE Larger(offer \div 10, 1)

\* What the belief price promises for the whole offer; 0 is refused.
BeliefReturn(belief, offer) == (offer * ((ONE * ONE) \div belief)) \div ONE

\* Decimal::from_ratio(part, whole) > limit
RatioExceeds(part, whole, limit) == (part * ONE) \div whole > limit

\* leg is [offer, declared, pool, book, net, fee, spread, bookNet]: the offer, the
\* declared and actual pool legs, what the book consumed, the pool's net return,
\* commission and spread, and the book's net return.
BookShortfall(leg) ==
  IF leg.pool = 0 \/ leg.book = 0 THEN 0
  ELSE Excess((leg.net * leg.book) \div leg.pool, leg.bookNet)

SpreadTotal(leg) == Smaller(leg.spread, leg.net + leg.fee) + BookShortfall(leg)

WithinBelief(leg, belief, limit) ==
  LET promised == BeliefReturn(belief, leg.offer)
  IN  /\ (ONE * ONE) \div belief > 0 /\ promised > 0
      /\ ~RatioExceeds(Excess(promised, leg.bookNet + leg.net + leg.fee), promised, limit)

MaterialPoolLeg(leg) ==
  leg.book > 0 /\ leg.declared > 0 => leg.declared >= MinPoolLeg(leg.offer) /\ leg.net > 0

WithinSpread(leg, limit) ==
  LET out == leg.net + leg.fee + leg.bookNet
  IN  /\ MaterialPoolLeg(leg)
      /\ out > 0 => ~RatioExceeds(SpreadTotal(leg), out, limit)

MaxSpreadHolds(leg, belief, limit) ==
  IF belief # NoBelief THEN WithinBelief(leg, belief, limit) ELSE WithinSpread(leg, limit)

-----------------------------------------------------------------------------
(* Fee hooks: each takes its share of the whole return, rounded down.       *)

HookFees(hooks, total) ==
  LET sum[i \in 0 .. Len(hooks)] ==
        IF i = 0 THEN 0 ELSE sum[i - 1] + (total * hooks[i]) \div BPS
  IN  sum[Len(hooks)]
=============================================================================
