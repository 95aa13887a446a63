------------------------------ MODULE RouteTax ------------------------------
(***************************************************************************)
(* The amounts of a community token's taxes on a route: what a gross       *)
(* budget buys, what a purchase leaves, and the two inverses that reverse  *)
(* quotes and per-hop floors are computed with.                            *)
(***************************************************************************)
EXTENDS PoolMath

TaxOf(amount, bps) == (amount * bps) \div BPS

\* Mutants: the inverses as if nothing were rounded.
ReverseBuyDown(net, bps) == (net * BPS) \div (BPS - bps)
ReverseSellOfGross(economic, bps) == (economic * BPS) \div (BPS - bps)

\* The most that can be sold when its tax is paid out of gross too, found by
\* bisection from above.
SellFromGross(gross, bps) ==
  LET search[range \in (0 .. gross) \X (0 .. gross)] ==
        LET lo == range[1]
            hi == range[2]
            mid == lo + (hi - lo + 1) \div 2
        IN  IF lo >= hi THEN lo
            ELSE IF TaxOf(mid, bps) <= gross - mid THEN search[<<mid, hi>>]
            ELSE search[<<lo, mid - 1>>]
  IN  search[<<0, gross>>]

BuyFromGross(gross, bps) == gross - TaxOf(gross, bps)

\* The least purchase that leaves net; a tax of 100 % leaves nothing.
ReverseBuy(net, bps) ==
  IF net = 0 THEN 0
  ELSE IF bps >= BPS THEN Unreachable
  ELSE ((net - 1) * BPS) \div (BPS - bps) + 1

\* The budget that sells economic.  The rate is read from a preview of 100 % and its
\* tax, which an exempt trader sells without tax.
ReverseSell(economic, bps) == economic + TaxOf(economic, TaxOf(SellFromGross(BPS + bps, bps), bps))
=============================================================================
