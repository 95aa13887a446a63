-------------------------- MODULE TaxRoutesProofs --------------------------
(***************************************************************************)
(* Proofs about TaxRoutes for every value of its constants.  The first     *)
(* part is about the amounts of swaps and taxes alone: rounding never pays *)
(* the trader, the inverses of a swap and of a tax are exact, and a spread *)
(* limit sees what the book pays too little.  The second follows a message *)
(* through the pairs, the token and the router, transfer by transfer:      *)
(* every token stays accounted for, and nothing of a route is left behind. *)
(***************************************************************************)
EXTENDS TaxRoutes, DataLemmas, TLAPS

-----------------------------------------------------------------------------
(* Amounts: quotients. *)

\* Products with a common positive factor compare as the other factors do.
LEMMA ProductCompares ==
  ASSUME NEW a \in Int, NEW b \in Int, NEW d \in Nat \ {0}
  PROVE  /\ a * d <= b * d <=> a <= b
         /\ a * d \in Int /\ b * d \in Int
<1>1. a * d \in Int /\ b * d \in Int
  OBVIOUS
<1>2. ASSUME a <= b PROVE a * d <= b * d
  BY <1>2
<1>3. ASSUME b + 1 <= a PROVE b * d < a * d
  <2>1. (b + 1) * d <= a * d
    BY <1>3
  <2>2. (b + 1) * d = b * d + d
    OBVIOUS
  <2> QED
    BY <1>1, <2>1, <2>2
<1> QED
  BY <1>1, <1>2, <1>3

\* A quotient rounded down is the largest that fits.
LEMMA QuotientLargest ==
  ASSUME NEW n \in Nat, NEW d \in Nat \ {0}, NEW m \in Int
  PROVE  /\ n \div d \in Nat
         /\ m <= n \div d <=> m * d <= n
<1> DEFINE q == n \div d
<1>1. q \in Nat /\ q * d <= n /\ n < q * d + d
  OBVIOUS
<1> HIDE DEF q
<1>2. q * d \in Int /\ (q + 1) * d = q * d + d
  BY <1>1
<1>3. m * d <= q * d <=> m <= q
  BY <1>1, ProductCompares
<1>4. (q + 1) * d <= m * d <=> q + 1 <= m
  BY <1>1, ProductCompares
<1>5. m * d \in Int
  OBVIOUS
<1> QED
  BY <1>1, <1>2, <1>3, <1>4, <1>5 DEF q

\* A quotient rounded up is the least that is enough (ceil_div_u256).
LEMMA CeilingLeast ==
  ASSUME NEW n \in Nat, NEW d \in Nat \ {0}, NEW m \in Int
  PROVE  /\ CeilDiv(n, d) \in Nat
         /\ CeilDiv(n, d) <= m <=> n <= m * d
<1> DEFINE c == CeilDiv(n, d)
<1>1. c \in Nat /\ c * d >= n /\ c * d < n + d
  BY DEF CeilDiv
<1> HIDE DEF c
<1>2. c * d \in Int /\ m * d \in Int /\ (m + 1) * d = m * d + d
  BY <1>1
<1>3. c * d <= m * d <=> c <= m
  BY <1>1, ProductCompares
<1>4. (m + 1) * d <= c * d <=> m + 1 <= c
  BY <1>1, ProductCompares
<1> QED
  BY <1>1, <1>2, <1>3, <1>4 DEF c

-----------------------------------------------------------------------------
(* Swaps. *)

\* What is left of the asked token after a swap is the least that keeps the product.
LEMMA LeftAfterSwap ==
  ASSUME NEW rin \in Nat \ {0}, NEW rout \in Nat \ {0}, NEW x \in Nat, NEW m \in Int
  PROVE  /\ GrossOut(rin, rout, x) \in 0 .. rout - 1
         /\ m <= GrossOut(rin, rout, x) <=> rin * rout <= (rout - m) * (rin + x)
<1> DEFINE k == rin * rout
           c == CeilDiv(k, rin + x)
<1>1. k \in Nat \ {0} /\ rin + x \in Nat \ {0}
  OBVIOUS
<1>2. GrossOut(rin, rout, x) = rout - c
  BY DEF GrossOut
<1> HIDE DEF k
<1>3. c \in Nat
  BY <1>1, CeilingLeast
<1>4. c <= rout - m <=> k <= (rout - m) * (rin + x)
  BY <1>1, CeilingLeast
<1>5. c <= rout
  <2>1. k <= rout * (rin + x)
    BY DEF k
  <2> QED
    BY <1>1, <2>1, CeilingLeast
<1>6. c >= 1
  <2>1. ~(k <= 0 * (rin + x))
    BY <1>1
  <2>2. ~(c <= 0)
    BY <1>1, <2>1, CeilingLeast
  <2> QED
    BY <1>3, <2>2
<1> HIDE DEF c
<1> QED
  BY <1>2, <1>3, <1>4, <1>5, <1>6 DEF k

\* Swapping the proceeds of a swap straight back never returns more than was offered
\* (execute_swap rounds the new reserve up, twice).
THEOREM NoGainByReturning ==
  ASSUME NEW rin \in Nat \ {0}, NEW rout \in Nat \ {0}, NEW x \in Nat
  PROVE  LET gross == GrossOut(rin, rout, x)
         IN  GrossOut(rout - gross, rin + x, gross) <= x
<1> DEFINE g == GrossOut(rin, rout, x)
           a == rout - g
           b == rin + x
           back == GrossOut(a, b, g)
<1>1. g \in 0 .. rout - 1 /\ rin * rout <= (rout - g) * (rin + x)
  BY LeftAfterSwap
<1>2. a \in Nat \ {0} /\ b \in Nat \ {0} /\ g \in Nat /\ a + g = rout /\ b - (x + 1) = rin - 1
  BY <1>1
<1>3. rin * rout <= a * b
  BY <1>1
<1> HIDE DEF g, a, b
<1>4. back \in Int /\ (x + 1 <= back => a * b <= (b - (x + 1)) * (a + g))
  <2>1. x + 1 \in Int
    OBVIOUS
  <2>2. back \in 0 .. b - 1 /\ (x + 1 <= back <=> a * b <= (b - (x + 1)) * (a + g))
    BY <1>2, <2>1, LeftAfterSwap, Zenon
  <2> HIDE DEF back
  <2> QED
    BY <1>2, <2>2
<1>5. (b - (x + 1)) * (a + g) = rin * rout - rout
  BY <1>2
<1>6. a * b \in Int /\ rin * rout \in Int
  BY <1>2
<1> HIDE DEF back
<1>7. back <= x
  BY <1>3, <1>4, <1>5, <1>6
<1> QED
  BY <1>7 DEF back, a, b, g

\* An offer split in two gets no more out of the reserves than in one.
THEOREM NoGainBySplitting ==
  ASSUME NEW rin \in Nat \ {0}, NEW rout \in Nat \ {0}, NEW x \in Nat, NEW y \in 0 .. x
  PROVE  LET first == GrossOut(rin, rout, y)
         IN  first + GrossOut(rin + y, rout - first, x - y) <= GrossOut(rin, rout, x)
<1> DEFINE f == GrossOut(rin, rout, y)
           a == rin + y
           b == rout - f
           z == x - y
           h == GrossOut(a, b, z)
<1>1. f \in 0 .. rout - 1 /\ rin * rout <= (rout - f) * (rin + y)
  BY LeftAfterSwap
<1>2. /\ a \in Nat \ {0} /\ b \in Nat \ {0} /\ z \in Nat
      /\ a + z = rin + x /\ b = rout - f /\ rin * rout <= a * b
  BY <1>1
<1> HIDE DEF a, b, z, f
<1>3. h \in 0 .. b - 1
  <2>1. 0 \in Int
    OBVIOUS
  <2> QED
    BY <1>2, <2>1, LeftAfterSwap, Zenon
<1>4. a * b <= (b - h) * (a + z)
  <2>1. h \in Int /\ h <= h
    <3> HIDE DEF h
    <3> QED
      BY <1>2, <1>3
  <2> QED
    BY <1>2, <2>1, LeftAfterSwap, Zenon
<1> HIDE DEF h
<1>5. b - h = rout - (f + h) /\ f + h \in Int
  BY <1>1, <1>2, <1>3
<1>6. rin * rout <= (rout - (f + h)) * (rin + x)
  <2>1. a * b \in Int /\ (rout - (f + h)) * (rin + x) \in Int /\ rin * rout \in Int
    BY <1>2, <1>5
  <2> QED
    BY <1>2, <1>4, <1>5, <2>1
<1>7. f + h <= GrossOut(rin, rout, x)
  BY <1>5, <1>6, LeftAfterSwap
<1> QED
  BY <1>7 DEF h, a, b, z, f

-----------------------------------------------------------------------------
(* Inverses. *)

\* g less its floor of a rate is at least net exactly when g is at least the inverse:
\* the common core of min_pool_input_for_net_output and reverse_buy_amount.
LEMMA RateInverse ==
  ASSUME NEW bps \in 0 .. BPS - 1, NEW net \in Nat \ {0}, NEW g \in Nat
  PROVE  /\ ((net - 1) * BPS) \div (BPS - bps) + 1 \in Nat \ {0}
         /\ net <= g - (g * bps) \div BPS <=> ((net - 1) * BPS) \div (BPS - bps) + 1 <= g
<1> DEFINE n == (net - 1) * BPS
           d == BPS - bps
           f == (g * bps) \div BPS
<1>1. BPS \in Nat \ {0}
  BY PoolMathAssumption
<1>2. n \in Nat /\ d \in Nat \ {0} /\ g * bps \in Nat
  BY <1>1
<1>3. g <= n \div d <=> g * d <= n
  BY <1>2, QuotientLargest
<1>4. n \div d \in Nat
  BY <1>2, QuotientLargest
<1>5. f \in Nat /\ (g - net + 1 <= f <=> (g - net + 1) * BPS <= g * bps)
  <2>1. g - net + 1 \in Int
    OBVIOUS
  <2> QED
    BY <1>1, <1>2, <2>1, QuotientLargest
<1>6. (g - net + 1) * BPS <= g * bps <=> g * d <= n
  <2>1. (g - net + 1) * BPS = g * BPS - (net - 1) * BPS
    BY <1>1
  <2>2. g * d = g * BPS - g * bps
    BY <1>1
  <2>3. g * BPS \in Int /\ g * bps \in Int
    BY <1>1
  <2> HIDE DEF d
  <2> QED
    BY <1>2, <2>1, <2>2, <2>3
<1> HIDE DEF f
<1>7. net <= g - f <=> ~(g - net + 1 <= f)
  BY <1>5
<1>8. n \div d + 1 <= g <=> ~(g <= n \div d)
  BY <1>4
<1> QED
  BY <1>3, <1>4, <1>5, <1>6, <1>7, <1>8 DEF f

\* The input computed backwards from a target is enough for it, and less is not;
\* it is refused only when no input would do.
THEOREM InverseExact ==
  ASSUME NEW rin \in Nat \ {0}, NEW rout \in Nat \ {0}, NEW bps \in 0 .. BPS - 1,
         NEW net \in Nat \ {0}, NEW x \in Nat
  PROVE  LET need == MinPoolInput(rin, rout, bps, net)
         IN  /\ need = Unreachable => NetOut(rin, rout, x, bps) < net
             /\ need # Unreachable => (net <= NetOut(rin, rout, x, bps) <=> need <= x)
<1> DEFINE g == GrossOut(rin, rout, x)
           m == MinGross(net, bps)
           k == rin * rout
           c == CeilDiv(k, rout - m)
<1>1. BPS \in Nat \ {0}
  BY PoolMathAssumption
<1>2. g \in 0 .. rout - 1 /\ k \in Nat
  BY LeftAfterSwap
<1>3. m \in Nat \ {0} /\ (net <= g - Commission(g, bps) <=> m <= g)
  <2>1. g \in Nat
    BY <1>2
  <2> HIDE DEF g
  <2> QED
    BY <2>1, RateInverse DEF MinGross, Commission
<1>4. m <= g <=> k <= (rout - m) * (rin + x)
  <2>1. m \in Int
    <3> HIDE DEF m
    <3> QED
      BY <1>3
  <2> QED
    BY <2>1, LeftAfterSwap, Zenon
<1>5. NetOut(rin, rout, x, bps) = g - Commission(g, bps)
  BY DEF NetOut
<1>6. Commission(g, bps) \in Nat
  <2>1. g * bps \in Nat
    BY <1>1, <1>2
  <2> QED
    BY <1>1, <2>1, QuotientLargest DEF Commission
<1> HIDE DEF g, m, k
<1>7. CASE m >= rout
  <2>1. MinPoolInput(rin, rout, bps, net) = Unreachable
    BY <1>7 DEF MinPoolInput, m
  <2> QED
    BY <1>2, <1>3, <1>5, <1>6, <1>7, <2>1
<1>8. CASE m < rout
  <2>1. rout - m \in Nat \ {0} /\ rin + x \in Int /\ rin + x >= rin
    BY <1>3, <1>8
  <2>2. c \in Nat /\ (c <= rin + x <=> k <= (rin + x) * (rout - m))
    BY <1>2, <2>1, CeilingLeast
  <2>3. (rin + x) * (rout - m) = (rout - m) * (rin + x)
    BY <2>1
  <2>4. MinPoolInput(rin, rout, bps, net) = c - rin
    <3>1. ~(net = 0) /\ ~(rin = 0 \/ rout = 0 \/ bps >= BPS \/ MinGross(net, bps) >= rout)
      BY <1>1, <1>3, <1>8 DEF m
    <3> QED
      BY <3>1, Zenon DEF MinPoolInput, m, k, c
  <2>5. c >= rin
    <3>1. ~(k <= (rin - 1) * (rout - m))
      <4>1. (rin - 1) * (rout - m) <= (rin - 1) * rout
        BY <1>3, <2>1
      <4>2. (rin - 1) * rout = k - rout
        BY DEF k
      <4>3. (rin - 1) * (rout - m) \in Int
        BY <2>1
      <4> QED
        BY <1>2, <4>1, <4>2, <4>3
    <3>2. ~(c <= rin - 1)
      <4>1. rin - 1 \in Int
        OBVIOUS
      <4> QED
        BY <1>2, <2>1, <3>1, <4>1, CeilingLeast, Zenon
    <3> QED
      BY <2>2, <3>2
  <2> HIDE DEF c
  <2>6. c - rin # Unreachable
    BY <2>2, <2>5 DEF Unreachable
  <2>7. c - rin <= x <=> c <= rin + x
    BY <2>2
  <2> QED
    BY <1>3, <1>4, <1>5, <2>2, <2>3, <2>4, <2>6, <2>7
<1> QED
  BY <1>2, <1>3, <1>7, <1>8

\* A floor on what a purchase leaves after its tax, moved before the tax, is the same
\* floor: no more is refused and no less passes (reverse_buy_amount).
THEOREM FloorMovesExactly ==
  ASSUME NEW bps \in 0 .. BPS - 1, NEW net \in Nat, NEW g \in Nat
  PROVE  net <= BuyFromGross(g, bps) <=> ReverseBuy(net, bps) <= g
<1>1. BPS \in Nat \ {0}
  BY PoolMathAssumption
<1>2. CASE net = 0
  <2>1. g * bps \in Nat
    BY <1>1
  <2>2. TaxOf(g, bps) <= g
    <3>1. ~((g + 1) * BPS <= g * bps)
      <4>1. g * bps <= g * BPS /\ g * BPS \in Int
        BY <1>1
      <4>2. (g + 1) * BPS = g * BPS + BPS
        BY <1>1
      <4> QED
        BY <1>1, <2>1, <4>1, <4>2
    <3>2. ~(g + 1 <= (g * bps) \div BPS) /\ (g * bps) \div BPS \in Nat
      BY <1>1, <2>1, <3>1, QuotientLargest
    <3> QED
      BY <3>2 DEF TaxOf
  <2>3. TaxOf(g, bps) \in Nat
    BY <1>1, <2>1, QuotientLargest DEF TaxOf
  <2> QED
    BY <1>2, <2>2, <2>3 DEF ReverseBuy, BuyFromGross
<1>3. CASE net # 0
  <2>1. ReverseBuy(net, bps) = ((net - 1) * BPS) \div (BPS - bps) + 1
    BY <1>1, <1>3 DEF ReverseBuy
  <2>2. BuyFromGross(g, bps) = g - (g * bps) \div BPS
    BY DEF BuyFromGross, TaxOf
  <2> QED
    BY <1>3, <2>1, <2>2, RateInverse
<1> QED
  BY <1>2, <1>3

-----------------------------------------------------------------------------
(* Spread limits. *)

\* A swap with a book leg that passes its limit has lost less to the book, against
\* the pool's own return, than the limit allows of the whole (check_max_spread).
THEOREM BookCannotHideLoss ==
  ASSUME NEW leg, NEW limit \in Nat,
         leg.pool \in Nat \ {0}, leg.book \in Nat \ {0}, leg.net \in Nat, leg.fee \in Nat,
         leg.spread \in Nat, leg.bookNet \in Nat,
         WithinSpread(leg, limit), leg.net + leg.fee + leg.bookNet > 0
  PROVE  ((leg.net * leg.book) \div leg.pool - leg.bookNet) * ONE
           < (limit + 1) * (leg.net + leg.fee + leg.bookNet)
<1> DEFINE out == leg.net + leg.fee + leg.bookNet
           fair == (leg.net * leg.book) \div leg.pool
           total == SpreadTotal(leg)
<1>1. ONE \in Nat \ {0}
  BY PoolMathAssumption
<1>2. out \in Nat \ {0} /\ fair \in Nat
  <2>1. leg.net * leg.book \in Nat /\ 0 \in Int
    OBVIOUS
  <2>2. fair \in Nat
    BY <2>1, QuotientLargest, Zenon
  <2> QED
    BY <2>2
<1>3. total \in Nat /\ fair - leg.bookNet <= total
  <2> HIDE DEF fair
  <2>1. BookShortfall(leg) = Excess(fair, leg.bookNet)
    BY DEF BookShortfall, fair
  <2>2. Excess(fair, leg.bookNet) \in Nat /\ fair - leg.bookNet <= Excess(fair, leg.bookNet)
    BY <1>2 DEF Excess
  <2>3. Smaller(leg.spread, leg.net + leg.fee) \in Nat
    BY DEF Smaller
  <2> QED
    BY <1>2, <2>1, <2>2, <2>3 DEF SpreadTotal
<1> HIDE DEF total, fair
<1>4. (total * ONE) \div out <= limit
  <2>1. ~RatioExceeds(total, out, limit)
    BY DEF WithinSpread, total
  <2>2. total * ONE \in Nat /\ (total * ONE) \div out \in Nat
    <3>1. total * ONE \in Nat
      BY <1>1, <1>3
    <3> QED
      BY <1>2, <3>1, QuotientLargest
  <2> QED
    BY <2>1, <2>2 DEF RatioExceeds
<1> HIDE DEF out
<1>5. total * ONE < (limit + 1) * out
  <2>1. total * ONE \in Nat /\ limit + 1 \in Int /\ (limit + 1) * out \in Int
    BY <1>1, <1>2, <1>3
  <2>2. (total * ONE) \div out \in Nat
        /\ (limit + 1 <= (total * ONE) \div out <=> (limit + 1) * out <= total * ONE)
    BY <1>2, <2>1, QuotientLargest, Zenon
  <2> QED
    BY <1>4, <2>1, <2>2
<1>6. (fair - leg.bookNet) * ONE <= total * ONE
  <2>1. fair - leg.bookNet \in Int /\ total \in Int
    BY <1>2, <1>3
  <2> QED
    BY <1>1, <1>3, <2>1, ProductCompares
<1>7. (fair - leg.bookNet) * ONE \in Int /\ total * ONE \in Int /\ (limit + 1) * out \in Int
  BY <1>1, <1>2, <1>3
<1> QED
  BY <1>5, <1>6, <1>7 DEF fair, out

-----------------------------------------------------------------------------
(* What can be sold out of a gross budget.                                 *)

LEMMA TaxGrows ==
  ASSUME NEW x \in Nat, NEW y \in Nat, x <= y, NEW bps \in Nat
  PROVE  TaxOf(x, bps) \in Nat /\ TaxOf(y, bps) \in Nat /\ TaxOf(x, bps) <= TaxOf(y, bps)
<1>1. BPS \in Nat \ {0}
  BY PoolMathAssumption
<1>2. x * bps \in Nat /\ y * bps \in Nat /\ x * bps <= y * bps
  OBVIOUS
<1>3. \A m, n \in Nat : m <= n => m \div BPS \in Nat /\ n \div BPS \in Nat /\ m \div BPS <= n \div BPS
  BY <1>1
<1>. QED
  BY <1>2, <1>3 DEF TaxOf

\* The bisection of preview_sell_from_gross, for every budget and rate: the sale and
\* its tax fit the budget, and a sale of one unit more would not, so the router
\* refunds no unit it could have sold.
THEOREM SellUsesTheBudget ==
  ASSUME NEW gross \in Nat, NEW bps \in Nat
  PROVE  LET economic == SellFromGross(gross, bps) IN
         /\ economic \in 0 .. gross
         /\ economic + TaxOf(economic, bps) <= gross
         /\ \A more \in Nat : more > economic => more + TaxOf(more, bps) > gross
<1>. DEFINE L == {m \in 0 .. gross : TaxOf(m, bps) <= gross - m}
            e == SellFromGross(gross, bps)
            Searches(f) ==
              f = [range \in (0 .. gross) \X (0 .. gross) |->
                     LET lo == range[1]
                         hi == range[2]
                         mid == lo + (hi - lo + 1) \div 2
                     IN  IF lo >= hi THEN lo
                         ELSE IF TaxOf(mid, bps) <= gross - mid THEN f[<<mid, hi>>]
                         ELSE f[<<lo, mid - 1>>]]
<1>1. e = (CHOOSE f : Searches(f))[<<0, gross>>]
  BY DEF SellFromGross
<1>2. ASSUME NEW f
      PROVE  Searches(f) <=> Bisects(f, (0 .. gross) \X (0 .. gross), L)
  <2>. DEFINE Half(x) == LET lo == x[1]
                             hi == x[2]
                             mid == lo + (hi - lo + 1) \div 2
                         IN  IF lo >= hi THEN lo
                             ELSE IF TaxOf(mid, bps) <= gross - mid THEN f[<<mid, hi>>]
                             ELSE f[<<lo, mid - 1>>]
  <2>1. ASSUME NEW x \in (0 .. gross) \X (0 .. gross)
        PROVE  Half(x) = Halved(f, x, L)
    <3>1. x[1] \in 0 .. gross /\ x[2] \in 0 .. gross
      OBVIOUS
    <3>2. CASE x[1] >= x[2]
      BY <3>2 DEF Halved
    <3>3. CASE x[1] < x[2]
      <4>1. Middle(x[1], x[2]) \in 0 .. gross
        BY <3>1, <3>3, MiddleBetween
      <4>2. Middle(x[1], x[2]) \in L <=> TaxOf(Middle(x[1], x[2]), bps) <= gross - Middle(x[1], x[2])
        BY <4>1
      <4>. HIDE DEF L
      <4>. QED
        BY <3>1, <3>3, <4>2 DEF Halved, Middle
    <3>. QED
      BY <3>1, <3>2, <3>3
  <2>2. Searches(f) <=> f = [x \in (0 .. gross) \X (0 .. gross) |-> Half(x)]
    OBVIOUS
  <2>. HIDE DEF Half, L, Searches
  <2>. QED
    BY <2>1, <2>2 DEF Bisects
<1>. HIDE DEF Searches
<1>3. PICK f : Bisects(f, (0 .. gross) \X (0 .. gross), L) /\ e = f[<<0, gross>>]
  <2>. HIDE DEF L, e
  <2>1. \E f : Bisects(f, (0 .. gross) \X (0 .. gross), L)
    BY BisectionExists
  <2>2. Searches(CHOOSE f : Searches(f))
    BY <1>2, <2>1
  <2>. QED
    BY <1>1, <1>2, <2>2
<1>. HIDE DEF e
<1>4. \A m \in Nat : TaxOf(m, bps) \in Nat
  BY TaxGrows
<1>5. 0 \in L
  <2>1. 0 * bps = 0 /\ BPS \in Nat \ {0}
    BY PoolMathAssumption
  <2>2. TaxOf(0, bps) = 0
    BY <2>1 DEF TaxOf
  <2>. QED
    BY <2>2
<1>6. \A j, k \in Nat : j <= k => TaxOf(j, bps) <= TaxOf(k, bps)
  BY TaxGrows
<1>7. \A j, k \in 0 .. gross : j <= k /\ k \in L => j \in L
  BY <1>4, <1>6
<1>8. e \in 0 .. gross /\ e \in L /\ \A k \in 0 .. gross : k > e => k \notin L
  <2>. HIDE DEF L
  <2>. QED
    BY <1>3, <1>5, <1>7, BisectionFinds
<1>9. e + TaxOf(e, bps) <= gross
  BY <1>4, <1>8
<1>10. ASSUME NEW more \in Nat, more > e
       PROVE  more + TaxOf(more, bps) > gross
  <2>1. TaxOf(more, bps) \in Nat
    BY <1>4
  <2>2. CASE more > gross
    BY <2>1, <2>2
  <2>3. CASE more \in 0 .. gross
    <3>1. ~(TaxOf(more, bps) <= gross - more)
      BY <1>8, <1>10, <2>3
    <3>. QED
      BY <2>1, <2>3, <3>1
  <2>. QED
    BY <2>2, <2>3
<1>. QED
  BY <1>8, <1>9, <1>10 DEF e

-----------------------------------------------------------------------------
(* Sinks. *)

\* What governance may set, as far as the balance depends on it.
RatesOK == rates \in [buy : 0 .. BPS, sell : 0 .. BPS, transfer : 0 .. BPS]
SinksOK == sinks \in Seq([to : {Treasury, Burn}, bps : 0 .. BPS]) /\ sinks # <<>>

LEMMA SinkEach ==
  ASSUME SinksOK
  PROVE  /\ Len(sinks) \in Nat \ {0} /\ DOMAIN sinks = 1 .. Len(sinks)
         /\ \A i \in DOMAIN sinks : sinks[i].to \in {Treasury, Burn} /\ sinks[i].bps \in 0 .. BPS
<1>. DEFINE E == [to : {Treasury, Burn}, bps : 0 .. BPS]
<1>1. \A e \in E : e.to \in {Treasury, Burn} /\ e.bps \in 0 .. BPS
  OBVIOUS
<1>2. sinks \in Seq(E) /\ sinks # <<>>
  BY DEF SinksOK
<1>. HIDE DEF E
<1>3. Len(sinks) \in Nat \ {0} /\ DOMAIN sinks = 1 .. Len(sinks) /\ \A i \in DOMAIN sinks : sinks[i] \in E
  BY <1>2
<1>. QED
  BY <1>1, <1>3

LEMMA TaxWithin ==
  ASSUME NEW amount \in Nat, NEW bps \in 0 .. BPS
  PROVE  TaxOf(amount, bps) \in 0 .. amount
<1>1. BPS \in Nat \ {0}
  BY PoolMathAssumption
<1>2. amount * bps \in Nat /\ amount * BPS \in Nat /\ amount * bps <= amount * BPS
  BY <1>1
<1>3. TaxOf(amount, bps) \in Nat
  BY <1>1, <1>2, QuotientLargest DEF TaxOf
<1>4. ~((amount + 1) * BPS <= amount * bps)
  <2>1. (amount + 1) * BPS = amount * BPS + BPS
    BY <1>1
  <2>. QED
    BY <1>1, <1>2, <2>1
<1>5. ~(amount + 1 <= TaxOf(amount, bps))
  <2>1. amount + 1 \in Int
    OBVIOUS
  <2>. QED
    BY <1>1, <1>2, <1>4, <2>1, QuotientLargest DEF TaxOf
<1>. QED
  BY <1>3, <1>5

\* The shares of the sinks make up the tax: the last takes what rounding left.
LEMMA SharesAddUp ==
  ASSUME SinksOK, NEW tax \in Nat
  PROVE  LET share == [i \in DOMAIN sinks |-> Share(tax, i)] IN
         /\ \A i \in DOMAIN sinks : share[i] \in Int
         /\ SumFunctionOnSet(share, DOMAIN sinks) = tax
<1>. DEFINE n == Len(sinks)
            share == [i \in DOMAIN sinks |-> Share(tax, i)]
            floors == [j \in 1 .. n - 1 |-> TaxOf(tax, sinks[j].bps)]
<1>1. n \in Nat \ {0} /\ DOMAIN sinks = 1 .. n
  BY SinkEach
<1>2. \A i \in 1 .. n : TaxOf(tax, sinks[i].bps) \in Nat
  <2>1. \A i \in 1 .. n : sinks[i].bps \in 0 .. BPS
    BY <1>1, SinkEach
  <2>. QED
    BY <2>1, TaxWithin
<1>3. IsFiniteSet(1 .. n) /\ IsFiniteSet(1 .. n - 1)
  <2>1. 1 \in Int /\ n \in Int /\ n - 1 \in Int
    BY <1>1
  <2>. QED
    BY <2>1, FS_Interval
<1>4. \A i \in 1 .. n - 1 : share[i] = TaxOf(tax, sinks[i].bps) /\ share[i] = floors[i]
  BY <1>1 DEF Share
<1>5. share[n] = tax - SumFunctionOnSet(floors, 1 .. n - 1)
  BY <1>1 DEF Share
<1>6. SumFunctionOnSet(floors, 1 .. n - 1) \in Int
  BY <1>2, <1>3, SumIsInt
<1>7. SumFunctionOnSet(share, 1 .. n - 1) = SumFunctionOnSet(floors, 1 .. n - 1)
  <2>. HIDE DEF share, floors
  <2>. QED
    BY <1>3, <1>4, SumOfEqual
<1>8. \A i \in 1 .. n : share[i] \in Int
  <2>. HIDE DEF share, floors
  <2>. HIDE DEF n
  <2>1. \A i \in 1 .. n : i = n \/ i \in 1 .. n - 1
    BY <1>1
  <2>. QED
    BY <2>1, <1>2, <1>4, <1>5, <1>6
<1>9. SumFunctionOnSet(share, 1 .. n) = share[n] + SumFunctionOnSet(share, 1 .. n - 1)
  <2>. HIDE DEF share, n
  <2>1. n \in 1 .. n /\ (1 .. n) \ {n} = 1 .. n - 1
    BY <1>1
  <2>. QED
    BY <2>1, <1>3, <1>8, SumWithout
<1>. HIDE DEF share, floors
<1>. QED
  BY <1>1, <1>5, <1>6, <1>7, <1>8, <1>9 DEF share

\* Only the treasury and the burn take a share of a tax, and they take it whole.
LEMMA SharesGo ==
  ASSUME SinksOK, NEW tax \in Nat
  PROVE  /\ \A a : ShareOf(tax, a) \in Int
         /\ \A a : a \notin {Treasury, Burn} => ShareOf(tax, a) = 0
         /\ ShareOf(tax, Treasury) + ShareOf(tax, Burn) = tax
<1>. DEFINE share == [i \in DOMAIN sinks |-> Share(tax, i)]
            To(a) == {i \in DOMAIN sinks : sinks[i].to = a}
<1>1. /\ \A i \in DOMAIN sinks : share[i] \in Int
      /\ SumFunctionOnSet(share, DOMAIN sinks) = tax
  BY SharesAddUp
<1>2. \A a : ShareOf(tax, a) = SumFunctionOnSet(share, To(a))
  BY DEF ShareOf
<1>3. IsFiniteSet(DOMAIN sinks)
  <2>1. DOMAIN sinks = 1 .. Len(sinks) /\ Len(sinks) \in Int
    BY SinkEach
  <2>. QED
    BY <2>1, FS_Interval
<1>4. \A a : IsFiniteSet(To(a))
  BY <1>3, FS_Subset
<1>5. \A i \in DOMAIN sinks : sinks[i].to \in {Treasury, Burn}
  BY SinkEach
<1>. HIDE DEF share
<1>6. \A a : ShareOf(tax, a) \in Int
  <2>. TAKE a
  <2>1. \A i \in To(a) : share[i] \in Int
    BY <1>1
  <2>. HIDE DEF To
  <2>. QED
    BY <1>2, <1>4, <2>1, SumIsInt
<1>7. \A a : a \notin {Treasury, Burn} => ShareOf(tax, a) = 0
  <2>. SUFFICES ASSUME NEW a, a \notin {Treasury, Burn}
                PROVE  ShareOf(tax, a) = 0
    OBVIOUS
  <2>1. To(a) = {}
    BY <1>5
  <2>. QED
    BY <1>2, <2>1, SumOfNone
<1>8. ShareOf(tax, Treasury) + ShareOf(tax, Burn) = tax
  <2>1. Treasury # Burn
    BY AccountAssumption DEF Accounts
  <2>2. To(Treasury) \cap To(Burn) = {} /\ To(Treasury) \cup To(Burn) = DOMAIN sinks
    BY <1>5, <2>1
  <2>. HIDE DEF To
  <2>. QED
    BY <1>1, <1>2, <1>4, <2>2, SumOfBoth
<1>. QED
  BY <1>6, <1>7, <1>8

-----------------------------------------------------------------------------
(* What moves: one transfer. *)

CtxFields == {"id", "trader", "pair", "offer", "ask", "gross", "economic", "transfers",
              "restore", "acquired"}

\* A state of the chain, refused or not, as far as the balance depends on it.
Whole(c) ==
  /\ DOMAIN c = {"held", "pool", "last", "used", "burned", "failed", "routeId", "ctx",
                 "refunds", "got"}
  /\ c.held \in [Tokens -> [Accounts -> Int]]
  /\ DOMAIN c.pool = Pairs /\ \A p \in Pairs : c.pool[p] \in [PairTokens[p] -> Nat \ {0}]
  /\ c.burned \in Int
  /\ DOMAIN c.ctx = CtxFields

\* What there is of a token, what was burned of it included.
Supply(c, t) ==
  SumFunctionOnSet(c.held[t], Accounts) + (IF t = Tax THEN c.burned ELSE 0)

\* From c to d a transfer takes debit from one account and gives credit to another; the
\* difference is the treasury's or burned.
Moves(c, d, token, from, to, debit, credit) ==
  /\ Whole(d)
  /\ d.pool = c.pool /\ d.ctx = c.ctx /\ d.routeId = c.routeId
  /\ d.refunds = c.refunds /\ d.got = c.got
  /\ \A t \in Tokens \ {token} : d.held[t] = c.held[t]
  /\ \A a \in Accounts \ {Treasury} :
       d.held[token][a] = c.held[token][a] - (IF a = from THEN debit ELSE 0)
                                           + (IF a = to THEN credit ELSE 0)
  /\ \A t \in Tokens : Supply(d, t) = Supply(c, t)

\* apply_transfer's amounts.
TaxDue(c, from, to, amount, swap) ==
  TaxOf(amount, RateOf(TradeKind(c, from, to, swap), HopTrader(c, from, to, swap), from, to))
Debited(c, from, to, amount, swap) ==
  IF TradeKind(c, from, to, swap) = "sell" THEN amount + TaxDue(c, from, to, amount, swap)
  ELSE amount
Credited(c, from, to, amount, swap) ==
  IF TradeKind(c, from, to, swap) \in {"buy", "transfer"}
  THEN amount - TaxDue(c, from, to, amount, swap) ELSE amount

LEMMA FiniteAccounts == IsFiniteSet(Accounts)
<1>1. IsFiniteSet({House, Treasury, Router})
  <2>1. IsFiniteSet({House}) /\ IsFiniteSet({Treasury}) /\ IsFiniteSet({Router})
    BY FS_Singleton
  <2>2. IsFiniteSet({House} \cup {Treasury})
    BY <2>1, FS_Union
  <2>3. IsFiniteSet(({House} \cup {Treasury}) \cup {Router})
    BY <2>1, <2>2, FS_Union
  <2>4. {House, Treasury, Router} = ({House} \cup {Treasury}) \cup {Router}
    OBVIOUS
  <2>. QED
    BY <2>3, <2>4
<1>2. IsFiniteSet(Wallets \cup Pairs)
  BY AccountAssumption, FS_Union
<1>3. IsFiniteSet((Wallets \cup Pairs) \cup {House, Treasury, Router})
  BY <1>1, <1>2, FS_Union
<1>. QED
  BY <1>3 DEF Accounts

LEMMA RateTypes ==
  ASSUME RatesOK
  PROVE  /\ \A kind \in {"buy", "sell", "transfer"} : rates[kind] \in 0 .. BPS
         /\ \A trader : TraderRate(trader, "buy") \in 0 .. BPS /\ TraderRate(trader, "sell") \in 0 .. BPS
<1>1. BPS \in Nat \ {0}
  BY PoolMathAssumption
<1>2. rates.buy \in 0 .. BPS /\ rates.sell \in 0 .. BPS /\ rates.transfer \in 0 .. BPS
  BY DEF RatesOK
<1>. QED
  BY <1>1, <1>2 DEF TraderRate

\* The tax of a transfer is part of it.
LEMMA TaxDueWithin ==
  ASSUME RatesOK, NEW c, NEW from, NEW to, NEW amount \in Nat, NEW swap
  PROVE  /\ TaxDue(c, from, to, amount, swap) \in 0 .. amount
         /\ TradeKind(c, from, to, swap) = "honest" => TaxDue(c, from, to, amount, swap) = 0
         /\ TradeKind(c, from, to, swap) \in {"sell", "buy", "transfer", "honest"}
         /\ Debited(c, from, to, amount, swap) \in Nat
         /\ Credited(c, from, to, amount, swap) \in Nat
<1>. DEFINE kind == TradeKind(c, from, to, swap)
            hop == HopTrader(c, from, to, swap)
            rate == RateOf(kind, hop, from, to)
<1>1. BPS \in Nat \ {0}
  BY PoolMathAssumption
<1>2. kind \in {"sell", "buy", "transfer", "honest"}
  BY DEF TradeKind
<1>3. rate \in 0 .. BPS /\ (kind = "honest" => rate = 0)
  <2>. HIDE DEF kind, hop
  <2>. QED
    BY <1>1, <1>2, RateTypes DEF RateOf
<1>4. TaxDue(c, from, to, amount, swap) = TaxOf(amount, rate)
  BY DEF TaxDue
<1>5. 0 * amount = 0 /\ amount * 0 = 0 /\ 0 \div BPS = 0
  BY <1>1
<1>6. rate = 0 => TaxOf(amount, rate) = 0
  BY <1>5 DEF TaxOf
<1>7. TaxOf(amount, rate) \in 0 .. amount
  <2>. HIDE DEF rate
  <2>. QED
    BY <1>3, TaxWithin
<1>. HIDE DEF rate
<1>. QED
  BY <1>2, <1>3, <1>4, <1>6, <1>7 DEF Debited, Credited

\* A balance sheet after a debit and a credit.
LEMMA ShiftSum ==
  ASSUME NEW held \in [Accounts -> Int], NEW from \in Accounts, NEW to \in Accounts,
         NEW debit \in Int, NEW credit \in Int
  PROVE  LET moved == Shifted(held, from, debit, to, credit) IN
         /\ moved \in [Accounts -> Int]
         /\ SumFunctionOnSet(moved, Accounts) = SumFunctionOnSet(held, Accounts) - debit + credit
<1>. DEFINE moved == Shifted(held, from, debit, to, credit)
            less == [a \in Accounts |-> held[a] - (IF a = from THEN debit ELSE 0)]
<1>1. less \in [Accounts -> Int] /\ moved \in [Accounts -> Int]
  BY DEF Shifted
<1>2. SumFunctionOnSet(less, Accounts) = SumFunctionOnSet(held, Accounts) + (less[from] - held[from])
  <2>1. \A a \in Accounts : held[a] \in Int /\ less[a] \in Int
    BY <1>1
  <2>2. \A a \in Accounts \ {from} : held[a] = less[a]
    OBVIOUS
  <2>. HIDE DEF less
  <2>. QED
    BY <2>1, <2>2, FiniteAccounts, SumAfterChange
<1>3. SumFunctionOnSet(moved, Accounts) = SumFunctionOnSet(less, Accounts) + (moved[to] - less[to])
  <2>1. \A a \in Accounts : less[a] \in Int /\ moved[a] \in Int
    BY <1>1
  <2>2. \A a \in Accounts \ {to} : less[a] = moved[a]
    BY <1>1 DEF Shifted
  <2>. HIDE DEF moved, less
  <2>. QED
    BY <2>1, <2>2, FiniteAccounts, SumAfterChange
<1>4. less[from] - held[from] = 0 - debit /\ moved[to] - less[to] = credit
  BY <1>1 DEF Shifted
<1>5. SumFunctionOnSet(held, Accounts) \in Int
  BY FiniteAccounts, SumIsInt
<1>. HIDE DEF less, moved
<1>. QED
  BY <1>1, <1>2, <1>3, <1>4, <1>5 DEF moved

\* A transfer that nobody taxes.
LEMMA UntaxedMoves ==
  ASSUME NEW c, Whole(c), NEW token \in Tokens, NEW from \in Accounts, NEW to \in Accounts,
         NEW amount \in Nat, NEW d, DOMAIN d = DOMAIN c,
         d.held = [c.held EXCEPT ![token] = Shifted(c.held[token], from, amount, to, amount)],
         d.burned = c.burned, d.pool = c.pool, d.ctx = c.ctx, d.routeId = c.routeId,
         d.refunds = c.refunds, d.got = c.got
  PROVE  Moves(c, d, token, from, to, amount, amount)
<1>. DEFINE held == c.held[token]
            moved == Shifted(held, from, amount, to, amount)
<1>1. held \in [Accounts -> Int]
  BY DEF Whole
<1>2. moved \in [Accounts -> Int] /\ SumFunctionOnSet(moved, Accounts) = SumFunctionOnSet(held, Accounts)
  <2>1. SumFunctionOnSet(held, Accounts) \in Int
    BY <1>1, FiniteAccounts, SumIsInt
  <2>. HIDE DEF held
  <2>. QED
    BY <1>1, <2>1, ShiftSum
<1>3. \A a \in Accounts : moved[a] = held[a] - (IF a = from THEN amount ELSE 0)
                                             + (IF a = to THEN amount ELSE 0)
  BY DEF Shifted
<1>4. d.held = [c.held EXCEPT ![token] = moved]
  OBVIOUS
<1>. HIDE DEF moved, held
<1>5. Whole(d)
  BY <1>2, <1>4 DEF Whole
<1>6. (\A t \in Tokens \ {token} : d.held[t] = c.held[t]) /\ d.held[token] = moved
  BY <1>4 DEF Whole
<1>7. \A t \in Tokens : Supply(d, t) = Supply(c, t)
  BY <1>2, <1>6 DEF Supply, held
<1>. QED
  BY <1>3, <1>5, <1>6, <1>7 DEF Moves, held

LEMMA PlainMoves ==
  ASSUME NEW c, Whole(c), NEW token \in Tokens, NEW from \in Accounts, NEW to \in Accounts,
         NEW amount \in Nat, Plain(c, token, from, to, amount).failed = {}
  PROVE  /\ Moves(c, Plain(c, token, from, to, amount), token, from, to, amount, amount)
         /\ Plain(c, token, from, to, amount).last = c.last
         /\ Plain(c, token, from, to, amount).used = c.used
<1>. DEFINE d == Plain(c, token, from, to, amount)
            short == c.held[token][from] < amount
            moved == Shifted(c.held[token], from, amount, to, amount)
<1>1. d = IF short THEN Failed(c, {"funds"}) ELSE [c EXCEPT !.held[token] = moved]
  BY DEF Plain
<1>. HIDE DEF short, moved
<1>2. d = [c EXCEPT !.held[token] = moved]
  <2>1. Failed(c, {"funds"}).failed # {}
    BY DEF Failed, Whole
  <2>. QED
    BY <1>1, <2>1
<1>. HIDE DEF d
<1>3. /\ DOMAIN d = DOMAIN c
      /\ d.held = [c.held EXCEPT ![token] = moved]
      /\ d.pool = c.pool /\ d.ctx = c.ctx /\ d.routeId = c.routeId /\ d.burned = c.burned
      /\ d.refunds = c.refunds /\ d.got = c.got /\ d.last = c.last /\ d.used = c.used
  BY <1>2 DEF Whole
<1>4. Moves(c, d, token, from, to, amount, amount)
  BY <1>3, UntaxedMoves DEF moved
<1>. QED
  BY <1>3, <1>4 DEF d

\* Between c and d a transfer passed the guards and recorded the block of its traders.
Recorded(c, d, from, to, amount, swap) ==
  LET kind == TradeKind(c, from, to, swap)
      traders == {from, to, HopTrader(c, from, to, swap)} \ {Nobody}
      bought == IsRouterSell(from, to, swap) /\ Tax \in c.ctx.acquired
  IN  /\ d.last = Marked(c, kind, traders)
      /\ GuardCauses(c, kind, IF bought THEN {from, to} ELSE traders, to,
                     Credited(c, from, to, amount, swap)) = {}

\* apply_transfer moves a debit and a credit that differ by the tax, records the block of
\* its traders, and passes only what the guards let pass.
LEMMA TransferMoves ==
  ASSUME RatesOK, SinksOK, NEW c, Whole(c), NEW from \in Accounts, NEW to \in Accounts,
         NEW amount \in Nat, NEW swap, Transfer(c, from, to, amount, swap).failed = {}
  PROVE  LET d == Transfer(c, from, to, amount, swap) IN
         /\ Moves(c, d, Tax, from, to, Debited(c, from, to, amount, swap),
                  Credited(c, from, to, amount, swap))
         /\ Recorded(c, d, from, to, amount, swap)
<1>. DEFINE d == Transfer(c, from, to, amount, swap)
            kind == TradeKind(c, from, to, swap)
            hop == HopTrader(c, from, to, swap)
            traders == {from, to, hop} \ {Nobody}
            routerSell == IsRouterSell(from, to, swap)
            bought == routerSell /\ Tax \in c.ctx.acquired
            tax == TaxDue(c, from, to, amount, swap)
            debit == Debited(c, from, to, amount, swap)
            credit == Credited(c, from, to, amount, swap)
            guarded == GuardCauses(c, kind, IF bought THEN {from, to} ELSE traders, to, credit)
            strange == When("trader", (routerSell \/ IsRouterBuy(c, from, to)) /\ ~IsRouteTrader(hop))
            causes == strange
                      \cup When("context", routerSell /\ ~Authorized(c, to, amount, hop))
                      \cup When("funds", c.held[Tax][from] < debit)
                      \cup When("sink", hop # Nobody /\ Misdirected(tax))
                      \cup guarded
            moved == Shifted(c.held[Tax], from, debit, to, credit)
            taxed == [a \in Accounts |-> moved[a] + ShareOf(tax, a)]
            share == [a \in Accounts |-> ShareOf(tax, a)]
<1>1. d = IF causes # {} THEN Failed(c, causes)
          ELSE [c EXCEPT !.held[Tax] = taxed, !.burned = @ + ShareOf(tax, Burn),
                         !.last = Marked(c, kind, traders)]
  BY DEF Transfer, TaxDue, Debited, Credited
<1>2. /\ tax \in 0 .. amount /\ debit \in Nat /\ credit \in Nat
      /\ debit = credit + tax
  <2>1. /\ tax \in 0 .. amount /\ kind \in {"sell", "buy", "transfer", "honest"}
        /\ (kind = "honest" => tax = 0)
    BY TaxDueWithin
  <2>2. /\ debit = IF kind = "sell" THEN amount + tax ELSE amount
        /\ credit = IF kind \in {"buy", "transfer"} THEN amount - tax ELSE amount
    BY DEF Debited, Credited
  <2>. HIDE DEF tax, kind, debit, credit
  <2>. QED
    BY <2>1, <2>2
<1>. HIDE DEF tax, kind, hop, traders, routerSell, bought, debit, credit, guarded, strange
<1>3. c.held[Tax] \in [Accounts -> Int] /\ "failed" \in DOMAIN c /\ Tax \in Tokens
  BY RouteAssumption DEF Whole
<1>4. causes = {}
  <2>1. Failed(c, causes).failed = causes
    <3>. HIDE DEF causes
    <3>. QED
      BY <1>3 DEF Failed
  <2>. HIDE DEF causes, taxed
  <2>. QED
    BY <1>1, <2>1 DEF d
<1>5. guarded = {}
  BY <1>4
<1>. HIDE DEF causes
<1>6. d = [c EXCEPT !.held[Tax] = taxed, !.burned = @ + ShareOf(tax, Burn),
                    !.last = Marked(c, kind, traders)]
  BY <1>1, <1>4
<1>7. /\ \A a : ShareOf(tax, a) \in Int
      /\ \A a : a \notin {Treasury, Burn} => ShareOf(tax, a) = 0
      /\ ShareOf(tax, Treasury) + ShareOf(tax, Burn) = tax
  BY <1>2, SharesGo
<1>8. Burn \notin Accounts /\ Treasury \in Accounts
  BY AccountAssumption DEF Accounts
<1>9. /\ moved \in [Accounts -> Int]
      /\ SumFunctionOnSet(moved, Accounts) = SumFunctionOnSet(c.held[Tax], Accounts) - debit + credit
  BY <1>2, <1>3, ShiftSum
<1>10. /\ taxed \in [Accounts -> Int]
       /\ \A a \in Accounts \ {Treasury} : taxed[a] = moved[a]
  <2>. HIDE DEF moved
  <2>. QED
    BY <1>7, <1>8, <1>9
<1>11. SumFunctionOnSet(taxed, Accounts) =
         SumFunctionOnSet(c.held[Tax], Accounts) - ShareOf(tax, Burn)
  <2>1. SumFunctionOnSet(taxed, Accounts)
          = SumFunctionOnSet(moved, Accounts) + SumFunctionOnSet(share, Accounts)
    <3>1. \A a \in Accounts : moved[a] \in Int /\ share[a] \in Int /\ taxed[a] = moved[a] + share[a]
      BY <1>7, <1>9
    <3>. HIDE DEF moved, share, taxed
    <3>. QED
      BY <3>1, FiniteAccounts, SumOfPointwise
  <2>2. SumFunctionOnSet(share, Accounts) = ShareOf(tax, Treasury)
    <3>1. /\ \A a \in Accounts : share[a] \in Int
          /\ \A a \in Accounts \ {Treasury} : share[a] = 0
          /\ share[Treasury] = ShareOf(tax, Treasury)
      BY <1>7, <1>8
    <3>. HIDE DEF share
    <3>2. IsFiniteSet(Accounts \ {Treasury})
      BY FiniteAccounts, FS_Subset
    <3>3. SumFunctionOnSet(share, Accounts \ {Treasury}) = 0
      BY <3>1, <3>2, SumOfZeros
    <3>4. SumFunctionOnSet(share, Accounts) = share[Treasury] + SumFunctionOnSet(share, Accounts \ {Treasury})
      BY <1>8, <3>1, FiniteAccounts, SumWithout
    <3>. QED
      BY <1>7, <3>1, <3>3, <3>4
  <2>3. SumFunctionOnSet(c.held[Tax], Accounts) \in Int
    BY <1>3, FiniteAccounts, SumIsInt
  <2>. HIDE DEF taxed, moved, share
  <2>. QED
    BY <1>2, <1>7, <1>9, <2>1, <2>2, <2>3
<1>12. \A a \in Accounts : moved[a] = c.held[Tax][a] - (IF a = from THEN debit ELSE 0)
                                                     + (IF a = to THEN credit ELSE 0)
  BY DEF Shifted
<1>. HIDE DEF taxed, moved, share
<1>13. /\ DOMAIN d = DOMAIN c
       /\ d.held = [c.held EXCEPT ![Tax] = taxed] /\ d.burned = c.burned + ShareOf(tax, Burn)
       /\ d.last = Marked(c, kind, traders) /\ d.used = c.used
       /\ d.pool = c.pool /\ d.ctx = c.ctx /\ d.routeId = c.routeId
       /\ d.refunds = c.refunds /\ d.got = c.got
  BY <1>6 DEF Whole
<1>. HIDE DEF d
<1>14. Whole(d)
  <2>1. d.burned \in Int
    BY <1>7, <1>13 DEF Whole
  <2>2. d.held \in [Tokens -> [Accounts -> Int]]
    BY <1>10, <1>13 DEF Whole
  <2>. QED
    BY <1>13, <2>1, <2>2 DEF Whole
<1>15. (\A t \in Tokens \ {Tax} : d.held[t] = c.held[t]) /\ d.held[Tax] = taxed
  BY <1>3, <1>13 DEF Whole
<1>16. \A t \in Tokens : Supply(d, t) = Supply(c, t)
  <2>1. SumFunctionOnSet(c.held[Tax], Accounts) \in Int /\ c.burned \in Int
    BY <1>3, FiniteAccounts, SumIsInt DEF Whole
  <2>2. Supply(d, Tax) = Supply(c, Tax)
    BY <1>7, <1>11, <1>13, <1>15, <2>1 DEF Supply
  <2>. QED
    BY <1>15, <2>2 DEF Supply
<1>17. Moves(c, d, Tax, from, to, debit, credit)
  BY <1>10, <1>12, <1>13, <1>14, <1>15, <1>16 DEF Moves
<1>18. Recorded(c, d, from, to, amount, swap)
  BY <1>5, <1>13 DEF Recorded, d, kind, hop, traders, routerSell, bought, debit, credit, guarded
<1>. QED
  BY <1>17, <1>18 DEF d, debit, credit

-----------------------------------------------------------------------------
(* What moves: one swap. *)

\* What a payment takes and gives, taxed or not.
Took(c, token, from, to, amount, swap) ==
  IF token = Tax THEN Debited(c, from, to, amount, swap) ELSE amount
Gave(c, token, from, to, amount, swap) ==
  IF token = Tax THEN Credited(c, from, to, amount, swap) ELSE amount

LEMMA PaysMoves ==
  ASSUME RatesOK, SinksOK, NEW c, Whole(c), NEW token \in Tokens, NEW from \in Accounts,
         NEW to \in Accounts, NEW amount \in Nat, NEW swap,
         Pays(c, token, from, to, amount, swap).failed = {}
  PROVE  LET took == Took(c, token, from, to, amount, swap)
             gave == Gave(c, token, from, to, amount, swap)
         IN  /\ took \in Nat /\ gave \in Nat
             /\ Moves(c, Pays(c, token, from, to, amount, swap), token, from, to, took, gave)
<1>1. CASE token = Tax
  <2>1. Pays(c, token, from, to, amount, swap) = Transfer(c, from, to, amount, swap)
    BY <1>1 DEF Pays
  <2>2. Moves(c, Transfer(c, from, to, amount, swap), Tax, from, to,
              Debited(c, from, to, amount, swap), Credited(c, from, to, amount, swap))
    BY <2>1, TransferMoves
  <2>3. Debited(c, from, to, amount, swap) \in Nat /\ Credited(c, from, to, amount, swap) \in Nat
    BY TaxDueWithin
  <2>. QED
    BY <1>1, <2>1, <2>2, <2>3 DEF Took, Gave
<1>2. CASE token # Tax
  <2>1. Pays(c, token, from, to, amount, swap) = Plain(c, token, from, to, amount)
    BY <1>2 DEF Pays
  <2>2. Moves(c, Plain(c, token, from, to, amount), token, from, to, amount, amount)
    BY <1>2, <2>1, PlainMoves
  <2>. QED
    BY <1>2, <2>1, <2>2 DEF Took, Gave
<1>. QED
  BY <1>1, <1>2

\* Only a sale takes more than its amount.
LEMMA TookUnlessSale ==
  ASSUME RatesOK, NEW c, NEW token, NEW from, NEW to, NEW amount \in Nat
  PROVE  Took(c, token, from, to, amount, NoHook) = amount
<1>1. TradeKind(c, from, to, NoHook) # "sell"
  BY DEF TradeKind, IsSell
<1>. QED
  BY <1>1 DEF Took, Debited

PairGives(c, token, pair, to, amount) ==
  IF amount > 0 THEN Gave(c, token, pair, to, amount, NoHook) ELSE 0

LEMMA PairPaysMoves ==
  ASSUME RatesOK, SinksOK, NEW c, Whole(c), NEW token \in Tokens, NEW pair \in Accounts,
         NEW to \in Accounts, NEW amount \in Nat,
         PairPays(c, token, pair, to, amount).failed = {}
  PROVE  LET gave == PairGives(c, token, pair, to, amount) IN
         /\ gave \in Nat
         /\ Moves(c, PairPays(c, token, pair, to, amount), token, pair, to, amount, gave)
<1>1. CASE amount > 0
  <2>1. PairPays(c, token, pair, to, amount) = Pays(c, token, pair, to, amount, NoHook)
    BY <1>1 DEF PairPays
  <2>2. Took(c, token, pair, to, amount, NoHook) = amount
    BY TookUnlessSale
  <2>. QED
    BY <1>1, <2>1, <2>2, PaysMoves DEF PairGives
<1>2. CASE amount = 0
  <2>1. PairPays(c, token, pair, to, amount) = c
    BY <1>2 DEF PairPays
  <2>2. \A t \in Tokens, a \in Accounts : c.held[t][a] \in Int
    BY DEF Whole
  <2>3. Moves(c, c, token, pair, to, 0, 0)
    BY <2>2 DEF Moves
  <2>. QED
    BY <1>2, <2>1, <2>3 DEF PairGives
<1>. QED
  BY <1>1, <1>2

\* The pair's side of a swap: its reserves move by as much as its balances, and the
\* receiver is given got.
Swaps(c, d, pair, offer, ask, amount, receiver, got) ==
  /\ Whole(d)
  /\ d.ctx = c.ctx /\ d.routeId = c.routeId /\ d.refunds = c.refunds /\ d.got = c.got
  /\ \A p \in Pairs \ {pair} : d.pool[p] = c.pool[p]
  /\ d.pool[pair][offer] = c.pool[pair][offer] + amount
  /\ \A t \in Tokens \ {ask} : d.held[t] = c.held[t]
  /\ d.held[ask][pair] - d.pool[pair][ask] = c.held[ask][pair] - c.pool[pair][ask]
  /\ d.held[ask][receiver] = c.held[ask][receiver] + got
  /\ \A a \in Accounts \ {pair, receiver, House, Treasury} : d.held[ask][a] = c.held[ask][a]
  /\ \A t \in Tokens : Supply(d, t) = Supply(c, t)

IsPairOf(pair, offer, ask) ==
  /\ pair \in Pairs /\ offer \in Tokens /\ ask \in Tokens /\ offer # ask
  /\ PairTokens[pair] = {offer, ask}

\* Amounts of a swap.
SwapGross(c, pair, offer, ask, amount) == GrossOut(c.pool[pair][offer], c.pool[pair][ask], amount)
SwapFee(c, pair, offer, ask, amount) == Commission(SwapGross(c, pair, offer, ask, amount), FeeBps)

LEMMA SwapAmounts ==
  ASSUME NEW c, Whole(c), NEW pair, NEW offer, NEW ask, IsPairOf(pair, offer, ask), NEW amount \in Nat
  PROVE  LET rin == c.pool[pair][offer]
             rout == c.pool[pair][ask]
             gross == SwapGross(c, pair, offer, ask, amount)
             fee == SwapFee(c, pair, offer, ask, amount)
         IN  /\ rin \in Nat \ {0} /\ rout \in Nat \ {0}
             /\ gross \in 0 .. rout - 1 /\ fee \in 0 .. gross
             /\ gross > 0 => gross - fee > 0
<1>. DEFINE rin == c.pool[pair][offer]
            rout == c.pool[pair][ask]
            gross == SwapGross(c, pair, offer, ask, amount)
            fee == SwapFee(c, pair, offer, ask, amount)
<1>1. rin \in Nat \ {0} /\ rout \in Nat \ {0}
  BY DEF Whole, IsPairOf
<1>2. BPS \in Nat \ {0} /\ FeeBps \in 0 .. BPS - 1
  BY PoolMathAssumption, RouteAssumption
<1>3. gross \in 0 .. rout - 1
  <2>1. gross = GrossOut(rin, rout, amount)
    BY DEF SwapGross
  <2>. HIDE DEF rin, rout, gross
  <2>. QED
    BY <1>1, <2>1, LeftAfterSwap
<1>4. fee = (gross * FeeBps) \div BPS /\ fee = TaxOf(gross, FeeBps)
  BY DEF SwapFee, Commission, TaxOf
<1>. HIDE DEF rin, rout, gross, fee
<1>5. fee \in 0 .. gross
  BY <1>1, <1>2, <1>3, <1>4, TaxWithin
<1>6. ASSUME gross > 0
      PROVE  gross - fee > 0
  <2>1. gross * FeeBps \in Nat /\ gross * BPS \in Nat /\ gross * FeeBps < gross * BPS
    <3>1. gross \in Nat \ {0} /\ FeeBps + 1 \in Int /\ BPS \in Int /\ FeeBps + 1 <= BPS
      BY <1>1, <1>2, <1>3, <1>6
    <3>2. (FeeBps + 1) * gross <= BPS * gross
      BY <3>1, ProductCompares
    <3>3. (FeeBps + 1) * gross = gross * FeeBps + gross /\ BPS * gross = gross * BPS
      BY <3>1, <1>2
    <3>4. gross * FeeBps \in Nat /\ gross * BPS \in Nat
      BY <3>1, <1>2
    <3>. QED
      BY <3>1, <3>2, <3>3, <3>4
  <2>2. gross <= fee <=> gross * BPS <= gross * FeeBps
    <3>1. gross \in Int
      BY <1>1, <1>3
    <3>. QED
      BY <1>2, <1>4, <2>1, <3>1, QuotientLargest
  <2>. QED
    BY <1>1, <1>3, <1>5, <2>1, <2>2
<1>. QED
  BY <1>1, <1>3, <1>5, <1>6 DEF rin, rout, gross, fee

\* A swap after its reserves are moved, and after the return is paid.
Reserved(c, pair, offer, ask, amount) ==
  [c EXCEPT !.pool[pair] =
     [t \in PairTokens[pair] |-> IF t = offer THEN c.pool[pair][offer] + amount
                                 ELSE c.pool[pair][ask] - SwapGross(c, pair, offer, ask, amount)]]
Returned(c, pair, offer, ask, amount, receiver) ==
  PairPays(Reserved(c, pair, offer, ask, amount), ask, pair, receiver,
           SwapGross(c, pair, offer, ask, amount) - SwapFee(c, pair, offer, ask, amount))

LEMMA SwapReserves ==
  ASSUME NEW c, Whole(c), NEW pair, NEW offer, NEW ask, IsPairOf(pair, offer, ask), NEW amount \in Nat
  PROVE  LET d == Reserved(c, pair, offer, ask, amount) IN
         /\ Whole(d)
         /\ d.held = c.held /\ d.burned = c.burned /\ d.ctx = c.ctx /\ d.routeId = c.routeId
         /\ d.refunds = c.refunds /\ d.got = c.got /\ d.last = c.last /\ d.used = c.used
         /\ \A p \in Pairs \ {pair} : d.pool[p] = c.pool[p]
         /\ d.pool[pair][offer] = c.pool[pair][offer] + amount
         /\ d.pool[pair][ask] = c.pool[pair][ask] - SwapGross(c, pair, offer, ask, amount)
<1>. DEFINE gross == SwapGross(c, pair, offer, ask, amount)
            reserves == [t \in PairTokens[pair] |-> IF t = offer THEN c.pool[pair][offer] + amount
                                                    ELSE c.pool[pair][ask] - gross]
            d == Reserved(c, pair, offer, ask, amount)
<1>1. /\ c.pool[pair][offer] \in Nat \ {0} /\ c.pool[pair][ask] \in Nat \ {0}
      /\ gross \in 0 .. c.pool[pair][ask] - 1
  BY SwapAmounts
<1>2. d = [c EXCEPT !.pool[pair] = reserves]
  BY DEF Reserved
<1>3. PairTokens[pair] = {offer, ask} /\ offer # ask /\ pair \in Pairs
  BY DEF IsPairOf
<1>. HIDE DEF gross
<1>4. /\ reserves \in [PairTokens[pair] -> Nat \ {0}]
      /\ reserves[offer] = c.pool[pair][offer] + amount
      /\ reserves[ask] = c.pool[pair][ask] - gross
  BY <1>1, <1>3
<1>. HIDE DEF reserves, d
<1>5. /\ DOMAIN d = DOMAIN c /\ d.pool = [c.pool EXCEPT ![pair] = reserves]
      /\ d.held = c.held /\ d.burned = c.burned /\ d.ctx = c.ctx /\ d.routeId = c.routeId
      /\ d.refunds = c.refunds /\ d.got = c.got /\ d.last = c.last /\ d.used = c.used
  BY <1>2 DEF Whole
<1>6. /\ d.pool[pair] = reserves /\ DOMAIN d.pool = Pairs
      /\ \A p \in Pairs \ {pair} : d.pool[p] = c.pool[p]
  BY <1>3, <1>5 DEF Whole
<1>7. Whole(d)
  <2>1. \A p \in Pairs : d.pool[p] \in [PairTokens[p] -> Nat \ {0}]
    BY <1>4, <1>6 DEF Whole
  <2>. QED
    BY <1>5, <1>6, <2>1 DEF Whole
<1>. QED
  BY <1>4, <1>5, <1>6, <1>7 DEF d, gross

LEMMA FailedFails ==
  ASSUME NEW c, Whole(c), NEW causes
  PROVE  Failed(c, causes).failed = causes
BY DEF Failed, Whole

\* The return is paid, then the commission: paid[k] is the swap after k payments.
PaymentsOf(receiver, back, fee) ==
  <<[to |-> receiver, amount |-> back], [to |-> House, amount |-> fee]>>
Payments(paid, swapped, ask, pair, payments) ==
  paid = [k \in 0 .. 2 |->
           IF k = 0 THEN swapped
           ELSE Then(paid[k - 1],
                     PairPays(paid[k - 1], ask, pair, payments[k].to, payments[k].amount))]

LEMMA PaymentsEnd ==
  ASSUME NEW swapped, NEW ask, NEW pair, NEW payments
  PROVE  \A paid : Payments(paid, swapped, ask, pair, payments) =>
           /\ paid[1] = Then(swapped,
                             PairPays(swapped, ask, pair, payments[1].to, payments[1].amount))
           /\ paid[2] = Then(paid[1],
                             PairPays(paid[1], ask, pair, payments[2].to, payments[2].amount))
<1>. DEFINE Step(c, k) == Then(c, PairPays(c, ask, pair, payments[k].to, payments[k].amount))
<1>1. SUFFICES ASSUME NEW paid, Payments(paid, swapped, ask, pair, payments)
               PROVE  paid[1] = Step(swapped, 1) /\ paid[2] = Step(paid[1], 2)
  OBVIOUS
<1>2. paid = [k \in 0 .. 2 |-> IF k = 0 THEN swapped ELSE Step(paid[k - 1], k)]
  BY <1>1 DEF Payments
<1>. HIDE DEF Step
<1>3. 0 \in 0 .. 2 /\ 1 \in 0 .. 2 /\ 2 \in 0 .. 2 /\ 1 - 1 = 0 /\ 2 - 1 = 1 /\ 1 # 0 /\ 2 # 0
  OBVIOUS
<1>4. paid[0] = swapped
  BY <1>2, <1>3
<1>5. paid[1] = Step(paid[1 - 1], 1) /\ paid[2] = Step(paid[2 - 1], 2)
  BY <1>2, <1>3
<1>. QED
  BY <1>3, <1>4, <1>5

LEMMA PaymentsExist ==
  ASSUME NEW swapped, NEW ask, NEW pair, NEW payments
  PROVE  \E paid : Payments(paid, swapped, ask, pair, payments)
<1>. DEFINE Step(c, k) == Then(c, PairPays(c, ask, pair, payments[k].to, payments[k].amount))
            paid == [k \in 0 .. 2 |-> IF k = 0 THEN swapped ELSE
                       IF k = 1 THEN Step(swapped, 1) ELSE Step(Step(swapped, 1), 2)]
<1>. HIDE DEF Step
<1>1. paid[0] = swapped /\ paid[1] = Step(swapped, 1) /\ paid[2] = Step(paid[1], 2)
  <2>1. 0 \in 0 .. 2 /\ 1 \in 0 .. 2 /\ 2 \in 0 .. 2 /\ 1 # 0 /\ 2 # 0 /\ 2 # 1
    OBVIOUS
  <2>. QED
    BY <2>1
<1>2. ASSUME NEW k \in 0 .. 2
      PROVE  paid[k] = IF k = 0 THEN swapped ELSE Step(paid[k - 1], k)
  <2>1. k = 0 \/ (k = 1 /\ k - 1 = 0 /\ k # 0) \/ (k = 2 /\ k - 1 = 1 /\ k # 0)
    OBVIOUS
  <2>. HIDE DEF paid
  <2>. QED
    BY <1>1, <2>1
<1>3. paid = [k \in 0 .. 2 |-> paid[k]]
  OBVIOUS
<1>. HIDE DEF paid
<1>4. paid = [k \in 0 .. 2 |-> IF k = 0 THEN swapped ELSE Step(paid[k - 1], k)]
  BY <1>2, <1>3
<1>. QED
  BY <1>4 DEF Payments, Step

\* A swap that is not refused is these steps: the return, then the commission.
LEMMA SwapSteps ==
  ASSUME NEW c, Whole(c), NEW pair, NEW offer, NEW ask, NEW amount, NEW receiver, NEW floor,
         PairSwap(c, pair, offer, ask, amount, receiver, floor).failed = {}
  PROVE  LET paid == Returned(c, pair, offer, ask, amount, receiver)
         IN  /\ paid.failed = {}
             /\ PairSwap(c, pair, offer, ask, amount, receiver, floor) =
                  PairPays(paid, ask, pair, House, SwapFee(c, pair, offer, ask, amount))
<1>. DEFINE d == PairSwap(c, pair, offer, ask, amount, receiver, floor)
            causes == SwapCauses(c.pool[pair][offer], c.pool[pair][ask], amount, floor)
            fee == SwapFee(c, pair, offer, ask, amount)
            back == SwapGross(c, pair, offer, ask, amount) - fee
            swapped == Reserved(c, pair, offer, ask, amount)
            payments == PaymentsOf(receiver, back, fee)
            paid == CHOOSE f : Payments(f, swapped, ask, pair, payments)
            returned == PairPays(swapped, ask, pair, receiver, back)
<1>1. d = IF causes # {} THEN Failed(c, causes) ELSE paid[2]
  BY DEF PairSwap, Payments, PaymentsOf, Reserved, SwapGross, SwapFee
<1>2. returned = Returned(c, pair, offer, ask, amount, receiver)
  BY DEF Returned
<1>3. /\ payments[1].to = receiver /\ payments[1].amount = back
      /\ payments[2].to = House /\ payments[2].amount = fee
  <2>. HIDE DEF back, fee
  <2>. QED
    BY DEF PaymentsOf
<1>. HIDE DEF causes, swapped, payments, back, fee
<1>4. Payments(paid, swapped, ask, pair, payments)
  BY PaymentsExist
<1>. HIDE DEF paid
<1>5. paid[1] = Then(swapped, returned) /\ paid[2] = Then(paid[1], PairPays(paid[1], ask, pair, House, fee))
  BY <1>3, <1>4, PaymentsEnd
<1>. HIDE DEF returned
<1>6. causes = {}
  BY <1>1, FailedFails
<1>. HIDE DEF d
<1>7. d = paid[2] /\ d.failed = {}
  BY <1>1, <1>6 DEF d
<1>8. paid[1].failed = {} /\ d = PairPays(paid[1], ask, pair, House, fee)
  BY <1>5, <1>7 DEF Then
<1>9. paid[1] = returned
  BY <1>5, <1>8 DEF Then
<1>. QED
  BY <1>2, <1>8, <1>9 DEF d, fee

LEMMA PairSwapMoves ==
  ASSUME RatesOK, SinksOK, NEW c, Whole(c), NEW pair, NEW offer, NEW ask,
         IsPairOf(pair, offer, ask), NEW amount \in Nat, NEW receiver \in Wallets \cup {Router},
         NEW floor, PairSwap(c, pair, offer, ask, amount, receiver, floor).failed = {}
  PROVE  LET gross == SwapGross(c, pair, offer, ask, amount)
             fee == SwapFee(c, pair, offer, ask, amount)
             got == PairGives(Reserved(c, pair, offer, ask, amount), ask, pair, receiver, gross - fee)
         IN  /\ got \in Nat
             /\ Swaps(c, PairSwap(c, pair, offer, ask, amount, receiver, floor),
                      pair, offer, ask, amount, receiver, got)
<1>. DEFINE gross == SwapGross(c, pair, offer, ask, amount)
            fee == SwapFee(c, pair, offer, ask, amount)
            b == Reserved(c, pair, offer, ask, amount)
            paid == Returned(c, pair, offer, ask, amount, receiver)
            d == PairSwap(c, pair, offer, ask, amount, receiver, floor)
            got == PairGives(b, ask, pair, receiver, gross - fee)
            last == PairGives(paid, ask, pair, House, fee)
<1>1. /\ pair \in Pairs /\ ask \in Tokens /\ offer \in Tokens /\ offer # ask
      /\ pair \in Accounts /\ receiver \in Accounts /\ House \in Accounts
      /\ pair # receiver /\ pair # House /\ receiver # House /\ pair # Treasury /\ receiver # Treasury
      /\ House # Treasury
  BY AccountAssumption DEF IsPairOf, Accounts
<1>2. gross \in Nat /\ fee \in Nat /\ gross - fee \in Nat
  <2>1. /\ c.pool[pair][ask] \in Nat \ {0} /\ gross \in 0 .. c.pool[pair][ask] - 1 /\ fee \in 0 .. gross
    BY SwapAmounts
  <2>. HIDE DEF gross, fee
  <2>. QED
    BY <2>1
<1>3. /\ Whole(b) /\ b.held = c.held /\ b.burned = c.burned /\ b.ctx = c.ctx
      /\ b.routeId = c.routeId /\ b.refunds = c.refunds /\ b.got = c.got
      /\ \A p \in Pairs \ {pair} : b.pool[p] = c.pool[p]
      /\ b.pool[pair][offer] = c.pool[pair][offer] + amount
      /\ b.pool[pair][ask] = c.pool[pair][ask] - gross
  BY SwapReserves
<1>4. paid.failed = {} /\ d = PairPays(paid, ask, pair, House, fee) /\ d.failed = {}
  BY SwapSteps
<1>5. paid = PairPays(b, ask, pair, receiver, gross - fee)
  BY DEF Returned
<1>. HIDE DEF gross, fee, b, paid, d
<1>6. got \in Nat /\ Moves(b, paid, ask, pair, receiver, gross - fee, got)
  BY <1>1, <1>2, <1>3, <1>4, <1>5, PairPaysMoves
<1>7. last \in Nat /\ Moves(paid, d, ask, pair, House, fee, last)
  <2>1. Whole(paid)
    BY <1>6 DEF Moves
  <2>. QED
    BY <1>1, <1>2, <1>4, <2>1, PairPaysMoves
<1>. HIDE DEF got, last
<1>8. \A a \in Accounts : c.held[ask][a] \in Int
  BY <1>1 DEF Whole
<1>9. /\ Whole(d) /\ d.pool = b.pool /\ d.ctx = c.ctx /\ d.routeId = c.routeId
      /\ d.refunds = c.refunds /\ d.got = c.got
      /\ \A t \in Tokens \ {ask} : d.held[t] = c.held[t]
  BY <1>3, <1>6, <1>7 DEF Moves
<1>10. \A t \in Tokens : Supply(d, t) = Supply(c, t)
  <2>1. \A t \in Tokens : Supply(b, t) = Supply(c, t)
    BY <1>3 DEF Supply
  <2>. QED
    BY <2>1, <1>6, <1>7 DEF Moves
<1>11. /\ \A a \in Accounts \ {Treasury} :
            paid.held[ask][a] = c.held[ask][a] - (IF a = pair THEN gross - fee ELSE 0)
                                               + (IF a = receiver THEN got ELSE 0)
       /\ \A a \in Accounts \ {Treasury} :
            d.held[ask][a] = paid.held[ask][a] - (IF a = pair THEN fee ELSE 0)
                                               + (IF a = House THEN last ELSE 0)
  BY <1>3, <1>6, <1>7 DEF Moves
<1>12. d.held[ask][pair] = c.held[ask][pair] - gross
  BY <1>1, <1>2, <1>8, <1>11
<1>13. d.held[ask][receiver] = c.held[ask][receiver] + got
  BY <1>1, <1>2, <1>6, <1>8, <1>11
<1>14. \A a \in Accounts \ {pair, receiver, House, Treasury} : d.held[ask][a] = c.held[ask][a]
  BY <1>1, <1>2, <1>8, <1>11
<1>15. d.held[ask][pair] - d.pool[pair][ask] = c.held[ask][pair] - c.pool[pair][ask]
  <2>1. c.pool[pair][ask] \in Int
    BY DEF Whole, IsPairOf
  <2>. QED
    BY <1>1, <1>2, <1>3, <1>8, <1>9, <1>12, <2>1
<1>. QED
  BY <1>3, <1>6, <1>9, <1>10, <1>13, <1>14, <1>15 DEF Swaps, d, got, b, gross, fee

\* A sale: it takes took from one account and gives another got; every pair keeps holding
\* as much more than its reserves as before, and nothing else moves in a wallet or the router.
Sells(c, d, pair, from, offer, ask, took, receiver, got) ==
  /\ Whole(d)
  /\ d.ctx = c.ctx /\ d.routeId = c.routeId /\ d.refunds = c.refunds /\ d.got = c.got
  /\ \A p \in Pairs \ {pair} : d.pool[p] = c.pool[p]
  /\ \A p \in Pairs : \A t \in PairTokens[p] :
       d.held[t][p] - d.pool[p][t] = c.held[t][p] - c.pool[p][t]
  /\ \A t \in Tokens \ {offer, ask} : d.held[t] = c.held[t]
  /\ \A a \in Wallets \cup {Router} :
       /\ d.held[offer][a] = c.held[offer][a] - (IF a = from THEN took ELSE 0)
       /\ d.held[ask][a] = c.held[ask][a] + (IF a = receiver THEN got ELSE 0)
  /\ \A t \in Tokens : Supply(d, t) = Supply(c, t)

\* A sale that is not refused: the transfer to the pair, then the swap of what arrived.
LEMMA SaleSteps ==
  ASSUME RatesOK, SinksOK, NEW c, Whole(c), NEW from \in Wallets \cup {Router}, NEW offer, NEW ask,
         NEW amount \in Nat, NEW receiver, NEW floor, NEW trader,
         IsPairOf(PairOf(offer, ask), offer, ask),
         SendSwap(c, from, offer, ask, amount, receiver, floor, trader).failed = {}
  PROVE  LET pair == PairOf(offer, ask)
             sent == Pays(c, offer, from, pair, amount, trader)
             gave == Gave(c, offer, from, pair, amount, trader)
         IN  /\ sent.failed = {} /\ gave \in Nat
             /\ Moves(c, sent, offer, from, pair, Took(c, offer, from, pair, amount, trader), gave)
             /\ SendSwap(c, from, offer, ask, amount, receiver, floor, trader) =
                  PairSwap(sent, pair, offer, ask, gave, receiver, floor)
<1>. DEFINE pair == PairOf(offer, ask)
            sent == Pays(c, offer, from, pair, amount, trader)
            gave == Gave(c, offer, from, pair, amount, trader)
            took == Took(c, offer, from, pair, amount, trader)
            d == SendSwap(c, from, offer, ask, amount, receiver, floor, trader)
            arrived == sent.held[offer][pair] - c.held[offer][pair]
            next == PairSwap(sent, pair, offer, ask, arrived, receiver, floor)
<1>1. d = Then(sent, next)
  BY DEF SendSwap, Arrived
<1>2. sent.failed = {} /\ d = next
  <2>. HIDE DEF sent, next, d
  <2>1. d.failed = {}
    BY DEF d
  <2>. QED
    BY <1>1, <2>1 DEF Then
<1>3. /\ offer \in Tokens /\ pair \in Accounts /\ from \in Accounts /\ pair # from /\ pair # Treasury
  BY AccountAssumption DEF IsPairOf, Accounts
<1>. HIDE DEF pair
<1>4. took \in Nat /\ gave \in Nat /\ Moves(c, sent, offer, from, pair, took, gave)
  BY <1>2, <1>3, PaysMoves
<1>5. arrived = gave
  <2>1. c.held[offer][pair] \in Int
    BY <1>3 DEF Whole
  <2>2. sent.held[offer][pair] = c.held[offer][pair] - 0 + gave
    <3>. HIDE DEF gave, took, sent
    <3>. QED
      BY <1>3, <1>4 DEF Moves
  <2>. HIDE DEF gave, took, sent
  <2>. QED
    BY <1>4, <2>1, <2>2
<1>. QED
  BY <1>2, <1>4, <1>5 DEF pair

LEMMA SendSwapMoves ==
  ASSUME RatesOK, SinksOK, NEW c, Whole(c), NEW from \in Wallets \cup {Router}, NEW offer, NEW ask,
         NEW amount \in Nat, NEW receiver \in Wallets \cup {Router}, NEW floor, NEW trader,
         IsPairOf(PairOf(offer, ask), offer, ask),
         SendSwap(c, from, offer, ask, amount, receiver, floor, trader).failed = {}
  PROVE  LET pair == PairOf(offer, ask)
             took == Took(c, offer, from, pair, amount, trader)
         IN  /\ took \in Nat
             /\ \E got \in Nat :
                  Sells(c, SendSwap(c, from, offer, ask, amount, receiver, floor, trader),
                        pair, from, offer, ask, took, receiver, got)
<1>. DEFINE pair == PairOf(offer, ask)
            sent == Pays(c, offer, from, pair, amount, trader)
            gave == Gave(c, offer, from, pair, amount, trader)
            took == Took(c, offer, from, pair, amount, trader)
            d == SendSwap(c, from, offer, ask, amount, receiver, floor, trader)
<1>1. /\ sent.failed = {} /\ gave \in Nat /\ Moves(c, sent, offer, from, pair, took, gave)
      /\ d = PairSwap(sent, pair, offer, ask, gave, receiver, floor) /\ d.failed = {}
  BY SaleSteps
<1>2. took \in Nat
  BY TaxDueWithin DEF Took
<1>3. /\ IsPairOf(pair, offer, ask) /\ pair \in Pairs /\ offer \in Tokens /\ ask \in Tokens /\ offer # ask
      /\ PairTokens[pair] = {offer, ask}
  BY DEF IsPairOf
<1>. HIDE DEF pair, sent, gave, took, d
<1>4. PICK got \in Nat : Swaps(sent, d, pair, offer, ask, gave, receiver, got)
  <2>1. Whole(sent)
    BY <1>1 DEF Moves
  <2>. QED
    BY <1>1, <1>3, <2>1, PairSwapMoves
<1>5. /\ \A p \in Pairs : p \in Accounts /\ p \notin Wallets \cup {Router, House, Treasury}
      /\ \A a \in Wallets \cup {Router} : a \in Accounts /\ a \notin Pairs \cup {House, Treasury}
  BY AccountAssumption DEF Accounts
<1>6. /\ Whole(d) /\ d.ctx = c.ctx /\ d.routeId = c.routeId /\ d.refunds = c.refunds /\ d.got = c.got
      /\ \A p \in Pairs \ {pair} : d.pool[p] = c.pool[p]
      /\ \A t \in Tokens \ {offer, ask} : d.held[t] = c.held[t]
      /\ \A t \in Tokens : Supply(d, t) = Supply(c, t)
  BY <1>1, <1>4 DEF Moves, Swaps
<1>7. \A t \in Tokens, a \in Accounts : c.held[t][a] \in Int
  BY DEF Whole
<1>8. \A p \in Pairs : \A t \in PairTokens[p] : t \in Tokens /\ c.pool[p][t] \in Int
  <2>1. \A p \in Pairs : PairTokens[p] \subseteq Tokens
    BY RouteAssumption
  <2>. QED
    BY <2>1 DEF Whole
<1>9. \A a \in Accounts \ {Treasury} :
         /\ d.held[offer][a] = c.held[offer][a] - (IF a = from THEN took ELSE 0)
                                                + (IF a = pair THEN gave ELSE 0)
         /\ sent.held[ask][a] = c.held[ask][a]
  BY <1>1, <1>3, <1>4 DEF Moves, Swaps
<1>10. ASSUME NEW a \in Wallets \cup {Router}
       PROVE  /\ d.held[offer][a] = c.held[offer][a] - (IF a = from THEN took ELSE 0)
              /\ d.held[ask][a] = c.held[ask][a] + (IF a = receiver THEN got ELSE 0)
  <2>1. a \in Accounts \ {Treasury} /\ a # pair /\ a # House
    BY <1>3, <1>5
  <2>2. d.held[offer][a] = c.held[offer][a] - (IF a = from THEN took ELSE 0)
    BY <1>2, <1>3, <1>7, <1>9, <2>1
  <2>3. CASE a = receiver
    BY <1>4, <1>9, <2>1, <2>2, <2>3 DEF Swaps
  <2>4. CASE a # receiver
    <3>1. d.held[ask][a] = c.held[ask][a]
      BY <1>4, <1>9, <2>1, <2>4 DEF Swaps
    <3>. QED
      BY <1>3, <1>7, <2>1, <2>2, <2>4, <3>1
  <2>. QED
    BY <2>3, <2>4
<1>11. ASSUME NEW p \in Pairs, NEW t \in PairTokens[p]
       PROVE  d.held[t][p] - d.pool[p][t] = c.held[t][p] - c.pool[p][t]
  <2>1. p \in Accounts \ {from, receiver, House, Treasury} /\ t \in Tokens
    BY <1>5, <1>8
  <2>2. CASE p = pair /\ t = offer
    <3>1. d.pool[p][t] = c.pool[p][t] + gave
      BY <1>1, <1>4, <2>2 DEF Moves, Swaps
    <3>2. d.held[t][p] = c.held[t][p] - 0 + gave
      BY <1>9, <2>1, <2>2
    <3>3. c.held[t][p] \in Int /\ c.pool[p][t] \in Int /\ gave \in Int
      BY <1>1, <1>7, <1>8, <2>1
    <3>. QED
      BY <3>1, <3>2, <3>3
  <2>3. CASE p = pair /\ t = ask
    <3>1. d.held[ask][pair] - d.pool[pair][ask] = sent.held[ask][pair] - sent.pool[pair][ask]
      BY <1>4 DEF Swaps
    <3>2. sent.held[ask][pair] = c.held[ask][pair] /\ sent.pool = c.pool
      BY <1>1, <1>9, <2>1, <2>3 DEF Moves
    <3>. QED
      BY <2>3, <3>1, <3>2
  <2>4. CASE p # pair
    <3>1. d.pool[p] = c.pool[p]
      BY <1>6, <2>4
    <3>2. d.held[t][p] = c.held[t][p]
      <4>1. CASE t = offer
        <5>1. d.held[t][p] = c.held[t][p] - 0 + 0
          BY <1>9, <2>1, <2>4, <4>1
        <5>. QED
          BY <1>7, <2>1, <5>1
      <4>2. CASE t = ask
        BY <1>4, <1>9, <2>1, <2>4, <4>2 DEF Swaps
      <4>3. CASE t \notin {offer, ask}
        BY <1>6, <2>1, <4>3
      <4>. QED
        BY <4>1, <4>2, <4>3
    <3>. QED
      BY <3>1, <3>2
  <2>. QED
    BY <1>3, <2>2, <2>3, <2>4
<1>12. Sells(c, d, pair, from, offer, ask, took, receiver, got)
  BY <1>6, <1>10, <1>11 DEF Sells
<1>. QED
  BY <1>2, <1>12 DEF d, pair, took

-----------------------------------------------------------------------------
(* What moves: a route. *)

LEMMA DeliverMoves ==
  ASSUME NEW c, Whole(c), NEW entry, entry.token \in Tokens, entry.recipient \in Accounts,
         entry.amount \in Nat, Deliver(c, entry).failed = {}
  PROVE  /\ Moves(c, Deliver(c, entry), entry.token, Router, entry.recipient,
                  entry.amount, entry.amount)
         /\ Deliver(c, entry).last = c.last
         /\ entry.token = Tax => Router = official
         /\ entry.token = Tax /\ ~Restores(c, entry) =>
              GuardCauses(c, "honest", {}, entry.recipient, entry.amount) = {}
<1>. DEFINE d == Deliver(c, entry)
<1>1. Router \in Accounts
  BY DEF Accounts
<1>2. CASE entry.token # Tax
  <2>1. d = Plain(c, entry.token, Router, entry.recipient, entry.amount)
    BY <1>2 DEF Deliver
  <2>. QED
    BY <1>1, <1>2, <2>1, PlainMoves
<1>3. CASE entry.token = Tax
  <2>. DEFINE guarded == GuardCauses(c, "honest", {}, entry.recipient, entry.amount)
              strange == When("sender", Router # official)
                         \cup When("context", c.ctx.id = 0 \/ entry \notin c.ctx.transfers)
                         \cup When("slot", Spent(c, entry.slot))
                         \cup When("funds", c.held[Tax][Router] < entry.amount)
              causes == strange \cup (IF Restores(c, entry) THEN {} ELSE guarded)
              moved == Shifted(c.held[Tax], Router, entry.amount, entry.recipient, entry.amount)
  <2>1. d = IF causes # {} THEN Failed(c, causes)
            ELSE [c EXCEPT !.held[Tax] = moved, !.used = Consumed(c, entry.slot)]
    BY <1>3 DEF Deliver, RouteTransfer
  <2>. HIDE DEF strange, guarded, moved
  <2>2. causes = {}
    <3>. HIDE DEF causes
    <3>. QED
      BY <2>1, FailedFails
  <2>3. (~Restores(c, entry) => guarded = {}) /\ Router = official
    BY <2>2 DEF strange, When
  <2>. HIDE DEF d, causes
  <2>4. d = [c EXCEPT !.held[Tax] = moved, !.used = Consumed(c, entry.slot)]
    BY <2>1, <2>2
  <2>5. /\ DOMAIN d = DOMAIN c /\ d.held = [c.held EXCEPT ![Tax] = moved]
        /\ d.pool = c.pool /\ d.ctx = c.ctx /\ d.routeId = c.routeId /\ d.burned = c.burned
        /\ d.refunds = c.refunds /\ d.got = c.got /\ d.last = c.last
    BY <2>4 DEF Whole
  <2>6. Moves(c, d, Tax, Router, entry.recipient, entry.amount, entry.amount)
    BY <1>1, <1>3, <2>5, UntaxedMoves DEF moved
  <2>. QED
    BY <1>3, <2>3, <2>5, <2>6 DEF d, guarded
<1>. QED
  BY <1>2, <1>3

\* A path leads from pair to pair.
LEMMA PathHops ==
  ASSUME NEW path \in Paths
  PROVE  /\ Len(path) \in Nat /\ Len(path) > 1 /\ Last(path) = path[Len(path)]
         /\ \A i \in 1 .. Len(path) : path[i] \in Tokens
         /\ \A i \in 1 .. Len(path) - 1 :
              /\ i + 1 \in 1 .. Len(path) /\ IsPairOf(HopPair(path, i), path[i], path[i + 1])
              /\ HopPair(path, i) = PairOf(path[i], path[i + 1])
<1>1. path \in Seq(Tokens) /\ Len(path) > 1
  BY RouteAssumption
<1>2. Len(path) \in Nat /\ \A i \in 1 .. Len(path) : path[i] \in Tokens
  BY <1>1
<1>3. ASSUME NEW i \in 1 .. Len(path) - 1
      PROVE  /\ i \in 1 .. Len(path) /\ i + 1 \in 1 .. Len(path)
             /\ IsPairOf(HopPair(path, i), path[i], path[i + 1])
  <2>. DEFINE n == Len(path)
  <2>1. i \in 1 .. n /\ i + 1 \in 1 .. n
    <3>1. n \in Nat /\ i \in 1 .. n - 1
      BY <1>2
    <3>. HIDE DEF n
    <3>. QED
      BY <3>1
  <2>2. \E p \in Pairs : path[i] # path[i + 1] /\ PairTokens[p] = {path[i], path[i + 1]}
    BY RouteAssumption
  <2>. QED
    BY <1>2, <2>1, <2>2 DEF IsPairOf, HopPair, PairOf
<1>4. Last(path) = path[Len(path)]
  BY DEF Last
<1>. QED
  BY <1>1, <1>2, <1>3, <1>4 DEF HopPair

\* What the router owes in refunds; a path sells the token at most once.
OwedBack(refunds) == IF refunds = <<>> THEN 0 ELSE refunds[1].amount
RefundOf(trader, residue) == [slot |-> 0, token |-> Tax, recipient |-> trader, amount |-> residue]

\* i hops into a route that began in s: pairs hold what they held besides their reserves, the
\* router what it held, the output of the last hop and the refund it owes, and every wallet
\* what it held but for the deposit.
OnRoute(s, c, path, i, trader, deposit) ==
  /\ Whole(c) /\ c.got \in Nat
  /\ c.refunds = <<>> \/ /\ \E residue \in Nat : c.refunds = <<RefundOf(trader, residue)>>
                         /\ \E j \in 1 .. i : path[j] = Tax
  /\ \A p \in Pairs : \A t \in PairTokens[p] :
       c.held[t][p] - c.pool[p][t] = s.held[t][p] - s.pool[p][t]
  /\ \A t \in Tokens :
       c.held[t][Router] = s.held[t][Router] + (IF t = path[i + 1] THEN c.got ELSE 0)
                                             + (IF t = Tax THEN OwedBack(c.refunds) ELSE 0)
  /\ \A t \in Tokens, a \in Wallets :
       c.held[t][a] = s.held[t][a] - (IF t = path[1] /\ a = trader THEN deposit ELSE 0)
  /\ \A t \in Tokens : Supply(c, t) = Supply(s, t)

LEMMA DepositBegins ==
  ASSUME RatesOK, SinksOK, NEW s, Whole(s), s.refunds = <<>>, NEW path \in Paths,
         NEW trader \in Wallets, NEW amount \in Nat,
         Begun(s, Pays(s, path[1], trader, Router, amount, NoHook), path[1]).failed = {}
  PROVE  LET c == Begun(s, Pays(s, path[1], trader, Router, amount, NoHook), path[1]) IN
         /\ OnRoute(s, c, path, 0, trader, amount)
         /\ c.pool = s.pool /\ c.ctx = s.ctx /\ c.got = Gave(s, path[1], trader, Router, amount, NoHook)
         /\ c.last = Pays(s, path[1], trader, Router, amount, NoHook).last
         /\ c.routeId = s.routeId + 1
<1>. DEFINE token == path[1]
            sent == Pays(s, token, trader, Router, amount, NoHook)
            gave == Gave(s, token, trader, Router, amount, NoHook)
            got == sent.held[token][Router] - s.held[token][Router]
            next == [sent EXCEPT !.routeId = @ + 1, !.got = got]
            c == Begun(s, sent, token)
<1>1. c = Then(sent, next)
  BY DEF Begun
<1>2. sent.failed = {} /\ c = next
  <2>. HIDE DEF sent, next, c
  <2>1. c.failed = {}
    BY DEF c, sent
  <2>. QED
    BY <1>1, <2>1 DEF Then
<1>3. token \in Tokens /\ trader \in Accounts /\ Router \in Accounts
  BY PathHops DEF Accounts
<1>4. /\ trader # Router /\ trader # Treasury /\ Router # Treasury
      /\ \A p \in Pairs : p \in Accounts /\ p # Router /\ p # trader /\ p # Treasury
      /\ \A a \in Wallets : a \in Accounts /\ a # Router /\ a # Treasury
  BY AccountAssumption DEF Accounts
<1>5. gave \in Nat /\ Moves(s, sent, token, trader, Router, amount, gave)
  <2>1. Took(s, token, trader, Router, amount, NoHook) = amount
    BY TookUnlessSale
  <2>. HIDE DEF token
  <2>. QED
    BY <1>2, <1>3, <2>1, PaysMoves
<1>. HIDE DEF token, sent, gave
<1>6. \A t \in Tokens, a \in Accounts : s.held[t][a] \in Int
  BY DEF Whole
<1>7. /\ \A t \in Tokens \ {token} : sent.held[t] = s.held[t]
      /\ \A a \in Accounts \ {Treasury} :
           sent.held[token][a] = s.held[token][a] - (IF a = trader THEN amount ELSE 0)
                                                  + (IF a = Router THEN gave ELSE 0)
      /\ Whole(sent) /\ sent.pool = s.pool /\ sent.ctx = s.ctx /\ sent.routeId = s.routeId
      /\ sent.refunds = s.refunds
      /\ \A t \in Tokens : Supply(sent, t) = Supply(s, t)
  BY <1>5 DEF Moves
<1>8. got = gave
  BY <1>3, <1>4, <1>5, <1>6, <1>7
<1>. HIDE DEF got
<1>9. /\ DOMAIN c = DOMAIN sent /\ c.held = sent.held /\ c.pool = sent.pool /\ c.ctx = sent.ctx
      /\ c.refunds = sent.refunds /\ c.burned = sent.burned /\ c.last = sent.last
      /\ c.got = gave /\ c.routeId = s.routeId + 1
  BY <1>2, <1>7, <1>8 DEF Whole
<1>. HIDE DEF c, next
<1>10. Whole(c)
  BY <1>7, <1>9 DEF Whole
<1>11. \A t \in Tokens : Supply(c, t) = Supply(s, t)
  BY <1>7, <1>9 DEF Supply
<1>12. \A t \in Tokens, a \in Wallets :
         c.held[t][a] = s.held[t][a] - (IF t = token /\ a = trader THEN amount ELSE 0)
  BY <1>3, <1>4, <1>6, <1>7, <1>9
<1>13. \A t \in Tokens : c.held[t][Router] = s.held[t][Router] + (IF t = token THEN gave ELSE 0)
  BY <1>3, <1>4, <1>5, <1>6, <1>7, <1>9
<1>14. \A p \in Pairs : \A t \in PairTokens[p] : c.held[t][p] = s.held[t][p]
  <2>1. \A p \in Pairs : PairTokens[p] \subseteq Tokens
    BY RouteAssumption
  <2>. QED
    BY <1>3, <1>4, <1>6, <1>7, <1>9, <2>1
<1>15. \A t \in Tokens :
         c.held[t][Router] = s.held[t][Router] + (IF t = path[0 + 1] THEN c.got ELSE 0)
                                               + (IF t = Tax THEN OwedBack(c.refunds) ELSE 0)
  <2>1. OwedBack(c.refunds) = 0
    BY <1>7, <1>9 DEF OwedBack
  <2>. QED
    BY <1>3, <1>4, <1>5, <1>6, <1>9, <1>13, <2>1 DEF token
<1>16. OnRoute(s, c, path, 0, trader, amount)
  BY <1>5, <1>7, <1>9, <1>10, <1>11, <1>12, <1>14, <1>15 DEF OnRoute, token
<1>. QED
  BY <1>7, <1>9, <1>16 DEF c, token, sent, gave

\* A sale of the router that its preview foresaw: the tax is the trader's, on top.
LEMMA RouterSale ==
  ASSUME NEW h, NEW pair, NEW trader \in Wallets, NEW tax,
         Previewed(pair, trader, tax)
  PROVE  /\ TradeKind(h, Router, pair, trader) = "sell"
         /\ HopTrader(h, Router, pair, trader) = trader
         /\ IsRouterSell(Router, pair, trader)
         /\ RateOf("sell", trader, Router, pair) = TraderRate(trader, "sell")
<1>1. official = Router /\ pair \in listed
  BY DEF Previewed
<1>2. trader # NoHook /\ trader # Nobody
  BY AccountAssumption DEF Accounts
<1>3. /\ TradeKind(h, Router, pair, trader) = "sell"
      /\ HopTrader(h, Router, pair, trader) = trader
      /\ IsRouterSell(Router, pair, trader)
  BY <1>1, <1>2 DEF TradeKind, IsSell, HopTrader, IsRouterSell
<1>4. RateOf("sell", trader, Router, pair) = TraderRate(trader, "sell")
  BY <1>2 DEF RateOf, TraderRate
<1>. QED
  BY <1>3, <1>4

\* A hop before its sale: what is sold, the refund of the rest, and the context.
Sold(c, path, i, trader) == Funded(path[i], c.got, trader)
SoldTax(c, path, i, trader) == SellTax(path[i], Sold(c, path, i, trader), trader)
Residue(c, path, i, trader) == c.got - (Sold(c, path, i, trader) + SoldTax(c, path, i, trader))
RefundsOf(c, path, i, trader) ==
  IF Residue(c, path, i, trader) = 0 THEN c.refunds
  ELSE Append(c.refunds, [slot |-> Len(c.refunds), token |-> path[i], recipient |-> trader,
                          amount |-> Residue(c, path, i, trader)])
Opened(c, path, i, trader) ==
  [c EXCEPT
     !.ctx = [id |-> c.routeId, trader |-> trader, pair |-> HopPair(path, i), offer |-> path[i],
              ask |-> path[i + 1], gross |-> c.got, economic |-> Sold(c, path, i, trader),
              transfers |-> {},
              restore |-> IF i = 1 THEN ToSet(RefundsOf(c, path, i, trader)) ELSE c.ctx.restore,
              acquired |-> c.ctx.acquired],
     !.refunds = RefundsOf(c, path, i, trader)]
HopSale(c, path, i, trader, floor) ==
  SendSwap(Opened(c, path, i, trader), Router, path[i], path[i + 1], Sold(c, path, i, trader), Router,
           FloorBefore(path[i + 1], floor, trader), trader)

\* What came back from the sale is what the next hop has.
Gains(sale, d, got, ask) == d = [sale EXCEPT !.got = got, !.ctx.acquired = @ \cup {ask}]

\* A hop that is not refused is previewed, sells and gets something.
LEMMA HopSteps ==
  ASSUME NEW c, Whole(c), NEW path, NEW i, NEW trader, NEW floor,
         Hop(c, path, i, trader, floor).failed = {}
  PROVE  LET sale == HopSale(c, path, i, trader, floor)
             d == Hop(c, path, i, trader, floor)
             got == sale.held[path[i + 1]][Router] - c.held[path[i + 1]][Router]
         IN  /\ HopPreviewed(path[i], HopPair(path, i), trader, SoldTax(c, path, i, trader))
             /\ sale.failed = {} /\ got # 0
             /\ Gains(sale, d, got, path[i + 1])
<1>. DEFINE h == Opened(c, path, i, trader)
            ask == path[i + 1]
            sale == HopSale(c, path, i, trader, floor)
            d == Hop(c, path, i, trader, floor)
            got == sale.held[ask][Router] - c.held[ask][Router]
            foreseen == HopPreviewed(path[i], HopPair(path, i), trader, SoldTax(c, path, i, trader))
            causes == When("preview", ~foreseen)
                      \cup When("preview", floor > 0 /\
                               ~HopPreviewed(ask, HopPair(path, i), trader, TraderRate(trader, "buy")))
                      \cup When("floor", floor > 0 /\ FloorBefore(ask, floor, trader) = Unreachable)
            next == IF got = 0 THEN Failed(c, {"no output"})
                    ELSE [sale EXCEPT !.got = got, !.ctx.acquired = @ \cup {ask}]
<1>1. d = IF causes # {} THEN Failed(c, causes) ELSE Received(c, sale, ask)
  BY DEF Hop, HopSale, Opened, RefundsOf, Residue, SoldTax, Sold
<1>2. Received(c, sale, ask) = Then(sale, next)
  BY DEF Received, Output
<1>. HIDE DEF sale, foreseen, got
<1>3. causes = {}
  <2>. HIDE DEF causes
  <2>. QED
    BY <1>1, FailedFails
<1>4. foreseen
  BY <1>3 DEF When
<1>. HIDE DEF causes, next, d
<1>5. d.failed = {}
  BY DEF d
<1>6. sale.failed = {} /\ d = next
  BY <1>1, <1>2, <1>3, <1>5 DEF Then
<1>7. got # 0
  <2>1. Failed(c, {"no output"}).failed # {}
    BY DEF Failed, Whole
  <2>. QED
    BY <1>5, <1>6, <2>1 DEF next
<1>8. Gains(sale, d, got, ask)
  BY <1>6, <1>7 DEF next, Gains
<1>. QED
  BY <1>4, <1>6, <1>7, <1>8 DEF d, sale, foreseen, got

\* The sale and its refund use up what the hop before left.
LEMMA HopFunds ==
  ASSUME RatesOK, NEW c, c.got \in Nat, NEW path, NEW i, NEW trader
  PROVE  /\ Sold(c, path, i, trader) \in Nat /\ SoldTax(c, path, i, trader) \in Nat
         /\ Residue(c, path, i, trader) \in Nat
         /\ Sold(c, path, i, trader) + SoldTax(c, path, i, trader) + Residue(c, path, i, trader) = c.got
         /\ path[i] # Tax => Sold(c, path, i, trader) = c.got /\ SoldTax(c, path, i, trader) = 0
                             /\ Residue(c, path, i, trader) = 0
         /\ path[i] = Tax => SoldTax(c, path, i, trader) =
                               TaxOf(Sold(c, path, i, trader), TraderRate(trader, "sell"))
<1>. DEFINE sold == Sold(c, path, i, trader)
            tax == SoldTax(c, path, i, trader)
            rate == TraderRate(trader, "sell")
<1>1. Residue(c, path, i, trader) = c.got - (sold + tax)
  BY DEF Residue
<1>2. CASE path[i] # Tax
  <2>1. sold = c.got /\ tax = 0
    BY <1>2 DEF Sold, SoldTax, Funded, SellTax
  <2>. QED
    BY <1>1, <1>2, <2>1
<1>3. CASE path[i] = Tax
  <2>1. sold = SellFromGross(c.got, rate) /\ tax = TaxOf(sold, rate)
    BY <1>3 DEF Sold, SoldTax, Funded, SellTax
  <2>2. rate \in Nat
    <3>1. rate \in 0 .. BPS /\ BPS \in Nat
      BY RateTypes, PoolMathAssumption
    <3>. QED
      BY <3>1
  <2>. HIDE DEF sold, tax, rate
  <2>3. sold \in 0 .. c.got /\ sold + TaxOf(sold, rate) <= c.got
    BY <2>1, <2>2, SellUsesTheBudget
  <2>4. TaxOf(sold, rate) \in Nat
    BY <2>2, <2>3, TaxGrows
  <2>. QED
    BY <1>1, <1>3, <2>1, <2>3, <2>4 DEF rate, sold, tax
<1>. QED
  BY <1>2, <1>3

\* Opening a hop moves no funds.
LEMMA OpenedKeeps ==
  ASSUME NEW c, Whole(c), NEW path, NEW i, NEW trader
  PROVE  LET h == Opened(c, path, i, trader) IN
         /\ Whole(h)
         /\ h.held = c.held /\ h.pool = c.pool /\ h.burned = c.burned /\ h.last = c.last
         /\ h.used = c.used /\ h.routeId = c.routeId /\ h.got = c.got
         /\ h.refunds = RefundsOf(c, path, i, trader)
         /\ h.ctx.id = c.routeId /\ h.ctx.trader = trader /\ h.ctx.pair = HopPair(path, i)
         /\ h.ctx.ask = path[i + 1] /\ h.ctx.acquired = c.ctx.acquired
         /\ h.ctx.restore = IF i = 1 THEN ToSet(RefundsOf(c, path, i, trader)) ELSE c.ctx.restore
<1>. DEFINE h == Opened(c, path, i, trader)
            refunds == RefundsOf(c, path, i, trader)
            restore == IF i = 1 THEN ToSet(refunds) ELSE c.ctx.restore
            ctx == [id |-> c.routeId, trader |-> trader, pair |-> HopPair(path, i), offer |-> path[i],
                    ask |-> path[i + 1], gross |-> c.got, economic |-> Sold(c, path, i, trader),
                    transfers |-> {}, restore |-> restore, acquired |-> c.ctx.acquired]
<1>1. h = [c EXCEPT !.ctx = ctx, !.refunds = refunds]
  BY DEF Opened
<1>2. DOMAIN ctx = CtxFields
  BY DEF CtxFields
<1>3. /\ ctx.id = c.routeId /\ ctx.trader = trader /\ ctx.pair = HopPair(path, i)
      /\ ctx.ask = path[i + 1] /\ ctx.acquired = c.ctx.acquired /\ ctx.restore = restore
  OBVIOUS
<1>. HIDE DEF ctx, refunds, restore, h
<1>4. /\ DOMAIN h = DOMAIN c /\ h.ctx = ctx /\ h.refunds = refunds
      /\ h.held = c.held /\ h.pool = c.pool /\ h.burned = c.burned /\ h.last = c.last
      /\ h.used = c.used /\ h.routeId = c.routeId /\ h.got = c.got
  BY <1>1 DEF Whole
<1>5. Whole(h)
  BY <1>2, <1>4 DEF Whole
<1>. QED
  BY <1>3, <1>4, <1>5 DEF h, refunds, restore

\* A hop that is not refused goes one token further along the path.
LEMMA HopMoves ==
  ASSUME RatesOK, SinksOK, NEW s, Whole(s), NEW c, NEW path \in Paths, ValidPath(path),
         NEW i \in 1 .. Len(path) - 1, NEW trader \in Wallets, NEW deposit \in Nat, NEW floor,
         OnRoute(s, c, path, i - 1, trader, deposit),
         Hop(c, path, i, trader, floor).failed = {}
  PROVE  OnRoute(s, Hop(c, path, i, trader, floor), path, i, trader, deposit)
<1>. DEFINE offer == path[i]
            ask == path[i + 1]
            pair == HopPair(path, i)
            h == Opened(c, path, i, trader)
            sold == Sold(c, path, i, trader)
            tax == SoldTax(c, path, i, trader)
            residue == Residue(c, path, i, trader)
            sale == HopSale(c, path, i, trader, floor)
            d == Hop(c, path, i, trader, floor)
            took == Took(h, offer, Router, pair, sold, trader)
            got == sale.held[ask][Router] - c.held[ask][Router]
            P(x) == \A p \in Pairs : \A t \in PairTokens[p] :
                      x.held[t][p] - x.pool[p][t] = s.held[t][p] - s.pool[p][t]
<1>1. /\ Whole(c) /\ c.got \in Nat
      /\ c.refunds = <<>> \/ /\ \E r \in Nat : c.refunds = <<RefundOf(trader, r)>>
                             /\ \E j \in 1 .. i - 1 : path[j] = Tax
      /\ P(c)
      /\ \A t \in Tokens :
           c.held[t][Router] = s.held[t][Router] + (IF t = path[(i - 1) + 1] THEN c.got ELSE 0)
                                                 + (IF t = Tax THEN OwedBack(c.refunds) ELSE 0)
      /\ \A t \in Tokens, a \in Wallets :
           c.held[t][a] = s.held[t][a] - (IF t = path[1] /\ a = trader THEN deposit ELSE 0)
      /\ \A t \in Tokens : Supply(c, t) = Supply(s, t)
  BY DEF OnRoute
<1>2. /\ Len(path) \in Nat /\ i \in Nat /\ i >= 1 /\ i \in 1 .. Len(path) /\ (i - 1) + 1 = i
      /\ IsPairOf(pair, offer, ask) /\ pair = PairOf(offer, ask)
      /\ offer \in Tokens /\ ask \in Tokens /\ offer # ask
  BY PathHops DEF IsPairOf
<1>3. /\ HopPreviewed(offer, pair, trader, tax) /\ sale.failed = {}
      /\ Gains(sale, d, got, ask)
  <2>1. Whole(c) /\ d.failed = {}
    BY <1>1
  <2>. QED
    BY <2>1, HopSteps
<1>4. /\ sold \in Nat /\ tax \in Nat /\ residue \in Nat /\ sold + tax + residue = c.got
      /\ offer # Tax => sold = c.got /\ tax = 0 /\ residue = 0
      /\ offer = Tax => tax = TaxOf(sold, TraderRate(trader, "sell"))
  BY <1>1, HopFunds
<1>5. /\ Whole(h) /\ h.held = c.held /\ h.pool = c.pool /\ h.burned = c.burned
      /\ h.refunds = RefundsOf(c, path, i, trader)
  BY <1>1, OpenedKeeps
<1>6. took = sold + tax
  <2>1. CASE offer = Tax
    <3>1. Previewed(pair, trader, tax)
      BY <1>3, <2>1 DEF HopPreviewed
    <3>2. Took(h, Tax, Router, pair, sold, trader) = sold + tax
      <4>1. sold \in Nat /\ tax \in Nat /\ tax = TaxOf(sold, TraderRate(trader, "sell"))
        BY <1>4, <2>1
      <4>. HIDE DEF h, pair, sold, tax, offer
      <4>2. /\ TradeKind(h, Router, pair, trader) = "sell"
            /\ HopTrader(h, Router, pair, trader) = trader
            /\ RateOf("sell", trader, Router, pair) = TraderRate(trader, "sell")
        BY <3>1, RouterSale
      <4>3. TaxDue(h, Router, pair, sold, trader) = TaxOf(sold, TraderRate(trader, "sell"))
        BY <4>2 DEF TaxDue
      <4>. QED
        BY <4>1, <4>2, <4>3 DEF Took, Debited
    <3>. QED
      BY <1>4, <2>1, <3>2
  <2>2. CASE offer # Tax
    BY <1>4, <2>2 DEF Took
  <2>. QED
    BY <2>1, <2>2
<1>7. PICK gain \in Nat : Sells(h, sale, pair, Router, offer, ask, took, Router, gain)
  <2>1. sale = SendSwap(h, Router, offer, ask, sold, Router, FloorBefore(ask, floor, trader), trader)
    BY DEF HopSale
  <2>. HIDE DEF sale, h, sold, offer, ask, pair
  <2>2. Router \in Wallets \cup {Router} /\ IsPairOf(PairOf(offer, ask), offer, ask)
    BY <1>2
  <2>. QED
    BY <1>2, <1>3, <1>4, <1>5, <2>1, <2>2, SendSwapMoves
<1>. HIDE DEF sale, d, h, took, got, offer, ask, pair, sold, tax, residue
<1>8. /\ Whole(sale) /\ sale.refunds = h.refunds
      /\ \A p \in Pairs : \A t \in PairTokens[p] :
           sale.held[t][p] - sale.pool[p][t] = h.held[t][p] - h.pool[p][t]
      /\ \A t \in Tokens \ {offer, ask} : sale.held[t] = h.held[t]
      /\ \A a \in Wallets \cup {Router} :
           /\ sale.held[offer][a] = h.held[offer][a] - (IF a = Router THEN took ELSE 0)
           /\ sale.held[ask][a] = h.held[ask][a] + (IF a = Router THEN gain ELSE 0)
      /\ \A t \in Tokens : Supply(sale, t) = Supply(h, t)
  BY <1>7 DEF Sells
<1>9. /\ \A t \in Tokens, a \in Wallets \cup {Router} : s.held[t][a] \in Int /\ c.held[t][a] \in Int
      /\ \A a \in Wallets : a # Router
  BY <1>1, AccountAssumption DEF Whole, Accounts
<1>10. got = gain
  BY <1>2, <1>5, <1>8, <1>9 DEF got
<1>11. /\ DOMAIN d = DOMAIN sale /\ d.held = sale.held /\ d.pool = sale.pool /\ d.burned = sale.burned
       /\ d.refunds = sale.refunds /\ d.got = gain /\ DOMAIN d.ctx = DOMAIN sale.ctx
  BY <1>3, <1>8, <1>10 DEF Whole, Gains
<1>12. Whole(d)
  BY <1>8, <1>11 DEF Whole
<1>13. \A t \in Tokens : Supply(d, t) = Supply(s, t)
  BY <1>1, <1>5, <1>8, <1>11 DEF Supply
<1>14. P(d)
  BY <1>1, <1>5, <1>8, <1>11
<1>15. \A t \in Tokens, a \in Wallets : d.held[t][a] = c.held[t][a]
  BY <1>2, <1>5, <1>8, <1>9, <1>11
\* The token was not sold earlier on a path that sells or buys it now.
<1>16. offer = Tax => c.refunds = <<>>
  <2>1. ASSUME offer = Tax, NEW j \in 1 .. i - 1
        PROVE  path[j] # Tax
    <3>1. i \in 2 .. Len(path)
      BY <1>2
    <3>. QED
      BY <2>1, <3>1 DEF ValidPath, offer
  <2>. QED
    BY <1>1, <2>1
<1>17. /\ offer = Tax => d.refunds = IF residue = 0 THEN <<>> ELSE <<RefundOf(trader, residue)>>
       /\ offer # Tax => d.refunds = c.refunds
  <2>1. d.refunds = IF residue = 0 THEN c.refunds
                    ELSE Append(c.refunds, [slot |-> Len(c.refunds), token |-> offer,
                                            recipient |-> trader, amount |-> residue])
    BY <1>5, <1>8, <1>11 DEF RefundsOf, residue, offer
  <2>2. CASE offer # Tax
    BY <1>4, <2>1, <2>2
  <2>3. CASE offer = Tax
    <3>. DEFINE e == [slot |-> 0, token |-> Tax, recipient |-> trader, amount |-> residue]
    <3>1. Append(<<>>, e) = <<e>> /\ Len(<<>>) = 0
      OBVIOUS
    <3>. QED
      BY <1>16, <2>1, <2>3, <3>1 DEF RefundOf
  <2>. QED
    BY <2>2, <2>3
<1>18. d.refunds = <<>> \/ /\ \E r \in Nat : d.refunds = <<RefundOf(trader, r)>>
                           /\ \E j \in 1 .. i : path[j] = Tax
  <2>1. CASE offer = Tax
    <3>1. i \in 1 .. i /\ path[i] = Tax
      BY <1>2, <2>1 DEF offer
    <3>. QED
      BY <1>4, <1>17, <2>1, <3>1
  <2>2. CASE offer # Tax
    <3>1. \A j \in 1 .. i - 1 : j \in 1 .. i
      BY <1>2
    <3>. QED
      BY <1>1, <1>17, <2>2, <3>1
  <2>. QED
    BY <2>1, <2>2
<1>19. OwedBack(d.refunds) = IF offer = Tax THEN residue ELSE OwedBack(c.refunds)
  <2>1. \A r : <<RefundOf(trader, r)>>[1].amount = r /\ <<RefundOf(trader, r)>> # <<>>
    BY DEF RefundOf
  <2>. QED
    BY <1>17, <2>1 DEF OwedBack
<1>20. OwedBack(c.refunds) \in Nat
  <2>1. \A r : <<RefundOf(trader, r)>>[1].amount = r
    BY DEF RefundOf
  <2>. QED
    BY <1>1, <2>1 DEF OwedBack
<1>21. \A t \in Tokens :
         d.held[t][Router] = s.held[t][Router] + (IF t = ask THEN gain ELSE 0)
                                               + (IF t = Tax THEN OwedBack(d.refunds) ELSE 0)
  <2>. SUFFICES ASSUME NEW t \in Tokens
                PROVE  d.held[t][Router] = s.held[t][Router] + (IF t = ask THEN gain ELSE 0)
                                             + (IF t = Tax THEN OwedBack(d.refunds) ELSE 0)
    OBVIOUS
  <2>1. c.held[t][Router] = s.held[t][Router] + (IF t = offer THEN c.got ELSE 0)
                                              + (IF t = Tax THEN OwedBack(c.refunds) ELSE 0)
    BY <1>1, <1>2 DEF offer
  <2>2. offer = Tax => OwedBack(c.refunds) = 0
    BY <1>16 DEF OwedBack
  <2>3. s.held[t][Router] \in Int
    BY <1>9
  <2>4. CASE t = offer
    <3>1. d.held[t][Router] = c.held[t][Router] - took
      BY <1>5, <1>8, <1>11, <2>4
    <3>. QED
      BY <1>1, <1>2, <1>4, <1>6, <1>19, <1>20, <2>1, <2>2, <2>3, <2>4, <3>1
  <2>5. CASE t = ask
    <3>1. d.held[t][Router] = c.held[t][Router] + gain
      BY <1>5, <1>8, <1>11, <2>5
    <3>2. c.held[t][Router] = s.held[t][Router] + (IF t = Tax THEN OwedBack(c.refunds) ELSE 0)
      BY <1>1, <1>2, <1>20, <2>1, <2>3, <2>5
    <3>3. t = Tax => OwedBack(d.refunds) = OwedBack(c.refunds)
      BY <1>2, <1>19, <2>5
    <3>. QED
      BY <1>20, <2>3, <2>5, <3>1, <3>2, <3>3
  <2>6. CASE t \notin {offer, ask}
    <3>1. d.held[t][Router] = c.held[t][Router]
      BY <1>5, <1>8, <1>11, <2>6
    <3>. QED
      BY <1>19, <1>20, <2>1, <2>2, <2>3, <2>6, <3>1
  <2>. QED
    BY <2>4, <2>5, <2>6
<1>22. \A t \in Tokens, a \in Wallets :
         d.held[t][a] = s.held[t][a] - (IF t = path[1] /\ a = trader THEN deposit ELSE 0)
  BY <1>1, <1>15
<1>. QED
  BY <1>11, <1>12, <1>13, <1>14, <1>18, <1>21, <1>22 DEF OnRoute, d, ask

-----------------------------------------------------------------------------
(* What moves: the settlement. *)

\* Settlement delivers the refund, if there is one, and then the output.
OutputEntry(c, path, to) ==
  [slot |-> Len(c.refunds), token |-> Last(path), recipient |-> to, amount |-> c.got]
Live(c, path, to) == [c EXCEPT !.ctx.transfers = ToSet(Append(c.refunds, OutputEntry(c, path, to)))]
Delivered(c, entry) == Then(c, Deliver(c, entry))
Refunded(c, path, to) ==
  IF c.refunds = <<>> THEN Live(c, path, to) ELSE Delivered(Live(c, path, to), c.refunds[1])
Paid(c, path, to) == Delivered(Refunded(c, path, to), OutputEntry(c, path, to))

LEMMA SettleSteps ==
  ASSUME NEW c, NEW path, NEW to, c.refunds = <<>> \/ \E r : c.refunds = <<r>>
  PROVE  Settle(c, path, to, 0) =
           IF c.got < 0 THEN Failed(c, {"minimum"})
           ELSE [Paid(c, path, to) EXCEPT !.ctx = NoRoute, !.refunds = <<>>, !.got = 0]
<1>. DEFINE output == OutputEntry(c, path, to)
            transfers == Append(c.refunds, output)
            live == Live(c, path, to)
            n == Len(transfers)
            Settles(f) == f = [k \in 0 .. n |->
              IF k = 0 THEN live ELSE Then(f[k - 1], Deliver(f[k - 1], transfers[k]))]
            settled == CHOOSE f : Settles(f)
<1>1. Settle(c, path, to, 0) =
        IF c.got < 0 THEN Failed(c, {"minimum"})
        ELSE [settled[n] EXCEPT !.ctx = NoRoute, !.refunds = <<>>, !.got = 0]
  BY DEF Settle, OutputEntry, Live
<1>. HIDE DEF live, output
<1>2. CASE c.refunds = <<>>
  <2>1. n = 1 /\ transfers[1] = output
    BY <1>2
  <2>. HIDE DEF n, transfers
  <2>2. Settles([k \in 0 .. 1 |-> IF k = 0 THEN live ELSE Delivered(live, output)])
    BY <2>1 DEF Delivered
  <2>3. Settles(settled)
    <3>. HIDE DEF Settles
    <3>. QED
      BY <2>2
  <2>4. settled = [k \in 0 .. 1 |->
          IF k = 0 THEN live ELSE Then(settled[k - 1], Deliver(settled[k - 1], transfers[k]))]
    BY <2>1, <2>3
  <2>. HIDE DEF settled
  <2>5. settled[0] = live /\ settled[1] = Then(settled[0], Deliver(settled[0], transfers[1]))
    BY <2>4
  <2>6. settled[n] = Paid(c, path, to)
    BY <1>2, <2>1, <2>5 DEF Paid, Refunded, Delivered, live, output
  <2>. QED
    BY <1>1, <2>6
<1>3. CASE \E r : c.refunds = <<r>>
  <2>. PICK r : c.refunds = <<r>>
    BY <1>3
  <2>1. n = 2 /\ transfers[1] = r /\ transfers[2] = output /\ c.refunds # <<>> /\ c.refunds[1] = r
    OBVIOUS
  <2>. HIDE DEF n, transfers
  <2>. DEFINE one == Delivered(live, r)
              two == Delivered(one, output)
  <2>2. Settles([k \in 0 .. 2 |-> IF k = 0 THEN live ELSE IF k = 1 THEN one ELSE two])
    BY <2>1 DEF Delivered
  <2>3. Settles(settled)
    <3>. HIDE DEF Settles
    <3>. QED
      BY <2>2
  <2>4. settled = [k \in 0 .. 2 |->
          IF k = 0 THEN live ELSE Then(settled[k - 1], Deliver(settled[k - 1], transfers[k]))]
    BY <2>1, <2>3
  <2>. HIDE DEF settled
  <2>5. /\ settled[0] = live /\ settled[1] = Then(settled[0], Deliver(settled[0], transfers[1]))
        /\ settled[2] = Then(settled[1], Deliver(settled[1], transfers[2]))
    BY <2>4
  <2>6. settled[n] = Paid(c, path, to)
    BY <2>1, <2>5 DEF Paid, Refunded, Delivered, live, output
  <2>. QED
    BY <1>1, <2>6
<1>. QED
  BY <1>2, <1>3

\* Both deliveries move what they say, and the guards check what the context does not restore.
PaysOut(c, path, to, trader) ==
  LET live == Live(c, path, to)
      mid == Refunded(c, path, to)
      paid == Paid(c, path, to)
      owed == OwedBack(c.refunds)
  IN  /\ Whole(live) /\ live.held = c.held /\ live.pool = c.pool /\ live.burned = c.burned
      /\ live.last = c.last /\ live.ctx.restore = c.ctx.restore /\ live.routeId = c.routeId
      /\ owed \in Nat
      /\ c.refunds = <<>> => mid = live
      /\ c.refunds # <<>> =>
           /\ Moves(live, mid, Tax, Router, trader, owed, owed) /\ mid.last = live.last
           /\ ~Restores(live, c.refunds[1]) => GuardCauses(live, "honest", {}, trader, owed) = {}
      /\ Moves(mid, paid, Last(path), Router, to, c.got, c.got) /\ paid.last = mid.last
      /\ Last(path) = Tax => Router = official
      /\ Last(path) = Tax /\ ~Restores(mid, OutputEntry(c, path, to)) =>
           GuardCauses(mid, "honest", {}, to, c.got) = {}
      /\ Settle(c, path, to, 0) = [paid EXCEPT !.ctx = NoRoute, !.refunds = <<>>, !.got = 0]

LEMMA SettlePays ==
  ASSUME NEW c, Whole(c), c.got \in Nat, NEW path, Last(path) \in Tokens, NEW to \in Wallets,
         NEW trader \in Wallets,
         c.refunds = <<>> \/ \E r \in Nat : c.refunds = <<RefundOf(trader, r)>>,
         Settle(c, path, to, 0).failed = {}
  PROVE  PaysOut(c, path, to, trader)
<1>. DEFINE live == Live(c, path, to)
            mid == Refunded(c, path, to)
            paid == Paid(c, path, to)
            output == OutputEntry(c, path, to)
            owed == OwedBack(c.refunds)
            d == Settle(c, path, to, 0)
<1>1. d = [paid EXCEPT !.ctx = NoRoute, !.refunds = <<>>, !.got = 0]
  <2>1. ~(c.got < 0)
    OBVIOUS
  <2>2. c.refunds = <<>> \/ \E r : c.refunds = <<r>>
    OBVIOUS
  <2>. HIDE DEF d, paid
  <2>. QED
    BY <2>1, <2>2, SettleSteps DEF d, paid
<1>2. /\ Whole(live) /\ live.held = c.held /\ live.pool = c.pool /\ live.burned = c.burned
      /\ live.last = c.last /\ live.ctx.restore = c.ctx.restore /\ live.routeId = c.routeId
  <2>. DEFINE set == ToSet(Append(c.refunds, output))
  <2>1. live = [c EXCEPT !.ctx.transfers = set]
    BY DEF Live
  <2>. HIDE DEF live, set
  <2>2. DOMAIN live = DOMAIN c /\ live.ctx = [c.ctx EXCEPT !.transfers = set]
        /\ live.held = c.held /\ live.pool = c.pool /\ live.burned = c.burned /\ live.last = c.last
        /\ live.routeId = c.routeId
    BY <2>1 DEF Whole
  <2>3. DOMAIN live.ctx = CtxFields /\ live.ctx.restore = c.ctx.restore
    BY <2>2 DEF Whole, CtxFields
  <2>. QED
    BY <2>2, <2>3 DEF Whole
<1>3. owed \in Nat /\ (c.refunds # <<>> => c.refunds[1] = RefundOf(trader, owed))
  <2>1. \A r : RefundOf(trader, r).amount = r
    BY DEF RefundOf
  <2>. QED
    BY <2>1 DEF OwedBack
<1>4. Router \in Accounts /\ trader \in Accounts /\ to \in Accounts /\ Tax \in Tokens
  BY RouteAssumption DEF Accounts
<1>. HIDE DEF d, paid, mid, live, owed, output
<1>5. paid.failed = {}
  <2>1. CASE paid.failed # {}
    <3>1. d.failed = {}
      BY DEF d
    <3>. QED
      BY <1>1, <2>1, <3>1
  <2>. QED
    BY <2>1
<1>6. ASSUME NEW x, NEW e, Delivered(x, e).failed = {}
      PROVE  x.failed = {} /\ Deliver(x, e).failed = {} /\ Delivered(x, e) = Deliver(x, e)
  BY <1>6 DEF Delivered, Then
<1>7. paid = Delivered(mid, output)
  BY DEF paid, mid, output, Paid
<1>8. mid.failed = {} /\ Deliver(mid, output).failed = {} /\ paid = Deliver(mid, output)
  BY <1>5, <1>6, <1>7
<1>9. c.refunds = <<>> => mid = live
  BY DEF mid, live, Refunded
<1>10. ASSUME c.refunds # <<>>
       PROVE  /\ Moves(live, mid, Tax, Router, trader, owed, owed) /\ mid.last = live.last
              /\ ~Restores(live, c.refunds[1]) => GuardCauses(live, "honest", {}, trader, owed) = {}
  <2>. DEFINE e == c.refunds[1]
  <2>1. mid = Delivered(live, e)
    BY <1>10 DEF mid, live, Refunded
  <2>2. e.token = Tax /\ e.recipient = trader /\ e.amount = owed
    BY <1>3, <1>10 DEF RefundOf
  <2>. HIDE DEF e
  <2>3. Deliver(live, e).failed = {} /\ mid = Deliver(live, e)
    BY <1>6, <1>8, <2>1
  <2>4. /\ Moves(live, Deliver(live, e), e.token, Router, e.recipient, e.amount, e.amount)
        /\ Deliver(live, e).last = live.last
        /\ e.token = Tax /\ ~Restores(live, e) =>
             GuardCauses(live, "honest", {}, e.recipient, e.amount) = {}
    <3>1. Whole(live) /\ e.token \in Tokens /\ e.recipient \in Accounts /\ e.amount \in Nat
      BY <1>2, <1>3, <1>4, <2>2
    <3>. QED
      BY <2>3, <3>1, DeliverMoves
  <2>. QED
    BY <2>2, <2>3, <2>4 DEF e
<1>11. Whole(mid)
  BY <1>2, <1>9, <1>10 DEF Moves
<1>12. /\ Moves(mid, paid, Last(path), Router, to, c.got, c.got) /\ paid.last = mid.last
       /\ Last(path) = Tax => Router = official
       /\ Last(path) = Tax /\ ~Restores(mid, output) =>
            GuardCauses(mid, "honest", {}, to, c.got) = {}
  <2>1. output.token = Last(path) /\ output.recipient = to /\ output.amount = c.got
    BY DEF output, OutputEntry
  <2>2. /\ Moves(mid, Deliver(mid, output), output.token, Router, output.recipient, output.amount,
                 output.amount)
        /\ Deliver(mid, output).last = mid.last
        /\ output.token = Tax => Router = official
        /\ output.token = Tax /\ ~Restores(mid, output) =>
             GuardCauses(mid, "honest", {}, output.recipient, output.amount) = {}
    <3>1. output.token \in Tokens /\ output.recipient \in Accounts /\ output.amount \in Nat
      BY <1>4, <2>1
    <3>. QED
      BY <1>8, <1>11, <3>1, DeliverMoves
  <2>. QED
    BY <1>8, <2>1, <2>2
<1>. QED
  BY <1>1, <1>2, <1>3, <1>9, <1>10, <1>12 DEF live, mid, paid, output, owed, d, PaysOut

LEMMA PoolTokens == \A p \in Pairs : PairTokens[p] \subseteq Tokens /\ p \in Accounts
<1>1. \A p \in Pairs : \E a, b \in Tokens : PairTokens[p] = {a, b}
  BY RouteAssumption
<1>2. \A p \in Pairs : PairTokens[p] \subseteq Tokens
  BY <1>1
<1>. QED
  BY <1>2 DEF Accounts

\* What a route leaves: the router with what it had, a pair with what it had besides its
\* reserves, nothing of the route, and every token somewhere or burned.
Settled(s, d, routeId) ==
  /\ Whole(d) /\ d.ctx = NoRoute /\ d.refunds = <<>> /\ d.got = 0 /\ d.routeId = routeId
  /\ \A p \in Pairs : \A t \in PairTokens[p] :
       d.held[t][p] - d.pool[p][t] = s.held[t][p] - s.pool[p][t]
  /\ \A t \in Tokens : d.held[t][Router] = s.held[t][Router]
  /\ \A t \in Tokens : Supply(d, t) = Supply(s, t)

LEMMA SettleMoves ==
  ASSUME NEW s, Whole(s), NEW c, NEW path \in Paths, NEW trader \in Wallets, NEW to \in Wallets,
         NEW deposit \in Nat, OnRoute(s, c, path, Len(path) - 1, trader, deposit),
         Settle(c, path, to, 0).failed = {}
  PROVE  Settled(s, Settle(c, path, to, 0), c.routeId)
<1>. DEFINE live == Live(c, path, to)
            mid == Refunded(c, path, to)
            paid == Paid(c, path, to)
            owed == OwedBack(c.refunds)
            token == Last(path)
            d == Settle(c, path, to, 0)
            P(x) == \A p \in Pairs : \A t \in PairTokens[p] :
                      x.held[t][p] - x.pool[p][t] = s.held[t][p] - s.pool[p][t]
<1>1. /\ Whole(c) /\ c.got \in Nat
      /\ c.refunds = <<>> \/ \E r \in Nat : c.refunds = <<RefundOf(trader, r)>>
      /\ P(c)
      /\ \A t \in Tokens :
           c.held[t][Router] = s.held[t][Router]
             + (IF t = path[(Len(path) - 1) + 1] THEN c.got ELSE 0)
             + (IF t = Tax THEN OwedBack(c.refunds) ELSE 0)
      /\ \A t \in Tokens : Supply(c, t) = Supply(s, t)
  BY DEF OnRoute
<1>2. token \in Tokens /\ token = path[(Len(path) - 1) + 1]
  <2>1. Len(path) \in Nat /\ Len(path) > 1 /\ token = path[Len(path)]
        /\ \A i \in 1 .. Len(path) : path[i] \in Tokens
    BY PathHops
  <2>. HIDE DEF token
  <2>2. (Len(path) - 1) + 1 = Len(path) /\ Len(path) \in 1 .. Len(path)
    BY <2>1
  <2>. QED
    BY <2>1, <2>2
<1>3. /\ Whole(live) /\ live.held = c.held /\ live.pool = c.pool /\ live.burned = c.burned
      /\ owed \in Nat /\ live.routeId = c.routeId
      /\ c.refunds = <<>> => mid = live
      /\ c.refunds # <<>> => Moves(live, mid, Tax, Router, trader, owed, owed)
      /\ Moves(mid, paid, token, Router, to, c.got, c.got)
      /\ d = [paid EXCEPT !.ctx = NoRoute, !.refunds = <<>>, !.got = 0]
  <2>1. Last(path) \in Tokens
    BY <1>2
  <2>2. Whole(c) /\ c.got \in Nat
    BY <1>1
  <2>3. c.refunds = <<>> \/ \E r \in Nat : c.refunds = <<RefundOf(trader, r)>>
    BY <1>1
  <2>. HIDE DEF P
  <2>4. PaysOut(c, path, to, trader)
    BY <2>1, <2>2, <2>3, SettlePays
  <2>. QED
    BY <2>4 DEF PaysOut
<1>4. c.refunds = <<>> => owed = 0
  BY DEF OwedBack
<1>. HIDE DEF live, mid, paid, owed, token, d
<1>5. /\ Router # trader /\ Router # to /\ Router # Treasury /\ Router \in Accounts
      /\ \A p \in Pairs : p \in Accounts /\ p # Router /\ p # trader /\ p # to /\ p # Treasury
      /\ Tax \in Tokens /\ \A p \in Pairs : PairTokens[p] \subseteq Tokens
  <2>1. Tax \in Tokens
    BY RouteAssumption
  <2>. QED
    BY <2>1, AccountAssumption, PoolTokens DEF Accounts
<1>6. \A t \in Tokens, a \in Accounts : c.held[t][a] \in Int /\ s.held[t][a] \in Int
  BY <1>1 DEF Whole
<1>7. /\ Whole(mid) /\ mid.pool = c.pool
      /\ \A t \in Tokens : Supply(mid, t) = Supply(c, t)
      /\ \A t \in Tokens, p \in Pairs : mid.held[t][p] = c.held[t][p]
      /\ \A t \in Tokens : mid.held[t][Router] = c.held[t][Router] - (IF t = Tax THEN owed ELSE 0)
  <2>1. CASE c.refunds = <<>>
    <3>1. \A t \in Tokens : Supply(live, t) = Supply(c, t)
      BY <1>3 DEF Supply
    <3>. QED
      BY <1>3, <1>4, <1>5, <1>6, <2>1, <3>1
  <2>2. CASE c.refunds # <<>>
    <3>1. \A t \in Tokens : Supply(live, t) = Supply(c, t)
      BY <1>3 DEF Supply
    <3>2. Whole(mid) /\ mid.pool = live.pool /\ \A t \in Tokens : Supply(mid, t) = Supply(live, t)
      BY <1>3, <2>2 DEF Moves
    <3>3. /\ \A t \in Tokens \ {Tax} : mid.held[t] = live.held[t]
          /\ \A a \in Accounts \ {Treasury} :
               mid.held[Tax][a] = live.held[Tax][a] - (IF a = Router THEN owed ELSE 0)
                                                    + (IF a = trader THEN owed ELSE 0)
      BY <1>3, <2>2 DEF Moves
    <3>4. \A t \in Tokens, p \in Pairs : mid.held[t][p] = c.held[t][p]
      BY <1>3, <1>5, <1>6, <3>3
    <3>5. \A t \in Tokens :
            mid.held[t][Router] = c.held[t][Router] - (IF t = Tax THEN owed ELSE 0)
      BY <1>3, <1>5, <1>6, <3>3
    <3>. QED
      BY <1>3, <3>1, <3>2, <3>4, <3>5
  <2>. QED
    BY <2>1, <2>2
<1>8. \A t \in Tokens, a \in Accounts : mid.held[t][a] \in Int
  BY <1>7 DEF Whole
<1>9. /\ Whole(paid) /\ paid.pool = mid.pool
      /\ \A t \in Tokens : Supply(paid, t) = Supply(mid, t)
      /\ \A t \in Tokens \ {token} : paid.held[t] = mid.held[t]
      /\ \A a \in Accounts \ {Treasury} :
           paid.held[token][a] = mid.held[token][a] - (IF a = Router THEN c.got ELSE 0)
                                                    + (IF a = to THEN c.got ELSE 0)
  BY <1>3 DEF Moves
<1>10. \A t \in Tokens, p \in Pairs : paid.held[t][p] = mid.held[t][p]
  BY <1>2, <1>5, <1>8, <1>9
<1>11. \A t \in Tokens :
         paid.held[t][Router] = mid.held[t][Router] - (IF t = token THEN c.got ELSE 0)
  BY <1>1, <1>2, <1>5, <1>8, <1>9
<1>12. /\ DOMAIN d = DOMAIN paid /\ d.held = paid.held /\ d.pool = paid.pool /\ d.burned = paid.burned
       /\ d.ctx = NoRoute /\ d.refunds = <<>> /\ d.got = 0 /\ d.routeId = c.routeId
  <2>1. mid.routeId = c.routeId /\ paid.routeId = mid.routeId
    BY <1>3 DEF Moves
  <2>. QED
    BY <1>3, <1>9, <2>1 DEF Whole
<1>13. Whole(d)
  BY <1>9, <1>12 DEF Whole, NoRoute, CtxFields
<1>14. \A t \in Tokens : d.held[t][Router] = s.held[t][Router]
  <2>. TAKE t \in Tokens
  <2>1. c.held[t][Router] = s.held[t][Router] + (IF t = token THEN c.got ELSE 0)
                                              + (IF t = Tax THEN owed ELSE 0)
    BY <1>1, <1>2 DEF owed
  <2>2. d.held[t][Router] = mid.held[t][Router] - (IF t = token THEN c.got ELSE 0)
    BY <1>11, <1>12
  <2>3. mid.held[t][Router] = c.held[t][Router] - (IF t = Tax THEN owed ELSE 0)
    BY <1>7
  <2>4. s.held[t][Router] \in Int /\ owed \in Nat /\ c.got \in Nat
    BY <1>1, <1>3, <1>5, <1>6
  <2>. QED
    BY <2>1, <2>2, <2>3, <2>4
<1>15. P(d)
  BY <1>1, <1>5, <1>7, <1>9, <1>10, <1>12
<1>16. \A t \in Tokens : Supply(d, t) = Supply(s, t)
  BY <1>1, <1>7, <1>9, <1>12 DEF Supply
<1>. QED
  BY <1>12, <1>13, <1>14, <1>15, <1>16 DEF Settled, d

-----------------------------------------------------------------------------
(* What moves: a message. *)

\* The states of a route after each of its hops.
Hops(f, first, path, n, trader, floors) ==
  f = [i \in 0 .. n |->
        IF i = 0 THEN first ELSE Then(f[i - 1], Hop(f[i - 1], path, i, trader, floors[i]))]

LEMMA HopsExist ==
  ASSUME NEW first, NEW path, NEW trader, NEW floors, NEW m \in Nat
  PROVE  \E f : Hops(f, first, path, m, trader, floors)
<1>. DEFINE Step(c, i) == Then(c, Hop(c, path, i, trader, floors[i]))
            T == {n \in Nat : \E f : f = [i \in 0 .. n |-> IF i = 0 THEN first ELSE Step(f[i - 1], i)]}
<1>1. 0 \in T
  <2>. DEFINE f == [i \in 0 .. 0 |-> first]
  <2>1. f = [i \in 0 .. 0 |-> IF i = 0 THEN first ELSE Step(f[i - 1], i)]
    <3>. HIDE DEF Step
    <3>1. \A i \in 0 .. 0 : i = 0
      OBVIOUS
    <3>. QED
      BY <3>1
  <2>. HIDE DEF f, Step
  <2>. QED
    BY <2>1
<1>2. ASSUME NEW n \in Nat, n \in T
      PROVE  n + 1 \in T
  <2>. HIDE DEF Step
  <2>1. PICK f : f = [i \in 0 .. n |-> IF i = 0 THEN first ELSE Step(f[i - 1], i)]
    BY <1>2
  <2>. DEFINE g == [i \in 0 .. n + 1 |-> IF i = n + 1 THEN Step(f[n], n + 1) ELSE f[i]]
  <2>2. ASSUME NEW i \in 0 .. n + 1
        PROVE  g[i] = IF i = 0 THEN first ELSE Step(g[i - 1], i)
    <3>1. CASE i = 0
      <4>1. 0 \in 0 .. n /\ 0 \in 0 .. n + 1 /\ 0 # n + 1
        OBVIOUS
      <4>. QED
        BY <2>1, <3>1, <4>1
    <3>2. CASE i = n + 1
      <4>1. i \in 0 .. n + 1 /\ i - 1 = n /\ n \in 0 .. n + 1 /\ n # n + 1 /\ i # 0
        BY <3>2
      <4>2. g[i] = Step(f[n], n + 1) /\ g[n] = f[n]
        BY <3>2, <4>1
      <4>. QED
        BY <3>2, <4>1, <4>2
    <3>3. CASE i # 0 /\ i # n + 1
      <4>1. i \in 0 .. n /\ i - 1 \in 0 .. n + 1 /\ i - 1 # n + 1
        BY <3>3
      <4>2. g[i] = f[i] /\ g[i - 1] = f[i - 1]
        BY <3>3, <4>1
      <4>3. f[i] = Step(f[i - 1], i)
        BY <2>1, <3>3, <4>1
      <4>. QED
        BY <3>3, <4>2, <4>3
    <3>. QED
      BY <3>1, <3>2, <3>3
  <2>3. g = [i \in 0 .. n + 1 |-> IF i = 0 THEN first ELSE Step(g[i - 1], i)]
    <3>1. DOMAIN g = 0 .. n + 1 /\ g = [i \in 0 .. n + 1 |-> g[i]]
      OBVIOUS
    <3>. HIDE DEF g
    <3>. QED
      BY <2>2, <3>1
  <2>. HIDE DEF g
  <2>. QED
    BY <2>3
<1>3. m \in T
  <2>. HIDE DEF T
  <2>. QED
    BY <1>1, <1>2, NumberInduction
<1>. QED
  BY <1>3 DEF Hops

Deposited(s, trader, path, amount) ==
  Begun(s, Pays(s, path[1], trader, Router, amount, NoHook), path[1])

\* A route is its deposit, its hops and its settlement.
Runs(d, f, s, trader, to, path, amount, minimum, floors) ==
  /\ Hops(f, Deposited(s, trader, path, amount), path, Len(path) - 1, trader, floors)
  /\ f[Len(path) - 1].failed = {}
  /\ d = Settle(f[Len(path) - 1], path, to, minimum)

\* The states of a route after each of its hops and its settlement.
Leg(c, path, i, trader, to, minimum, floors) ==
  IF i < Len(path) THEN Hop(c, path, i, trader, floors[i]) ELSE Settle(c, path, to, minimum)
Legs(g, first, path, trader, to, minimum, floors) ==
  g = [i \in 0 .. Len(path) |->
        IF i = 0 THEN first
        ELSE Then(g[i - 1], Leg(g[i - 1], path, i, trader, to, minimum, floors))]

LEMMA LegsExist ==
  ASSUME NEW first, NEW path \in Paths, NEW trader, NEW to, NEW minimum, NEW floors
  PROVE  \E g : Legs(g, first, path, trader, to, minimum, floors)
<1>. DEFINE n == Len(path) - 1
            Step(c, i) == Then(c, Leg(c, path, i, trader, to, minimum, floors))
            Hopped(c, i) == Then(c, Hop(c, path, i, trader, floors[i]))
<1>1. n \in Nat /\ Len(path) = n + 1
  <2>1. Len(path) \in Nat /\ Len(path) > 1
    BY PathHops
  <2>. QED
    BY <2>1
<1>2. \A c : \A i \in 0 .. n : Step(c, i) = Hopped(c, i)
  <2>1. \A i \in 0 .. n : i < Len(path)
    <3>. HIDE DEF n
    <3>. QED
      BY <1>1
  <2>. HIDE DEF n
  <2>. QED
    BY <2>1 DEF Leg
<1>. HIDE DEF n
<1>3. PICK f : Hops(f, first, path, n, trader, floors)
  BY <1>1, HopsExist
<1>4. f = [i \in 0 .. n |-> IF i = 0 THEN first ELSE Hopped(f[i - 1], i)]
  BY <1>3 DEF Hops
<1>. HIDE DEF Step, Hopped
<1>. DEFINE g == [i \in 0 .. n + 1 |-> IF i = n + 1 THEN Step(f[n], n + 1) ELSE f[i]]
<1>5. ASSUME NEW i \in 0 .. n + 1
      PROVE  g[i] = IF i = 0 THEN first ELSE Step(g[i - 1], i)
  <2>1. CASE i = 0
    <3>1. 0 \in 0 .. n /\ 0 \in 0 .. n + 1 /\ 0 # n + 1
      BY <1>1
    <3>. QED
      BY <1>4, <2>1, <3>1
  <2>2. CASE i = n + 1
    <3>1. i \in 0 .. n + 1 /\ i - 1 = n /\ n \in 0 .. n + 1 /\ n # n + 1 /\ i # 0
      BY <1>1, <2>2
    <3>2. g[i] = Step(f[n], n + 1) /\ g[n] = f[n]
      BY <2>2, <3>1
    <3>. QED
      BY <2>2, <3>1, <3>2
  <2>3. CASE i # 0 /\ i # n + 1
    <3>1. i \in 0 .. n /\ i - 1 \in 0 .. n + 1 /\ i - 1 # n + 1
      BY <1>1, <2>3
    <3>2. g[i] = f[i] /\ g[i - 1] = f[i - 1]
      BY <2>3, <3>1
    <3>3. f[i] = Hopped(f[i - 1], i)
      BY <1>4, <2>3, <3>1
    <3>4. Step(f[i - 1], i) = Hopped(f[i - 1], i)
      BY <1>2, <3>1
    <3>. QED
      BY <2>3, <3>2, <3>3, <3>4
  <2>. QED
    BY <2>1, <2>2, <2>3
<1>6. g = [i \in 0 .. n + 1 |-> g[i]]
  OBVIOUS
<1>. HIDE DEF g
<1>7. g = [i \in 0 .. Len(path) |-> IF i = 0 THEN first ELSE Step(g[i - 1], i)]
  BY <1>1, <1>5, <1>6
<1>. QED
  BY <1>7 DEF Legs, Step

\* Up to the settlement they are the hops.
LEMMA LegsEnd ==
  ASSUME NEW first, NEW path \in Paths, NEW trader, NEW to, NEW minimum, NEW floors, NEW g,
         Legs(g, first, path, trader, to, minimum, floors)
  PROVE  \E f : /\ Hops(f, first, path, Len(path) - 1, trader, floors)
                /\ g[Len(path)] = Then(f[Len(path) - 1],
                                       Settle(f[Len(path) - 1], path, to, minimum))
<1>. DEFINE n == Len(path) - 1
            Step(c, i) == Then(c, Leg(c, path, i, trader, to, minimum, floors))
            Hopped(c, i) == Then(c, Hop(c, path, i, trader, floors[i]))
            f == [i \in 0 .. n |-> g[i]]
<1>1. n \in Nat /\ Len(path) = n + 1
  <2>1. Len(path) \in Nat /\ Len(path) > 1
    BY PathHops
  <2>. QED
    BY <2>1
<1>2. \A c : \A i \in 0 .. n : Step(c, i) = Hopped(c, i)
  <2>1. \A i \in 0 .. n : i < Len(path)
    <3>. HIDE DEF n
    <3>. QED
      BY <1>1
  <2>. HIDE DEF n
  <2>. QED
    BY <2>1 DEF Leg
<1>3. \A c : Step(c, Len(path)) = Then(c, Settle(c, path, to, minimum))
  <2>1. ~(Len(path) < Len(path))
    BY <1>1
  <2>. QED
    BY <2>1 DEF Leg
<1>4. g = [i \in 0 .. Len(path) |-> IF i = 0 THEN first ELSE Step(g[i - 1], i)]
  BY DEF Legs
<1>. HIDE DEF n, Step, Hopped
<1>5. ASSUME NEW i \in 0 .. n
      PROVE  f[i] = IF i = 0 THEN first ELSE Hopped(f[i - 1], i)
  <2>1. i \in 0 .. Len(path)
    BY <1>1
  <2>2. f[i] = g[i] /\ g[i] = IF i = 0 THEN first ELSE Step(g[i - 1], i)
    BY <1>4, <2>1
  <2>3. CASE i = 0
    BY <2>2, <2>3
  <2>4. CASE i # 0
    <3>1. i - 1 \in 0 .. n
      BY <1>1, <2>4
    <3>2. f[i - 1] = g[i - 1]
      BY <3>1
    <3>3. Step(g[i - 1], i) = Hopped(g[i - 1], i)
      BY <1>2
    <3>. QED
      BY <2>2, <2>4, <3>2, <3>3
  <2>. QED
    BY <2>3, <2>4
<1>6. f = [i \in 0 .. n |-> f[i]] /\ f[n] = g[n]
  BY <1>1
<1>7. g[Len(path)] = Step(g[n], Len(path))
  <2>1. Len(path) \in 0 .. Len(path) /\ Len(path) # 0 /\ Len(path) - 1 = n
    BY <1>1
  <2>. QED
    BY <1>4, <2>1
<1>. HIDE DEF f
<1>8. f = [i \in 0 .. n |-> IF i = 0 THEN first ELSE Hopped(f[i - 1], i)]
  BY <1>5, <1>6
<1>9. Hops(f, first, path, n, trader, floors)
  BY <1>8 DEF Hops, Hopped
<1>10. g[Len(path)] = Then(f[n], Settle(f[n], path, to, minimum))
  BY <1>3, <1>6, <1>7
<1>. QED
  BY <1>9, <1>10 DEF n

LEMMA RouteSteps ==
  ASSUME NEW s, NEW trader, NEW to, NEW path \in Paths, NEW amount, NEW minimum, NEW floors,
         Whole(s), Routed(s, trader, to, path, amount, minimum, floors).failed = {}
  PROVE  /\ ValidPath(path) /\ Len(path) - 1 \in Nat
         /\ \E f : Runs(Routed(s, trader, to, path, amount, minimum, floors), f, s, trader, to,
                       path, amount, minimum, floors)
<1>. DEFINE n == Len(path) - 1
            first == Deposited(s, trader, path, amount)
            d == Routed(s, trader, to, path, amount, minimum, floors)
            g == CHOOSE h : Legs(h, first, path, trader, to, minimum, floors)
<1>1. n \in Nat
  <2>1. Len(path) \in Nat /\ Len(path) > 1
    BY PathHops
  <2>. QED
    BY <2>1
<1>2. d = IF ~ValidPath(path) THEN Failed(s, {"path"}) ELSE g[Len(path)]
  BY DEF Routed, Legs, Leg, Deposited
<1>. HIDE DEF first
<1>3. Legs(g, first, path, trader, to, minimum, floors)
  BY LegsExist
<1>. HIDE DEF g
<1>4. PICK f : /\ Hops(f, first, path, Len(path) - 1, trader, floors)
               /\ g[Len(path)] = Then(f[Len(path) - 1], Settle(f[Len(path) - 1], path, to, minimum))
  BY <1>3, LegsEnd
<1>. DEFINE ends == Settle(f[n], path, to, minimum)
<1>5. Hops(f, first, path, n, trader, floors) /\ g[Len(path)] = Then(f[n], ends)
  BY <1>4
<1>. HIDE DEF n, d, ends
<1>6. d.failed = {}
  BY DEF d
<1>7. ValidPath(path)
  <2>1. Failed(s, {"path"}).failed # {}
    BY DEF Failed, Whole
  <2>. QED
    BY <1>2, <1>6, <2>1
<1>8. f[n].failed = {} /\ d = ends
  BY <1>2, <1>5, <1>6, <1>7 DEF Then
<1>. QED
  BY <1>1, <1>5, <1>7, <1>8 DEF n, first, d, ends, Runs

\* One step of a route: it was not refused before, and the hop is what it does.
Walks(f, path, n, trader, floors) ==
  \A i \in 0 .. n - 1 :
    f[i + 1].failed = {} =>
      f[i].failed = {} /\ f[i + 1] = Hop(f[i], path, i + 1, trader, floors[i + 1])

LEMMA HopsStep ==
  ASSUME NEW f, NEW first, NEW path, NEW n \in Nat, NEW trader, NEW floors,
         Hops(f, first, path, n, trader, floors)
  PROVE  f[0] = first /\ Walks(f, path, n, trader, floors)
<1>. DEFINE Step(c, i) == Then(c, Hop(c, path, i, trader, floors[i]))
<1>1. f = [i \in 0 .. n |-> IF i = 0 THEN first ELSE Step(f[i - 1], i)]
  BY DEF Hops
<1>2. ASSUME NEW i \in 0 .. n - 1, f[i + 1].failed = {}
      PROVE  /\ f[i].failed = {}
             /\ f[i + 1] = Hop(f[i], path, i + 1, trader, floors[i + 1])
  <2>1. f[i + 1] = Step(f[i], i + 1)
    <3>. HIDE DEF Step
    <3>1. i + 1 \in 0 .. n /\ i + 1 # 0 /\ (i + 1) - 1 = i
      OBVIOUS
    <3>2. f[i + 1] = Step(f[(i + 1) - 1], i + 1)
      BY <1>1, <3>1
    <3>. QED
      BY <3>1, <3>2
  <2>. QED
    BY <1>2, <2>1 DEF Then
<1>3. f[0] = first
  <2>. HIDE DEF Step
  <2>1. 0 \in 0 .. n
    OBVIOUS
  <2>. QED
    BY <1>1, <2>1
<1>. QED
  BY <1>2, <1>3 DEF Walks

-----------------------------------------------------------------------------
(* The launch guards: one transfer, one sale. *)

\* What governance may set.
SettingsOK ==
  /\ RatesOK /\ SinksOK
  /\ guards \in [on : BOOLEAN, trading : BOOLEAN, cooldown : Nat, max : Nat \cup {NoCap}]
  /\ listed \subseteq {p \in Pairs : Tax \in PairTokens[p]}
  /\ official \in {Router, Nobody}

\* No wallet is lifted over the cap, and a wallet's last block is kept or is this one.
Capped(c, d) ==
  \A a \in Wallets : \/ d.held[Tax][a] <= c.held[Tax][a]
                     \/ guards.on /\ guards.max # NoCap => d.held[Tax][a] <= guards.max
Dated(c, d) == \A a \in Wallets : d.last[a] = c.last[a] \/ d.last[a] = height

LEMMA CappedThen ==
  ASSUME SettingsOK, NEW b, Whole(b), NEW c, Whole(c), NEW d, Whole(d), Capped(b, c), Capped(c, d)
  PROVE  Capped(b, d)
<1>1. guards.max \in Int
  BY DEF SettingsOK, NoCap
<1>2. \A a \in Wallets : b.held[Tax][a] \in Int /\ c.held[Tax][a] \in Int /\ d.held[Tax][a] \in Int
  BY RouteAssumption DEF Whole, Accounts
<1>. QED
  BY <1>1, <1>2 DEF Capped

LEMMA DatedThen ==
  ASSUME NEW b, NEW c, NEW d, Dated(b, c), Dated(c, d)
  PROVE  Dated(b, d)
BY DEF Dated

LEMMA WalletsUnprotected ==
  ASSUME SettingsOK
  PROVE  \A a \in Wallets : a \notin Protocol /\ a # official /\ a # Nobody /\ a # Treasury /\ a \in Accounts
BY AccountAssumption DEF SettingsOK, Protocol, Accounts

LEMMA CapHolds ==
  ASSUME SettingsOK, NEW c, Whole(c), NEW d, NEW from, NEW to, NEW kind, NEW traders,
         NEW debit \in Nat, NEW credit \in Nat, Moves(c, d, Tax, from, to, debit, credit),
         GuardCauses(c, kind, traders, to, credit) = {}
  PROVE  Capped(c, d)
<1>1. guards.max \in Int
  BY DEF SettingsOK, NoCap
<1>2. ~OverCap(c, to, credit)
  BY DEF GuardCauses, When
<1>. SUFFICES ASSUME NEW a \in Wallets
              PROVE  \/ d.held[Tax][a] <= c.held[Tax][a]
                     \/ guards.on /\ guards.max # NoCap => d.held[Tax][a] <= guards.max
  BY DEF Capped
<1>3. a \in Accounts \ {Treasury} /\ a \notin Protocol
  BY WalletsUnprotected
<1>4. d.held[Tax][a] = c.held[Tax][a] - (IF a = from THEN debit ELSE 0)
                                      + (IF a = to THEN credit ELSE 0)
  BY <1>3 DEF Moves
<1>5. c.held[Tax][a] \in Int
  BY <1>3, RouteAssumption DEF Whole
<1>6. CASE a # to \/ credit = 0
  BY <1>4, <1>5, <1>6
<1>7. CASE a = to /\ credit > 0
  <2>1. guards.on /\ guards.max # NoCap => ~(c.held[Tax][a] + credit > guards.max)
    BY <1>2, <1>3, <1>7 DEF OverCap
  <2>2. d.held[Tax][a] <= c.held[Tax][a] + credit /\ d.held[Tax][a] \in Int
    BY <1>4, <1>5, <1>7
  <2>. QED
    BY <1>1, <1>5, <2>1, <2>2
<1>. QED
  BY <1>6, <1>7

LEMMA PaysGuarded ==
  ASSUME SettingsOK, NEW c, Whole(c), NEW token \in Tokens, NEW from \in Accounts,
         NEW to \in Accounts, NEW amount \in Nat, NEW swap,
         Pays(c, token, from, to, amount, swap).failed = {}
  PROVE  LET d == Pays(c, token, from, to, amount, swap) IN
         Capped(c, d) /\ Dated(c, d) /\ (token # Tax => d.last = c.last)
<1>. DEFINE d == Pays(c, token, from, to, amount, swap)
            took == Took(c, token, from, to, amount, swap)
            gave == Gave(c, token, from, to, amount, swap)
<1>1. RatesOK /\ SinksOK
  BY DEF SettingsOK
<1>2. took \in Nat /\ gave \in Nat /\ Moves(c, d, token, from, to, took, gave)
  BY <1>1, PaysMoves
<1>3. CASE token # Tax
  <2>1. d = Plain(c, token, from, to, amount)
    BY <1>3 DEF Pays
  <2>2. d.last = c.last
    BY <2>1, <1>3, PlainMoves
  <2>. HIDE DEF d, took, gave
  <2>3. d.held[Tax] = c.held[Tax]
    BY <1>2, <1>3, RouteAssumption DEF Moves
  <2>4. \A a \in Wallets : c.held[Tax][a] \in Int
    BY RouteAssumption DEF Whole, Accounts
  <2>5. Capped(c, d)
    BY <2>3, <2>4 DEF Capped
  <2>. QED
    BY <2>2, <2>5 DEF Dated, d
<1>4. CASE token = Tax
  <2>. DEFINE kind == TradeKind(c, from, to, swap)
              hop == HopTrader(c, from, to, swap)
              traders == {from, to, hop} \ {Nobody}
              bought == IsRouterSell(from, to, swap) /\ Tax \in c.ctx.acquired
              checked == IF bought THEN {from, to} ELSE traders
              credit == Credited(c, from, to, amount, swap)
  <2>1. d = Transfer(c, from, to, amount, swap) /\ d.failed = {}
    BY <1>4 DEF Pays
  <2>2. /\ d.last = Marked(c, kind, traders)
        /\ GuardCauses(c, kind, checked, to, credit) = {}
    <3>1. Recorded(c, Transfer(c, from, to, amount, swap), from, to, amount, swap)
      BY <1>1, <2>1, TransferMoves
    <3>. QED
      BY <2>1, <3>1 DEF Recorded
  <2>3. gave = credit
    BY <1>4 DEF Gave
  <2>. HIDE DEF d, took, gave, kind, traders, checked, credit
  <2>4. Capped(c, d)
    BY <1>2, <1>4, <2>2, <2>3, CapHolds
  <2>5. Dated(c, d)
    BY <2>2, WalletsUnprotected DEF Dated, Marked
  <2>. QED
    BY <1>4, <2>4, <2>5 DEF d
<1>. QED
  BY <1>3, <1>4

LEMMA PairPaysGuarded ==
  ASSUME SettingsOK, NEW c, Whole(c), NEW token \in Tokens, NEW from \in Accounts,
         NEW to \in Accounts, NEW amount \in Nat,
         PairPays(c, token, from, to, amount).failed = {}
  PROVE  LET d == PairPays(c, token, from, to, amount) IN
         Capped(c, d) /\ Dated(c, d) /\ (token # Tax => d.last = c.last)
<1>1. CASE amount > 0
  <2>1. PairPays(c, token, from, to, amount) = Pays(c, token, from, to, amount, NoHook)
    BY <1>1 DEF PairPays
  <2>. QED
    BY <2>1, PaysGuarded
<1>2. CASE ~(amount > 0)
  <2>1. PairPays(c, token, from, to, amount) = c
    BY <1>2 DEF PairPays
  <2>2. \A a \in Wallets : c.held[Tax][a] \in Int
    BY RouteAssumption DEF Whole, Accounts
  <2>. QED
    BY <2>1, <2>2 DEF Capped, Dated
<1>. QED
  BY <1>1, <1>2

\* A purchase or a sale passes only while trading, is the last of every wallet that trades in it, and
\* finds its cooldown over unless the route acquired the token before.
Checked(c, d, a) == guards.trading /\ d.last[a] = height /\ ~Cooling(c, a)

LEMMA TradeChecked ==
  ASSUME SettingsOK, guards.on, NEW c, Whole(c), NEW from \in Accounts, NEW to \in Accounts,
         NEW amount \in Nat, NEW swap, Pays(c, Tax, from, to, amount, swap).failed = {},
         TradeKind(c, from, to, swap) \in {"buy", "sell"},
         NEW a \in Wallets, a \in {from, to, HopTrader(c, from, to, swap)}
  PROVE  LET d == Pays(c, Tax, from, to, amount, swap) IN
         /\ guards.trading /\ d.last[a] = height
         /\ ~(IsRouterSell(from, to, swap) /\ Tax \in c.ctx.acquired) => Checked(c, d, a)
<1>. DEFINE d == Pays(c, Tax, from, to, amount, swap)
            kind == TradeKind(c, from, to, swap)
            hop == HopTrader(c, from, to, swap)
            traders == {from, to, hop} \ {Nobody}
            bought == IsRouterSell(from, to, swap) /\ Tax \in c.ctx.acquired
            checked == IF bought THEN {from, to} ELSE traders
            credit == Credited(c, from, to, amount, swap)
<1>1. RatesOK /\ SinksOK
  BY DEF SettingsOK
<1>2. d = Transfer(c, from, to, amount, swap) /\ d.failed = {}
  BY DEF Pays
<1>3. /\ d.last = Marked(c, kind, traders)
      /\ GuardCauses(c, kind, checked, to, credit) = {}
  <2>1. Recorded(c, Transfer(c, from, to, amount, swap), from, to, amount, swap)
    BY <1>1, <1>2, TransferMoves
  <2>. QED
    BY <1>2, <2>1 DEF Recorded
<1>4. a \in traders \ Protocol /\ a \in Accounts
  BY WalletsUnprotected
<1>5. IsTrade(kind)
  BY DEF IsTrade
<1>6. ~bought => a \in checked \ Protocol
  BY <1>4
<1>. HIDE DEF d, kind, traders, checked, credit, bought
<1>7. d.last[a] = height
  BY <1>3, <1>4, <1>5 DEF Marked
<1>8. /\ guards.trading
      /\ ~\E x \in checked \ Protocol : Cooling(c, x)
  BY <1>3, <1>5 DEF GuardCauses, When
<1>. QED
  BY <1>6, <1>7, <1>8 DEF Checked, d, bought

\* What a swap does to the wallets and to a pool of the token.
SwapGuarded(c, d, pair, offer, ask, receiver) ==
  /\ Capped(c, d) /\ Dated(c, d) /\ (ask # Tax => d.last = c.last)
  /\ d.pool[pair][ask] = c.pool[pair][ask] => d.held[ask][receiver] = c.held[ask][receiver]
  /\ ask = Tax /\ guards.on /\ d.pool[pair][ask] # c.pool[pair][ask] =>
       \A a \in Wallets :
         /\ TradeKind(c, pair, receiver, NoHook) = "buy"
         /\ a \in {receiver, HopTrader(c, pair, receiver, NoHook)}
         => Checked(c, d, a)

LEMMA KindOfContext ==
  ASSUME NEW c, NEW b, b.ctx = c.ctx, NEW from, NEW to, NEW swap
  PROVE  /\ TradeKind(b, from, to, swap) = TradeKind(c, from, to, swap)
         /\ HopTrader(b, from, to, swap) = HopTrader(c, from, to, swap)
BY DEF TradeKind, HopTrader, IsBuy, IsRouterBuy

LEMMA PairSwapGuarded ==
  ASSUME SettingsOK, NEW c, Whole(c), NEW pair, NEW offer, NEW ask, IsPairOf(pair, offer, ask),
         NEW amount \in Nat, NEW receiver \in Wallets \cup {Router}, NEW floor,
         PairSwap(c, pair, offer, ask, amount, receiver, floor).failed = {}
  PROVE  SwapGuarded(c, PairSwap(c, pair, offer, ask, amount, receiver, floor),
                     pair, offer, ask, receiver)
<1>. DEFINE gross == SwapGross(c, pair, offer, ask, amount)
            fee == SwapFee(c, pair, offer, ask, amount)
            b == Reserved(c, pair, offer, ask, amount)
            paid == Returned(c, pair, offer, ask, amount, receiver)
            d == PairSwap(c, pair, offer, ask, amount, receiver, floor)
            got == PairGives(b, ask, pair, receiver, gross - fee)
            last == PairGives(paid, ask, pair, House, fee)
<1>1. /\ pair \in Pairs /\ ask \in Tokens /\ pair \in Accounts /\ receiver \in Accounts
      /\ House \in Accounts
  BY DEF IsPairOf, Accounts
<1>2. gross \in Nat /\ fee \in Nat /\ gross - fee \in Nat /\ (gross > 0 <=> gross - fee > 0)
  <2>1. /\ c.pool[pair][ask] \in Nat \ {0} /\ gross \in 0 .. c.pool[pair][ask] - 1 /\ fee \in 0 .. gross
        /\ gross > 0 => gross - fee > 0
    BY SwapAmounts
  <2>. HIDE DEF gross, fee
  <2>. QED
    BY <2>1
<1>3. /\ Whole(b) /\ b.held = c.held /\ b.ctx = c.ctx /\ b.last = c.last
      /\ b.pool[pair][ask] = c.pool[pair][ask] - gross
  BY SwapReserves
<1>4. paid.failed = {} /\ d = PairPays(paid, ask, pair, House, fee) /\ d.failed = {}
  BY SwapSteps
<1>5. paid = PairPays(b, ask, pair, receiver, gross - fee)
  BY DEF Returned
<1>6. /\ RatesOK /\ SinksOK
      /\ got \in Nat /\ Swaps(c, d, pair, offer, ask, amount, receiver, got)
  BY PairSwapMoves DEF SettingsOK
<1>7. gross - fee = 0 => got = 0
  <2>. HIDE DEF gross, fee, b
  <2>. QED
    BY DEF PairGives
<1>. HIDE DEF gross, fee, b, paid, d, got, last
<1>8. Whole(paid) /\ paid.pool = b.pool
  <2>1. Moves(b, paid, ask, pair, receiver, gross - fee, PairGives(b, ask, pair, receiver, gross - fee))
    BY <1>1, <1>2, <1>3, <1>4, <1>5, <1>6, PairPaysMoves
  <2>. QED
    BY <2>1 DEF Moves
<1>9. Whole(d) /\ d.pool = paid.pool
  <2>1. Moves(paid, d, ask, pair, House, fee, PairGives(paid, ask, pair, House, fee))
    BY <1>1, <1>2, <1>4, <1>6, <1>8, PairPaysMoves
  <2>. QED
    BY <2>1 DEF Moves
<1>10. Capped(b, paid) /\ Dated(b, paid) /\ (ask # Tax => paid.last = b.last)
  BY <1>1, <1>2, <1>3, <1>4, <1>5, PairPaysGuarded
<1>11. Capped(paid, d) /\ Dated(paid, d) /\ (ask # Tax => d.last = paid.last)
  BY <1>1, <1>2, <1>4, <1>8, PairPaysGuarded
<1>12. Capped(c, d) /\ Dated(c, d) /\ (ask # Tax => d.last = c.last)
  <2>1. Capped(b, d) /\ Dated(b, d)
    BY <1>3, <1>8, <1>9, <1>10, <1>11, CappedThen, DatedThen
  <2>. QED
    BY <1>3, <1>10, <1>11, <2>1 DEF Capped, Dated
<1>13. c.pool[pair][ask] \in Int /\ d.pool[pair][ask] = c.pool[pair][ask] - gross
  <2>1. c.pool[pair][ask] \in Int
    BY DEF Whole, IsPairOf
  <2>. QED
    BY <1>3, <1>8, <1>9, <2>1
<1>14. d.pool[pair][ask] = c.pool[pair][ask] => d.held[ask][receiver] = c.held[ask][receiver]
  <2>1. ASSUME d.pool[pair][ask] = c.pool[pair][ask]
        PROVE  d.held[ask][receiver] = c.held[ask][receiver]
    <3>1. got = 0
      BY <1>2, <1>7, <1>13, <2>1
    <3>2. c.held[ask][receiver] \in Int
      BY <1>1 DEF Whole
    <3>. QED
      BY <1>6, <3>1, <3>2 DEF Swaps
  <2>. QED
    BY <2>1
<1>15. ASSUME ask = Tax, guards.on, d.pool[pair][ask] # c.pool[pair][ask], NEW a \in Wallets,
              TradeKind(c, pair, receiver, NoHook) = "buy",
              a \in {receiver, HopTrader(c, pair, receiver, NoHook)}
       PROVE  Checked(c, d, a)
  <2>1. gross - fee > 0
    BY <1>2, <1>13, <1>15
  <2>2. paid = Pays(b, Tax, pair, receiver, gross - fee, NoHook)
    BY <1>5, <1>15, <2>1 DEF PairPays
  <2>3. /\ TradeKind(b, pair, receiver, NoHook) = "buy"
        /\ a \in {receiver, HopTrader(b, pair, receiver, NoHook)}
    BY <1>3, <1>15, KindOfContext
  <2>4. ~IsRouterSell(pair, receiver, NoHook)
    BY DEF IsRouterSell
  <2>5. Checked(b, paid, a)
    BY <1>1, <1>2, <1>3, <1>4, <1>15, <2>2, <2>3, <2>4, TradeChecked
  <2>6. d.last[a] = height
    BY <1>11, <2>5 DEF Dated, Checked
  <2>. QED
    BY <1>3, <2>5, <2>6 DEF Checked, Cooling
<1>. QED
  BY <1>12, <1>14, <1>15 DEF SwapGuarded, d

\* What a sale does: offer is sold by from for trader, and receiver is paid.
SaleGuarded(c, d, pair, from, offer, ask, receiver, trader) ==
  /\ Capped(c, d) /\ Dated(c, d)
  /\ Tax \notin {offer, ask} => d.last = c.last
  /\ d.pool[pair][ask] = c.pool[pair][ask] => d.held[ask][receiver] = c.held[ask][receiver]
  /\ offer = Tax /\ guards.on =>
       \A a \in Wallets :
         /\ TradeKind(c, from, pair, trader) = "sell"
         /\ a \in {from, HopTrader(c, from, pair, trader)}
         => /\ guards.trading /\ d.last[a] = height
            /\ ~(IsRouterSell(from, pair, trader) /\ Tax \in c.ctx.acquired) => ~Cooling(c, a)
  /\ ask = Tax /\ guards.on /\ d.pool[pair][ask] # c.pool[pair][ask] =>
       \A a \in Wallets :
         /\ TradeKind(c, pair, receiver, NoHook) = "buy"
         /\ a \in {receiver, HopTrader(c, pair, receiver, NoHook)}
         => Checked(c, d, a)

LEMMA SendSwapGuarded ==
  ASSUME SettingsOK, NEW c, Whole(c), NEW from \in Wallets \cup {Router}, NEW offer, NEW ask,
         NEW amount \in Nat, NEW receiver \in Wallets \cup {Router}, NEW floor, NEW trader,
         IsPairOf(PairOf(offer, ask), offer, ask),
         SendSwap(c, from, offer, ask, amount, receiver, floor, trader).failed = {}
  PROVE  SaleGuarded(c, SendSwap(c, from, offer, ask, amount, receiver, floor, trader),
                     PairOf(offer, ask), from, offer, ask, receiver, trader)
<1>. DEFINE pair == PairOf(offer, ask)
            sent == Pays(c, offer, from, pair, amount, trader)
            gave == Gave(c, offer, from, pair, amount, trader)
            took == Took(c, offer, from, pair, amount, trader)
            d == SendSwap(c, from, offer, ask, amount, receiver, floor, trader)
<1>1. /\ RatesOK /\ SinksOK
      /\ sent.failed = {} /\ gave \in Nat /\ Moves(c, sent, offer, from, pair, took, gave)
      /\ d = PairSwap(sent, pair, offer, ask, gave, receiver, floor) /\ d.failed = {}
  BY SaleSteps DEF SettingsOK
<1>2. /\ IsPairOf(pair, offer, ask) /\ offer \in Tokens /\ ask \in Tokens /\ offer # ask
      /\ pair \in Accounts /\ from \in Accounts /\ receiver \in Accounts
      /\ pair # receiver /\ receiver # Treasury
  BY AccountAssumption DEF IsPairOf, Accounts
<1>3. Capped(c, sent) /\ Dated(c, sent) /\ (offer # Tax => sent.last = c.last)
  <2>. HIDE DEF pair
  <2>. QED
    BY <1>1, <1>2, PaysGuarded
<1>4. offer = Tax /\ guards.on =>
        \A a \in Wallets :
          /\ TradeKind(c, from, pair, trader) = "sell"
          /\ a \in {from, HopTrader(c, from, pair, trader)}
          => /\ guards.trading /\ sent.last[a] = height
             /\ ~(IsRouterSell(from, pair, trader) /\ Tax \in c.ctx.acquired) => ~Cooling(c, a)
  <2>. HIDE DEF pair
  <2>. QED
    BY <1>1, <1>2, TradeChecked DEF Checked
<1>5. Whole(sent) /\ sent.pool = c.pool /\ sent.ctx = c.ctx /\ sent.held[ask] = c.held[ask]
  <2>. HIDE DEF sent, gave, took, pair
  <2>. QED
    BY <1>1, <1>2 DEF Moves
<1>. HIDE DEF pair, sent, gave, took, d
<1>6. SwapGuarded(sent, d, pair, offer, ask, receiver)
  BY <1>1, <1>2, <1>5, PairSwapGuarded
<1>7. Whole(d)
  <2>1. \E got \in Nat : Swaps(sent, d, pair, offer, ask, gave, receiver, got)
    BY <1>1, <1>2, <1>5, PairSwapMoves
  <2>. QED
    BY <2>1 DEF Swaps
<1>8. Capped(c, d) /\ Dated(c, d)
  BY <1>3, <1>5, <1>6, <1>7, CappedThen, DatedThen DEF SwapGuarded
<1>9. Tax \notin {offer, ask} => d.last = c.last
  BY <1>3, <1>6 DEF SwapGuarded
<1>10. d.pool[pair][ask] = c.pool[pair][ask] => d.held[ask][receiver] = c.held[ask][receiver]
  BY <1>5, <1>6 DEF SwapGuarded
<1>11. offer = Tax => d.last = sent.last
  BY <1>2, <1>6 DEF SwapGuarded
<1>12. ASSUME ask = Tax, guards.on, d.pool[pair][ask] # c.pool[pair][ask], NEW a \in Wallets,
              TradeKind(c, pair, receiver, NoHook) = "buy",
              a \in {receiver, HopTrader(c, pair, receiver, NoHook)}
       PROVE  Checked(c, d, a)
  <2>1. /\ TradeKind(sent, pair, receiver, NoHook) = "buy"
        /\ a \in {receiver, HopTrader(sent, pair, receiver, NoHook)}
    BY <1>5, <1>12, KindOfContext
  <2>2. Checked(sent, d, a)
    BY <1>5, <1>6, <1>12, <2>1 DEF SwapGuarded
  <2>3. sent.last = c.last
    BY <1>2, <1>3, <1>12
  <2>. QED
    BY <2>2, <2>3 DEF Checked, Cooling
<1>. QED
  BY <1>4, <1>8, <1>9, <1>10, <1>11, <1>12 DEF SaleGuarded, d, pair

-----------------------------------------------------------------------------
(* The launch guards: a route. *)

\* Between s and d the pool of p moved the token.
TradedIn(s, d, p) == Tax \in PairTokens[p] /\ d.pool[p][Tax] # s.pool[p][Tax]
Untraded(s, d) == \A p \in Pairs : ~TradedIn(s, d, p)
TradedUnlisted(s, d) == \E q \in Pairs \ listed : TradedIn(s, d, q)

\* i hops into a route that began in s: what a refund restores is at most the deposit, and the
\* token's trades so far are the trader's.
OnWatch(s, c, path, i, trader, deposit) ==
  /\ c.routeId \in Nat \ {0}
  /\ i > 0 /\ path[1] # Tax => c.ctx.restore = {}
  /\ path[1] = Tax /\ c.refunds # <<>> => c.refunds[1].amount <= deposit
  /\ i = 0 => c.refunds = <<>> /\ (path[1] = Tax => c.got <= deposit)
  /\ official # Router => \A j \in 1 .. i : path[j] # Tax
  /\ (i = 0 \/ \A j \in 1 .. i + 1 : path[j] # Tax) =>
       Tax \notin c.ctx.acquired /\ c.last[trader] = s.last[trader] /\ Untraded(s, c)
  /\ guards.on /\ official = Router =>
       /\ i > 0 /\ path[i + 1] = Tax => ~Cooling(s, trader) \/ TradedUnlisted(s, c)
       /\ \A p \in listed : TradedIn(s, c, p) =>
            /\ guards.trading /\ c.last[trader] = height
            /\ ~Cooling(s, trader) \/ TradedUnlisted(s, c)

LEMMA DepositWatched ==
  ASSUME SettingsOK, NEW s, Whole(s), s.refunds = <<>>, s.routeId \in Nat, s.ctx = NoRoute,
         NEW path \in Paths, NEW trader \in Wallets, NEW amount \in Nat,
         Deposited(s, trader, path, amount).failed = {}
  PROVE  OnWatch(s, Deposited(s, trader, path, amount), path, 0, trader, amount)
<1>. DEFINE token == path[1]
            sent == Pays(s, token, trader, Router, amount, NoHook)
            gave == Gave(s, token, trader, Router, amount, NoHook)
            c == Deposited(s, trader, path, amount)
<1>1. /\ RatesOK /\ SinksOK
      /\ OnRoute(s, c, path, 0, trader, amount)
      /\ c.pool = s.pool /\ c.ctx = s.ctx /\ c.got = gave /\ c.last = sent.last
      /\ c.routeId = s.routeId + 1
  BY DepositBegins DEF Deposited, SettingsOK
<1>2. sent.failed = {}
  <2>1. c = Then(sent, [sent EXCEPT !.routeId = @ + 1,
                                    !.got = sent.held[token][Router] - s.held[token][Router]])
    BY DEF Deposited, Begun
  <2>. HIDE DEF sent, token, c
  <2>2. c.failed = {}
    BY DEF c
  <2>. QED
    BY <2>1, <2>2 DEF Then
<1>3. token \in Tokens /\ trader \in Accounts /\ Router \in Accounts /\ trader # Router
  BY PathHops, AccountAssumption DEF Accounts
<1>4. TradeKind(s, trader, Router, NoHook) \notin {"buy", "sell"}
  <2>1. trader \notin Protocol /\ trader \notin listed
    BY WalletsUnprotected DEF Protocol
  <2>. QED
    BY <2>1 DEF TradeKind, IsSell, IsBuy, IsRouterBuy
<1>5. sent.last[trader] = s.last[trader]
  <2>1. CASE token = Tax
    <3>1. sent = Transfer(s, trader, Router, amount, NoHook)
      BY <2>1 DEF Pays
    <3>2. Recorded(s, Transfer(s, trader, Router, amount, NoHook), trader, Router, amount, NoHook)
      BY <1>1, <1>2, <1>3, <3>1, TransferMoves
    <3>. HIDE DEF sent
    <3>. QED
      BY <1>3, <1>4, <3>1, <3>2 DEF Recorded, Marked, IsTrade
  <2>2. CASE token # Tax
    <3>1. sent.last = s.last
      <4>. HIDE DEF token
      <4>. QED
        BY <1>2, <1>3, <2>2, PaysGuarded
    <3>. QED
      BY <3>1
  <2>. QED
    BY <2>1, <2>2
<1>6. token = Tax => gave <= amount
  <2>1. gave = IF token = Tax THEN Credited(s, trader, Router, amount, NoHook) ELSE amount
    BY DEF Gave
  <2>2. TaxDue(s, trader, Router, amount, NoHook) \in 0 .. amount
    BY <1>1, TaxDueWithin
  <2>3. /\ Credited(s, trader, Router, amount, NoHook) = amount
        \/ Credited(s, trader, Router, amount, NoHook) = amount - TaxDue(s, trader, Router, amount, NoHook)
    BY DEF Credited
  <2>. HIDE DEF gave
  <2>. QED
    BY <2>1, <2>2, <2>3
<1>7. c.refunds = <<>>
  <2>1. ~\E j \in 1 .. 0 : path[j] = Tax
    OBVIOUS
  <2>. QED
    BY <1>1, <2>1 DEF OnRoute
<1>. HIDE DEF c, sent, gave, token
<1>8. Untraded(s, c) /\ Tax \notin c.ctx.acquired /\ c.last[trader] = s.last[trader]
  BY <1>1, <1>5 DEF Untraded, TradedIn, NoRoute
<1>9. listed \subseteq Pairs
  BY DEF SettingsOK
<1>10. c.routeId \in Nat \ {0} /\ (path[1] = Tax => c.got <= amount)
  BY <1>1, <1>6 DEF token
<1>11. \A p \in listed : ~TradedIn(s, c, p)
  BY <1>8, <1>9 DEF Untraded
<1>12. \A j \in 1 .. 0 : path[j] # Tax
  OBVIOUS
<1>13. OnWatch(s, c, path, 0, trader, amount)
  BY <1>7, <1>8, <1>10, <1>11, <1>12 DEF OnWatch
<1>. QED
  BY <1>13 DEF c

\* A hop that is not refused, step by step: what it opens, sells and leaves.
HopLeaves(c, d, path, i, trader) ==
  LET h == Opened(c, path, i, trader)
      pair == HopPair(path, i)
      ask == path[i + 1]
  IN  /\ HopPreviewed(path[i], pair, trader, SoldTax(c, path, i, trader))
      /\ d.routeId = c.routeId /\ d.refunds = RefundsOf(c, path, i, trader)
      /\ d.ctx.restore = IF i = 1 THEN ToSet(RefundsOf(c, path, i, trader)) ELSE c.ctx.restore
      /\ d.ctx.acquired = c.ctx.acquired \cup {ask}
      /\ \A p \in Pairs \ {pair} : d.pool[p] = c.pool[p]
      /\ d.pool[pair][ask] # c.pool[pair][ask]
      /\ SaleGuarded(h, d, pair, Router, path[i], ask, Router, trader)

LEMMA HopGuarded ==
  ASSUME SettingsOK, NEW c, Whole(c), c.got \in Nat, NEW path \in Paths, NEW i \in 1 .. Len(path) - 1,
         NEW trader \in Wallets, NEW floor, Hop(c, path, i, trader, floor).failed = {}
  PROVE  HopLeaves(c, Hop(c, path, i, trader, floor), path, i, trader)
<1>. DEFINE offer == path[i]
            ask == path[i + 1]
            pair == HopPair(path, i)
            h == Opened(c, path, i, trader)
            sold == Sold(c, path, i, trader)
            sale == HopSale(c, path, i, trader, floor)
            d == Hop(c, path, i, trader, floor)
            got == sale.held[ask][Router] - c.held[ask][Router]
            took == Took(h, offer, Router, pair, sold, trader)
<1>1. /\ IsPairOf(pair, offer, ask) /\ pair = PairOf(offer, ask)
      /\ offer \in Tokens /\ ask \in Tokens /\ offer # ask
  BY PathHops DEF IsPairOf
<1>2. /\ HopPreviewed(offer, pair, trader, SoldTax(c, path, i, trader))
      /\ sale.failed = {} /\ got # 0 /\ Gains(sale, d, got, ask)
  BY HopSteps
<1>3. RatesOK /\ SinksOK /\ sold \in Nat
  BY HopFunds DEF SettingsOK
<1>4. /\ Whole(h) /\ h.held = c.held /\ h.pool = c.pool /\ h.routeId = c.routeId
      /\ h.refunds = RefundsOf(c, path, i, trader) /\ h.ctx.acquired = c.ctx.acquired
      /\ h.ctx.restore = IF i = 1 THEN ToSet(RefundsOf(c, path, i, trader)) ELSE c.ctx.restore
  BY OpenedKeeps
<1>5. sale = SendSwap(h, Router, offer, ask, sold, Router, FloorBefore(ask, floor, trader), trader)
  BY DEF HopSale
<1>. HIDE DEF sale, h, sold, offer, ask, pair, d, got, took
<1>6. Router \in Wallets \cup {Router} /\ IsPairOf(PairOf(offer, ask), offer, ask)
  BY <1>1
<1>7. PICK gain \in Nat : Sells(h, sale, pair, Router, offer, ask, took, Router, gain)
  BY <1>1, <1>2, <1>3, <1>4, <1>5, <1>6, SendSwapMoves DEF took
<1>8. SaleGuarded(h, sale, pair, Router, offer, ask, Router, trader)
  <2>1. SaleGuarded(h, sale, PairOf(offer, ask), Router, offer, ask, Router, trader)
    BY <1>2, <1>3, <1>4, <1>5, <1>6, SendSwapGuarded
  <2>. QED
    BY <1>1, <2>1
<1>9. /\ Whole(sale) /\ sale.routeId = c.routeId /\ sale.refunds = h.refunds /\ sale.ctx = h.ctx
      /\ \A p \in Pairs \ {pair} : sale.pool[p] = c.pool[p]
  BY <1>4, <1>7 DEF Sells
<1>10. /\ d.held = sale.held /\ d.last = sale.last /\ d.pool = sale.pool
       /\ d.refunds = sale.refunds /\ d.routeId = sale.routeId
       /\ d.ctx.restore = sale.ctx.restore /\ d.ctx.acquired = sale.ctx.acquired \cup {ask}
  <2>1. d = [sale EXCEPT !.got = got, !.ctx.acquired = @ \cup {ask}]
    BY <1>2 DEF Gains
  <2>2. /\ DOMAIN sale = {"held", "pool", "last", "used", "burned", "failed", "routeId", "ctx",
                          "refunds", "got"}
        /\ DOMAIN sale.ctx = CtxFields
    BY <1>9 DEF Whole
  <2>. QED
    BY <2>1, <2>2 DEF CtxFields
<1>11. d.pool[pair][ask] # c.pool[pair][ask]
  <2>1. sale.pool[pair][ask] = h.pool[pair][ask] => sale.held[ask][Router] = h.held[ask][Router]
    BY <1>8 DEF SaleGuarded
  <2>2. c.held[ask][Router] \in Int
    BY <1>1 DEF Whole, Accounts
  <2>. QED
    BY <1>2, <1>4, <1>10, <2>1, <2>2 DEF got
<1>12. SaleGuarded(h, d, pair, Router, offer, ask, Router, trader)
  BY <1>8, <1>10 DEF SaleGuarded, Capped, Dated, Checked
<1>. QED
  BY <1>2, <1>4, <1>9, <1>10, <1>11, <1>12 DEF HopLeaves, d, offer, ask, pair, h

LEMMA HopWatched ==
  ASSUME SettingsOK, NEW s, Whole(s), NEW c, NEW path \in Paths, ValidPath(path),
         NEW i \in 1 .. Len(path) - 1, NEW trader \in Wallets, NEW deposit \in Nat, NEW floor,
         OnRoute(s, c, path, i - 1, trader, deposit), OnWatch(s, c, path, i - 1, trader, deposit),
         Hop(c, path, i, trader, floor).failed = {}
  PROVE  OnWatch(s, Hop(c, path, i, trader, floor), path, i, trader, deposit)
<1>. DEFINE offer == path[i]
            ask == path[i + 1]
            pair == HopPair(path, i)
            h == Opened(c, path, i, trader)
            sold == Sold(c, path, i, trader)
            tax == SoldTax(c, path, i, trader)
            residue == Residue(c, path, i, trader)
            refunds == RefundsOf(c, path, i, trader)
            d == Hop(c, path, i, trader, floor)
<1>1. Whole(c) /\ c.got \in Nat
  BY DEF OnRoute
<1>2. /\ Len(path) \in Nat /\ i \in Nat \ {0} /\ i + 1 \in 2 .. Len(path) /\ (i - 1) + 1 = i
      /\ IsPairOf(pair, offer, ask)
      /\ pair \in Pairs /\ PairTokens[pair] = {offer, ask} /\ offer # ask
  <2>. DEFINE n == Len(path)
  <2>1. /\ n \in Nat /\ i \in 1 .. n - 1
        /\ IsPairOf(pair, offer, ask) /\ pair \in Pairs /\ PairTokens[pair] = {offer, ask}
        /\ offer # ask
    BY PathHops DEF IsPairOf
  <2>. HIDE DEF n, pair, offer, ask
  <2>2. i \in Nat \ {0} /\ i + 1 \in 2 .. n /\ (i - 1) + 1 = i
    BY <2>1
  <2>. QED
    BY <2>1, <2>2 DEF n
<1>3. /\ HopPreviewed(offer, pair, trader, tax)
      /\ d.routeId = c.routeId /\ d.refunds = refunds
      /\ d.ctx.restore = IF i = 1 THEN ToSet(refunds) ELSE c.ctx.restore
      /\ d.ctx.acquired = c.ctx.acquired \cup {ask}
      /\ \A p \in Pairs \ {pair} : d.pool[p] = c.pool[p]
      /\ d.pool[pair][ask] # c.pool[pair][ask]
      /\ SaleGuarded(h, d, pair, Router, offer, ask, Router, trader)
  BY <1>1, HopGuarded DEF HopLeaves
<1>4. /\ residue \in Nat /\ residue <= c.got
      /\ offer # Tax => residue = 0
  <2>1. /\ sold \in Nat /\ tax \in Nat /\ residue \in Nat /\ sold + tax + residue = c.got
        /\ offer # Tax => residue = 0
    BY <1>1, HopFunds DEF SettingsOK
  <2>. HIDE DEF sold, tax, residue
  <2>. QED
    BY <2>1
<1>5. /\ h.pool = c.pool /\ h.last = c.last /\ h.ctx.id = c.routeId /\ h.ctx.trader = trader
      /\ h.ctx.pair = pair /\ h.ctx.ask = ask /\ h.ctx.acquired = c.ctx.acquired
  BY <1>1, OpenedKeeps
<1>6. refunds = IF residue = 0 THEN c.refunds
                ELSE Append(c.refunds, [slot |-> Len(c.refunds), token |-> offer,
                                        recipient |-> trader, amount |-> residue])
  BY DEF RefundsOf
\* The token is nowhere earlier on a path that sells or buys it now.
<1>7. /\ offer = Tax => \A j \in 1 .. i - 1 : path[j] # Tax
      /\ ask = Tax => \A j \in 1 .. i : path[j] # Tax
  <2>1. i = 1 \/ i \in 2 .. Len(path)
    BY <1>2
  <2>2. i = 1 => \A j \in 1 .. i - 1 : path[j] # Tax
    OBVIOUS
  <2>3. (i + 1) - 1 = i
    BY <1>2
  <2>. QED
    BY <1>2, <2>1, <2>2, <2>3 DEF ValidPath
<1>8. /\ c.routeId \in Nat \ {0}
      /\ i - 1 > 0 /\ path[1] # Tax => c.ctx.restore = {}
      /\ path[1] = Tax /\ c.refunds # <<>> => c.refunds[1].amount <= deposit
      /\ i - 1 = 0 => c.refunds = <<>> /\ (path[1] = Tax => c.got <= deposit)
      /\ official # Router => \A j \in 1 .. i - 1 : path[j] # Tax
      /\ (i - 1 = 0 \/ \A j \in 1 .. i : path[j] # Tax) =>
           Tax \notin c.ctx.acquired /\ c.last[trader] = s.last[trader] /\ Untraded(s, c)
      /\ guards.on /\ official = Router =>
           /\ i - 1 > 0 /\ offer = Tax => ~Cooling(s, trader) \/ TradedUnlisted(s, c)
           /\ \A p \in listed : TradedIn(s, c, p) =>
                /\ guards.trading /\ c.last[trader] = height
                /\ ~Cooling(s, trader) \/ TradedUnlisted(s, c)
  BY <1>2 DEF OnWatch
<1>9. offer = Tax => official = Router /\ pair \in listed /\ Previewed(pair, trader, tax)
  BY <1>3 DEF HopPreviewed, Previewed
<1>10. listed \subseteq Pairs
  BY DEF SettingsOK
<1>. HIDE DEF h, sold, tax, residue, refunds, d, pair
<1>11. ASSUME path[1] # Tax
       PROVE  d.ctx.restore = {}
  <2>1. CASE i = 1
    <3>1. refunds = <<>>
      BY <1>4, <1>6, <1>8, <1>11, <2>1
    <3>2. ToSet(<<>>) = {}
      BY DEF ToSet
    <3>. QED
      BY <1>3, <2>1, <3>1, <3>2
  <2>2. CASE i # 1
    BY <1>2, <1>3, <1>8, <1>11, <2>2
  <2>. QED
    BY <2>1, <2>2
<1>12. ASSUME path[1] = Tax, d.refunds # <<>>
       PROVE  d.refunds[1].amount <= deposit
  <2>1. CASE i = 1
    <3>. DEFINE e == [slot |-> Len(c.refunds), token |-> offer, recipient |-> trader,
                      amount |-> residue]
    <3>1. c.refunds = <<>> /\ c.got <= deposit
      BY <1>8, <1>12, <2>1
    <3>2. Append(<<>>, e)[1] = e /\ e.amount = residue
      OBVIOUS
    <3>. HIDE DEF e
    <3>3. d.refunds = Append(<<>>, e)
      BY <1>3, <1>6, <1>12, <3>1 DEF e
    <3>. QED
      BY <1>1, <1>4, <3>1, <3>2, <3>3
  <2>2. CASE i # 1
    <3>1. offer # Tax
      <4>1. 1 \in 1 .. i - 1
        BY <1>2, <2>2
      <4>. QED
        BY <1>7, <1>12, <4>1
    <3>2. d.refunds = c.refunds
      BY <1>3, <1>4, <1>6, <3>1
    <3>. QED
      BY <1>8, <1>12, <3>2
  <2>. QED
    BY <2>1, <2>2
<1>13. official # Router => \A j \in 1 .. i : path[j] # Tax
  <2>1. \A j \in 1 .. i : j = i \/ j \in 1 .. i - 1
    BY <1>2
  <2>. QED
    BY <1>8, <1>9, <2>1
<1>14. /\ TradedIn(s, d, pair) <=> Tax \in {offer, ask} /\ d.pool[pair][Tax] # s.pool[pair][Tax]
       /\ \A p \in Pairs \ {pair} : TradedIn(s, d, p) <=> TradedIn(s, c, p)
  BY <1>2, <1>3 DEF TradedIn
\* A hop that does not trade the token leaves the watch as it is.
<1>15. ASSUME offer # Tax, ask # Tax
       PROVE  /\ d.last = c.last /\ (Tax \in d.ctx.acquired <=> Tax \in c.ctx.acquired)
              /\ \A p \in Pairs : TradedIn(s, d, p) <=> TradedIn(s, c, p)
  <2>1. d.last = c.last
    BY <1>3, <1>5, <1>15 DEF SaleGuarded
  <2>2. ~TradedIn(s, d, pair) /\ ~TradedIn(s, c, pair)
    BY <1>2, <1>15 DEF TradedIn
  <2>. QED
    BY <1>3, <1>14, <1>15, <2>1, <2>2
<1>16. ASSUME \A j \in 1 .. i + 1 : path[j] # Tax
       PROVE  Tax \notin d.ctx.acquired /\ d.last[trader] = s.last[trader] /\ Untraded(s, d)
  <2>1. i \in 1 .. i + 1 /\ i + 1 \in 1 .. i + 1 /\ \A j \in 1 .. i : j \in 1 .. i + 1
    BY <1>2
  <2>2. offer # Tax /\ ask # Tax /\ \A j \in 1 .. i : path[j] # Tax
    BY <1>16, <2>1
  <2>3. Tax \notin c.ctx.acquired /\ c.last[trader] = s.last[trader] /\ Untraded(s, c)
    BY <1>8, <2>2
  <2>. QED
    BY <1>15, <2>2, <2>3 DEF Untraded
<1>17. ASSUME guards.on, official = Router
       PROVE  /\ ask = Tax => ~Cooling(s, trader) \/ TradedUnlisted(s, d)
              /\ \A p \in listed : TradedIn(s, d, p) =>
                   /\ guards.trading /\ d.last[trader] = height
                   /\ ~Cooling(s, trader) \/ TradedUnlisted(s, d)
  <2>1. c.last[trader] = s.last[trader] => (Cooling(c, trader) <=> Cooling(s, trader))
    BY DEF Cooling
  <2>2. Cooling(h, trader) <=> Cooling(c, trader)
    BY <1>5 DEF Cooling
  <2>3. CASE offer = Tax
    <3>1. TradeKind(h, Router, pair, trader) = "sell" /\ HopTrader(h, Router, pair, trader) = trader
      BY <1>9, <2>3, RouterSale
    <3>2. /\ guards.trading /\ d.last[trader] = height
          /\ Tax \notin h.ctx.acquired => ~Cooling(h, trader)
      BY <1>3, <1>17, <2>3, <3>1 DEF SaleGuarded
    <3>3. ~Cooling(s, trader) \/ TradedUnlisted(s, d)
      <4>1. CASE i = 1
        BY <1>5, <1>8, <2>1, <2>2, <3>2, <4>1
      <4>2. CASE i # 1
        <5>1. ~Cooling(s, trader) \/ TradedUnlisted(s, c)
          BY <1>2, <1>8, <1>17, <2>3, <4>2
        <5>2. TradedUnlisted(s, c) => TradedUnlisted(s, d)
          BY <1>9, <1>14, <2>3 DEF TradedUnlisted
        <5>. QED
          BY <5>1, <5>2
      <4>. QED
        BY <4>1, <4>2
    <3>. QED
      BY <1>2, <2>3, <3>2, <3>3
  <2>4. CASE ask = Tax
    <3>1. Tax \notin c.ctx.acquired /\ c.last[trader] = s.last[trader] /\ Untraded(s, c)
      BY <1>7, <1>8, <2>4
    <3>2. TradedIn(s, d, pair)
      <4>1. c.pool[pair][Tax] = s.pool[pair][Tax]
        BY <1>2, <2>4, <3>1 DEF Untraded, TradedIn
      <4>. QED
        BY <1>2, <1>3, <2>4, <4>1 DEF TradedIn
    <3>3. \A p \in listed : TradedIn(s, d, p) => p = pair
      BY <1>10, <1>14, <3>1 DEF Untraded
    <3>4. CASE pair \in listed
      <4>1. pair # Router /\ Router \in Protocol /\ trader # Nobody
        BY <1>2, <1>17, AccountAssumption DEF Protocol, Accounts
      <4>2. IsRouterBuy(h, pair, Router)
        BY <1>5, <1>8, <1>17, <2>4, <3>4 DEF IsRouterBuy
      <4>3. /\ TradeKind(h, pair, Router, NoHook) = "buy"
            /\ HopTrader(h, pair, Router, NoHook) = trader
        BY <1>5, <4>2 DEF TradeKind, IsSell, IsBuy, HopTrader, IsRouterSell
      <4>4. Checked(h, d, trader)
        <5>1. d.pool[pair][ask] # h.pool[pair][ask]
          BY <1>3, <1>5
        <5>. QED
          BY <1>3, <1>17, <2>4, <4>3, <5>1 DEF SaleGuarded
      <4>. QED
        BY <2>1, <2>2, <3>1, <4>4 DEF Checked
    <3>5. CASE pair \notin listed
      <4>1. TradedUnlisted(s, d)
        BY <1>2, <3>2, <3>5 DEF TradedUnlisted
      <4>. QED
        BY <3>3, <3>5, <4>1
    <3>. QED
      BY <3>4, <3>5
  <2>5. CASE offer # Tax /\ ask # Tax
    <3>1. TradedUnlisted(s, d) <=> TradedUnlisted(s, c)
      BY <1>15, <2>5 DEF TradedUnlisted
    <3>. QED
      BY <1>8, <1>10, <1>15, <1>17, <2>5, <3>1
  <2>. QED
    BY <2>3, <2>4, <2>5
<1>18. d.routeId \in Nat \ {0}
  BY <1>3, <1>8
<1>19. i # 0
  BY <1>2
<1>20. OnWatch(s, d, path, i, trader, deposit)
  BY <1>11, <1>12, <1>13, <1>16, <1>17, <1>18, <1>19 DEF OnWatch
<1>. QED
  BY <1>20 DEF d

-----------------------------------------------------------------------------
(* Refusals: one transfer. *)

\* Whose cooldown a transfer asks for, and what it is refused for.
Asked(c, from, to, swap) ==
  IF IsRouterSell(from, to, swap) /\ Tax \in c.ctx.acquired THEN {from, to}
  ELSE {from, to, HopTrader(c, from, to, swap)} \ {Nobody}
TransferCauses(c, from, to, amount, swap) ==
  When("trader", (IsRouterSell(from, to, swap) \/ IsRouterBuy(c, from, to))
                 /\ ~IsRouteTrader(HopTrader(c, from, to, swap)))
  \cup When("context", IsRouterSell(from, to, swap)
                       /\ ~Authorized(c, to, amount, HopTrader(c, from, to, swap)))
  \cup When("funds", c.held[Tax][from] < Debited(c, from, to, amount, swap))
  \cup When("sink", HopTrader(c, from, to, swap) # Nobody
                    /\ Misdirected(TaxDue(c, from, to, amount, swap)))
  \cup GuardCauses(c, TradeKind(c, from, to, swap), Asked(c, from, to, swap), to,
                   Credited(c, from, to, amount, swap))

\* The condition behind a cause.
Reason(x, c, from, to, amount, swap) ==
  \/ /\ x = "trader" /\ (IsRouterSell(from, to, swap) \/ IsRouterBuy(c, from, to))
     /\ ~IsRouteTrader(HopTrader(c, from, to, swap))
  \/ /\ x = "context" /\ IsRouterSell(from, to, swap)
     /\ ~Authorized(c, to, amount, HopTrader(c, from, to, swap))
  \/ x = "funds" /\ c.held[Tax][from] < Debited(c, from, to, amount, swap)
  \/ /\ x = "sink" /\ HopTrader(c, from, to, swap) # Nobody
     /\ Misdirected(TaxDue(c, from, to, amount, swap))
  \/ x = "halted" /\ IsTrade(TradeKind(c, from, to, swap))
  \/ /\ x = "cooldown" /\ IsTrade(TradeKind(c, from, to, swap))
     /\ \E a \in Asked(c, from, to, swap) \ Protocol : Cooling(c, a)
  \/ x = "cap" /\ OverCap(c, to, Credited(c, from, to, amount, swap))

LEMMA CausesHaveReasons ==
  ASSUME NEW c, NEW from, NEW to, NEW amount, NEW swap,
         NEW x \in TransferCauses(c, from, to, amount, swap)
  PROVE  Reason(x, c, from, to, amount, swap)
<1>. DEFINE strange == (IsRouterSell(from, to, swap) \/ IsRouterBuy(c, from, to))
                       /\ ~IsRouteTrader(HopTrader(c, from, to, swap))
            unauthorized == IsRouterSell(from, to, swap)
                            /\ ~Authorized(c, to, amount, HopTrader(c, from, to, swap))
            short == c.held[Tax][from] < Debited(c, from, to, amount, swap)
            sunk == HopTrader(c, from, to, swap) # Nobody
                    /\ Misdirected(TaxDue(c, from, to, amount, swap))
            halted == IsTrade(TradeKind(c, from, to, swap)) /\ ~guards.trading
            cooling == IsTrade(TradeKind(c, from, to, swap))
                       /\ \E a \in Asked(c, from, to, swap) \ Protocol : Cooling(c, a)
            over == OverCap(c, to, Credited(c, from, to, amount, swap))
<1>1. x \in (((When("trader", strange) \cup When("context", unauthorized)) \cup When("funds", short))
             \cup When("sink", sunk))
            \cup ((When("halted", halted) \cup When("cooldown", cooling)) \cup When("cap", over))
  BY DEF TransferCauses, GuardCauses
<1>. HIDE DEF strange, unauthorized, short, sunk, halted, cooling, over
<1>2. \/ x = "trader" /\ strange
      \/ x = "context" /\ unauthorized
      \/ x = "funds" /\ short
      \/ x = "sink" /\ sunk
      \/ x = "halted" /\ halted
      \/ x = "cooldown" /\ cooling
      \/ x = "cap" /\ over
  <2>1. x \in When("trader", strange) => x = "trader" /\ strange
    BY DEF When
  <2>2. x \in When("context", unauthorized) => x = "context" /\ unauthorized
    BY DEF When
  <2>3. x \in When("funds", short) => x = "funds" /\ short
    BY DEF When
  <2>4. x \in When("sink", sunk) => x = "sink" /\ sunk
    BY DEF When
  <2>5. x \in When("halted", halted) => x = "halted" /\ halted
    BY DEF When
  <2>6. x \in When("cooldown", cooling) => x = "cooldown" /\ cooling
    BY DEF When
  <2>7. x \in When("cap", over) => x = "cap" /\ over
    BY DEF When
  <2>8. \/ x \in When("trader", strange) \/ x \in When("context", unauthorized)
        \/ x \in When("funds", short) \/ x \in When("sink", sunk) \/ x \in When("halted", halted)
        \/ x \in When("cooldown", cooling) \/ x \in When("cap", over)
    BY <1>1
  <2>. QED
    BY <2>1, <2>2, <2>3, <2>4, <2>5, <2>6, <2>7, <2>8
<1>. QED
  BY <1>2 DEF Reason, strange, unauthorized, short, sunk, halted, cooling, over

LEMMA TransferRefuses ==
  ASSUME NEW c, Whole(c), c.failed = {}, NEW from, NEW to, NEW amount, NEW swap
  PROVE  /\ Transfer(c, from, to, amount, swap).failed = TransferCauses(c, from, to, amount, swap)
         /\ Transfer(c, from, to, amount, swap).used = c.used
<1>. DEFINE d == Transfer(c, from, to, amount, swap)
            causes == TransferCauses(c, from, to, amount, swap)
            kind == TradeKind(c, from, to, swap)
            tax == TaxDue(c, from, to, amount, swap)
            moved == Shifted(c.held[Tax], from, Debited(c, from, to, amount, swap), to,
                             Credited(c, from, to, amount, swap))
            taxed == [a \in Accounts |-> moved[a] + ShareOf(tax, a)]
            marked == Marked(c, kind, {from, to, HopTrader(c, from, to, swap)} \ {Nobody})
            done == [c EXCEPT !.held[Tax] = taxed, !.burned = @ + ShareOf(tax, Burn),
                              !.last = marked]
<1>1. d = IF causes # {} THEN Failed(c, causes) ELSE done
  BY DEF Transfer, TransferCauses, Asked, TaxDue, Debited, Credited
<1>. HIDE DEF d, causes, taxed, marked, tax
<1>2. done.failed = c.failed /\ done.used = c.used
  BY DEF Whole
<1>3. Failed(c, causes).failed = causes /\ Failed(c, causes).used = c.used
  BY DEF Whole, Failed
<1>. HIDE DEF done
<1>. QED
  BY <1>1, <1>2, <1>3 DEF d, causes

LEMMA PlainRefuses ==
  ASSUME NEW c, Whole(c), c.failed = {}, NEW token, NEW from, NEW to, NEW amount
  PROVE  /\ Plain(c, token, from, to, amount).failed =
              IF c.held[token][from] < amount THEN {"funds"} ELSE {}
         /\ Plain(c, token, from, to, amount).used = c.used
         /\ Plain(c, token, from, to, amount).last = c.last
<1>. DEFINE moved == Shifted(c.held[token], from, amount, to, amount)
            done == [c EXCEPT !.held[token] = moved]
<1>1. Plain(c, token, from, to, amount) =
        IF c.held[token][from] < amount THEN Failed(c, {"funds"}) ELSE done
  BY DEF Plain
<1>2. done.failed = c.failed /\ done.used = c.used /\ done.last = c.last
  BY DEF Whole
<1>3. /\ Failed(c, {"funds"}).failed = {"funds"} /\ Failed(c, {"funds"}).used = c.used
      /\ Failed(c, {"funds"}).last = c.last
  BY DEF Whole, Failed
<1>. HIDE DEF done
<1>. QED
  BY <1>1, <1>2, <1>3

LEMMA PaysKeepsUsed ==
  ASSUME NEW c, Whole(c), c.failed = {}, NEW token, NEW from, NEW to, NEW amount, NEW swap
  PROVE  Pays(c, token, from, to, amount, swap).used = c.used
BY TransferRefuses, PlainRefuses DEF Pays

\* No sink is the protocol's.
LEMMA NeverMisdirected ==
  ASSUME SettingsOK, NEW tax \in Nat
  PROVE  ~Misdirected(tax)
<1>1. \A a \in Protocol : a \notin {Treasury, Burn}
  BY AccountAssumption DEF SettingsOK, Protocol, Accounts
<1>2. \A a \in Protocol : ShareOf(tax, a) = 0
  BY <1>1, SharesGo DEF SettingsOK
<1>. QED
  BY <1>2 DEF Misdirected

-----------------------------------------------------------------------------
(* A route's own context and slots. *)

\* i hops into a route that began in s: its context is its own, it spent no slot yet, what
\* it refunds is restored, and no commission was paid in the token before the token was asked.
OnTrack(s, c, path, i, trader) ==
  /\ c.used = s.used /\ c.routeId = s.routeId + 1
  /\ i > 0 => c.ctx.id = c.routeId /\ c.ctx.trader = trader /\ path[i + 1] \in c.ctx.acquired
  /\ i > 0 /\ path[1] = Tax /\ c.refunds # <<>> => c.refunds[1] \in c.ctx.restore
  /\ (i = 0 \/ \A j \in 1 .. i + 1 : path[j] # Tax) => c.last[House] = s.last[House]

\* Neither taxes nor swaps spend a slot.
LEMMA PairPaysKeepsUsed ==
  ASSUME NEW c, Whole(c), c.failed = {}, NEW token, NEW pair, NEW to, NEW amount
  PROVE  PairPays(c, token, pair, to, amount).used = c.used
BY PaysKeepsUsed DEF PairPays

LEMMA SwapKeepsUsed ==
  ASSUME RatesOK, SinksOK, NEW c, Whole(c), c.failed = {}, NEW pair, NEW offer, NEW ask,
         IsPairOf(pair, offer, ask), NEW amount \in Nat, NEW receiver \in Wallets \cup {Router},
         NEW floor, PairSwap(c, pair, offer, ask, amount, receiver, floor).failed = {}
  PROVE  PairSwap(c, pair, offer, ask, amount, receiver, floor).used = c.used
<1>. DEFINE fee == SwapFee(c, pair, offer, ask, amount)
            back == SwapGross(c, pair, offer, ask, amount) - fee
            b == Reserved(c, pair, offer, ask, amount)
            paid == Returned(c, pair, offer, ask, amount, receiver)
            d == PairSwap(c, pair, offer, ask, amount, receiver, floor)
<1>1. pair \in Pairs /\ ask \in Tokens /\ pair \in Accounts /\ receiver \in Accounts
  BY DEF IsPairOf, Accounts
<1>2. back \in Nat
  <2>1. /\ c.pool[pair][ask] \in Nat \ {0} /\ fee \in 0 .. SwapGross(c, pair, offer, ask, amount)
        /\ SwapGross(c, pair, offer, ask, amount) \in 0 .. c.pool[pair][ask] - 1
    BY SwapAmounts
  <2>. HIDE DEF fee
  <2>. QED
    BY <2>1
<1>3. Whole(b) /\ b.used = c.used
  BY SwapReserves
<1>4. b.failed = {}
  BY DEF Reserved, Whole
<1>5. paid.failed = {} /\ d = PairPays(paid, ask, pair, House, fee)
  BY SwapSteps
<1>6. paid = PairPays(b, ask, pair, receiver, back)
  BY DEF Returned
<1>. HIDE DEF fee, back, b, paid, d
<1>7. Whole(paid)
  <2>1. Moves(b, paid, ask, pair, receiver, back, PairGives(b, ask, pair, receiver, back))
    BY <1>1, <1>2, <1>3, <1>5, <1>6, PairPaysMoves
  <2>. QED
    BY <2>1 DEF Moves
<1>8. paid.used = b.used /\ d.used = paid.used
  BY <1>3, <1>4, <1>5, <1>6, <1>7, PairPaysKeepsUsed
<1>. QED
  BY <1>3, <1>8 DEF d

LEMMA SaleKeepsUsed ==
  ASSUME RatesOK, SinksOK, NEW c, Whole(c), c.failed = {}, NEW from \in Wallets \cup {Router},
         NEW offer, NEW ask, NEW amount \in Nat, NEW floor, NEW trader,
         IsPairOf(PairOf(offer, ask), offer, ask),
         SendSwap(c, from, offer, ask, amount, from, floor, trader).failed = {}
  PROVE  SendSwap(c, from, offer, ask, amount, from, floor, trader).used = c.used
<1>. DEFINE pair == PairOf(offer, ask)
            sent == Pays(c, offer, from, pair, amount, trader)
            gave == Gave(c, offer, from, pair, amount, trader)
            d == SendSwap(c, from, offer, ask, amount, from, floor, trader)
<1>1. /\ sent.failed = {} /\ gave \in Nat
      /\ Moves(c, sent, offer, from, pair, Took(c, offer, from, pair, amount, trader), gave)
      /\ d = PairSwap(sent, pair, offer, ask, gave, from, floor) /\ d.failed = {}
  BY SaleSteps
<1>2. sent.used = c.used
  BY PaysKeepsUsed
<1>3. IsPairOf(pair, offer, ask)
  OBVIOUS
<1>. HIDE DEF sent, gave, d, pair
<1>4. Whole(sent)
  BY <1>1 DEF Moves
<1>5. d.used = sent.used
  BY <1>1, <1>3, <1>4, SwapKeepsUsed
<1>. QED
  BY <1>2, <1>5 DEF d

\* What a hop that is not refused leaves of the context and the slots.
LEMMA HopContext ==
  ASSUME SettingsOK, NEW c, Whole(c), c.failed = {}, c.got \in Nat, NEW path \in Paths,
         NEW i \in 1 .. Len(path) - 1, NEW trader \in Wallets, NEW floor,
         Hop(c, path, i, trader, floor).failed = {}
  PROVE  /\ Hop(c, path, i, trader, floor).used = c.used
         /\ Hop(c, path, i, trader, floor).ctx.id = c.routeId
         /\ Hop(c, path, i, trader, floor).ctx.trader = trader
<1>. DEFINE offer == path[i]
            ask == path[i + 1]
            h == Opened(c, path, i, trader)
            sold == Sold(c, path, i, trader)
            sale == HopSale(c, path, i, trader, floor)
            d == Hop(c, path, i, trader, floor)
            got == sale.held[ask][Router] - c.held[ask][Router]
<1>1. IsPairOf(PairOf(offer, ask), offer, ask)
  BY PathHops
<1>2. sale.failed = {} /\ Gains(sale, d, got, ask)
  BY HopSteps
<1>3. RatesOK /\ SinksOK /\ sold \in Nat
  BY HopFunds DEF SettingsOK
<1>4. Whole(h) /\ h.used = c.used /\ h.ctx.id = c.routeId /\ h.ctx.trader = trader
  BY OpenedKeeps
<1>5. h.failed = {}
  BY DEF Opened, Whole
<1>6. sale = SendSwap(h, Router, offer, ask, sold, Router, FloorBefore(ask, floor, trader), trader)
  BY DEF HopSale
<1>. HIDE DEF sale, h, sold, offer, ask, d, got
<1>7. Router \in Wallets \cup {Router}
  OBVIOUS
<1>8. Whole(sale) /\ sale.ctx = h.ctx
  <2>1. \E gain \in Nat : Sells(h, sale, PairOf(offer, ask), Router, offer, ask,
                               Took(h, offer, Router, PairOf(offer, ask), sold, trader), Router, gain)
    BY <1>1, <1>2, <1>3, <1>4, <1>6, <1>7, SendSwapMoves
  <2>. QED
    BY <2>1 DEF Sells
<1>9. sale.used = h.used
  <2>1. ASSUME NEW f, SendSwap(h, Router, offer, ask, sold, Router, f, trader).failed = {}
        PROVE  SendSwap(h, Router, offer, ask, sold, Router, f, trader).used = h.used
    <3>1. Whole(h)
      BY <1>4
    <3>2. RatesOK /\ SinksOK /\ sold \in Nat
      BY <1>3
    <3>. QED
      BY ONLY <1>1, <1>5, <1>7, <2>1, <3>1, <3>2, SaleKeepsUsed
  <2>. QED
    BY <1>2, <1>6, <2>1
<1>10. d.used = sale.used /\ d.ctx.id = sale.ctx.id /\ d.ctx.trader = sale.ctx.trader
  <2>1. d = [sale EXCEPT !.got = got, !.ctx.acquired = @ \cup {ask}]
    BY <1>2 DEF Gains
  <2>2. /\ DOMAIN sale = {"held", "pool", "last", "used", "burned", "failed", "routeId", "ctx",
                          "refunds", "got"}
        /\ DOMAIN sale.ctx = CtxFields
    BY <1>8 DEF Whole
  <2>. QED
    BY <2>1, <2>2 DEF CtxFields
<1>. QED
  BY <1>4, <1>8, <1>9, <1>10 DEF d

LEMMA HopTracked ==
  ASSUME SettingsOK, NEW s, NEW c, c.failed = {}, NEW path \in Paths, ValidPath(path),
         NEW i \in 1 .. Len(path) - 1, NEW trader \in Wallets, NEW deposit \in Nat, NEW floor,
         OnRoute(s, c, path, i - 1, trader, deposit), OnWatch(s, c, path, i - 1, trader, deposit),
         OnTrack(s, c, path, i - 1, trader), Hop(c, path, i, trader, floor).failed = {}
  PROVE  OnTrack(s, Hop(c, path, i, trader, floor), path, i, trader)
<1>. DEFINE offer == path[i]
            ask == path[i + 1]
            pair == HopPair(path, i)
            h == Opened(c, path, i, trader)
            refunds == RefundsOf(c, path, i, trader)
            residue == Residue(c, path, i, trader)
            d == Hop(c, path, i, trader, floor)
<1>1. Whole(c) /\ c.got \in Nat
  BY DEF OnRoute
<1>2. /\ i \in Nat /\ i > 0 /\ (i - 1) + 1 = i /\ (i = 1 \/ i \in 2 .. Len(path))
      /\ i = 1 \/ i - 1 > 0
  <2>. DEFINE n == Len(path)
  <2>1. n \in Nat /\ i \in 1 .. n - 1
    BY PathHops
  <2>. HIDE DEF n
  <2>. QED
    BY <2>1 DEF n
<1>3. /\ d.routeId = c.routeId /\ d.refunds = refunds
      /\ d.ctx.restore = IF i = 1 THEN ToSet(refunds) ELSE c.ctx.restore
      /\ d.ctx.acquired = c.ctx.acquired \cup {ask}
      /\ SaleGuarded(h, d, pair, Router, offer, ask, Router, trader)
  BY <1>1, HopGuarded DEF HopLeaves
<1>4. d.used = c.used /\ d.ctx.id = c.routeId /\ d.ctx.trader = trader
  BY <1>1, HopContext
<1>5. h.last = c.last
  BY <1>1, OpenedKeeps
<1>6. refunds = IF residue = 0 THEN c.refunds
                ELSE Append(c.refunds, [slot |-> Len(c.refunds), token |-> offer,
                                        recipient |-> trader, amount |-> residue])
  BY DEF RefundsOf
<1>7. offer # Tax => residue = 0
  BY <1>1, HopFunds DEF SettingsOK
<1>8. /\ c.used = s.used /\ c.routeId = s.routeId + 1
      /\ i - 1 > 0 /\ path[1] = Tax /\ c.refunds # <<>> => c.refunds[1] \in c.ctx.restore
      /\ (i - 1 = 0 \/ \A j \in 1 .. i : path[j] # Tax) => c.last[House] = s.last[House]
  BY <1>2 DEF OnTrack
<1>. HIDE DEF h, residue, refunds, d, pair
<1>9. ASSUME path[1] = Tax, d.refunds # <<>>
      PROVE  d.refunds[1] \in d.ctx.restore
  <2>1. CASE i = 1
    <3>. DEFINE e == [slot |-> Len(c.refunds), token |-> offer, recipient |-> trader,
                      amount |-> residue]
    <3>1. c.refunds = <<>>
      BY <2>1 DEF OnWatch
    <3>. HIDE DEF e
    <3>2. refunds = <<e>>
      BY <1>3, <1>6, <1>9, <3>1 DEF e
    <3>3. <<e>>[1] = e /\ e \in ToSet(<<e>>)
      BY DEF ToSet
    <3>. QED
      BY <1>3, <2>1, <3>2, <3>3
  <2>2. CASE i # 1
    <3>1. offer # Tax
      <4>1. 1 \in 1 .. i - 1 /\ i \in 2 .. Len(path)
        BY <1>2, <2>2
      <4>. QED
        BY <1>9, <4>1 DEF ValidPath
    <3>2. d.refunds = c.refunds
      BY <1>3, <1>6, <1>7, <3>1
    <3>. QED
      BY <1>2, <1>3, <1>8, <1>9, <2>2, <3>2
  <2>. QED
    BY <2>1, <2>2
<1>10. ASSUME \A j \in 1 .. i + 1 : path[j] # Tax
       PROVE  d.last[House] = s.last[House]
  <2>1. i \in 1 .. i + 1 /\ i + 1 \in 1 .. i + 1 /\ \A j \in 1 .. i : j \in 1 .. i + 1
    BY <1>2
  <2>2. Tax \notin {offer, ask} /\ \A j \in 1 .. i : path[j] # Tax
    BY <1>10, <2>1
  <2>3. d.last = h.last
    BY <1>3, <2>2 DEF SaleGuarded
  <2>. QED
    BY <1>5, <1>8, <2>2, <2>3
<1>. QED
  BY <1>2, <1>3, <1>4, <1>8, <1>9, <1>10 DEF OnTrack, d

\* A deposit is no trade.
LEMMA DepositTracked ==
  ASSUME SettingsOK, NEW s, Whole(s), s.failed = {}, s.refunds = <<>>,
         NEW path \in Paths, NEW trader \in Wallets, NEW amount \in Nat,
         Deposited(s, trader, path, amount).failed = {}
  PROVE  OnTrack(s, Deposited(s, trader, path, amount), path, 0, trader)
<1>. DEFINE token == path[1]
            sent == Pays(s, token, trader, Router, amount, NoHook)
            got == sent.held[token][Router] - s.held[token][Router]
            c == Deposited(s, trader, path, amount)
<1>1. token \in Tokens /\ trader \in Accounts /\ Router \in Accounts /\ House \in Accounts
  BY PathHops DEF Accounts
<1>2. c = Then(sent, [sent EXCEPT !.routeId = @ + 1, !.got = got])
  BY DEF Deposited, Begun
<1>3. RatesOK /\ SinksOK
  BY DEF SettingsOK
<1>4. sent.failed = {} /\ c = [sent EXCEPT !.routeId = @ + 1, !.got = got]
  <2>. HIDE DEF sent, token, c, got
  <2>1. c.failed = {}
    BY DEF c
  <2>. QED
    BY <1>2, <2>1 DEF Then
<1>5. Whole(sent) /\ sent.routeId = s.routeId
  <2>1. Moves(s, sent, token, trader, Router, Took(s, token, trader, Router, amount, NoHook),
              Gave(s, token, trader, Router, amount, NoHook))
    BY <1>1, <1>3, <1>4, PaysMoves
  <2>. QED
    BY <2>1 DEF Moves
<1>6. sent.used = s.used
  BY PaysKeepsUsed
<1>7. sent.last[House] = s.last[House]
  <2>1. CASE token = Tax
    <3>1. sent = Transfer(s, trader, Router, amount, NoHook)
      BY <2>1 DEF Pays
    <3>2. Recorded(s, Transfer(s, trader, Router, amount, NoHook), trader, Router, amount, NoHook)
      BY <1>1, <1>3, <1>4, <3>1, TransferMoves
    <3>3. ~IsTrade(TradeKind(s, trader, Router, NoHook))
      BY WalletsUnprotected DEF IsTrade, TradeKind, IsSell, IsBuy, IsRouterBuy, Protocol
    <3>. HIDE DEF sent
    <3>. QED
      BY <1>1, <3>1, <3>2, <3>3 DEF Recorded, Marked
  <2>2. CASE token # Tax
    <3>1. sent = Plain(s, token, trader, Router, amount)
      BY <2>2 DEF Pays
    <3>2. sent.last = s.last
      BY <3>1, PlainRefuses
    <3>. QED
      BY <3>2
  <2>. QED
    BY <2>1, <2>2
<1>. HIDE DEF sent, token, got, c
<1>8. c.used = sent.used /\ c.last = sent.last /\ c.routeId = sent.routeId + 1
  BY <1>4, <1>5 DEF Whole
<1>9. ~(0 > 0)
  OBVIOUS
<1>. QED
  BY <1>5, <1>6, <1>7, <1>8, <1>9 DEF OnTrack, c

-----------------------------------------------------------------------------
(* A whole route. *)

\* A route that is not refused gets to its settlement, on its way and watched.
Arrives(d, c, s, trader, to, path, amount) ==
  /\ OnRoute(s, c, path, Len(path) - 1, trader, amount)
  /\ OnWatch(s, c, path, Len(path) - 1, trader, amount)
  /\ OnTrack(s, c, path, Len(path) - 1, trader) /\ c.failed = {}
  /\ d = Settle(c, path, to, 0)

LEMMA RouteArrives ==
  ASSUME SettingsOK, NEW s, Whole(s), s.failed = {}, s.refunds = <<>>,
         s.routeId \in Nat, s.ctx = NoRoute,
         NEW path \in Paths, NEW trader \in Wallets, NEW to \in Wallets, NEW amount \in Nat,
         NEW floors, Routed(s, trader, to, path, amount, 0, floors).failed = {}
  PROVE  /\ ValidPath(path)
         /\ \E c : Arrives(Routed(s, trader, to, path, amount, 0, floors), c, s, trader, to,
                          path, amount)
<1>. DEFINE n == Len(path) - 1
            first == Deposited(s, trader, path, amount)
            d == Routed(s, trader, to, path, amount, 0, floors)
<1>1. ValidPath(path) /\ n \in Nat
  BY RouteSteps
<1>. PICK f : Runs(d, f, s, trader, to, path, amount, 0, floors)
  BY RouteSteps
<1>2. /\ Hops(f, first, path, n, trader, floors) /\ f[n].failed = {}
      /\ d = Settle(f[n], path, to, 0)
  BY DEF Runs
<1>. HIDE DEF n
<1>3. f[0] = first /\ Walks(f, path, n, trader, floors)
  BY <1>1, <1>2, HopsStep
<1>. DEFINE Goes(i) == f[i].failed = {} => /\ OnRoute(s, f[i], path, i, trader, amount)
                                            /\ OnWatch(s, f[i], path, i, trader, amount)
                                            /\ OnTrack(s, f[i], path, i, trader)
            T == {i \in Nat : i <= n => Goes(i)}
<1>4. 0 \in T
  <2>1. ASSUME f[0].failed = {}
        PROVE  /\ OnRoute(s, f[0], path, 0, trader, amount) /\ OnWatch(s, f[0], path, 0, trader, amount)
               /\ OnTrack(s, f[0], path, 0, trader)
    <3>1. Deposited(s, trader, path, amount).failed = {}
      BY <1>3, <2>1
    <3>2. OnRoute(s, Deposited(s, trader, path, amount), path, 0, trader, amount)
      BY <3>1, DepositBegins DEF Deposited, SettingsOK
    <3>3. OnWatch(s, Deposited(s, trader, path, amount), path, 0, trader, amount)
      BY <3>1, DepositWatched
    <3>4. OnTrack(s, Deposited(s, trader, path, amount), path, 0, trader)
      BY <3>1, DepositTracked
    <3>. QED
      BY <1>3, <3>2, <3>3, <3>4
  <2>. QED
    BY <2>1
<1>. HIDE DEF first, d
<1>5. ASSUME NEW i \in Nat, i \in T
      PROVE  i + 1 \in T
  <2>. SUFFICES ASSUME i + 1 <= n, f[i + 1].failed = {}
                PROVE  /\ OnRoute(s, f[i + 1], path, i + 1, trader, amount)
                       /\ OnWatch(s, f[i + 1], path, i + 1, trader, amount)
                       /\ OnTrack(s, f[i + 1], path, i + 1, trader)
    OBVIOUS
  <2>. DEFINE j == i + 1
  <2>1. i \in 0 .. n - 1 /\ i <= n /\ j \in 1 .. n /\ j - 1 = i
    BY <1>1
  <2>2. f[i].failed = {} /\ f[i + 1] = Hop(f[i], path, i + 1, trader, floors[i + 1])
    BY <1>3, <2>1 DEF Walks
  <2>3. /\ OnRoute(s, f[i], path, i, trader, amount) /\ OnWatch(s, f[i], path, i, trader, amount)
        /\ OnTrack(s, f[i], path, i, trader)
    BY <1>5, <2>1, <2>2
  <2>. HIDE DEF j
  <2>4. /\ OnRoute(s, f[i], path, j - 1, trader, amount)
        /\ OnWatch(s, f[i], path, j - 1, trader, amount) /\ j \in 1 .. Len(path) - 1
        /\ OnTrack(s, f[i], path, j - 1, trader)
        /\ Hop(f[i], path, j, trader, floors[j]).failed = {}
    BY <2>1, <2>2, <2>3 DEF j, n
  <2>5. OnRoute(s, Hop(f[i], path, j, trader, floors[j]), path, j, trader, amount)
    BY <1>1, <2>4, HopMoves DEF SettingsOK
  <2>6. OnWatch(s, Hop(f[i], path, j, trader, floors[j]), path, j, trader, amount)
    BY <1>1, <2>4, HopWatched
  <2>7. OnTrack(s, Hop(f[i], path, j, trader, floors[j]), path, j, trader)
    BY <1>1, <2>2, <2>4, HopTracked
  <2>. QED
    BY <2>2, <2>5, <2>6, <2>7 DEF j
<1>6. n \in T
  <2>. HIDE DEF T
  <2>. QED
    BY <1>1, <1>4, <1>5, NumberInduction
<1>7. Arrives(d, f[n], s, trader, to, path, amount)
  BY <1>1, <1>2, <1>6 DEF n, Arrives
<1>. QED
  BY <1>1, <1>7 DEF d

\* Settlement restores no more than was deposited, and lifts nobody else over the cap.
LEMMA SettleCapped ==
  ASSUME SettingsOK, NEW s, Whole(s), NEW c, NEW path \in Paths, ValidPath(path),
         NEW trader \in Wallets, NEW to \in Wallets, NEW deposit \in Nat,
         OnRoute(s, c, path, Len(path) - 1, trader, deposit),
         OnWatch(s, c, path, Len(path) - 1, trader, deposit),
         Settle(c, path, to, 0).failed = {}
  PROVE  LET d == Settle(c, path, to, 0) IN
         /\ Capped(s, d) /\ d.last = c.last /\ d.pool = c.pool
         /\ Last(path) = Tax => official = Router
<1>. DEFINE live == Live(c, path, to)
            mid == Refunded(c, path, to)
            paid == Paid(c, path, to)
            owed == OwedBack(c.refunds)
            token == Last(path)
            d == Settle(c, path, to, 0)
<1>1. /\ Whole(c) /\ c.got \in Nat
      /\ c.refunds = <<>> \/ \E r \in Nat : c.refunds = <<RefundOf(trader, r)>>
      /\ \A t \in Tokens, a \in Wallets :
           c.held[t][a] = s.held[t][a] - (IF t = path[1] /\ a = trader THEN deposit ELSE 0)
  BY DEF OnRoute
<1>2. /\ Len(path) \in Nat /\ Len(path) > 1 /\ token = path[Len(path)]
      /\ token \in Tokens /\ Tax \in Tokens
  <2>1. /\ Len(path) \in Nat /\ Len(path) > 1 /\ token = path[Len(path)]
        /\ \A i \in 1 .. Len(path) : path[i] \in Tokens
    BY PathHops
  <2>. HIDE DEF token
  <2>2. Len(path) \in 1 .. Len(path)
    BY <2>1
  <2>3. Tax \in Tokens
    BY RouteAssumption
  <2>. QED
    BY <2>1, <2>2, <2>3
<1>3. PaysOut(c, path, to, trader)
  BY <1>1, <1>2, SettlePays
<1>4. /\ Whole(live) /\ live.held = c.held /\ live.pool = c.pool
      /\ live.last = c.last /\ live.ctx.restore = c.ctx.restore /\ owed \in Nat
      /\ c.refunds = <<>> => mid = live
      /\ c.refunds # <<>> =>
           /\ Moves(live, mid, Tax, Router, trader, owed, owed) /\ mid.last = live.last
           /\ ~Restores(live, c.refunds[1]) => GuardCauses(live, "honest", {}, trader, owed) = {}
      /\ Moves(mid, paid, token, Router, to, c.got, c.got) /\ paid.last = mid.last
      /\ token = Tax => Router = official
      /\ token = Tax /\ ~Restores(mid, OutputEntry(c, path, to)) =>
           GuardCauses(mid, "honest", {}, to, c.got) = {}
      /\ d = [paid EXCEPT !.ctx = NoRoute, !.refunds = <<>>, !.got = 0]
  BY <1>3 DEF PaysOut
<1>5. /\ path[1] # Tax => c.ctx.restore = {}
      /\ path[1] = Tax /\ c.refunds # <<>> => owed <= deposit
  BY <1>2 DEF OnWatch, OwedBack
<1>6. path[1] = Tax => token # Tax
  <2>1. Len(path) \in 2 .. Len(path) /\ 1 \in 1 .. Len(path) - 1
    BY <1>2
  <2>. QED
    BY <1>2, <2>1 DEF ValidPath
<1>7. \A x, e : x.ctx.restore = {} => ~Restores(x, e)
  BY DEF Restores
<1>. HIDE DEF live, mid, paid, owed, token, d
<1>8. \A a \in Wallets : a \in Accounts \ {Treasury} /\ a # Router
  BY AccountAssumption DEF Accounts
<1>9. \A a \in Accounts : s.held[Tax][a] \in Int /\ c.held[Tax][a] \in Int
  BY <1>1, <1>2 DEF Whole
<1>10. Whole(mid) /\ mid.pool = c.pool /\ mid.last = c.last /\ mid.ctx.restore = c.ctx.restore
  BY <1>4 DEF Moves
<1>11. Capped(s, mid)
  <2>1. CASE c.refunds = <<>>
    <3>1. \A a \in Wallets : mid.held[Tax][a] <= s.held[Tax][a]
      BY <1>1, <1>2, <1>4, <1>8, <1>9, <2>1
    <3>. QED
      BY <3>1 DEF Capped
  <2>2. CASE c.refunds # <<>> /\ path[1] = Tax
    <3>1. \A a \in Wallets : mid.held[Tax][a] = c.held[Tax][a] - 0 + (IF a = trader THEN owed ELSE 0)
      BY <1>4, <1>8, <2>2 DEF Moves
    <3>2. \A a \in Wallets : mid.held[Tax][a] <= s.held[Tax][a]
      BY <1>1, <1>2, <1>4, <1>5, <1>8, <1>9, <2>2, <3>1
    <3>. QED
      BY <3>2 DEF Capped
  <2>3. CASE c.refunds # <<>> /\ path[1] # Tax
    <3>1. GuardCauses(live, "honest", {}, trader, owed) = {}
      BY <1>4, <1>5, <1>7, <2>3
    <3>2. Capped(live, mid)
      BY <1>4, <2>3, <3>1, CapHolds
    <3>3. \A a \in Wallets : live.held[Tax][a] = s.held[Tax][a]
      BY <1>1, <1>2, <1>4, <1>8, <1>9, <2>3
    <3>. QED
      BY <3>2, <3>3 DEF Capped
  <2>. QED
    BY <2>1, <2>2, <2>3
<1>12. Capped(mid, paid)
  <2>1. CASE token = Tax
    <3>1. GuardCauses(mid, "honest", {}, to, c.got) = {}
      BY <1>4, <1>5, <1>6, <1>7, <1>10, <2>1
    <3>. QED
      BY <1>1, <1>4, <1>10, <2>1, <3>1, CapHolds
  <2>2. CASE token # Tax
    <3>1. paid.held[Tax] = mid.held[Tax]
      BY <1>2, <1>4, <2>2 DEF Moves
    <3>2. \A a \in Wallets : mid.held[Tax][a] \in Int
      BY <1>2, <1>8, <1>10 DEF Whole
    <3>. QED
      BY <3>1, <3>2 DEF Capped
  <2>. QED
    BY <2>1, <2>2
<1>13. Whole(paid) /\ paid.pool = c.pool /\ paid.last = c.last
  BY <1>4, <1>10 DEF Moves
<1>14. Capped(s, paid)
  BY <1>10, <1>11, <1>12, <1>13, CappedThen
<1>15. d.held = paid.held /\ d.pool = paid.pool /\ d.last = paid.last
  BY <1>4, <1>13 DEF Whole
<1>. QED
  BY <1>4, <1>13, <1>14, <1>15 DEF Capped, d, token

-----------------------------------------------------------------------------
(* The inductive invariant. *)

\* Between messages no route is under way.
Idle(c) == c.ctx = NoRoute /\ c.refunds = <<>> /\ c.got = 0 /\ c.failed = {} /\ c.routeId \in Nat

IInv ==
  /\ SettingsOK
  /\ Whole(chain) /\ Idle(chain)
  /\ given \in [Tokens -> [Pairs \cup {Router} -> Int]]
  /\ BooksBalance

\* The settings alone hold in every state, and the chain and its history are left alone.
LEMMA BooksOf ==
  BooksBalance <=>
    /\ \A p \in Pairs : \A t \in PairTokens[p] : chain.held[t][p] = chain.pool[p][t] + given[t][p]
    /\ \A t \in Tokens : chain.held[t][Router] = given[t][Router]
    /\ \A t \in Tokens : Supply(chain, t) = SumFunctionOnSet(InitChain.held[t], Accounts)
  BY DEF BooksBalance, Supply

LEMMA InitKeeps == Init => IInv
<1>. SUFFICES ASSUME Init PROVE IInv
  OBVIOUS
<1>1. PICK setup \in Setups :
        /\ rates = setup.rates /\ guards = setup.guards /\ sinks = setup.sinks
        /\ listed = setup.listed /\ official = setup.official
  BY DEF Init
<1>2. SettingsOK
  BY <1>1, RouteAssumption DEF SettingsOK, RatesOK, SinksOK
<1>3. chain = InitChain /\ given = [t \in Tokens |-> [a \in Pairs \cup {Router} |-> 0]]
  BY DEF Init
<1>4. Router \notin Wallets /\ Router \notin Pairs /\ \A p \in Pairs : p \notin Wallets
  BY AccountAssumption
<1>. DEFINE held == [t \in Tokens |-> [a \in Accounts |->
                      IF a \in Wallets THEN InitialHeld[a]
                      ELSE IF a \in Pairs /\ t \in PairTokens[a] THEN InitialPool ELSE 0]]
            pool == [p \in Pairs |-> [t \in PairTokens[p] |-> InitialPool]]
<1>5. /\ DOMAIN chain = {"held", "pool", "last", "used", "burned", "failed", "routeId", "ctx",
                         "refunds", "got"}
      /\ chain.held = held /\ chain.pool = pool /\ chain.burned = 0 /\ Idle(chain)
  BY <1>3 DEF InitChain, Idle
<1>6. /\ InitialPool \in Nat \ {0} /\ \A a \in Wallets : InitialHeld[a] \in Nat
      /\ Router \in Accounts
  BY RouteAssumption DEF Accounts
<1>7. held \in [Tokens -> [Accounts -> Int]]
  BY <1>6
<1>8. DOMAIN pool = Pairs /\ \A p \in Pairs : pool[p] \in [PairTokens[p] -> Nat \ {0}]
  BY <1>6
<1>9. Whole(chain)
  <2>. HIDE DEF held, pool
  <2>. QED
    BY <1>5, <1>7, <1>8 DEF Whole, Idle, NoRoute, CtxFields
<1>10. given \in [Tokens -> [Pairs \cup {Router} -> Int]]
  BY <1>3
<1>11. \A p \in Pairs : \A t \in PairTokens[p] : chain.held[t][p] = chain.pool[p][t] + given[t][p]
  <2>. SUFFICES ASSUME NEW p \in Pairs, NEW t \in PairTokens[p]
                PROVE  chain.held[t][p] = chain.pool[p][t] + given[t][p]
    OBVIOUS
  <2>1. t \in Tokens /\ p \in Accounts /\ p \notin Wallets
    BY <1>4, PoolTokens
  <2>2. held[t][p] = InitialPool /\ pool[p][t] = InitialPool
    BY <2>1
  <2>3. given[t][p] = 0
    BY <1>3, <2>1
  <2>. HIDE DEF held, pool
  <2>. QED
    BY <1>5, <1>6, <2>2, <2>3
<1>12. \A t \in Tokens : chain.held[t][Router] = given[t][Router]
  <2>. TAKE t \in Tokens
  <2>1. \A p \in Pairs : p # Router
    BY <1>4
  <2>2. held[t][Router] = 0
    BY <1>4, <1>6
  <2>3. given[t][Router] = 0
    BY <1>3
  <2>. HIDE DEF held, pool
  <2>. QED
    BY <1>5, <2>2, <2>3
<1>13. \A t \in Tokens : Supply(chain, t) = SumFunctionOnSet(InitChain.held[t], Accounts)
  <2>. TAKE t \in Tokens
  <2>1. SumFunctionOnSet(chain.held[t], Accounts) \in Int
    <3>1. \A a \in Accounts : chain.held[t][a] \in Int
      BY <1>9 DEF Whole
    <3>. QED
      BY <3>1, FiniteAccounts, SumIsInt
  <2>. QED
    BY <1>3, <1>5, <2>1 DEF Supply
<1>. HIDE DEF held, pool
<1>. QED
  BY <1>2, <1>5, <1>9, <1>10, <1>11, <1>12, <1>13, BooksOf DEF IInv

\* A message that leaves the router and the pairs what they had besides the reserves.
LEMMA SettledKeeps ==
  ASSUME IInv, NEW routeId \in Nat, Settled(chain, chain', routeId), chain'.failed = {}, UNCHANGED <<settings, given>>
  PROVE  IInv'
<1>1. SettingsOK' /\ (given \in [Tokens -> [Pairs \cup {Router} -> Int]])'
  BY DEF IInv, SettingsOK, RatesOK, SinksOK, settings
<1>2. Whole(chain)' /\ Idle(chain)'
  BY DEF Settled, Whole, Idle
<1>3. /\ \A p \in Pairs : \A t \in PairTokens[p] :
           chain'.held[t][p] - chain'.pool[p][t] = chain.held[t][p] - chain.pool[p][t]
      /\ \A t \in Tokens : chain'.held[t][Router] = chain.held[t][Router]
      /\ \A t \in Tokens : Supply(chain, t)' = Supply(chain, t)
  BY DEF Settled, Supply
<1>4. /\ \A p \in Pairs : \A t \in PairTokens[p] : chain.held[t][p] = chain.pool[p][t] + given[t][p]
      /\ \A t \in Tokens : chain.held[t][Router] = given[t][Router]
      /\ \A t \in Tokens : Supply(chain, t) = SumFunctionOnSet(InitChain.held[t], Accounts)
  BY BooksOf DEF IInv
<1>5. ASSUME NEW p \in Pairs, NEW t \in PairTokens[p]
      PROVE  chain'.held[t][p] = chain'.pool[p][t] + given'[t][p]
  <2>1. t \in Tokens /\ p \in Accounts
    BY PoolTokens
  <2>2. /\ chain.held[t][p] \in Int /\ chain.pool[p][t] \in Int
        /\ chain'.held[t][p] \in Int /\ chain'.pool[p][t] \in Int
        /\ given[t][p] \in Int /\ given'[t][p] = given[t][p]
    BY <1>2, <2>1 DEF Whole, IInv
  <2>. QED
    BY <1>3, <1>4, <2>2
<1>6. (InitChain.held)' = InitChain.held
  BY DEF InitChain
<1>7. BooksBalance'
  <2>1. /\ \A p \in Pairs : \A t \in PairTokens[p] :
             chain'.held[t][p] = chain'.pool[p][t] + given'[t][p]
        /\ \A t \in Tokens : chain'.held[t][Router] = given'[t][Router]
        /\ \A t \in Tokens : Supply(chain, t)' = SumFunctionOnSet(InitChain.held[t], Accounts)
    BY <1>3, <1>4, <1>5
  <2>. QED
    BY <2>1 DEF BooksBalance, Supply
<1>. QED
  BY <1>1, <1>2, <1>7 DEF IInv

LEMMA ChainRoutes ==
  ASSUME IInv, NEW path \in Paths, NEW trader \in Wallets, NEW to \in Wallets, NEW amount \in Nat,
         NEW floors, Routed(chain, trader, to, path, amount, 0, floors).failed = {}
  PROVE  /\ ValidPath(path)
         /\ \E c : Arrives(Routed(chain, trader, to, path, amount, 0, floors), c, chain, trader, to,
                          path, amount)
<1>1. /\ SettingsOK /\ Whole(chain) /\ chain.refunds = <<>> /\ chain.routeId \in Nat
      /\ chain.ctx = NoRoute /\ chain.failed = {}
  BY DEF IInv, Idle
<1>. QED
  BY <1>1, RouteArrives

LEMMA RouteKeeps ==
  ASSUME IInv, NEW trader \in Wallets, NEW to \in Wallets, NEW path \in Paths, NEW amount \in Amounts,
         Route(trader, to, path, amount)
  PROVE  IInv'
<1>1. amount \in Nat
  BY RouteAssumption
<1>. DEFINE after == Routed(chain, trader, to, path, amount, 0, NoFloors(path))
<1>2. after.failed = {} /\ chain' = after /\ UNCHANGED <<settings, given>>
  BY DEF Route
<1>3. PICK c : Arrives(after, c, chain, trader, to, path, amount)
  BY <1>1, <1>2, ChainRoutes
<1>. HIDE DEF after
<1>4. Settled(chain, after, c.routeId)
  <2>1. Settle(c, path, to, 0).failed = {}
    BY <1>2, <1>3 DEF Arrives
  <2>. QED
    BY <1>1, <1>3, <2>1, SettleMoves DEF Arrives, IInv
<1>5. c.routeId \in Nat
  BY <1>3 DEF Arrives, OnWatch
<1>. QED
  BY <1>2, <1>4, <1>5, SettledKeeps

\* A trade of a wallet's own.
LEMMA TradeSells ==
  ASSUME IInv, NEW wallet \in Wallets, NEW pair \in Pairs, NEW offer \in PairTokens[pair],
         NEW ask \in PairTokens[pair], offer # ask, NEW amount \in Amounts,
         DirectSwap(chain, wallet, offer, ask, amount).failed = {}
  PROVE  /\ IsPairOf(PairOf(offer, ask), offer, ask)
         /\ \E took, got \in Nat :
              Sells(chain, DirectSwap(chain, wallet, offer, ask, amount), PairOf(offer, ask), wallet,
                    offer, ask, took, wallet, got)
<1>1. RatesOK /\ SinksOK /\ Whole(chain) /\ amount \in Nat
  BY RouteAssumption DEF IInv, SettingsOK
<1>2. IsPairOf(PairOf(offer, ask), offer, ask)
  <2>1. PICK a \in Tokens, b \in Tokens : a # b /\ PairTokens[pair] = {a, b}
    BY RouteAssumption
  <2>2. PairTokens[pair] = {offer, ask} /\ offer \in Tokens /\ ask \in Tokens
    BY <2>1
  <2>. QED
    BY <2>2 DEF IsPairOf, PairOf
<1>. DEFINE d == DirectSwap(chain, wallet, offer, ask, amount)
            swapped == SendSwap(chain, wallet, offer, ask, amount, wallet, 0, Nobody)
            took == Took(chain, offer, wallet, PairOf(offer, ask), amount, Nobody)
<1>3. d = swapped /\ swapped.failed = {}
  BY DEF DirectSwap
<1>4. took \in Nat /\ \E got \in Nat :
        Sells(chain, swapped, PairOf(offer, ask), wallet, offer, ask, took, wallet, got)
  BY <1>1, <1>2, <1>3, SendSwapMoves
<1>. HIDE DEF d, swapped, took
<1>. QED
  BY <1>2, <1>3, <1>4 DEF d

LEMMA TradeKeeps ==
  ASSUME IInv, NEW wallet \in Wallets, NEW pair \in Pairs, NEW offer \in PairTokens[pair],
         NEW ask \in PairTokens[pair], offer # ask, NEW amount \in Amounts,
         Trade(wallet, offer, ask, amount)
  PROVE  IInv'
<1>. DEFINE after == DirectSwap(chain, wallet, offer, ask, amount)
<1>1. after.failed = {} /\ chain' = after /\ UNCHANGED <<settings, given>>
  BY DEF Trade
<1>2. PICK took \in Nat, got \in Nat :
        Sells(chain, after, PairOf(offer, ask), wallet, offer, ask, took, wallet, got)
  BY <1>1, TradeSells
<1>3. IsPairOf(PairOf(offer, ask), offer, ask)
  BY <1>1, TradeSells
<1>. HIDE DEF after
<1>4. Whole(chain) /\ Idle(chain)
  BY DEF IInv
<1>5. Router # wallet /\ Router \in Accounts
  BY AccountAssumption DEF Accounts
<1>6. \A t \in Tokens : chain.held[t][Router] \in Int
  BY <1>4, <1>5 DEF Whole
<1>7. \A t \in Tokens : after.held[t][Router] = chain.held[t][Router]
  <2>1. /\ \A t \in Tokens \ {offer, ask} : after.held[t] = chain.held[t]
        /\ after.held[offer][Router] = chain.held[offer][Router] - (IF Router = wallet THEN took ELSE 0)
        /\ after.held[ask][Router] = chain.held[ask][Router] + (IF Router = wallet THEN got ELSE 0)
    BY <1>2 DEF Sells
  <2>. QED
    BY <1>3, <1>5, <1>6, <2>1 DEF IsPairOf
<1>8. Settled(chain, after, chain.routeId) /\ chain.routeId \in Nat
  BY <1>2, <1>4, <1>7 DEF Settled, Sells, Idle
<1>. QED
  BY <1>1, <1>8, SettledKeeps

LEMMA GiveKeeps ==
  ASSUME IInv, NEW from \in Wallets, NEW to \in Wallets \cup Pairs \cup {Router}, from # to,
         Give(from, to, Tax, Gift)
  PROVE  IInv'
<1>. DEFINE after == Pays(chain, Tax, from, to, Gift, NoHook)
            took == Took(chain, Tax, from, to, Gift, NoHook)
            gave == Gave(chain, Tax, from, to, Gift, NoHook)
<1>1. after.failed = {} /\ chain' = after /\ UNCHANGED <<settings, height>>
  BY DEF Give
<1>2. given' = [t \in Tokens |-> [a \in Pairs \cup {Router} |->
                  given[t][a] + (IF t = Tax /\ a = to
                                 THEN after.held[t][a] - chain.held[t][a] ELSE 0)]]
  BY DEF Give
<1>3. RatesOK /\ SinksOK /\ Whole(chain) /\ Idle(chain) /\ Gift \in Nat /\ Tax \in Tokens
  BY RouteAssumption DEF IInv, SettingsOK
<1>4. /\ from \in Accounts /\ to \in Accounts /\ from # Router /\ Router # Treasury /\ Router \in Accounts
      /\ \A p \in Pairs : p \in Accounts /\ p # from /\ p # Treasury
  BY AccountAssumption DEF Accounts
<1>5. /\ gave \in Nat /\ Moves(chain, after, Tax, from, to, Gift, gave)
  <2>1. took = Gift
    BY <1>3, TookUnlessSale
  <2>2. after.failed = {}
    BY <1>1
  <2>. HIDE DEF after, took, gave
  <2>3. gave \in Nat /\ Moves(chain, after, Tax, from, to, took, gave)
    BY <1>3, <1>4, <2>2, PaysMoves DEF after, took, gave
  <2>. QED
    BY <2>1, <2>3
<1>. HIDE DEF after, took, gave
<1>6. /\ Whole(after) /\ after.pool = chain.pool /\ after.ctx = chain.ctx
      /\ after.refunds = chain.refunds /\ after.got = chain.got /\ after.routeId = chain.routeId
      /\ \A t \in Tokens \ {Tax} : after.held[t] = chain.held[t]
      /\ \A a \in Accounts \ {Treasury} :
           after.held[Tax][a] = chain.held[Tax][a] - (IF a = from THEN Gift ELSE 0)
                                                   + (IF a = to THEN gave ELSE 0)
      /\ \A t \in Tokens : Supply(after, t) = Supply(chain, t)
  BY <1>5 DEF Moves
<1>7. \A t \in Tokens, a \in Accounts : chain.held[t][a] \in Int /\ after.held[t][a] \in Int
  BY <1>3, <1>6 DEF Whole
\* Who holds for the book holds the more what was given.
<1>8. ASSUME NEW t \in Tokens, NEW a \in Pairs \cup {Router}
      PROVE  after.held[t][a] - chain.held[t][a] = given'[t][a] - given[t][a]
  <2>1. a \in Accounts \ {Treasury} /\ a # from
    BY <1>4
  <2>2. /\ given[t][a] \in Int
        /\ given'[t][a] = given[t][a] + (IF t = Tax /\ a = to
                                         THEN after.held[t][a] - chain.held[t][a] ELSE 0)
    BY <1>2 DEF IInv
  <2>3. (t = Tax /\ a = to) \/ after.held[t][a] = chain.held[t][a]
    BY <1>3, <1>6, <1>7, <2>1
  <2>. QED
    BY <1>7, <2>1, <2>2, <2>3
<1>9. SettingsOK'
  BY <1>1 DEF IInv, SettingsOK, RatesOK, SinksOK, settings
<1>10. Whole(chain)' /\ Idle(chain)'
  BY <1>1, <1>3, <1>6 DEF Whole, Idle
<1>11. given' \in [Tokens -> [Pairs \cup {Router} -> Int]]
  <2>1. ASSUME NEW t \in Tokens, NEW a \in Pairs \cup {Router}
        PROVE  given[t][a] + (IF t = Tax /\ a = to
                              THEN after.held[t][a] - chain.held[t][a] ELSE 0) \in Int
    <3>1. a \in Accounts /\ given[t][a] \in Int
      BY <1>4 DEF IInv
    <3>. QED
      BY <1>7, <3>1
  <2>. QED
    BY <1>2, <2>1
<1>12. BooksBalance'
  <2>1. /\ \A p \in Pairs : \A t \in PairTokens[p] :
             chain.held[t][p] = chain.pool[p][t] + given[t][p]
        /\ \A t \in Tokens : chain.held[t][Router] = given[t][Router]
        /\ \A t \in Tokens : Supply(chain, t) = SumFunctionOnSet(InitChain.held[t], Accounts)
    BY BooksOf DEF IInv
  <2>2. ASSUME NEW p \in Pairs, NEW t \in PairTokens[p]
        PROVE  after.held[t][p] = after.pool[p][t] + given'[t][p]
    <3>1. t \in Tokens /\ p \in Accounts
      BY PoolTokens
    <3>2. after.held[t][p] - chain.held[t][p] = given'[t][p] - given[t][p]
      BY <1>8, <3>1
    <3>3. chain.held[t][p] = chain.pool[p][t] + given[t][p] /\ after.pool[p][t] = chain.pool[p][t]
      BY <1>6, <2>1
    <3>4. /\ chain.pool[p][t] \in Int /\ given[t][p] \in Int /\ given'[t][p] \in Int
          /\ chain.held[t][p] \in Int /\ after.held[t][p] \in Int
      BY <1>3, <1>7, <1>11, <3>1 DEF Whole, IInv
    <3>. QED
      BY <3>2, <3>3, <3>4
  <2>3. ASSUME NEW t \in Tokens
        PROVE  after.held[t][Router] = given'[t][Router]
    <3>1. after.held[t][Router] - chain.held[t][Router] = given'[t][Router] - given[t][Router]
      BY <1>8
    <3>2. chain.held[t][Router] = given[t][Router]
      BY <2>1
    <3>3. /\ given[t][Router] \in Int /\ given'[t][Router] \in Int
          /\ chain.held[t][Router] \in Int /\ after.held[t][Router] \in Int
      BY <1>4, <1>7, <1>11 DEF IInv
    <3>. QED
      BY <3>1, <3>2, <3>3
  <2>4. (InitChain.held)' = InitChain.held /\ \A t \in Tokens : Supply(chain, t)' = Supply(chain, t)
    BY <1>1, <1>6 DEF InitChain, Supply
  <2>. QED
    BY <1>1, <2>1, <2>2, <2>3, <2>4 DEF BooksBalance, Supply
<1>. QED
  BY <1>9, <1>10, <1>11, <1>12 DEF IInv

\* Settings change, and the chain keeps its balances.
LEMMA SettingsKeep ==
  ASSUME IInv, SettingsOK', chain' = chain \/ \E u : chain' = [chain EXCEPT !.used = u],
         given' = given
  PROVE  IInv'
<1>1. Whole(chain) /\ Idle(chain) /\ BooksBalance
  BY DEF IInv
<1>2. /\ DOMAIN chain' = DOMAIN chain /\ chain'.held = chain.held /\ chain'.pool = chain.pool
      /\ chain'.burned = chain.burned /\ chain'.ctx = chain.ctx /\ chain'.refunds = chain.refunds
      /\ chain'.got = chain.got /\ chain'.failed = chain.failed /\ chain'.routeId = chain.routeId
  BY <1>1 DEF Whole
<1>3. Whole(chain)' /\ Idle(chain)'
  BY <1>1, <1>2 DEF Whole, Idle
<1>4. (InitChain.held)' = InitChain.held
  BY DEF InitChain
<1>5. BooksBalance'
  BY <1>1, <1>2, <1>4 DEF BooksBalance
<1>. QED
  BY <1>3, <1>5 DEF IInv

LEMMA GovernanceKeeps == IInv /\ Governance => IInv'
<1>. SUFFICES ASSUME IInv, Governance PROVE IInv'
  OBVIOUS
<1>1. SettingsOK /\ given' = given
  BY DEF IInv, Governance
<1>2. ASSUME NEW setup \in Setups, NEW e,
             UpdateSettings(setup.rates,
                            IF guards.on THEN [setup.guards EXCEPT !.on = TRUE] ELSE guards,
                            e, setup.sinks)
      PROVE  SettingsOK' /\ chain' = chain
  <2>1. /\ rates' = setup.rates /\ sinks' = setup.sinks /\ UNCHANGED <<listed, official, chain>>
        /\ guards' = IF guards.on THEN [setup.guards EXCEPT !.on = TRUE] ELSE guards
    BY <1>2 DEF UpdateSettings
  <2>2. /\ setup.rates \in [buy : 0 .. BPS, sell : 0 .. BPS, transfer : 0 .. BPS]
        /\ setup.guards \in [on : BOOLEAN, trading : BOOLEAN, cooldown : Nat, max : Nat \cup {NoCap}]
        /\ setup.sinks \in Seq([to : {Treasury, Burn}, bps : 0 .. BPS]) /\ setup.sinks # <<>>
    BY RouteAssumption
  <2>3. guards' \in [on : BOOLEAN, trading : BOOLEAN, cooldown : Nat, max : Nat \cup {NoCap}]
    BY <1>1, <2>1, <2>2 DEF SettingsOK
  <2>. QED
    BY <1>1, <2>1, <2>2, <2>3 DEF SettingsOK, RatesOK, SinksOK
<1>3. CASE EnableLaunchGuards
  <2>1. SettingsOK' /\ chain' = chain
    BY <1>1, <1>3 DEF EnableLaunchGuards, SettingsOK, RatesOK, SinksOK
  <2>. QED
    BY <1>1, <2>1, SettingsKeep
<1>4. ASSUME NEW p \in Pairs, Tax \in PairTokens[p], RegisterListedPair(p)
      PROVE  SettingsOK' /\ chain' = chain
  BY <1>1, <1>4 DEF RegisterListedPair, SettingsOK, RatesOK, SinksOK
<1>5. ASSUME NEW candidate \in {Router, Nobody}, RotateRouter(candidate)
      PROVE  SettingsOK' /\ \E u : chain' = [chain EXCEPT !.used = u]
  BY <1>1, <1>5 DEF RotateRouter, SettingsOK, RatesOK, SinksOK
<1>. QED
  BY <1>1, <1>2, <1>3, <1>4, <1>5, SettingsKeep DEF Governance

LEMMA MessageKeeps == IInv /\ Message => IInv'
<1>. SUFFICES ASSUME IInv, Message PROVE IInv'
  OBVIOUS
<1>1. CASE \E t, to \in Wallets, path \in Paths, n \in Amounts : Route(t, to, path, n)
  BY <1>1, RouteKeeps
<1>2. CASE \E t \in Wallets, p \in Pairs, n \in Amounts :
             \E offer, ask \in PairTokens[p] : offer # ask /\ Trade(t, offer, ask, n)
  BY <1>2, TradeKeeps
<1>3. CASE \E t \in Wallets, to \in Wallets \cup Pairs \cup {Router} :
             t # to /\ Give(t, to, Tax, Gift)
  BY <1>3, GiveKeeps
<1>. QED
  BY <1>1, <1>2, <1>3 DEF Message

LEMMA NextKeeps == IInv /\ [Next]_vars => IInv'
<1>. SUFFICES ASSUME IInv, [Next]_vars PROVE IInv'
  OBVIOUS
<1>1. CASE Tick
  <2>1. SettingsOK' /\ chain' = chain /\ given' = given
    BY <1>1 DEF Tick, IInv, SettingsOK, RatesOK, SinksOK, settings
  <2>. QED
    BY <2>1, SettingsKeep
<1>2. CASE UNCHANGED vars
  <2>1. SettingsOK' /\ chain' = chain /\ given' = given
    BY <1>2 DEF vars, IInv, SettingsOK, RatesOK, SinksOK, settings
  <2>. QED
    BY <2>1, SettingsKeep
<1>. QED
  BY <1>1, <1>2, MessageKeeps, GovernanceKeeps DEF Next

LEMMA InductiveInvariant == Spec => []IInv
  BY InitKeeps, NextKeeps, PTL DEF Spec

\* After any messages a pair holds its reserves and what was given to it, the router nothing of
\* anybody's route, and every token is somewhere or burned (reply_swap_hop's balance
\* difference, execute_swap's payouts, apply_transfer's and apply_route_transfer's amounts).
THEOREM BooksAlwaysBalance == Spec => []BooksBalance
<1>1. IInv => BooksBalance
  BY DEF IInv
<1>. QED
  BY <1>1, InductiveInvariant, PTL

-----------------------------------------------------------------------------
(* The launch guards: a step. *)

\* What a step has to do, whichever message it is.
StepGuarded == Capped(chain, chain') /\ EveryTradeMarked

LEMMA SameHoldings ==
  ASSUME IInv, chain'.held = chain.held, chain'.pool = chain.pool
  PROVE  StepGuarded
<1>1. \A a \in Wallets : chain.held[Tax][a] \in Int
  BY RouteAssumption DEF IInv, Whole, Accounts
<1>2. listed \subseteq Pairs
  BY DEF IInv, SettingsOK
<1>. QED
  BY <1>1, <1>2 DEF StepGuarded, Capped, EveryTradeMarked, Traded

LEMMA RouteGuarded ==
  ASSUME IInv, NEW trader \in Wallets, NEW to \in Wallets, NEW path \in Paths, NEW amount \in Amounts,
         Route(trader, to, path, amount)
  PROVE  StepGuarded
<1>1. amount \in Nat
  BY RouteAssumption
<1>. DEFINE after == Routed(chain, trader, to, path, amount, 0, NoFloors(path))
<1>2. after.failed = {} /\ chain' = after
  BY DEF Route
<1>3. PICK c : Arrives(after, c, chain, trader, to, path, amount)
  BY <1>1, <1>2, ChainRoutes
<1>4. ValidPath(path)
  BY <1>1, <1>2, ChainRoutes
<1>. HIDE DEF after
<1>5. SettingsOK /\ Whole(chain) /\ listed \subseteq Pairs
  BY DEF IInv, SettingsOK
<1>6. /\ OnRoute(chain, c, path, Len(path) - 1, trader, amount)
      /\ OnWatch(chain, c, path, Len(path) - 1, trader, amount)
      /\ after = Settle(c, path, to, 0)
  BY <1>3 DEF Arrives
<1>7. /\ Capped(chain, after) /\ after.last = c.last /\ after.pool = c.pool
      /\ Last(path) = Tax => official = Router
  <2>1. Settle(c, path, to, 0).failed = {}
    BY <1>2, <1>6
  <2>2. LET d == Settle(c, path, to, 0) IN
        /\ Capped(chain, d) /\ d.last = c.last /\ d.pool = c.pool
        /\ Last(path) = Tax => official = Router
    BY <1>1, <1>4, <1>5, <1>6, <2>1, SettleCapped
  <2>. QED
    BY <1>6, <2>2
<1>8. \A p : Traded(p) <=> TradedIn(chain, c, p)
  BY <1>2, <1>7 DEF Traded, TradedIn
<1>9. EveryTradeMarked
  <2>1. CASE official = Router
    <3>1. guards.on =>
            \A p \in listed : TradedIn(chain, c, p) =>
              /\ guards.trading /\ c.last[trader] = height
              /\ ~Cooling(chain, trader) \/ TradedUnlisted(chain, c)
      BY <1>6, <2>1 DEF OnWatch
    <3>2. TradedUnlisted(chain, c) => \E q \in Pairs \ listed : Traded(q)
      BY <1>8 DEF TradedUnlisted
    <3>. QED
      BY <1>2, <1>7, <1>8, <3>1, <3>2 DEF EveryTradeMarked
  <2>2. CASE official # Router
    <3>1. Len(path) \in Nat /\ Len(path) > 1 /\ Last(path) = path[Len(path)]
      BY PathHops
    <3>2. \A j \in 1 .. Len(path) - 1 : path[j] # Tax
      BY <1>6, <2>2 DEF OnWatch
    <3>. DEFINE n == Len(path)
    <3>. HIDE DEF n
    <3>3. (n - 1) + 1 = n /\ \A j \in 1 .. n : j = n \/ j \in 1 .. n - 1
      BY <3>1 DEF n
    <3>4. \A j \in 1 .. (n - 1) + 1 : path[j] # Tax
      BY <1>7, <2>2, <3>1, <3>2, <3>3 DEF n
    <3>5. Untraded(chain, c)
      BY <1>6, <3>4 DEF OnWatch, n
    <3>. QED
      BY <1>5, <1>8, <3>5 DEF Untraded, EveryTradeMarked
  <2>. QED
    BY <2>1, <2>2
<1>. QED
  BY <1>2, <1>7, <1>9 DEF StepGuarded

LEMMA TradeGuarded ==
  ASSUME IInv, NEW wallet \in Wallets, NEW pair \in Pairs, NEW offer \in PairTokens[pair],
         NEW ask \in PairTokens[pair], offer # ask, NEW amount \in Amounts,
         Trade(wallet, offer, ask, amount)
  PROVE  StepGuarded
<1>. DEFINE after == DirectSwap(chain, wallet, offer, ask, amount)
            at == PairOf(offer, ask)
<1>1. after.failed = {} /\ chain' = after
  BY DEF Trade
<1>2. PICK took \in Nat, got \in Nat :
        Sells(chain, after, at, wallet, offer, ask, took, wallet, got)
  BY <1>1, TradeSells
<1>3. IsPairOf(at, offer, ask)
  BY <1>1, TradeSells
<1>4. SettingsOK /\ Whole(chain) /\ listed \subseteq Pairs /\ amount \in Nat
  BY RouteAssumption DEF IInv, SettingsOK
<1>5. SaleGuarded(chain, after, at, wallet, offer, ask, wallet, Nobody)
  <2>1. after = SendSwap(chain, wallet, offer, ask, amount, wallet, 0, Nobody)
    BY DEF DirectSwap
  <2>. HIDE DEF after
  <2>. QED
    BY <1>1, <1>3, <1>4, <2>1, SendSwapGuarded
<1>. HIDE DEF after, at
<1>6. \A p \in Pairs \ {at} : ~Traded(p)
  BY <1>1, <1>2 DEF Sells, Traded
<1>7. Traded(at) => Tax \in {offer, ask} /\ after.pool[at][Tax] # chain.pool[at][Tax]
  BY <1>1, <1>3 DEF Traded, IsPairOf
<1>8. wallet \notin Protocol /\ wallet # official /\ Nobody # NoHook
  BY <1>4, WalletsUnprotected, AccountAssumption
<1>9. ASSUME guards.on, at \in listed, Traded(at)
      PROVE  guards.trading /\ after.last[wallet] = height /\ ~Cooling(chain, wallet)
  <2>1. CASE offer = Tax
    <3>1. TradeKind(chain, wallet, at, Nobody) = "sell" /\ ~IsRouterSell(wallet, at, Nobody)
      BY <1>8, <1>9 DEF TradeKind, IsSell, IsRouterSell
    <3>. QED
      BY <1>5, <1>9, <2>1, <3>1 DEF SaleGuarded
  <2>2. CASE ask = Tax
    <3>1. TradeKind(chain, at, wallet, NoHook) = "buy"
      BY <1>8, <1>9 DEF TradeKind, IsSell, IsBuy, Protocol
    <3>. QED
      BY <1>5, <1>7, <1>9, <2>2, <3>1 DEF SaleGuarded, Checked
  <2>. QED
    BY <1>7, <1>9, <2>1, <2>2
<1>10. EveryTradeMarked
  BY <1>1, <1>4, <1>6, <1>9 DEF EveryTradeMarked
<1>. QED
  BY <1>1, <1>5, <1>10 DEF StepGuarded, SaleGuarded

LEMMA GiveGuarded ==
  ASSUME IInv, NEW from \in Wallets, NEW to \in Wallets \cup Pairs \cup {Router}, from # to,
         Give(from, to, Tax, Gift)
  PROVE  StepGuarded
<1>. DEFINE after == Pays(chain, Tax, from, to, Gift, NoHook)
<1>1. after.failed = {} /\ chain' = after
  BY DEF Give
<1>2. /\ SettingsOK /\ RatesOK /\ SinksOK /\ Whole(chain) /\ listed \subseteq Pairs
      /\ Gift \in Nat /\ Tax \in Tokens
  BY RouteAssumption DEF IInv, SettingsOK
<1>3. from \in Accounts /\ to \in Accounts
  BY DEF Accounts
<1>. HIDE DEF after
<1>4. Capped(chain, after)
  BY <1>1, <1>2, <1>3, PaysGuarded DEF after
<1>5. after.pool = chain.pool
  <2>1. Moves(chain, after, Tax, from, to, Took(chain, Tax, from, to, Gift, NoHook),
              Gave(chain, Tax, from, to, Gift, NoHook))
    BY <1>1, <1>2, <1>3, PaysMoves DEF after
  <2>. QED
    BY <2>1 DEF Moves
<1>6. EveryTradeMarked
  BY <1>1, <1>2, <1>5 DEF EveryTradeMarked, Traded
<1>. QED
  BY <1>1, <1>4, <1>6 DEF StepGuarded

LEMMA StepsGuarded == IInv /\ [Next]_vars => StepGuarded
<1>. SUFFICES ASSUME IInv, [Next]_vars PROVE StepGuarded
  OBVIOUS
<1>1. CASE \E t, to \in Wallets, path \in Paths, n \in Amounts : Route(t, to, path, n)
  BY <1>1, RouteGuarded
<1>2. CASE \E t \in Wallets, p \in Pairs, n \in Amounts :
             \E offer, ask \in PairTokens[p] : offer # ask /\ Trade(t, offer, ask, n)
  BY <1>2, TradeGuarded
<1>3. CASE \E t \in Wallets, to \in Wallets \cup Pairs \cup {Router} :
             t # to /\ Give(t, to, Tax, Gift)
  BY <1>3, GiveGuarded
<1>4. CASE Governance
  <2>1. chain' = chain \/ \E u : chain' = [chain EXCEPT !.used = u]
    BY <1>4 DEF Governance, UpdateSettings, EnableLaunchGuards, RegisterListedPair, RotateRouter
  <2>2. chain'.held = chain.held /\ chain'.pool = chain.pool
    BY <2>1 DEF IInv, Whole
  <2>. QED
    BY <2>2, SameHoldings
<1>5. CASE Tick \/ UNCHANGED vars
  BY <1>5, SameHoldings DEF Tick, vars
<1>. QED
  BY <1>1, <1>2, <1>3, <1>4, <1>5 DEF Next, Message

\* Whatever routes, trades and gifts there are, under any settings governance reaches, no
\* wallet is lifted over the cap and a listed pool of the token moves only for a wallet that
\* trades now and was not cooling down (apply_transfer, apply_route_transfer,
\* record_trade_blocks).
THEOREM GuardsAlwaysHold == Spec => GuardsHold
<1>1. IInv /\ IInv' /\ StepGuarded => NobodyOverCap /\ EveryTradeMarked
  <2>. SUFFICES ASSUME IInv, IInv', StepGuarded, NEW a \in Wallets, guards.on,
                       guards.max # NoCap, chain'.held[Tax][a] > chain.held[Tax][a]
                PROVE  chain'.held[Tax][a] <= guards.max
    BY DEF NobodyOverCap, StepGuarded
  <2>1. chain.held[Tax][a] \in Int /\ chain'.held[Tax][a] \in Int
    BY RouteAssumption DEF IInv, Whole, Accounts
  <2>. QED
    BY <2>1 DEF StepGuarded, Capped
<1>2. IInv /\ [Next]_vars => [NobodyOverCap /\ EveryTradeMarked]_vars
  BY <1>1, NextKeeps, StepsGuarded
<1>. QED
  BY <1>2, InductiveInvariant, PTL DEF Spec, GuardsHold

-----------------------------------------------------------------------------
(* Quotes. *)

\* One unit sold for a tax of 100 % and the rate's own tax: the probe finds the rate.
LEMMA ProbeFindsRate ==
  ASSUME NEW bps \in 0 .. BPS
  PROVE  TaxOf(SellFromGross(BPS + bps, bps), bps) = bps
<1>1. BPS \in Nat \ {0} /\ bps \in Nat /\ BPS + bps \in Nat
  BY PoolMathAssumption
<1>. DEFINE e == SellFromGross(BPS + bps, bps)
<1>2. /\ e \in 0 .. BPS + bps /\ e + TaxOf(e, bps) <= BPS + bps
      /\ \A more \in Nat : more > e => more + TaxOf(more, bps) > BPS + bps
  BY <1>1, SellUsesTheBudget
<1>. HIDE DEF e
<1>3. TaxOf(BPS, bps) = bps
  <2>1. (BPS * bps) \div BPS = bps
    BY <1>1
  <2>. QED
    BY <2>1 DEF TaxOf
<1>4. ~(BPS > e)
  BY <1>1, <1>2, <1>3
<1>5. ~(e > BPS)
  <2>1. e > BPS => TaxOf(BPS, bps) <= TaxOf(e, bps) /\ TaxOf(e, bps) \in Nat
    BY <1>1, <1>2, TaxGrows
  <2>. QED
    BY <1>1, <1>2, <1>3, <2>1
<1>6. e = BPS
  BY <1>1, <1>2, <1>4, <1>5
<1>. QED
  BY <1>3, <1>6 DEF e

\* The budget a sale asks for is the least that can sell it (reverse_sell_amount).
LEMMA SellInverse ==
  ASSUME NEW bps \in 0 .. BPS, NEW economic \in Nat, NEW gross \in Nat
  PROVE  /\ ReverseSell(economic, bps) \in Nat /\ SellFromGross(gross, bps) \in Nat
         /\ economic <= SellFromGross(gross, bps) <=> ReverseSell(economic, bps) <= gross
<1>1. BPS \in Nat \ {0} /\ bps \in Nat
  BY PoolMathAssumption
<1>. DEFINE e == SellFromGross(gross, bps)
<1>2. /\ e \in 0 .. gross /\ e + TaxOf(e, bps) <= gross
      /\ \A more \in Nat : more > e => more + TaxOf(more, bps) > gross
  BY <1>1, SellUsesTheBudget
<1>. HIDE DEF e
<1>3. ReverseSell(economic, bps) = economic + TaxOf(economic, bps)
  BY ProbeFindsRate DEF ReverseSell
<1>4. TaxOf(economic, bps) \in Nat
  BY <1>1, TaxGrows
<1>5. ASSUME economic <= e
      PROVE  economic + TaxOf(economic, bps) <= gross
  <2>1. TaxOf(economic, bps) <= TaxOf(e, bps) /\ TaxOf(e, bps) \in Nat
    BY <1>1, <1>2, <1>5, TaxGrows
  <2>. QED
    BY <1>2, <1>4, <1>5, <2>1
<1>6. ASSUME ~(economic <= e)
      PROVE  ~(economic + TaxOf(economic, bps) <= gross)
  <2>1. economic > e
    BY <1>2, <1>6
  <2>2. economic + TaxOf(economic, bps) > gross
    BY <1>2, <2>1
  <2>. QED
    BY <1>4, <2>2
<1>7. economic + TaxOf(economic, bps) \in Nat /\ e \in Nat
  BY <1>2, <1>4
<1>. QED
  BY <1>3, <1>5, <1>6, <1>7 DEF e

\* The same of a purchase, a tax of 100 % included (reverse_buy_amount).
LEMMA BuyInverse ==
  ASSUME NEW bps \in 0 .. BPS, NEW net \in Nat, NEW g \in Nat
  PROVE  /\ BuyFromGross(g, bps) \in Nat
         /\ ReverseBuy(net, bps) = Unreachable \/ ReverseBuy(net, bps) \in Nat
         /\ net <= BuyFromGross(g, bps) <=>
              ReverseBuy(net, bps) # Unreachable /\ ReverseBuy(net, bps) <= g
<1>1. BPS \in Nat \ {0} /\ bps \in Nat
  BY PoolMathAssumption
<1>2. BuyFromGross(g, bps) \in Nat
  <2>1. (g * bps) \div BPS \in 0 .. g
    <3>1. (g * bps) \div BPS = TaxOf(g, bps)
      BY DEF TaxOf
    <3>. QED
      BY <1>1, <3>1, TaxWithin
  <2>. QED
    BY <2>1 DEF BuyFromGross, TaxOf
<1>3. CASE bps = BPS
  <2>1. BuyFromGross(g, bps) = 0
    <3>1. (g * BPS) \div BPS = g
      BY <1>1
    <3>. QED
      BY <1>3, <3>1 DEF BuyFromGross, TaxOf
  <2>2. ReverseBuy(net, bps) = IF net = 0 THEN 0 ELSE Unreachable
    BY <1>1, <1>3 DEF ReverseBuy
  <2>. QED
    BY <2>1, <2>2 DEF Unreachable
<1>4. CASE bps # BPS
  <2>1. bps \in 0 .. BPS - 1
    BY <1>1, <1>4
  <2>2. net <= BuyFromGross(g, bps) <=> ReverseBuy(net, bps) <= g
    BY <2>1, FloorMovesExactly
  <2>3. ReverseBuy(net, bps) \in Nat
    <3>1. CASE net = 0
      BY <3>1 DEF ReverseBuy
    <3>2. CASE net # 0
      <4>1. ReverseBuy(net, bps) = ((net - 1) * BPS) \div (BPS - bps) + 1
        BY <1>1, <2>1, <3>2 DEF ReverseBuy
      <4>2. ((net - 1) * BPS) \div (BPS - bps) + 1 \in Nat \ {0}
        BY <2>1, <3>2, RateInverse
      <4>. QED
        BY <4>1, <4>2
    <3>. QED
      BY <3>1, <3>2
  <2>4. ReverseBuy(net, bps) # Unreachable
    BY <2>3 DEF Unreachable
  <2>. QED
    BY <1>2, <2>2, <2>3, <2>4
<1>. QED
  BY <1>2, <1>3, <1>4

\* And of a swap, a target of nothing included (min_pool_input_for_net_output).
LEMMA SwapInverse ==
  ASSUME NEW rin \in Nat \ {0}, NEW rout \in Nat \ {0}, NEW bps \in 0 .. BPS - 1,
         NEW net \in Nat, NEW x \in Nat
  PROVE  /\ NetOut(rin, rout, x, bps) \in Nat
         /\ MinPoolInput(rin, rout, bps, net) = Unreachable \/ MinPoolInput(rin, rout, bps, net) \in Nat
         /\ net <= NetOut(rin, rout, x, bps) <=>
              /\ MinPoolInput(rin, rout, bps, net) # Unreachable
              /\ MinPoolInput(rin, rout, bps, net) <= x
<1>. DEFINE need == MinPoolInput(rin, rout, bps, net)
            out == NetOut(rin, rout, x, bps)
<1>1. BPS \in Nat \ {0}
  BY PoolMathAssumption
<1>2. out \in Nat
  <2>. DEFINE g == GrossOut(rin, rout, x)
  <2>1. g \in 0 .. rout - 1
    BY LeftAfterSwap
  <2>2. out = g - TaxOf(g, bps)
    BY DEF NetOut, Commission, TaxOf
  <2>. HIDE DEF g, out
  <2>3. g \in Nat
    BY <2>1
  <2>4. TaxOf(g, bps) \in 0 .. g
    BY <1>1, <2>3, TaxWithin
  <2>. QED
    BY <2>2, <2>3, <2>4
<1>3. CASE net = 0
  <2>1. need = 0
    BY <1>3 DEF MinPoolInput
  <2>. HIDE DEF need, out
  <2>2. 0 # Unreachable
    BY DEF Unreachable
  <2>3. /\ out \in Nat /\ (need = Unreachable \/ need \in Nat)
        /\ net <= out <=> need # Unreachable /\ need <= x
    BY <1>2, <1>3, <2>1, <2>2
  <2>. QED
    BY <2>3 DEF need, out
<1>4. CASE net # 0
  <2>1. /\ need = Unreachable => out < net
        /\ need # Unreachable => (net <= out <=> need <= x)
    BY <1>4, InverseExact
  <2>2. need = Unreachable \/ need \in Int
    <3>1. MinGross(net, bps) \in Nat \ {0}
      BY <1>1, <1>4, RateInverse DEF MinGross
    <3>2. MinGross(net, bps) < rout => CeilDiv(rin * rout, rout - MinGross(net, bps)) \in Nat
      <4>. DEFINE m == MinGross(net, bps)
      <4>. HIDE DEF m
      <4>1. m < rout => rout - m \in Nat \ {0} /\ rin * rout \in Nat
        BY <3>1 DEF m
      <4>2. m < rout => CeilDiv(rin * rout, rout - m) \in Nat
        BY <4>1, CeilingLeast
      <4>. QED
        BY <4>2 DEF m
    <3>. QED
      BY <1>4, <3>1, <3>2 DEF MinPoolInput
  <2>3. need # Unreachable => ~(need <= -1)
    <3>1. NetOut(rin, rout, 0, bps) = 0
      <4>1. GrossOut(rin, rout, 0) = 0
        <5>1. (rout * rin) \div rin = rout /\ (rout * rin) % rin = 0
          BY SMT
        <5>2. rin * rout = rout * rin /\ rin + 0 = rin
          OBVIOUS
        <5>. QED
          BY <5>1, <5>2 DEF GrossOut, CeilDiv
      <4>2. 0 * bps = 0 /\ 0 \div BPS = 0
        BY <1>1
      <4>. QED
        BY <4>1, <4>2 DEF NetOut, Commission
    <3>2. need # Unreachable => (net <= NetOut(rin, rout, 0, bps) <=> need <= 0)
      BY <1>4, InverseExact
    <3>3. ~(net <= 0)
      BY <1>4
    <3>. HIDE DEF need
    <3>. QED
      BY <2>2, <3>1, <3>2, <3>3
  <2>. HIDE DEF need, out
  <2>4. need = Unreachable \/ need \in Nat
    BY <2>2, <2>3
  <2>5. need = Unreachable => ~(net <= out)
    BY <1>2, <2>1
  <2>6. /\ out \in Nat /\ (need = Unreachable \/ need \in Nat)
        /\ net <= out <=> need # Unreachable /\ need <= x
    BY <1>2, <2>1, <2>4, <2>5
  <2>. QED
    BY <2>6 DEF need, out
<1>. QED
  BY <1>3, <1>4

\* A hop quoted backwards asks for the least that a hop quoted forwards turns into its
\* target.
LEMMA HopInverse ==
  ASSUME SettingsOK, Whole(chain), NEW path \in Paths, NEW i \in 1 .. Len(path) - 1,
         NEW trader, NEW target \in Nat, NEW n \in Nat
  PROVE  /\ SimulateHop(path, i, n, trader) \in Nat
         /\ \/ ReverseHop(path, i, target, trader) = Unreachable
            \/ ReverseHop(path, i, target, trader) \in Nat
         /\ target <= SimulateHop(path, i, n, trader) <=>
              /\ ReverseHop(path, i, target, trader) # Unreachable
              /\ ReverseHop(path, i, target, trader) <= n
<1>. DEFINE offer == path[i]
            ask == path[i + 1]
            pair == HopPair(path, i)
            sell == TraderRate(trader, "sell")
            buy == TraderRate(trader, "buy")
            rin == chain.pool[pair][offer]
            rout == chain.pool[pair][ask]
            floor == FloorBefore(ask, target, trader)
            economic == MinPoolInput(rin, rout, FeeBps, floor)
            sold == Funded(offer, n, trader)
            out == NetOut(rin, rout, sold, FeeBps)
            got == BuyNet(ask, out, trader)
            need == IF offer = Tax THEN ReverseSell(economic, sell) ELSE economic
<1>1. rin \in Nat \ {0} /\ rout \in Nat \ {0} /\ FeeBps \in 0 .. BPS - 1
  <2>1. IsPairOf(pair, offer, ask)
    BY PathHops
  <2>. HIDE DEF pair, offer, ask
  <2>. QED
    BY <2>1, RouteAssumption DEF IsPairOf, Whole
<1>2. sell \in 0 .. BPS /\ buy \in 0 .. BPS
  BY RateTypes DEF SettingsOK
<1>3. /\ SimulateHop(path, i, n, trader) = got
      /\ ReverseHop(path, i, target, trader) =
           IF floor = Unreachable \/ economic = Unreachable THEN Unreachable ELSE need
  <2>1. target # Unreachable
    BY DEF Unreachable
  <2>. QED
    BY <2>1 DEF SimulateHop, ReverseHop
<1>. HIDE DEF rin, rout, sell, buy, offer, ask, pair
<1>4. sold \in Nat
  BY <1>2, SellInverse DEF Funded, sell
<1>5. /\ out \in Nat
      /\ floor \in Nat =>
           /\ economic = Unreachable \/ economic \in Nat
           /\ floor <= out <=> economic # Unreachable /\ economic <= sold
  <2>. HIDE DEF floor, sold
  <2>1. out \in Nat
    <3>1. 0 \in Nat
      OBVIOUS
    <3>. QED
      BY <1>1, <1>4, <3>1, SwapInverse
  <2>. QED
    BY <1>1, <1>4, <2>1, SwapInverse
<1>6. /\ got \in Nat
      /\ floor = Unreachable \/ floor \in Nat
      /\ target <= got <=> floor # Unreachable /\ floor <= out
  <2>. HIDE DEF out
  <2>1. CASE ask = Tax
    <3>1. got = BuyFromGross(out, buy) /\ floor = ReverseBuy(target, buy)
      BY <2>1 DEF BuyNet, FloorBefore, buy
    <3>. QED
      BY <1>2, <1>5, <3>1, BuyInverse
  <2>2. CASE ask # Tax
    <3>1. got = out /\ floor = target /\ target # Unreachable
      BY <2>2 DEF BuyNet, FloorBefore, Unreachable
    <3>. QED
      BY <1>5, <3>1
  <2>. QED
    BY <2>1, <2>2
<1>7. economic \in Nat => need \in Nat /\ (economic <= sold <=> need <= n)
  <2>. HIDE DEF economic
  <2>1. CASE offer = Tax
    <3>1. sold = SellFromGross(n, sell)
      BY <2>1 DEF Funded, sell
    <3>. QED
      BY <1>2, <2>1, <3>1, SellInverse
  <2>2. CASE offer # Tax
    BY <2>2 DEF Funded
  <2>. QED
    BY <2>1, <2>2
<1>8. \A m \in Nat : m # Unreachable
  BY DEF Unreachable
<1>. HIDE DEF got, out, sold, floor, economic, need
<1>9. CASE floor = Unreachable
  BY <1>3, <1>6, <1>9
<1>10. CASE floor # Unreachable
  BY <1>3, <1>5, <1>6, <1>7, <1>8, <1>10
<1>. QED
  BY <1>9, <1>10

\* The amounts after each hop, and before each hop.
Quotes(f, path, n, amount, trader) ==
  f = [i \in 0 .. n |-> IF i = 0 THEN amount ELSE SimulateHop(path, i, f[i - 1], trader)]
Asks(g, path, from, n, target, trader) ==
  g = [i \in from .. n |-> IF i = n THEN target ELSE ReverseHop(path, i, g[i + 1], trader)]

LEMMA QuotesExist ==
  ASSUME NEW path, NEW amount, NEW trader, NEW m \in Nat
  PROVE  \E f : Quotes(f, path, m, amount, trader)
<1>. DEFINE T == {n \in Nat : \E f : Quotes(f, path, n, amount, trader)}
<1>1. 0 \in T
  <2>. DEFINE f == [i \in 0 .. 0 |-> amount]
  <2>1. f = [i \in 0 .. 0 |-> IF i = 0 THEN amount ELSE SimulateHop(path, i, f[i - 1], trader)]
    <3>1. \A i \in 0 .. 0 : i = 0
      OBVIOUS
    <3>. QED
      BY <3>1
  <2>. HIDE DEF f
  <2>. QED
    BY <2>1 DEF Quotes
<1>2. ASSUME NEW n \in Nat, n \in T
      PROVE  n + 1 \in T
  <2>1. PICK f : f = [i \in 0 .. n |->
                       IF i = 0 THEN amount ELSE SimulateHop(path, i, f[i - 1], trader)]
    BY <1>2 DEF Quotes
  <2>. DEFINE g == [i \in 0 .. n + 1 |->
                      IF i = n + 1 THEN SimulateHop(path, n + 1, f[n], trader) ELSE f[i]]
  <2>2. ASSUME NEW i \in 0 .. n + 1
        PROVE  g[i] = IF i = 0 THEN amount ELSE SimulateHop(path, i, g[i - 1], trader)
    <3>1. CASE i = 0
      <4>1. 0 \in 0 .. n /\ 0 \in 0 .. n + 1 /\ 0 # n + 1
        OBVIOUS
      <4>. QED
        BY <2>1, <3>1, <4>1
    <3>2. CASE i = n + 1
      <4>1. i \in 0 .. n + 1 /\ i - 1 = n /\ n \in 0 .. n + 1 /\ n # n + 1 /\ i # 0
        BY <3>2
      <4>2. g[i] = SimulateHop(path, n + 1, f[n], trader) /\ g[n] = f[n]
        BY <3>2, <4>1
      <4>. QED
        BY <3>2, <4>1, <4>2
    <3>3. CASE i # 0 /\ i # n + 1
      <4>1. i \in 0 .. n /\ i - 1 \in 0 .. n + 1 /\ i - 1 # n + 1
        BY <3>3
      <4>2. g[i] = f[i] /\ g[i - 1] = f[i - 1]
        BY <3>3, <4>1
      <4>3. f[i] = SimulateHop(path, i, f[i - 1], trader)
        BY <2>1, <3>3, <4>1
      <4>. QED
        BY <3>3, <4>2, <4>3
    <3>. QED
      BY <3>1, <3>2, <3>3
  <2>3. g = [i \in 0 .. n + 1 |->
              IF i = 0 THEN amount ELSE SimulateHop(path, i, g[i - 1], trader)]
    <3>1. DOMAIN g = 0 .. n + 1 /\ g = [i \in 0 .. n + 1 |-> g[i]]
      OBVIOUS
    <3>. HIDE DEF g
    <3>. QED
      BY <2>2, <3>1
  <2>. HIDE DEF g
  <2>. QED
    BY <2>3 DEF Quotes
<1>3. m \in T
  <2>. HIDE DEF T
  <2>. QED
    BY <1>1, <1>2, NumberInduction
<1>. QED
  BY <1>3

LEMMA AsksExist ==
  ASSUME NEW path, NEW target, NEW trader, NEW n \in Nat, NEW k \in Nat
  PROVE  \E g : Asks(g, path, n - k, n, target, trader)
<1>. DEFINE T == {j \in Nat : \E g : Asks(g, path, n - j, n, target, trader)}
<1>1. 0 \in T
  <2>. DEFINE g == [i \in n .. n |-> target]
  <2>1. g = [i \in n .. n |-> IF i = n THEN target ELSE ReverseHop(path, i, g[i + 1], trader)]
    <3>1. \A i \in n .. n : i = n
      OBVIOUS
    <3>. QED
      BY <3>1
  <2>2. n - 0 = n
    OBVIOUS
  <2>. HIDE DEF g
  <2>. QED
    BY <2>1, <2>2 DEF Asks
<1>2. ASSUME NEW j \in Nat, j \in T
      PROVE  j + 1 \in T
  <2>. DEFINE from == n - (j + 1)
  <2>1. from \in Int /\ n - j = from + 1 /\ from + 1 <= n /\ n \in from + 1 .. n
    OBVIOUS
  <2>. HIDE DEF from
  <2>2. PICK f : f = [i \in from + 1 .. n |->
                       IF i = n THEN target ELSE ReverseHop(path, i, f[i + 1], trader)]
    BY <1>2, <2>1 DEF Asks
  <2>. DEFINE g == [i \in from .. n |->
                      IF i = from THEN ReverseHop(path, from, f[from + 1], trader) ELSE f[i]]
  <2>3. ASSUME NEW i \in from .. n
        PROVE  g[i] = IF i = n THEN target ELSE ReverseHop(path, i, g[i + 1], trader)
    <3>1. CASE i = from
      <4>1. from \in from .. n /\ from + 1 \in from .. n /\ from + 1 # from /\ i # n
        BY <2>1, <3>1
      <4>2. g[from] = ReverseHop(path, from, f[from + 1], trader) /\ g[from + 1] = f[from + 1]
        BY <4>1
      <4>. QED
        BY <3>1, <4>1, <4>2
    <3>2. CASE i # from /\ i # n
      <4>1. i \in from + 1 .. n /\ i + 1 \in from .. n /\ i + 1 # from
        BY <2>1, <3>2
      <4>2. g[i] = f[i] /\ g[i + 1] = f[i + 1]
        BY <3>2, <4>1
      <4>3. f[i] = ReverseHop(path, i, f[i + 1], trader)
        BY <2>2, <3>2, <4>1
      <4>. QED
        BY <3>2, <4>2, <4>3
    <3>3. CASE i # from /\ i = n
      <4>1. g[i] = f[i] /\ f[i] = target
        BY <2>1, <2>2, <3>3
      <4>. QED
        BY <3>3, <4>1
    <3>. QED
      BY <3>1, <3>2, <3>3
  <2>4. g = [i \in from .. n |-> IF i = n THEN target ELSE ReverseHop(path, i, g[i + 1], trader)]
    <3>1. DOMAIN g = from .. n /\ g = [i \in from .. n |-> g[i]]
      OBVIOUS
    <3>. HIDE DEF g
    <3>. QED
      BY <2>3, <3>1
  <2>. HIDE DEF g
  <2>5. Asks(g, path, n - (j + 1), n, target, trader)
    BY <2>4 DEF Asks, from
  <2>. QED
    BY <2>5
<1>3. k \in T
  <2>. HIDE DEF T
  <2>. QED
    BY <1>1, <1>2, NumberInduction
<1>. QED
  BY <1>3

\* What a forward quote is.
LEMMA QuoteEnds ==
  ASSUME NEW path \in Paths, NEW amount, NEW trader
  PROVE  \E f : /\ Quotes(f, path, Len(path) - 1, amount, trader)
                /\ Simulated(path, amount, trader) = [i \in 1 .. Len(path) - 1 |-> f[i]]
                /\ Simulate(path, amount, trader) = f[Len(path) - 1]
<1>. DEFINE n == Len(path) - 1
            f == CHOOSE h : Quotes(h, path, n, amount, trader)
<1>1. n \in Nat /\ n >= 1
  <2>1. Len(path) \in Nat /\ Len(path) > 1
    BY PathHops
  <2>. QED
    BY <2>1
<1>2. Simulated(path, amount, trader) = [i \in 1 .. n |-> f[i]]
  BY DEF Simulated, Quotes
<1>. HIDE DEF n
<1>3. Quotes(f, path, n, amount, trader)
  BY <1>1, QuotesExist
<1>. HIDE DEF f
<1>4. Simulate(path, amount, trader) = f[n]
  <2>. DEFINE s == [i \in 1 .. n |-> f[i]]
  <2>1. Len(s) = n /\ s[n] = f[n]
    BY <1>1
  <2>. HIDE DEF s
  <2>. QED
    BY <1>2, <2>1 DEF Simulate, Last, s
<1>. QED
  BY <1>2, <1>3, <1>4 DEF n

\* A reverse quote's amounts, and the quote before it is checked forwards.
LEMMA AskEnds ==
  ASSUME NEW path \in Paths, NEW target, NEW trader
  PROVE  \E g : /\ Asks(g, path, 1, Len(path), target, trader)
                /\ ReverseSimulate(path, target, trader) =
                     IF g[1] # Unreachable /\ Simulate(path, g[1], trader) < target
                     THEN Unreachable ELSE g[1]
<1>. DEFINE n == Len(path)
            g == CHOOSE h : Asks(h, path, 1, n, target, trader)
<1>1. n \in Nat /\ n > 1
  BY PathHops
<1>2. ReverseSimulate(path, target, trader) =
        IF g[1] # Unreachable /\ Simulate(path, g[1], trader) < target
        THEN Unreachable ELSE g[1]
  BY DEF ReverseSimulate, Asks
<1>. HIDE DEF n
<1>3. \E h : Asks(h, path, 1, n, target, trader)
  <2>1. n - 1 \in Nat /\ n - (n - 1) = 1
    BY <1>1
  <2>. QED
    BY <1>1, <2>1, AsksExist
<1>4. Asks(g, path, 1, n, target, trader)
  BY <1>3
<1>. HIDE DEF g
<1>. QED
  BY <1>2, <1>4 DEF n

\* A target is reached by what a reverse quote asks for and by more, and by nothing less.
LEMMA QuoteInverse ==
  ASSUME SettingsOK, Whole(chain), NEW path \in Paths, NEW trader, NEW target \in Nat,
         NEW g, Asks(g, path, 1, Len(path), target, trader), NEW amount \in Nat
  PROVE  /\ Simulate(path, amount, trader) \in Nat
         /\ g[1] = Unreachable \/ g[1] \in Nat
         /\ target <= Simulate(path, amount, trader) <=> g[1] # Unreachable /\ g[1] <= amount
<1>. DEFINE n == Len(path) - 1
<1>1. n \in Nat /\ Len(path) = n + 1
  <2>1. Len(path) \in Nat /\ Len(path) > 1
    BY PathHops
  <2>. QED
    BY <2>1
<1>2. PICK f : /\ Quotes(f, path, n, amount, trader)
               /\ Simulate(path, amount, trader) = f[n]
  BY QuoteEnds
<1>4. Asks(g, path, 1, n + 1, target, trader)
  BY <1>1
<1>. HIDE DEF n
<1>5. \A m \in Nat : m # Unreachable
  BY DEF Unreachable
\* Amounts have their types, forwards and backwards.
<1>6. f[0] = amount /\ \A i \in 0 .. n - 1 : f[i + 1] = SimulateHop(path, i + 1, f[i], trader)
  <2>1. 0 \in 0 .. n
    BY <1>1
  <2>2. ASSUME NEW i \in 0 .. n - 1
        PROVE  i + 1 \in 0 .. n /\ i + 1 # 0 /\ (i + 1) - 1 = i
    BY <1>1
  <2>. QED
    BY <1>2, <2>1, <2>2 DEF Quotes
<1>7. g[n + 1] = target /\ \A i \in 1 .. n : g[i] = ReverseHop(path, i, g[i + 1], trader)
  <2>1. n + 1 \in 1 .. n + 1
    BY <1>1
  <2>2. ASSUME NEW i \in 1 .. n
        PROVE  i \in 1 .. n + 1 /\ i # n + 1
    BY <1>1
  <2>. QED
    BY <1>4, <2>1, <2>2 DEF Asks
<1>. DEFINE Back(k) == g[k] = Unreachable \/ g[k] \in Nat
            T == {k \in Nat : k <= n => f[k] \in Nat}
            U == {k \in Nat : k <= n => Back(n + 1 - k)}
            Same(k) == target <= f[n] <=> (g[n + 1 - k] # Unreachable /\ g[n + 1 - k] <= f[n - k])
            V == {k \in Nat : k <= n => Same(k)}
<1>8. n \in T /\ \A k \in 0 .. n : k \in T
  <2>1. 0 \in T
    BY <1>6
  <2>2. ASSUME NEW k \in Nat, k \in T
        PROVE  k + 1 \in T
    <3>1. k + 1 <= n => k \in 0 .. n - 1 /\ k + 1 \in 1 .. Len(path) - 1 /\ k <= n
      BY <1>1
    <3>2. k + 1 <= n => f[k + 1] = SimulateHop(path, k + 1, f[k], trader) /\ f[k] \in Nat
      BY <1>6, <2>2, <3>1
    <3>3. k + 1 <= n => SimulateHop(path, k + 1, f[k], trader) \in Nat
      BY <3>1, <3>2, HopInverse
    <3>. QED
      BY <3>2, <3>3
  <2>. HIDE DEF T
  <2>3. Nat \subseteq T
    BY <2>1, <2>2, NumberInduction
  <2>. QED
    BY <1>1, <2>3
<1>9. \A k \in 0 .. n : Back(n + 1 - k)
  <2>1. 0 \in U
    <3>1. n + 1 - 0 = n + 1
      BY <1>1
    <3>. QED
      BY <1>7, <3>1
  <2>2. ASSUME NEW k \in Nat, k \in U
        PROVE  k + 1 \in U
    <3>. SUFFICES ASSUME k + 1 <= n
                  PROVE  Back(n + 1 - (k + 1))
      OBVIOUS
    <3>. DEFINE i == n + 1 - (k + 1)
    <3>1. i \in 1 .. n /\ i + 1 = n + 1 - k /\ i \in 1 .. Len(path) - 1 /\ k <= n
      BY <1>1
    <3>. HIDE DEF i
    <3>2. g[i] = ReverseHop(path, i, g[i + 1], trader) /\ Back(i + 1)
      BY <1>7, <2>2, <3>1
    <3>3. CASE g[i + 1] = Unreachable
      BY <3>2, <3>3 DEF ReverseHop, i
    <3>4. CASE g[i + 1] \in Nat
      <4>1. ReverseHop(path, i, g[i + 1], trader) = Unreachable
            \/ ReverseHop(path, i, g[i + 1], trader) \in Nat
        BY <3>1, <3>4, HopInverse
      <4>2. Back(i)
        BY <3>2, <4>1
      <4>. QED
        BY <4>2 DEF i
    <3>. QED
      BY <3>2, <3>3, <3>4
  <2>. HIDE DEF U
  <2>3. Nat \subseteq U
    BY <2>1, <2>2, NumberInduction
  <2>. USE DEF U
  <2>. QED
    BY <1>1, <2>3
<1>10. Same(n)
  <2>1. 0 \in V
    <3>1. n + 1 - 0 = n + 1 /\ n - 0 = n
      BY <1>1
    <3>. QED
      BY <1>5, <1>7, <3>1
  <2>2. ASSUME NEW k \in Nat, k \in V
        PROVE  k + 1 \in V
    <3>. SUFFICES ASSUME k + 1 <= n
                  PROVE  Same(k + 1)
      OBVIOUS
    <3>. DEFINE i == n + 1 - (k + 1)
                h == n - (k + 1)
    <3>1. /\ i \in 1 .. n /\ i + 1 = n + 1 - k /\ i \in 1 .. Len(path) - 1 /\ k <= n
          /\ h \in 0 .. n - 1 /\ h + 1 = i /\ h + 1 = n - k /\ h \in 0 .. n
      BY <1>1
    <3>. HIDE DEF i, h
    <3>2. f[i] = SimulateHop(path, i, f[h], trader) /\ f[h] \in Nat /\ f[n - k] = f[i]
      <4>1. f[h + 1] = SimulateHop(path, h + 1, f[h], trader)
        BY <1>6, <3>1
      <4>2. h \in T /\ h <= n
        BY <1>1, <1>8, <3>1
      <4>3. f[h] \in Nat
        BY <4>2
      <4>4. n - k = i /\ h + 1 = i
        BY <3>1
      <4>. HIDE DEF T
      <4>. QED
        BY <4>1, <4>3, <4>4
    <3>3. g[i] = ReverseHop(path, i, g[i + 1], trader) /\ Back(i + 1)
      BY <1>7, <1>9, <3>1
    <3>4. target <= f[n] <=> (g[i + 1] # Unreachable /\ g[i + 1] <= f[i])
      BY <2>2, <3>1, <3>2
    <3>5. target <= f[n] <=> (g[i] # Unreachable /\ g[i] <= f[h])
      <4>1. CASE g[i + 1] = Unreachable
        BY <3>3, <3>4, <4>1 DEF ReverseHop
      <4>2. CASE g[i + 1] # Unreachable
        <5>1. g[i + 1] \in Nat
          BY <3>3, <4>2
        <5>2. g[i + 1] <= SimulateHop(path, i, f[h], trader) <=>
                /\ ReverseHop(path, i, g[i + 1], trader) # Unreachable
                /\ ReverseHop(path, i, g[i + 1], trader) <= f[h]
          BY <3>1, <3>2, <5>1, HopInverse
        <5>. QED
          BY <3>2, <3>3, <3>4, <4>2, <5>2
      <4>. QED
        BY <4>1, <4>2
    <3>. QED
      BY <3>5 DEF i, h
  <2>. HIDE DEF V
  <2>3. n \in V
    BY <1>1, <2>1, <2>2, NumberInduction
  <2>. USE DEF V
  <2>. QED
    BY <1>1, <2>3
<1>11. f[n] \in Nat /\ Back(1) /\ (target <= f[n] <=> (g[1] # Unreachable /\ g[1] <= amount))
  <2>1. n + 1 - n = 1 /\ n - n = 0 /\ n \in 0 .. n /\ n <= n
    BY <1>1
  <2>. QED
    BY <1>6, <1>8, <1>9, <1>10, <2>1
<1>. QED
  BY <1>2, <1>11

\* After any messages, what a reverse quote asks for is exactly enough, on paths of any
\* length, at any reserves, fees, rates and targets, and it refuses only what no amount
\* would reach (query_reverse_simulate_swap_operations).
THEOREM QuotesAlwaysReverse == Spec => []ReverseExact
<1>1. IInv => ReverseExact
  <2>. SUFFICES ASSUME IInv, NEW trader \in Wallets, NEW path \in Paths,
                       NEW target \in 1 .. InitialPool
                PROVE  LET need == ReverseSimulate(path, target, trader)
                       IN  IF need = Unreachable
                           THEN \A n \in Amounts : Simulate(path, n, trader) < target
                           ELSE /\ Simulate(path, need, trader) >= target
                                /\ need > 0 => Simulate(path, need - 1, trader) < target
    BY DEF ReverseExact
  <2>. DEFINE need == ReverseSimulate(path, target, trader)
  <2>1. SettingsOK /\ Whole(chain) /\ target \in Nat /\ Amounts \subseteq Nat
    BY RouteAssumption DEF IInv
  <2>2. PICK g : /\ Asks(g, path, 1, Len(path), target, trader)
                 /\ need = IF g[1] # Unreachable /\ Simulate(path, g[1], trader) < target
                           THEN Unreachable ELSE g[1]
    BY AskEnds
  <2>3. ASSUME NEW n \in Nat
        PROVE  /\ Simulate(path, n, trader) \in Nat
               /\ g[1] = Unreachable \/ g[1] \in Nat
               /\ target <= Simulate(path, n, trader) <=> g[1] # Unreachable /\ g[1] <= n
    BY <2>1, <2>2, QuoteInverse
  <2>. HIDE DEF need
  <2>4. 0 \in Nat
    OBVIOUS
  <2>5. CASE g[1] = Unreachable
    <3>1. need = Unreachable
      BY <2>2, <2>5
    <3>2. \A n \in Amounts : Simulate(path, n, trader) < target
      BY <2>1, <2>3, <2>5
    <3>. QED
      BY <3>1, <3>2 DEF need
  <2>6. CASE g[1] # Unreachable
    <3>1. g[1] \in Nat
      BY <2>3, <2>4, <2>6
    <3>2. Simulate(path, g[1], trader) >= target
      BY <2>1, <2>3, <2>6, <3>1
    <3>3. need = g[1]
      <4>1. Simulate(path, g[1], trader) \in Nat
        BY <2>3, <3>1
      <4>2. ~(Simulate(path, g[1], trader) < target)
        BY <2>1, <3>2, <4>1
      <4>. QED
        BY <2>2, <4>2
    <3>4. g[1] > 0 => Simulate(path, g[1] - 1, trader) < target
      <4>1. g[1] > 0 => g[1] - 1 \in Nat /\ ~(g[1] <= g[1] - 1)
        BY <3>1
      <4>. QED
        BY <2>1, <2>3, <4>1
    <3>. QED
      BY <2>6, <3>2, <3>3, <3>4 DEF need
  <2>. QED
    BY <2>5, <2>6
<1>. QED
  BY <1>1, InductiveInvariant, PTL

-----------------------------------------------------------------------------
(* Refusals: the transfers of a route that the token trusts. *)

LEMMA ProtocolKnown ==
  ASSUME SettingsOK, official = Router
  PROVE  /\ Router \in Protocol /\ listed \subseteq Protocol /\ Protocol \subseteq listed \cup {Router}
         /\ listed \subseteq Pairs /\ Router \notin listed
         /\ House \notin Protocol /\ House # Nobody /\ House # Router
         /\ \A a \in Wallets : a \notin Protocol /\ a # Nobody /\ a # NoHook /\ a # Router /\ a # House
<1>1. /\ Router # Nobody /\ House # Nobody /\ House # Router
      /\ \A p \in Pairs : p # Router /\ p # House
      /\ \A a \in Wallets : a \notin Pairs /\ a # Router /\ a # House /\ a # Nobody /\ a # NoHook
  BY AccountAssumption DEF Accounts
<1>2. listed \subseteq Pairs
  BY DEF SettingsOK
<1>. QED
  BY <1>1, <1>2 DEF Protocol

LEMMA DepositRefused ==
  ASSUME SettingsOK, official = Router, NEW s, Whole(s), s.failed = {}, NEW token,
         NEW trader \in Wallets, NEW amount \in Nat
  PROVE  \A x \in Pays(s, token, trader, Router, amount, NoHook).failed :
           x = "funds" /\ s.held[token][trader] < amount
<1>1. CASE token # Tax
  <2>1. Pays(s, token, trader, Router, amount, NoHook) = Plain(s, token, trader, Router, amount)
    BY <1>1 DEF Pays
  <2>. QED
    BY <2>1, PlainRefuses
<1>2. CASE token = Tax
  <2>1. Pays(s, token, trader, Router, amount, NoHook).failed
          = TransferCauses(s, trader, Router, amount, NoHook)
    BY <1>2, TransferRefuses DEF Pays
  <2>2. /\ ~IsRouterSell(trader, Router, NoHook) /\ ~IsRouterBuy(s, trader, Router)
        /\ HopTrader(s, trader, Router, NoHook) = Nobody
        /\ TradeKind(s, trader, Router, NoHook) \notin {"buy", "sell"}
    BY ProtocolKnown DEF IsRouterSell, IsRouterBuy, HopTrader, TradeKind, IsSell, IsBuy
  <2>3. ~IsTrade(TradeKind(s, trader, Router, NoHook))
    BY <2>2 DEF IsTrade
  <2>4. Debited(s, trader, Router, amount, NoHook) = amount
    BY <2>2 DEF Debited
  <2>5. ~OverCap(s, Router, Credited(s, trader, Router, amount, NoHook))
    BY ProtocolKnown DEF OverCap
  <2>6. ASSUME NEW x \in TransferCauses(s, trader, Router, amount, NoHook)
        PROVE  x = "funds" /\ s.held[token][trader] < amount
    <3>1. Reason(x, s, trader, Router, amount, NoHook)
      BY CausesHaveReasons
    <3>. QED
      BY <1>2, <2>2, <2>3, <2>4, <2>5, <3>1 DEF Reason
  <2>. QED
    BY <2>1, <2>6
<1>. QED
  BY <1>1, <1>2

\* A sale of the router has its context and its funds.
LEMMA SaleRefused ==
  ASSUME SettingsOK, official = Router, NEW h, Whole(h), h.failed = {}, NEW token, NEW pair,
         NEW trader \in Wallets, NEW amount \in Nat,
         token = Tax => pair \in listed /\ Authorized(h, pair, amount, trader),
         ~(h.held[token][Router] < Took(h, token, Router, pair, amount, trader))
  PROVE  \A x \in Pays(h, token, Router, pair, amount, trader).failed :
           /\ token = Tax
           /\ x = "halted" \/ (x = "cooldown" /\ Tax \notin h.ctx.acquired /\ Cooling(h, trader))
<1>1. CASE token # Tax
  <2>1. Pays(h, token, Router, pair, amount, trader) = Plain(h, token, Router, pair, amount)
    BY <1>1 DEF Pays
  <2>2. ~(h.held[token][Router] < amount)
    BY <1>1 DEF Took
  <2>. QED
    BY <2>1, <2>2, PlainRefuses
<1>2. CASE token = Tax
  <2>1. Pays(h, token, Router, pair, amount, trader).failed
          = TransferCauses(h, Router, pair, amount, trader)
    BY <1>2, TransferRefuses DEF Pays
  <2>2. pair \in listed /\ Authorized(h, pair, amount, trader)
    BY <1>2
  <2>3. IsRouterSell(Router, pair, trader) /\ HopTrader(h, Router, pair, trader) = trader
    BY <2>2, ProtocolKnown DEF IsRouterSell, HopTrader
  <2>4. IsRouteTrader(trader)
    BY ProtocolKnown DEF IsRouteTrader
  <2>5. ~Misdirected(TaxDue(h, Router, pair, amount, trader))
    BY TaxDueWithin, NeverMisdirected DEF SettingsOK
  <2>6. ~(h.held[Tax][Router] < Debited(h, Router, pair, amount, trader))
    BY <1>2 DEF Took
  <2>7. ~OverCap(h, pair, Credited(h, Router, pair, amount, trader))
    BY <2>2, ProtocolKnown DEF OverCap
  <2>8. Asked(h, Router, pair, trader) \ Protocol \subseteq
          IF Tax \in h.ctx.acquired THEN {} ELSE {trader}
    BY <2>2, <2>3, ProtocolKnown DEF Asked
  <2>9. ASSUME NEW x \in TransferCauses(h, Router, pair, amount, trader)
        PROVE  x = "halted" \/ (x = "cooldown" /\ Tax \notin h.ctx.acquired /\ Cooling(h, trader))
    <3>1. Reason(x, h, Router, pair, amount, trader)
      BY CausesHaveReasons
    <3>2. \/ x = "halted"
          \/ x = "cooldown" /\ \E a \in Asked(h, Router, pair, trader) \ Protocol : Cooling(h, a)
      BY <2>2, <2>3, <2>4, <2>5, <2>6, <2>7, <3>1 DEF Reason
    <3>. QED
      BY <2>8, <3>2
  <2>. QED
    BY <1>2, <2>1, <2>9
<1>. QED
  BY <1>1, <1>2

\* What comes back is a purchase of the route's trader.
LEMMA ReturnRefused ==
  ASSUME SettingsOK, official = Router, NEW b, Whole(b), b.failed = {}, NEW token, NEW pair,
         NEW trader \in Wallets, NEW amount \in Nat,
         token = Tax => /\ pair \in listed /\ b.ctx.id # 0 /\ b.ctx.pair = pair
                        /\ b.ctx.ask = Tax /\ b.ctx.trader = trader,
         ~(b.held[token][pair] < amount)
  PROVE  \A x \in Pays(b, token, pair, Router, amount, NoHook).failed :
           token = Tax /\ (x = "halted" \/ (x = "cooldown" /\ Cooling(b, trader)))
<1>1. CASE token # Tax
  <2>1. Pays(b, token, pair, Router, amount, NoHook) = Plain(b, token, pair, Router, amount)
    BY <1>1 DEF Pays
  <2>. QED
    BY <2>1, PlainRefuses
<1>2. CASE token = Tax
  <2>1. Pays(b, token, pair, Router, amount, NoHook).failed
          = TransferCauses(b, pair, Router, amount, NoHook)
    BY <1>2, TransferRefuses DEF Pays
  <2>2. /\ ~IsRouterSell(pair, Router, NoHook) /\ IsRouterBuy(b, pair, Router)
        /\ HopTrader(b, pair, Router, NoHook) = trader
    BY <1>2 DEF IsRouterSell, IsRouterBuy, HopTrader
  <2>4. IsRouteTrader(trader)
    BY ProtocolKnown DEF IsRouteTrader
  <2>5. ~Misdirected(TaxDue(b, pair, Router, amount, NoHook))
    BY TaxDueWithin, NeverMisdirected DEF SettingsOK
  <2>6. ~(b.held[Tax][pair] < Debited(b, pair, Router, amount, NoHook))
    <3>1. TradeKind(b, pair, Router, NoHook) # "sell"
      BY DEF TradeKind, IsSell
    <3>. QED
      BY <1>2, <3>1 DEF Debited
  <2>7. ~OverCap(b, Router, Credited(b, pair, Router, amount, NoHook))
    BY ProtocolKnown DEF OverCap
  <2>8. Asked(b, pair, Router, NoHook) \ Protocol \subseteq {trader}
    BY <1>2, <2>2, ProtocolKnown DEF Asked
  <2>9. ASSUME NEW x \in TransferCauses(b, pair, Router, amount, NoHook)
        PROVE  x = "halted" \/ (x = "cooldown" /\ Cooling(b, trader))
    <3>1. Reason(x, b, pair, Router, amount, NoHook)
      BY CausesHaveReasons
    <3>2. \/ x = "halted"
          \/ x = "cooldown" /\ \E a \in Asked(b, pair, Router, NoHook) \ Protocol : Cooling(b, a)
      BY <2>2, <2>4, <2>5, <2>6, <2>7, <3>1 DEF Reason
    <3>. QED
      BY <2>8, <3>2
  <2>. QED
    BY <1>2, <2>1, <2>9
<1>. QED
  BY <1>1, <1>2

\* The commission is a purchase of the treasury's own.
LEMMA FeeRefused ==
  ASSUME SettingsOK, official = Router, NEW c, Whole(c), c.failed = {}, NEW token, NEW pair,
         NEW amount \in Nat, token = Tax => pair \in listed, ~(c.held[token][pair] < amount)
  PROVE  \A x \in Pays(c, token, pair, House, amount, NoHook).failed :
           token = Tax /\ (x = "halted" \/ x = "cap" \/ (x = "cooldown" /\ Cooling(c, House)))
<1>1. CASE token # Tax
  <2>1. Pays(c, token, pair, House, amount, NoHook) = Plain(c, token, pair, House, amount)
    BY <1>1 DEF Pays
  <2>. QED
    BY <2>1, PlainRefuses
<1>2. CASE token = Tax
  <2>1. Pays(c, token, pair, House, amount, NoHook).failed
          = TransferCauses(c, pair, House, amount, NoHook)
    BY <1>2, TransferRefuses DEF Pays
  <2>2. /\ ~IsRouterSell(pair, House, NoHook) /\ ~IsRouterBuy(c, pair, House)
        /\ HopTrader(c, pair, House, NoHook) = Nobody
    BY ProtocolKnown DEF IsRouterSell, IsRouterBuy, HopTrader
  <2>6. ~(c.held[Tax][pair] < Debited(c, pair, House, amount, NoHook))
    <3>1. TradeKind(c, pair, House, NoHook) # "sell"
      BY DEF TradeKind, IsSell
    <3>. QED
      BY <1>2, <3>1 DEF Debited
  <2>8. Asked(c, pair, House, NoHook) \ Protocol \subseteq {House}
    BY <1>2, <2>2, ProtocolKnown DEF Asked
  <2>9. ASSUME NEW x \in TransferCauses(c, pair, House, amount, NoHook)
        PROVE  x = "halted" \/ x = "cap" \/ (x = "cooldown" /\ Cooling(c, House))
    <3>1. Reason(x, c, pair, House, amount, NoHook)
      BY CausesHaveReasons
    <3>2. \/ x = "halted" \/ x = "cap"
          \/ x = "cooldown" /\ \E a \in Asked(c, pair, House, NoHook) \ Protocol : Cooling(c, a)
      BY <2>2, <2>6, <3>1 DEF Reason
    <3>. QED
      BY <2>8, <3>2
  <2>. QED
    BY <1>2, <2>1, <2>9
<1>. QED
  BY <1>1, <1>2

-----------------------------------------------------------------------------
(* Refusals: a swap and a sale. *)

\* A swap of a state that is not refused, refused or not.
LEMMA SwapOutcome ==
  ASSUME NEW c, Whole(c), c.failed = {}, NEW pair \in Pairs, NEW offer, NEW ask, NEW amount,
         NEW receiver, NEW floor
  PROVE  LET causes == SwapCauses(c.pool[pair][offer], c.pool[pair][ask], amount, floor)
             paid == Returned(c, pair, offer, ask, amount, receiver)
         IN  PairSwap(c, pair, offer, ask, amount, receiver, floor) =
               IF causes # {} THEN Failed(c, causes)
               ELSE Then(paid, PairPays(paid, ask, pair, House, SwapFee(c, pair, offer, ask, amount)))
<1>. DEFINE d == PairSwap(c, pair, offer, ask, amount, receiver, floor)
            causes == SwapCauses(c.pool[pair][offer], c.pool[pair][ask], amount, floor)
            fee == SwapFee(c, pair, offer, ask, amount)
            back == SwapGross(c, pair, offer, ask, amount) - fee
            swapped == Reserved(c, pair, offer, ask, amount)
            payments == PaymentsOf(receiver, back, fee)
            paid == CHOOSE f : Payments(f, swapped, ask, pair, payments)
            returned == PairPays(swapped, ask, pair, receiver, back)
<1>1. d = IF causes # {} THEN Failed(c, causes) ELSE paid[2]
  BY DEF PairSwap, Payments, PaymentsOf, Reserved, SwapGross, SwapFee
<1>2. returned = Returned(c, pair, offer, ask, amount, receiver)
  BY DEF Returned
<1>3. /\ payments[1].to = receiver /\ payments[1].amount = back
      /\ payments[2].to = House /\ payments[2].amount = fee
  <2>. HIDE DEF back, fee
  <2>. QED
    BY DEF PaymentsOf
<1>4. swapped.failed = {}
  BY DEF Reserved, Whole
<1>. HIDE DEF causes, swapped, payments, back, fee
<1>5. Payments(paid, swapped, ask, pair, payments)
  BY PaymentsExist
<1>. HIDE DEF paid
<1>6. paid[1] = Then(swapped, returned) /\ paid[2] = Then(paid[1], PairPays(paid[1], ask, pair, House, fee))
  BY <1>3, <1>5, PaymentsEnd
<1>. HIDE DEF returned
<1>7. paid[1] = returned
  BY <1>4, <1>6 DEF Then
<1>. HIDE DEF d
<1>8. d = IF causes # {} THEN Failed(c, causes)
          ELSE Then(returned, PairPays(returned, ask, pair, House, fee))
  BY <1>1, <1>6, <1>7
<1>. QED
  BY <1>2, <1>8 DEF d, fee, causes

LEMMA SwapCausesKnown ==
  ASSUME NEW rin, NEW rout, NEW amount, NEW gross \in Nat, NEW fee \in 0 .. gross,
         gross = GrossOut(rin, rout, amount), fee = Commission(gross, FeeBps)
  PROVE  SwapCauses(rin, rout, amount, 0) \subseteq {"zero", "spread"}
<1>. DEFINE leg == [offer |-> amount, declared |-> amount, pool |-> amount, book |-> 0,
                    net |-> gross - fee, fee |-> fee, bookNet |-> 0,
                    spread |-> Spread(rin, rout, amount, gross)]
<1>1. SwapCauses(rin, rout, amount, 0) =
        (When("zero", amount = 0) \cup When("floor", gross - fee < 0))
          \cup When("spread", ~WithinSpread(leg, MaxSpread))
  BY DEF SwapCauses
<1>2. ~(gross - fee < 0)
  OBVIOUS
<1>. HIDE DEF leg
<1>3. When("floor", gross - fee < 0) = {}
  BY <1>2 DEF When
<1>. QED
  BY <1>1, <1>3 DEF When

\* The purchase of the trader does not mark the treasury of commissions.
LEMMA ReturnMarks ==
  ASSUME SettingsOK, official = Router, NEW b, Whole(b), b.failed = {}, NEW token \in Tokens,
         NEW pair \in Pairs, NEW trader \in Wallets, NEW amount \in Nat,
         token = Tax => pair \in listed /\ b.ctx.id # 0 /\ b.ctx.pair = pair
                        /\ b.ctx.ask = Tax /\ b.ctx.trader = trader,
         PairPays(b, token, pair, Router, amount).failed = {}
  PROVE  PairPays(b, token, pair, Router, amount).last[House] = b.last[House]
<1>. DEFINE d == Pays(b, token, pair, Router, amount, NoHook)
<1>1. CASE ~(amount > 0)
  BY <1>1 DEF PairPays
<1>2. CASE amount > 0
  <2>1. PairPays(b, token, pair, Router, amount) = d
    BY <1>2 DEF PairPays
  <2>2. CASE token # Tax
    <3>1. d = Plain(b, token, pair, Router, amount)
      BY <2>2 DEF Pays
    <3>2. d.last = b.last
      BY <3>1, PlainRefuses
    <3>. QED
      BY <2>1, <3>2
  <2>3. CASE token = Tax
    <3>1. d = Transfer(b, pair, Router, amount, NoHook)
      BY <2>3 DEF Pays
    <3>2. pair \in Accounts /\ Router \in Accounts /\ House \in Accounts
      BY DEF Accounts
    <3>3. Recorded(b, Transfer(b, pair, Router, amount, NoHook), pair, Router, amount, NoHook)
      BY <2>1, <3>1, <3>2, TransferMoves DEF SettingsOK
    <3>4. HopTrader(b, pair, Router, NoHook) = trader
      BY <2>3 DEF IsRouterSell, IsRouterBuy, HopTrader
    <3>5. House # pair /\ House # Router /\ House # trader
      BY AccountAssumption, ProtocolKnown
    <3>. QED
      BY <2>1, <3>1, <3>2, <3>3, <3>4, <3>5 DEF Recorded, Marked
  <2>. QED
    BY <2>2, <2>3
<1>. QED
  BY <1>1, <1>2

\* What a swap for the router is refused for.
SwapExcuse(x, c, ask, trader) ==
  \/ x \in {"zero", "spread"}
  \/ /\ ask = Tax
     /\ \/ x \in {"halted", "cap"}
        \/ x = "cooldown" /\ (Cooling(c, trader) \/ Cooling(c, House))

LEMMA PairSwapRefused ==
  ASSUME SettingsOK, official = Router, NEW c, Whole(c), c.failed = {}, NEW pair, NEW offer, NEW ask,
         IsPairOf(pair, offer, ask), NEW trader \in Wallets, NEW amount \in Nat,
         ask = Tax => pair \in listed /\ c.ctx.id # 0 /\ c.ctx.pair = pair
                      /\ c.ctx.ask = Tax /\ c.ctx.trader = trader,
         c.pool[pair][ask] <= c.held[ask][pair]
  PROVE  \A x \in PairSwap(c, pair, offer, ask, amount, Router, 0).failed :
           SwapExcuse(x, c, ask, trader)
<1>. DEFINE d == PairSwap(c, pair, offer, ask, amount, Router, 0)
            causes == SwapCauses(c.pool[pair][offer], c.pool[pair][ask], amount, 0)
            gross == SwapGross(c, pair, offer, ask, amount)
            fee == SwapFee(c, pair, offer, ask, amount)
            back == gross - fee
            b == Reserved(c, pair, offer, ask, amount)
            paid == Returned(c, pair, offer, ask, amount, Router)
            next == PairPays(paid, ask, pair, House, fee)
<1>1. /\ pair \in Pairs /\ pair \in Accounts /\ offer \in Tokens /\ ask \in Tokens /\ Router \in Accounts
      /\ House # Router
  BY AccountAssumption DEF IsPairOf, Accounts
<1>2. d = IF causes # {} THEN Failed(c, causes) ELSE Then(paid, next)
  <2>1. pair \in Pairs
    BY <1>1
  <2>2. LET why == SwapCauses(c.pool[pair][offer], c.pool[pair][ask], amount, 0)
            first == Returned(c, pair, offer, ask, amount, Router)
        IN  PairSwap(c, pair, offer, ask, amount, Router, 0) =
              IF why # {} THEN Failed(c, why)
              ELSE Then(first, PairPays(first, ask, pair, House, SwapFee(c, pair, offer, ask, amount)))
    BY ONLY <2>1, Whole(c), c.failed = {}, SwapOutcome
  <2>. QED
    BY <2>2
<1>3. paid = PairPays(b, ask, pair, Router, back)
  BY DEF Returned
<1>4. gross \in Nat /\ fee \in 0 .. gross /\ back \in Nat /\ gross <= c.held[ask][pair]
  <2>1. gross \in 0 .. c.pool[pair][ask] - 1 /\ fee \in 0 .. gross /\ c.pool[pair][ask] \in Nat
    BY SwapAmounts
  <2>2. c.held[ask][pair] \in Int
    BY <1>1 DEF Whole
  <2>. HIDE DEF gross, fee
  <2>. QED
    BY <2>1, <2>2
<1>5. causes \subseteq {"zero", "spread"}
  BY <1>4, SwapCausesKnown DEF SwapGross, SwapFee
<1>6. Whole(b) /\ b.held = c.held /\ b.ctx = c.ctx /\ b.last = c.last /\ b.failed = {}
  <2>1. Whole(b) /\ b.held = c.held /\ b.ctx = c.ctx /\ b.last = c.last
    BY SwapReserves
  <2>2. b.failed = c.failed
    BY DEF Reserved, Whole
  <2>. QED
    BY <2>1, <2>2
<1>. HIDE DEF d, causes, gross, fee, b, paid, next
<1>7. ASSUME NEW x \in paid.failed
      PROVE  SwapExcuse(x, c, ask, trader)
  <2>1. CASE back > 0
    <3>1. paid = Pays(b, ask, pair, Router, back, NoHook)
      BY <1>3, <2>1 DEF PairPays
    <3>2. ~(b.held[ask][pair] < back)
      <4>1. c.held[ask][pair] \in Int
        BY <1>1 DEF Whole
      <4>. QED
        BY <1>4, <1>6, <4>1
    <3>. HIDE DEF back
    <3>3. ask = Tax /\ (x = "halted" \/ (x = "cooldown" /\ Cooling(b, trader)))
      BY <1>4, <1>6, <1>7, <3>1, <3>2, ReturnRefused
    <3>. QED
      BY <1>6, <3>3 DEF SwapExcuse, Cooling
  <2>2. CASE ~(back > 0)
    BY <1>3, <1>6, <1>7, <2>2 DEF PairPays
  <2>. QED
    BY <2>1, <2>2
<1>8. ASSUME paid.failed = {}, NEW x \in next.failed
      PROVE  SwapExcuse(x, c, ask, trader)
  <2>1. Whole(paid) /\ paid.held[ask][pair] = c.held[ask][pair] - back
    <3>. DEFINE gave == PairGives(b, ask, pair, Router, back)
    <3>1. Moves(b, paid, ask, pair, Router, back, gave) /\ gave \in Nat
      <4>. HIDE DEF back
      <4>. QED
        BY <1>1, <1>3, <1>4, <1>6, <1>8, PairPaysMoves DEF SettingsOK
    <3>2. pair # Router /\ pair # Treasury /\ c.held[ask][pair] \in Int
      BY <1>1, AccountAssumption DEF Whole
    <3>3. paid.held[ask][pair] = b.held[ask][pair] - back + 0
      <4>. HIDE DEF back, gave
      <4>. QED
        BY <1>1, <3>1, <3>2 DEF Moves
    <3>. QED
      BY <1>4, <1>6, <3>1, <3>2, <3>3 DEF Moves
  <2>2. paid.last[House] = c.last[House]
    <3>. HIDE DEF back
    <3>. QED
      BY <1>1, <1>3, <1>4, <1>6, <1>8, ReturnMarks
  <2>3. CASE fee > 0
    <3>1. next = Pays(paid, ask, pair, House, fee, NoHook)
      BY <2>3 DEF next, PairPays
    <3>2. ~(paid.held[ask][pair] < fee) /\ fee \in Nat
      <4>1. c.held[ask][pair] \in Int
        BY <1>1 DEF Whole
      <4>. QED
        BY <1>4, <2>1, <4>1
    <3>3. ask = Tax => pair \in listed
      OBVIOUS
    <3>4. ask = Tax /\ (x = "halted" \/ x = "cap" \/ (x = "cooldown" /\ Cooling(paid, House)))
      BY <1>8, <2>1, <3>1, <3>2, <3>3, FeeRefused
    <3>. QED
      BY <2>2, <3>4 DEF SwapExcuse, Cooling
  <2>4. CASE ~(fee > 0)
    BY <1>8, <2>4 DEF next, PairPays
  <2>. QED
    BY <2>3, <2>4
<1>9. Failed(c, causes).failed = causes
  BY FailedFails
<1>10. ASSUME NEW x \in d.failed
       PROVE  SwapExcuse(x, c, ask, trader)
  <2>1. CASE causes # {}
    BY <1>2, <1>5, <1>9, <1>10, <2>1 DEF SwapExcuse
  <2>2. CASE causes = {} /\ paid.failed = {}
    BY <1>2, <1>8, <1>10, <2>2 DEF Then
  <2>3. CASE causes = {} /\ paid.failed # {}
    BY <1>2, <1>7, <1>10, <2>3 DEF Then
  <2>. QED
    BY <2>1, <2>2, <2>3
<1>. QED
  BY <1>10 DEF d

\* A sale of the router's, given what the hop opened.
SaleExcuse(x, h, offer, ask, trader) ==
  \/ SwapExcuse(x, h, ask, trader)
  \/ /\ offer = Tax
     /\ \/ x = "halted"
        \/ x = "cooldown" /\ Tax \notin h.ctx.acquired /\ Cooling(h, trader)

LEMMA SaleExcused ==
  ASSUME SettingsOK, official = Router, NEW h, Whole(h), h.failed = {}, NEW offer, NEW ask, NEW pair,
         IsPairOf(pair, offer, ask), pair = PairOf(offer, ask), NEW trader \in Wallets,
         NEW amount \in Nat,
         offer = Tax => pair \in listed /\ Authorized(h, pair, amount, trader),
         ask = Tax => pair \in listed /\ h.ctx.id # 0 /\ h.ctx.pair = pair
                      /\ h.ctx.ask = Tax /\ h.ctx.trader = trader,
         ~(h.held[offer][Router] < Took(h, offer, Router, pair, amount, trader)),
         h.pool[pair][ask] <= h.held[ask][pair]
  PROVE  \A x \in SendSwap(h, Router, offer, ask, amount, Router, 0, trader).failed :
           SaleExcuse(x, h, offer, ask, trader)
<1>. DEFINE sent == Pays(h, offer, Router, pair, amount, trader)
            d == SendSwap(h, Router, offer, ask, amount, Router, 0, trader)
            arrived == sent.held[offer][pair] - h.held[offer][pair]
            next == PairSwap(sent, pair, offer, ask, arrived, Router, 0)
            took == Took(h, offer, Router, pair, amount, trader)
            gave == Gave(h, offer, Router, pair, amount, trader)
<1>1. d = Then(sent, next)
  BY DEF SendSwap, Arrived
<1>2. /\ pair \in Pairs /\ pair \in Accounts /\ offer \in Tokens /\ ask \in Tokens /\ offer # ask
      /\ Router \in Accounts /\ pair # Router /\ pair # Treasury
  BY AccountAssumption DEF IsPairOf, Accounts
<1>. HIDE DEF d, next
<1>3. ASSUME NEW x \in sent.failed
      PROVE  SaleExcuse(x, h, offer, ask, trader)
  <2>1. \A y \in Pays(h, offer, Router, pair, amount, trader).failed :
          /\ offer = Tax
          /\ y = "halted" \/ (y = "cooldown" /\ Tax \notin h.ctx.acquired /\ Cooling(h, trader))
    <3>. HIDE DEF sent, took, gave, arrived
    <3>. QED
      BY SaleRefused
  <2>2. /\ offer = Tax
        /\ x = "halted" \/ (x = "cooldown" /\ Tax \notin h.ctx.acquired /\ Cooling(h, trader))
    BY <1>3, <2>1
  <2>. QED
    BY <2>2 DEF SaleExcuse
<1>4. ASSUME sent.failed = {}, NEW x \in next.failed
      PROVE  SaleExcuse(x, h, offer, ask, trader)
  <2>1. took \in Nat /\ gave \in Nat /\ Moves(h, sent, offer, Router, pair, took, gave)
    BY <1>2, <1>4, PaysMoves DEF SettingsOK
  <2>2. arrived = gave
    <3>1. h.held[offer][pair] \in Int
      BY <1>2 DEF Whole
    <3>. HIDE DEF sent, took, gave
    <3>2. sent.held[offer][pair] = h.held[offer][pair] - 0 + gave
      BY <1>2, <2>1 DEF Moves
    <3>. QED
      BY <2>1, <3>1, <3>2
  <2>3. Whole(sent) /\ sent.ctx = h.ctx /\ sent.pool = h.pool /\ sent.held[ask] = h.held[ask]
    <3>. HIDE DEF sent, took, gave
    <3>. QED
      BY <1>2, <2>1 DEF Moves
  <2>4. next = PairSwap(sent, pair, offer, ask, gave, Router, 0)
    <3>. HIDE DEF arrived, gave, sent
    <3>. QED
      BY <2>2 DEF next
  <2>5. ask = Tax => sent.last = h.last
    <3>1. ask = Tax => sent = Plain(h, offer, Router, pair, amount)
      BY <1>2 DEF Pays
    <3>. HIDE DEF sent
    <3>. QED
      BY <3>1, PlainRefuses
  <2>. HIDE DEF sent, gave, took, arrived
  <2>6. \A y \in PairSwap(sent, pair, offer, ask, gave, Router, 0).failed :
          SwapExcuse(y, sent, ask, trader)
    BY <1>4, <2>1, <2>3, PairSwapRefused
  <2>7. SwapExcuse(x, sent, ask, trader)
    BY <1>4, <2>4, <2>6
  <2>8. SwapExcuse(x, h, ask, trader)
    BY <2>5, <2>7 DEF SwapExcuse, Cooling
  <2>. QED
    BY <2>8 DEF SaleExcuse
<1>. HIDE DEF sent
<1>5. ASSUME NEW x \in d.failed
      PROVE  SaleExcuse(x, h, offer, ask, trader)
  <2>1. CASE sent.failed = {}
    BY <1>1, <1>4, <1>5, <2>1 DEF Then
  <2>2. CASE sent.failed # {}
    BY <1>1, <1>3, <1>5, <2>2 DEF Then
  <2>. QED
    BY <2>1, <2>2
<1>. QED
  BY <1>5 DEF d

-----------------------------------------------------------------------------
(* Refusals: a hop. *)

\* Pairs hold their reserves, and the router owes nobody.
Solvent(s) ==
  /\ \A p \in Pairs : \A t \in PairTokens[p] : s.pool[p][t] <= s.held[t][p]
  /\ \A t \in Tokens : 0 <= s.held[t][Router]

\* What a route is refused for after its deposit.
RouteExcuse(x, s, path, trader) ==
  \/ x \in {"halted", "spread", "zero", "no output"}
  \/ x = "cooldown" /\ (Cooling(s, trader) \/ Cooling(s, House))
  \/ x = "cap" /\ \E j \in 2 .. Len(path) : path[j] = Tax

\* A hop without a floor, refused or not.
LEMMA HopOutcome ==
  ASSUME NEW c, NEW path, NEW i, NEW trader,
         HopPreviewed(path[i], HopPair(path, i), trader, SoldTax(c, path, i, trader))
  PROVE  Hop(c, path, i, trader, 0) =
           Received(c, SendSwap(Opened(c, path, i, trader), Router, path[i], path[i + 1],
                                Sold(c, path, i, trader), Router, 0, trader), path[i + 1])
<1>. DEFINE ask == path[i + 1]
            sale == HopSale(c, path, i, trader, 0)
            d == Hop(c, path, i, trader, 0)
            foreseen == HopPreviewed(path[i], HopPair(path, i), trader, SoldTax(c, path, i, trader))
            causes == (When("preview", ~foreseen)
                       \cup When("preview", 0 > 0 /\
                                ~HopPreviewed(ask, HopPair(path, i), trader, TraderRate(trader, "buy"))))
                      \cup When("floor", 0 > 0 /\ FloorBefore(ask, 0, trader) = Unreachable)
<1>1. d = IF causes # {} THEN Failed(c, causes) ELSE Received(c, sale, ask)
  BY DEF Hop, HopSale, Opened, RefundsOf, Residue, SoldTax, Sold
<1>2. causes = {}
  <2>1. ~(0 > 0) /\ foreseen
    OBVIOUS
  <2>2. /\ When("preview", ~foreseen) = {}
        /\ When("preview", 0 > 0 /\
                  ~HopPreviewed(ask, HopPair(path, i), trader, TraderRate(trader, "buy"))) = {}
        /\ When("floor", 0 > 0 /\ FloorBefore(ask, 0, trader) = Unreachable) = {}
    BY <2>1 DEF When
  <2>. QED
    BY <2>2
<1>3. FloorBefore(ask, 0, trader) = 0
  BY DEF FloorBefore, ReverseBuy
<1>4. sale = SendSwap(Opened(c, path, i, trader), Router, path[i], ask,
                      Sold(c, path, i, trader), Router, 0, trader)
  BY <1>3 DEF HopSale
<1>. HIDE DEF causes, sale, d
<1>5. d = Received(c, sale, ask)
  BY <1>1, <1>2
<1>. QED
  BY <1>4, <1>5 DEF d

\* The router funds and explains what a hop sells, and the token takes it from there.
LEMMA HopOpens ==
  ASSUME SettingsOK, official = Router, NEW s, Whole(s), Solvent(s), NEW c, NEW path \in Paths,
         Listed(path), NEW i \in 1 .. Len(path) - 1, NEW trader \in Wallets, NEW deposit \in Nat,
         OnRoute(s, c, path, i - 1, trader, deposit), OnWatch(s, c, path, i - 1, trader, deposit)
  PROVE  LET pair == HopPair(path, i)
             h == Opened(c, path, i, trader)
             sold == Sold(c, path, i, trader)
         IN  /\ HopPreviewed(path[i], pair, trader, SoldTax(c, path, i, trader))
             /\ Tax \in {path[i], path[i + 1]} => pair \in listed
             /\ path[i] = Tax => Authorized(h, pair, sold, trader)
             /\ ~(h.held[path[i]][Router] < Took(h, path[i], Router, pair, sold, trader))
             /\ h.pool[pair][path[i + 1]] <= h.held[path[i + 1]][pair]
<1>. DEFINE offer == path[i]
            ask == path[i + 1]
            pair == HopPair(path, i)
            h == Opened(c, path, i, trader)
            sold == Sold(c, path, i, trader)
            tax == SoldTax(c, path, i, trader)
            rate == TraderRate(trader, "sell")
            took == Took(h, offer, Router, pair, sold, trader)
<1>1. /\ Whole(c) /\ c.got \in Nat
      /\ c.refunds = <<>> \/ \E r \in Nat : c.refunds = <<RefundOf(trader, r)>>
      /\ \A p \in Pairs : \A t \in PairTokens[p] :
           c.held[t][p] - c.pool[p][t] = s.held[t][p] - s.pool[p][t]
      /\ \A t \in Tokens :
           c.held[t][Router] = s.held[t][Router] + (IF t = path[(i - 1) + 1] THEN c.got ELSE 0)
                                                 + (IF t = Tax THEN OwedBack(c.refunds) ELSE 0)
      /\ c.routeId # 0
  BY DEF OnRoute, OnWatch
<1>2. /\ (i - 1) + 1 = i /\ IsPairOf(pair, offer, ask) /\ pair \in Pairs /\ pair \in Accounts
      /\ PairTokens[pair] = {offer, ask} /\ offer \in Tokens /\ ask \in Tokens /\ Router \in Accounts
  BY PathHops DEF IsPairOf, Accounts
<1>3. Tax \in {offer, ask} => pair \in listed
  BY DEF Listed
<1>4. /\ sold \in Nat /\ tax \in Nat /\ sold + tax <= c.got
      /\ offer # Tax => tax = 0
      /\ offer = Tax => tax = TaxOf(sold, rate)
  <2>1. /\ sold \in Nat /\ tax \in Nat /\ Residue(c, path, i, trader) \in Nat
        /\ sold + tax + Residue(c, path, i, trader) = c.got
        /\ offer # Tax => tax = 0
        /\ offer = Tax => tax = TaxOf(sold, rate)
    BY <1>1, HopFunds DEF SettingsOK
  <2>. HIDE DEF sold, tax, rate
  <2>. QED
    BY <1>1, <2>1
<1>5. /\ h.held = c.held /\ h.pool = c.pool
      /\ h.ctx.id = c.routeId /\ h.ctx.trader = trader /\ h.ctx.pair = pair
  BY <1>1, OpenedKeeps
<1>6. h.ctx.offer = offer /\ h.ctx.economic = sold /\ h.ctx.gross = c.got
  BY <1>1 DEF Opened, Whole
<1>. HIDE DEF h, sold, tax, pair, offer, ask, rate
<1>7. HopPreviewed(offer, pair, trader, tax)
  <2>1. ~Misdirected(tax)
    BY <1>4, NeverMisdirected
  <2>2. IsRouteTrader(trader)
    BY ProtocolKnown DEF IsRouteTrader
  <2>. QED
    BY <1>3, <2>1, <2>2 DEF HopPreviewed, Previewed
<1>8. offer = Tax => Authorized(h, pair, sold, trader)
  BY <1>1, <1>4, <1>5, <1>6 DEF Authorized, rate
<1>9. took = sold + tax
  <2>1. CASE offer = Tax
    <3>1. Previewed(pair, trader, tax)
      BY <1>7, <2>1 DEF HopPreviewed
    <3>2. /\ TradeKind(h, Router, pair, trader) = "sell"
          /\ HopTrader(h, Router, pair, trader) = trader
          /\ RateOf("sell", trader, Router, pair) = rate
      BY <3>1, RouterSale DEF rate
    <3>3. TaxDue(h, Router, pair, sold, trader) = TaxOf(sold, rate)
      BY <3>2 DEF TaxDue
    <3>. QED
      BY <1>4, <2>1, <3>2, <3>3 DEF Took, Debited
  <2>2. CASE offer # Tax
    BY <1>4, <2>2 DEF Took
  <2>. QED
    BY <2>1, <2>2
<1>10. ~(h.held[offer][Router] < took)
  <2>1. OwedBack(c.refunds) \in Nat
    <3>1. \A r : <<RefundOf(trader, r)>>[1].amount = r
      BY DEF RefundOf
    <3>. QED
      BY <1>1, <3>1 DEF OwedBack
  <2>2. s.held[offer][Router] \in Int /\ 0 <= s.held[offer][Router]
    BY <1>2 DEF Whole, Solvent
  <2>3. c.held[offer][Router] = s.held[offer][Router] + c.got
                                  + (IF offer = Tax THEN OwedBack(c.refunds) ELSE 0)
    BY <1>1, <1>2 DEF offer
  <2>. HIDE DEF took
  <2>. QED
    BY <1>1, <1>4, <1>5, <1>9, <2>1, <2>2, <2>3
<1>11. h.pool[pair][ask] <= h.held[ask][pair]
  <2>1. /\ s.held[ask][pair] \in Int /\ c.held[ask][pair] \in Int
        /\ s.pool[pair][ask] \in Int /\ c.pool[pair][ask] \in Int
        /\ s.pool[pair][ask] <= s.held[ask][pair]
    <3>1. ask \in PairTokens[pair]
      BY <1>2
    <3>2. s.pool[pair][ask] \in Nat \ {0} /\ c.pool[pair][ask] \in Nat \ {0}
      BY <1>1, <1>2, <3>1 DEF Whole
    <3>3. s.held[ask][pair] \in Int /\ c.held[ask][pair] \in Int
      BY <1>1, <1>2 DEF Whole
    <3>4. s.pool[pair][ask] <= s.held[ask][pair]
      BY <1>2, <3>1 DEF Solvent
    <3>. QED
      BY <3>2, <3>3, <3>4
  <2>2. c.held[ask][pair] - c.pool[pair][ask] = s.held[ask][pair] - s.pool[pair][ask]
    BY <1>1, <1>2
  <2>. QED
    BY <1>5, <2>1, <2>2
<1>. QED
  BY <1>3, <1>7, <1>8, <1>10, <1>11 DEF h, sold, tax, pair, offer, ask

\* The cooldowns of a hop are those that were before the route.
LEMMA ExcuseOfHop ==
  ASSUME NEW s, NEW c, NEW path \in Paths, ValidPath(path), NEW i \in 1 .. Len(path) - 1,
         NEW trader \in Wallets, NEW deposit, NEW h, h.last = c.last, h.ctx.acquired = c.ctx.acquired,
         OnWatch(s, c, path, i - 1, trader, deposit), OnTrack(s, c, path, i - 1, trader),
         NEW x, SaleExcuse(x, h, path[i], path[i + 1], trader)
  PROVE  RouteExcuse(x, s, path, trader)
<1>1. /\ (i - 1) + 1 = i /\ i + 1 \in 2 .. Len(path) /\ (i + 1) - 1 = i
      /\ i = 1 \/ i - 1 > 0
  <2>. DEFINE n == Len(path)
  <2>1. n \in Nat /\ i \in 1 .. n - 1
    BY PathHops
  <2>. HIDE DEF n
  <2>2. (i - 1) + 1 = i /\ i + 1 \in 2 .. n /\ (i + 1) - 1 = i /\ (i = 1 \/ i - 1 > 0)
    BY <2>1
  <2>. QED
    BY <2>2 DEF n
<1>2. ASSUME path[i + 1] = Tax
      PROVE  c.last[trader] = s.last[trader] /\ c.last[House] = s.last[House]
  <2>1. \A j \in 1 .. i : path[j] # Tax
    BY <1>1, <1>2 DEF ValidPath
  <2>. QED
    BY <1>1, <2>1 DEF OnWatch, OnTrack
<1>3. ASSUME path[i] = Tax, Tax \notin c.ctx.acquired
      PROVE  c.last[trader] = s.last[trader]
  <2>1. i = 1
    BY <1>1, <1>3 DEF OnTrack
  <2>. QED
    BY <2>1 DEF OnWatch
<1>4. CASE SwapExcuse(x, h, path[i + 1], trader)
  <2>1. CASE x \in {"zero", "spread"}
    BY <2>1 DEF RouteExcuse
  <2>2. CASE path[i + 1] = Tax /\ x \in {"halted", "cap"}
    BY <1>1, <2>2 DEF RouteExcuse
  <2>3. CASE path[i + 1] = Tax /\ x = "cooldown" /\ (Cooling(h, trader) \/ Cooling(h, House))
    BY <1>2, <2>3 DEF RouteExcuse, Cooling
  <2>. QED
    BY <1>4, <2>1, <2>2, <2>3 DEF SwapExcuse
<1>5. CASE path[i] = Tax /\ x = "halted"
  BY <1>5 DEF RouteExcuse
<1>6. CASE path[i] = Tax /\ x = "cooldown" /\ Tax \notin h.ctx.acquired /\ Cooling(h, trader)
  BY <1>3, <1>6 DEF RouteExcuse, Cooling
<1>. QED
  BY <1>4, <1>5, <1>6 DEF SaleExcuse

LEMMA HopRefused ==
  ASSUME SettingsOK, official = Router, NEW s, Whole(s), Solvent(s), NEW c, c.failed = {},
         NEW path \in Paths, ValidPath(path), Listed(path), NEW i \in 1 .. Len(path) - 1,
         NEW trader \in Wallets, NEW deposit \in Nat, OnRoute(s, c, path, i - 1, trader, deposit),
         OnWatch(s, c, path, i - 1, trader, deposit), OnTrack(s, c, path, i - 1, trader)
  PROVE  \A x \in Hop(c, path, i, trader, 0).failed : RouteExcuse(x, s, path, trader)
<1>. DEFINE offer == path[i]
            ask == path[i + 1]
            pair == HopPair(path, i)
            h == Opened(c, path, i, trader)
            sold == Sold(c, path, i, trader)
            sale == SendSwap(h, Router, offer, ask, sold, Router, 0, trader)
            got == sale.held[ask][Router] - c.held[ask][Router]
            left == [sale EXCEPT !.got = got, !.ctx.acquired = @ \cup {ask}]
            d == Hop(c, path, i, trader, 0)
<1>1. /\ IsPairOf(pair, offer, ask) /\ pair = PairOf(offer, ask)
      /\ offer \in Tokens /\ ask \in Tokens /\ offer # ask
  BY PathHops DEF IsPairOf
<1>2. Whole(c) /\ c.got \in Nat /\ c.routeId # 0
  BY DEF OnRoute, OnWatch
<1>3. RatesOK /\ SinksOK /\ sold \in Nat
  BY <1>2, HopFunds DEF SettingsOK
<1>4. /\ HopPreviewed(offer, pair, trader, SoldTax(c, path, i, trader))
      /\ Tax \in {offer, ask} => pair \in listed
      /\ offer = Tax => Authorized(h, pair, sold, trader)
      /\ ~(h.held[offer][Router] < Took(h, offer, Router, pair, sold, trader))
      /\ h.pool[pair][ask] <= h.held[ask][pair]
  BY HopOpens
<1>5. /\ Whole(h) /\ h.held = c.held /\ h.last = c.last /\ h.ctx.acquired = c.ctx.acquired
      /\ h.ctx.id = c.routeId /\ h.ctx.trader = trader /\ h.ctx.pair = pair /\ h.ctx.ask = ask
  BY <1>2, OpenedKeeps
<1>6. h.failed = {}
  BY <1>2 DEF Opened, Whole
<1>7. d = Then(sale, IF got = 0 THEN Failed(c, {"no output"}) ELSE left)
  <2>1. d = Received(c, sale, ask)
    BY <1>4, HopOutcome
  <2>. HIDE DEF d, sale, ask
  <2>. QED
    BY <2>1 DEF Received, Output
<1>. HIDE DEF h, sold, sale, pair, offer, ask, d, left, got
<1>8. ASSUME NEW x \in sale.failed
      PROVE  RouteExcuse(x, s, path, trader)
  <2>1. \A y \in SendSwap(h, Router, offer, ask, sold, Router, 0, trader).failed :
          SaleExcuse(y, h, offer, ask, trader)
    BY <1>1, <1>2, <1>3, <1>4, <1>5, <1>6, SaleExcused
  <2>2. SaleExcuse(x, h, path[i], path[i + 1], trader)
    BY <1>8, <2>1 DEF sale, offer, ask
  <2>. QED
    BY <1>5, <2>2, ExcuseOfHop
<1>9. ASSUME sale.failed = {}
      PROVE  left.failed = {}
  <2>1. Router \in Wallets \cup {Router} /\ IsPairOf(PairOf(offer, ask), offer, ask)
    BY <1>1
  <2>2. \E gain \in Nat : Sells(h, sale, PairOf(offer, ask), Router, offer, ask,
                               Took(h, offer, Router, PairOf(offer, ask), sold, trader), Router, gain)
    BY <1>3, <1>5, <1>9, <2>1, SendSwapMoves DEF sale
  <2>3. Whole(sale)
    BY <2>2 DEF Sells
  <2>. QED
    BY <1>9, <2>3 DEF left, Whole
<1>10. ASSUME NEW x \in d.failed
       PROVE  RouteExcuse(x, s, path, trader)
  <2>1. CASE sale.failed # {}
    BY <1>7, <1>8, <1>10, <2>1 DEF Then
  <2>2. CASE sale.failed = {} /\ got = 0
    <3>1. d = Failed(c, {"no output"})
      BY <1>7, <2>2 DEF Then
    <3>2. d.failed = {"no output"}
      BY <3>1, FailedFails, <1>2
    <3>. QED
      BY <1>10, <3>2 DEF RouteExcuse
  <2>3. CASE sale.failed = {} /\ got # 0
    <3>1. d = left
      BY <1>7, <2>3 DEF Then
    <3>. QED
      BY <1>9, <1>10, <2>3, <3>1
  <2>. QED
    BY <2>1, <2>2, <2>3
<1>. QED
  BY <1>10 DEF d

-----------------------------------------------------------------------------
(* Refusals: the settlement. *)

\* A delivery that is funded and fresh is refused for the cap only, and a refund never.
LEMMA DeliverRefused ==
  ASSUME official = Router, NEW c, Whole(c), c.failed = {}, NEW entry,
         entry.token = Tax => c.ctx.id # 0 /\ entry \in c.ctx.transfers /\ ~Spent(c, entry.slot),
         ~(c.held[entry.token][Router] < entry.amount)
  PROVE  \A x \in Deliver(c, entry).failed : x = "cap" /\ entry.token = Tax /\ ~Restores(c, entry)
<1>. DEFINE d == Deliver(c, entry)
<1>1. CASE entry.token # Tax
  <2>1. d = Plain(c, entry.token, Router, entry.recipient, entry.amount)
    BY <1>1 DEF Deliver
  <2>. QED
    BY <2>1, PlainRefuses
<1>2. CASE entry.token = Tax
  <2>. DEFINE guarded == GuardCauses(c, "honest", {}, entry.recipient, entry.amount)
              strange == When("sender", Router # official)
                         \cup When("context", c.ctx.id = 0 \/ entry \notin c.ctx.transfers)
                         \cup When("slot", Spent(c, entry.slot))
                         \cup When("funds", c.held[Tax][Router] < entry.amount)
              causes == strange \cup (IF Restores(c, entry) THEN {} ELSE guarded)
              moved == Shifted(c.held[Tax], Router, entry.amount, entry.recipient, entry.amount)
              done == [c EXCEPT !.held[Tax] = moved, !.used = Consumed(c, entry.slot)]
  <2>1. d = IF causes # {} THEN Failed(c, causes) ELSE done
    BY <1>2 DEF Deliver, RouteTransfer
  <2>2. done.failed = {}
    <3>. HIDE DEF moved
    <3>. QED
      BY DEF Whole
  <2>3. strange = {}
    BY <1>2 DEF When
  <2>4. \A x \in guarded : x = "cap"
    BY DEF GuardCauses, IsTrade, When
  <2>. HIDE DEF strange, guarded, done
  <2>5. \A x \in causes : x = "cap" /\ ~Restores(c, entry)
    BY <2>3, <2>4
  <2>. HIDE DEF causes, d
  <2>6. Failed(c, causes).failed = causes
    BY FailedFails
  <2>. QED
    BY <1>2, <2>1, <2>2, <2>5, <2>6 DEF d
<1>. QED
  BY <1>1, <1>2

\* A delivery spends a slot of its route at most.
LEMMA DeliverKeeps ==
  ASSUME NEW c, Whole(c), NEW entry
  PROVE  /\ DOMAIN Deliver(c, entry) = DOMAIN c /\ Deliver(c, entry).ctx = c.ctx
         /\ Deliver(c, entry).used = c.used \/ Deliver(c, entry).used.id = c.ctx.id
<1>. DEFINE d == Deliver(c, entry)
<1>1. ASSUME NEW causes
      PROVE  /\ DOMAIN Failed(c, causes) = DOMAIN c /\ Failed(c, causes).ctx = c.ctx
             /\ Failed(c, causes).used = c.used
  BY DEF Failed, Whole
<1>2. CASE entry.token # Tax
  <2>. DEFINE moved == Shifted(c.held[entry.token], Router, entry.amount, entry.recipient, entry.amount)
              done == [c EXCEPT !.held[entry.token] = moved]
  <2>1. d = Failed(c, {"funds"}) \/ d = done
    BY <1>2 DEF Deliver, Plain
  <2>2. DOMAIN done = DOMAIN c /\ done.ctx = c.ctx /\ done.used = c.used
    <3>. HIDE DEF moved
    <3>. QED
      BY DEF Whole
  <2>. HIDE DEF d, done
  <2>. QED
    BY <1>1, <2>1, <2>2 DEF d
<1>3. CASE entry.token = Tax
  <2>. DEFINE moved == Shifted(c.held[Tax], Router, entry.amount, entry.recipient, entry.amount)
              done == [c EXCEPT !.held[Tax] = moved, !.used = Consumed(c, entry.slot)]
  <2>1. (\E causes : d = Failed(c, causes)) \/ d = done
    BY <1>3 DEF Deliver, RouteTransfer
  <2>2. DOMAIN done = DOMAIN c /\ done.ctx = c.ctx /\ done.used = Consumed(c, entry.slot)
    <3>. HIDE DEF moved
    <3>. QED
      BY DEF Whole
  <2>3. Consumed(c, entry.slot).id = c.ctx.id
    BY DEF Consumed
  <2>. HIDE DEF d, done
  <2>. QED
    BY <1>1, <2>1, <2>2, <2>3 DEF d
<1>. QED
  BY <1>2, <1>3

\* What the settlement starts with.
LiveKeeps(c, live, path, to) ==
  /\ Whole(live) /\ live.held = c.held /\ live.used = c.used /\ live.failed = c.failed
  /\ live.ctx.id = c.ctx.id /\ live.ctx.trader = c.ctx.trader /\ live.ctx.restore = c.ctx.restore
  /\ live.ctx.transfers = ToSet(Append(c.refunds, OutputEntry(c, path, to)))

LEMMA LiveIs ==
  ASSUME NEW c, Whole(c), NEW path, NEW to
  PROVE  LiveKeeps(c, Live(c, path, to), path, to)
<1>. DEFINE set == ToSet(Append(c.refunds, OutputEntry(c, path, to)))
            live == Live(c, path, to)
<1>1. live = [c EXCEPT !.ctx.transfers = set]
  BY DEF Live
<1>. HIDE DEF live, set
<1>2. /\ DOMAIN live = DOMAIN c /\ live.ctx = [c.ctx EXCEPT !.transfers = set]
      /\ live.held = c.held /\ live.pool = c.pool /\ live.used = c.used /\ live.failed = c.failed
      /\ live.burned = c.burned /\ live.last = c.last
  BY <1>1 DEF Whole
<1>3. /\ DOMAIN live.ctx = CtxFields /\ live.ctx.restore = c.ctx.restore
      /\ live.ctx.id = c.ctx.id /\ live.ctx.trader = c.ctx.trader /\ live.ctx.transfers = set
  BY <1>2 DEF Whole, CtxFields
<1>4. Whole(live)
  BY <1>2, <1>3 DEF Whole
<1>. QED
  BY <1>2, <1>3, <1>4 DEF LiveKeeps, live, set

\* Without the cap nothing is left to refuse, and the cap only where the token is bought.
LEMMA SettleRefused ==
  ASSUME SettingsOK, official = Router, NEW s, Whole(s), Solvent(s), s.used.id \in Nat,
         s.routeId \in Nat, s.used.id <= s.routeId, NEW c, c.failed = {},
         NEW path \in Paths, ValidPath(path), NEW trader \in Wallets, NEW deposit \in Nat,
         OnRoute(s, c, path, Len(path) - 1, trader, deposit),
         OnTrack(s, c, path, Len(path) - 1, trader)
  PROVE  \A x \in Settle(c, path, trader, 0).failed : RouteExcuse(x, s, path, trader)
<1>. DEFINE n == Len(path) - 1
            token == Last(path)
            live == Live(c, path, trader)
            mid == Refunded(c, path, trader)
            paid == Paid(c, path, trader)
            output == OutputEntry(c, path, trader)
            owed == OwedBack(c.refunds)
            d == Settle(c, path, trader, 0)
<1>1. /\ Len(path) \in Nat /\ Len(path) \in 2 .. Len(path) /\ n > 0 /\ n + 1 = Len(path)
      /\ \A j \in 1 .. n : j \in 1 .. Len(path) - 1 /\ (j = 1 \/ j \in 2 .. Len(path))
      /\ token \in Tokens /\ token = path[Len(path)]
  <2>. DEFINE m == Len(path)
  <2>1. /\ m \in Nat /\ m > 1 /\ token = path[m] /\ \A i \in 1 .. m : path[i] \in Tokens
    BY PathHops
  <2>. HIDE DEF m, token
  <2>2. m \in 2 .. m /\ m \in 1 .. m /\ m - 1 > 0 /\ (m - 1) + 1 = m
        /\ \A j \in 1 .. m - 1 : j = 1 \/ j \in 2 .. m
    BY <2>1
  <2>. QED
    BY <2>1, <2>2 DEF m
<1>. HIDE DEF n, token
<1>2. /\ Whole(c) /\ c.got \in Nat
      /\ c.refunds = <<>> \/ /\ \E r \in Nat : c.refunds = <<RefundOf(trader, r)>>
                             /\ \E j \in 1 .. n : path[j] = Tax
      /\ \A t \in Tokens :
           c.held[t][Router] = s.held[t][Router] + (IF t = token THEN c.got ELSE 0)
                                                 + (IF t = Tax THEN OwedBack(c.refunds) ELSE 0)
  <2>1. OnRoute(s, c, path, n, trader, deposit)
    BY DEF n
  <2>. QED
    BY <1>1, <2>1 DEF OnRoute
<1>3. /\ c.used = s.used /\ c.ctx.id = s.routeId + 1 /\ c.ctx.trader = trader
      /\ path[1] = Tax /\ c.refunds # <<>> => c.refunds[1] \in c.ctx.restore
  <2>1. OnTrack(s, c, path, n, trader)
    BY DEF n
  <2>. QED
    BY <1>1, <2>1 DEF OnTrack
<1>4. LiveKeeps(c, live, path, trader)
  BY <1>2, LiveIs
<1>5. owed \in Nat /\ (c.refunds # <<>> => c.refunds[1] = RefundOf(trader, owed))
  <2>1. \A r : RefundOf(trader, r).amount = r
    BY DEF RefundOf
  <2>. QED
    BY <1>2, <2>1 DEF OwedBack
<1>6. output.token = token /\ output.recipient = trader /\ output.amount = c.got
  BY DEF output, OutputEntry, token
<1>. HIDE DEF live, mid, paid, output, owed, d
<1>7. /\ Whole(live) /\ live.held = c.held /\ live.used = s.used /\ live.failed = {}
      /\ live.ctx.id = s.routeId + 1 /\ live.ctx.trader = trader /\ live.ctx.restore = c.ctx.restore
      /\ live.ctx.transfers = ToSet(Append(c.refunds, output))
  BY <1>3, <1>4 DEF LiveKeeps, output
\* No slot of this route is spent yet.
<1>8. live.ctx.id # 0 /\ \A slot : ~Spent(live, slot)
  <2>1. s.routeId + 1 # 0 /\ ~(s.routeId + 1 < s.used.id) /\ s.routeId + 1 # s.used.id
    OBVIOUS
  <2>. QED
    BY <1>7, <2>1 DEF Spent
<1>9. s.held[Tax][Router] \in Int /\ 0 <= s.held[Tax][Router] /\ Tax \in Tokens
       /\ s.held[token][Router] \in Int /\ 0 <= s.held[token][Router]
  <2>1. Tax \in Tokens /\ token \in Tokens /\ Router \in Accounts
    BY <1>1, RouteAssumption DEF Accounts
  <2>2. s.held[Tax][Router] \in Int /\ s.held[token][Router] \in Int
    BY <2>1 DEF Whole
  <2>3. 0 <= s.held[Tax][Router] /\ 0 <= s.held[token][Router]
    BY <2>1 DEF Solvent
  <2>. QED
    BY <2>1, <2>2, <2>3
<1>10. /\ mid = IF c.refunds = <<>> THEN live ELSE Then(live, Deliver(live, c.refunds[1]))
       /\ paid = Then(mid, Deliver(mid, output))
  BY DEF mid, live, paid, output, Refunded, Paid, Delivered
<1>11. d = [paid EXCEPT !.ctx = NoRoute, !.refunds = <<>>, !.got = 0]
  <2>1. ~(c.got < 0)
    BY <1>2
  <2>2. c.refunds = <<>> \/ \E r : c.refunds = <<r>>
    BY <1>2
  <2>. QED
    BY <2>1, <2>2, SettleSteps DEF d, paid
<1>12. CASE c.refunds = <<>>
  <2>1. mid = live /\ paid = Deliver(live, output)
    BY <1>7, <1>10, <1>12 DEF Then
  <2>2. output \in live.ctx.transfers
    <3>1. Append(<<>>, output) = <<output>> /\ output \in ToSet(<<output>>)
      BY DEF ToSet
    <3>. QED
      BY <1>7, <1>12, <3>1
  <2>3. ~(live.held[output.token][Router] < output.amount)
    <3>1. owed = 0
      BY <1>12 DEF owed, OwedBack
    <3>2. c.held[token][Router] = s.held[token][Router] + c.got + (IF token = Tax THEN owed ELSE 0)
      BY <1>1, <1>2 DEF owed
    <3>. QED
      BY <1>2, <1>6, <1>7, <1>9, <3>1, <3>2
  <2>4. \A x \in paid.failed : x = "cap" /\ output.token = Tax
    BY <1>7, <1>8, <2>1, <2>2, <2>3, DeliverRefused
  <2>5. DOMAIN paid = DOMAIN live
    BY <1>7, <2>1, DeliverKeeps
  <2>6. d.failed = paid.failed
    BY <1>7, <1>11, <2>5 DEF Whole
  <2>. QED
    BY <1>1, <1>6, <2>4, <2>6 DEF RouteExcuse, d
<1>13. CASE c.refunds # <<>>
  <2>. DEFINE e == c.refunds[1]
              first == Deliver(live, e)
              second == Deliver(mid, output)
  <2>1. PICK j \in 1 .. n : path[j] = Tax
    BY <1>2, <1>13
  <2>2. e = RefundOf(trader, owed) /\ e.token = Tax /\ e.recipient = trader /\ e.amount = owed
    BY <1>5, <1>13 DEF RefundOf
  <2>3. token # Tax
    <3>1. j \in 1 .. Len(path) - 1
      BY <1>1, <2>1
    <3>. QED
      BY <1>1, <2>1, <3>1 DEF ValidPath
  <2>4. mid = first
    BY <1>7, <1>10, <1>13 DEF Then
  <2>5. e \in live.ctx.transfers
    <3>1. PICK r : c.refunds = <<r>>
      BY <1>2, <1>13
    <3>. DEFINE both == Append(<<r>>, output)
    <3>2. 1 \in DOMAIN both /\ both[1] = r /\ <<r>>[1] = r
      OBVIOUS
    <3>. HIDE DEF both
    <3>3. r \in ToSet(both)
      BY <3>2 DEF ToSet
    <3>. QED
      BY <1>7, <3>1, <3>2, <3>3 DEF both
  <2>6. c.held[Tax][Router] = s.held[Tax][Router] + owed
    <3>1. c.held[Tax][Router] = s.held[Tax][Router] + 0 + owed
      BY <1>2, <1>9, <2>3 DEF owed
    <3>. QED
      BY <1>5, <1>9, <3>1
  <2>7. ~(live.held[e.token][Router] < e.amount)
    BY <1>5, <1>7, <1>9, <2>2, <2>6
  <2>8. path[1] = Tax => Restores(live, e)
    <3>1. path[1] = Tax => e \in live.ctx.restore
      BY <1>3, <1>7, <1>13
    <3>2. [e EXCEPT !.slot = e.slot] = e
      BY <2>2 DEF RefundOf
    <3>. QED
      BY <1>7, <2>2, <3>1, <3>2 DEF Restores
  <2>9. ASSUME mid.failed = {}
        PROVE  Moves(live, mid, Tax, Router, trader, owed, owed)
    <3>1. e.token \in Tokens /\ e.recipient \in Accounts /\ e.amount \in Nat
      BY <1>5, <1>9, <2>2 DEF Accounts
    <3>. QED
      BY <1>7, <2>2, <2>4, <2>9, <3>1, DeliverMoves
  <2>. HIDE DEF e
  <2>10. ASSUME NEW x \in first.failed
         PROVE  RouteExcuse(x, s, path, trader)
    <3>1. x = "cap" /\ ~Restores(live, e)
      BY <1>7, <1>8, <2>5, <2>7, <2>10, DeliverRefused
    <3>2. j # 1
      BY <2>1, <2>8, <3>1
    <3>3. j \in 2 .. Len(path)
      BY <1>1, <2>1, <3>2
    <3>. QED
      BY <2>1, <3>1, <3>3 DEF RouteExcuse
  <2>11. ASSUME mid.failed = {}
         PROVE  second.failed = {}
    <3>1. Whole(mid) /\ mid.held[token] = live.held[token]
      BY <1>1, <2>3, <2>9, <2>11 DEF Moves
    <3>2. c.held[token][Router] = s.held[token][Router] + c.got + 0
      BY <1>1, <1>2, <2>3
    <3>3. ~(mid.held[output.token][Router] < output.amount)
      BY <1>2, <1>6, <1>7, <1>9, <3>1, <3>2
    <3>. QED
      BY <1>6, <2>3, <2>11, <3>1, <3>3, DeliverRefused
  <2>12. DOMAIN paid = DOMAIN live
    <3>1. CASE mid.failed = {}
      <4>1. paid = second /\ Whole(mid)
        BY <1>10, <2>9, <3>1 DEF Then, Moves
      <4>. QED
        BY <1>7, <2>4, <4>1, DeliverKeeps
    <3>2. CASE mid.failed # {}
      BY <1>7, <1>10, <2>4, <3>2, DeliverKeeps DEF Then
    <3>. QED
      BY <3>1, <3>2
  <2>13. d.failed = paid.failed
    BY <1>7, <1>11, <2>12 DEF Whole
  <2>. HIDE DEF first, second
  <2>14. ASSUME NEW x \in paid.failed
         PROVE  RouteExcuse(x, s, path, trader)
    <3>1. CASE mid.failed = {}
      BY <1>10, <2>11, <2>14, <3>1 DEF Then, second
    <3>2. CASE mid.failed # {}
      BY <1>10, <2>4, <2>10, <2>14, <3>2 DEF Then
    <3>. QED
      BY <3>1, <3>2
  <2>. QED
    BY <2>13, <2>14 DEF d
<1>. QED
  BY <1>12, <1>13

-----------------------------------------------------------------------------
(* Refusals: a whole route. *)

\* What a route on a path that is valid is refused for.
RouteCause(x, s, path, trader, amount) ==
  \/ RouteExcuse(x, s, path, trader)
  \/ x = "funds" /\ s.held[path[1]][trader] < amount

\* i hops into a route.
Underway(s, c, path, i, trader, amount) ==
  /\ c.failed = {} => /\ OnRoute(s, c, path, i, trader, amount)
                      /\ OnWatch(s, c, path, i, trader, amount)
                      /\ OnTrack(s, c, path, i, trader)
  /\ \A x \in c.failed : RouteCause(x, s, path, trader, amount)

LEMMA DepositUnderway ==
  ASSUME SettingsOK, official = Router, NEW s, Whole(s), s.failed = {}, s.refunds = <<>>,
         s.routeId \in Nat, s.ctx = NoRoute, NEW path \in Paths, NEW trader \in Wallets,
         NEW amount \in Nat
  PROVE  Underway(s, Deposited(s, trader, path, amount), path, 0, trader, amount)
<1>. DEFINE token == path[1]
            sent == Pays(s, token, trader, Router, amount, NoHook)
            next == [sent EXCEPT !.routeId = @ + 1,
                                 !.got = sent.held[token][Router] - s.held[token][Router]]
            c == Deposited(s, trader, path, amount)
<1>1. c = Then(sent, next)
  BY DEF Deposited, Begun
<1>2. ASSUME c.failed = {}
      PROVE  /\ OnRoute(s, c, path, 0, trader, amount) /\ OnWatch(s, c, path, 0, trader, amount)
             /\ OnTrack(s, c, path, 0, trader)
  <2>1. OnRoute(s, c, path, 0, trader, amount)
    BY <1>2, DepositBegins DEF Deposited, SettingsOK
  <2>2. OnWatch(s, c, path, 0, trader, amount)
    BY <1>2, DepositWatched
  <2>3. OnTrack(s, c, path, 0, trader)
    BY <1>2, DepositTracked
  <2>. QED
    BY <2>1, <2>2, <2>3
<1>3. \A x \in sent.failed : x = "funds" /\ s.held[token][trader] < amount
  BY DepositRefused
<1>4. sent.failed = {} => next.failed = {}
  <2>. SUFFICES ASSUME sent.failed = {}
                PROVE  next.failed = {}
    OBVIOUS
  <2>1. token \in Tokens /\ trader \in Accounts /\ Router \in Accounts
    BY PathHops DEF Accounts
  <2>2. Moves(s, sent, token, trader, Router, Took(s, token, trader, Router, amount, NoHook),
              Gave(s, token, trader, Router, amount, NoHook))
    BY <2>1, PaysMoves DEF SettingsOK
  <2>3. Whole(sent)
    BY <2>2 DEF Moves
  <2>. HIDE DEF sent, token
  <2>. QED
    BY <2>3 DEF Whole
<1>. HIDE DEF sent, next, c
<1>5. \A x \in c.failed : x = "funds" /\ s.held[token][trader] < amount
  <2>1. CASE sent.failed = {}
    BY <1>1, <1>4, <2>1 DEF Then
  <2>2. CASE sent.failed # {}
    BY <1>1, <1>3, <2>2 DEF Then
  <2>. QED
    BY <2>1, <2>2
<1>. QED
  BY <1>2, <1>5 DEF Underway, RouteCause, c

LEMMA HopUnderway ==
  ASSUME SettingsOK, official = Router, NEW s, Whole(s), Solvent(s), NEW c, NEW path \in Paths,
         ValidPath(path), Listed(path), NEW i \in 1 .. Len(path) - 1, NEW trader \in Wallets,
         NEW amount \in Nat, Underway(s, c, path, i - 1, trader, amount)
  PROVE  Underway(s, Then(c, Hop(c, path, i, trader, 0)), path, i, trader, amount)
<1>. DEFINE d == Hop(c, path, i, trader, 0)
<1>1. CASE c.failed # {}
  <2>1. Then(c, d) = c
    BY <1>1 DEF Then
  <2>. QED
    BY <1>1, <2>1 DEF Underway
<1>2. CASE c.failed = {}
  <2>1. Then(c, d) = d
    BY <1>2 DEF Then
  <2>2. /\ OnRoute(s, c, path, i - 1, trader, amount) /\ OnWatch(s, c, path, i - 1, trader, amount)
        /\ OnTrack(s, c, path, i - 1, trader)
    BY <1>2 DEF Underway
  <2>3. \A x \in d.failed : RouteExcuse(x, s, path, trader)
    BY <1>2, <2>2, HopRefused
  <2>4. ASSUME d.failed = {}
        PROVE  /\ OnRoute(s, d, path, i, trader, amount) /\ OnWatch(s, d, path, i, trader, amount)
               /\ OnTrack(s, d, path, i, trader)
    <3>1. OnRoute(s, d, path, i, trader, amount)
      BY <2>2, <2>4, HopMoves DEF SettingsOK
    <3>2. OnWatch(s, d, path, i, trader, amount)
      BY <2>2, <2>4, HopWatched
    <3>3. OnTrack(s, d, path, i, trader)
      BY <1>2, <2>2, <2>4, HopTracked
    <3>. QED
      BY <3>1, <3>2, <3>3
  <2>. HIDE DEF d
  <2>. QED
    BY <2>1, <2>3, <2>4 DEF Underway, RouteCause, d
<1>. QED
  BY <1>1, <1>2

LEMMA RouteRefused ==
  ASSUME SettingsOK, official = Router, NEW s, Whole(s), s.failed = {}, Solvent(s),
         s.refunds = <<>>, s.ctx = NoRoute, s.used.id \in Nat, s.routeId \in Nat,
         s.used.id <= s.routeId, NEW path \in Paths, Listed(path), NEW trader \in Wallets,
         NEW amount \in Nat
  PROVE  \A x \in Routed(s, trader, trader, path, amount, 0, NoFloors(path)).failed :
           RouteCause(x, s, path, trader, amount) \/ (x = "path" /\ ~ValidPath(path))
<1>. DEFINE n == Len(path) - 1
            floors == NoFloors(path)
            first == Deposited(s, trader, path, amount)
            d == Routed(s, trader, trader, path, amount, 0, floors)
            g == CHOOSE h : Legs(h, first, path, trader, trader, 0, floors)
<1>1. n \in Nat
  <2>1. Len(path) \in Nat /\ Len(path) > 1
    BY PathHops
  <2>. QED
    BY <2>1
<1>2. d = IF ~ValidPath(path) THEN Failed(s, {"path"}) ELSE g[Len(path)]
  BY DEF Routed, Legs, Leg, Deposited
<1>3. \A i \in 1 .. n : floors[i] = 0
  BY DEF NoFloors
<1>. HIDE DEF first, floors
<1>4. Legs(g, first, path, trader, trader, 0, floors)
  BY LegsExist
<1>. HIDE DEF g
<1>5. PICK f : /\ Hops(f, first, path, Len(path) - 1, trader, floors)
               /\ g[Len(path)] = Then(f[Len(path) - 1], Settle(f[Len(path) - 1], path, trader, 0))
  BY <1>4, LegsEnd
<1>. DEFINE ends == Settle(f[n], path, trader, 0)
<1>6. Hops(f, first, path, n, trader, floors) /\ g[Len(path)] = Then(f[n], ends)
  BY <1>5
<1>. HIDE DEF n, d, ends
<1>7. CASE ~ValidPath(path)
  <2>1. d.failed = {"path"}
    BY <1>2, <1>7, FailedFails
  <2>. QED
    BY <1>7, <2>1 DEF d, floors
<1>8. CASE ValidPath(path)
  <2>. DEFINE T == {i \in Nat : i <= n => Underway(s, f[i], path, i, trader, amount)}
  <2>1. 0 \in T
    <3>1. f[0] = first
      BY <1>1, <1>6, HopsStep
    <3>2. Underway(s, f[0], path, 0, trader, amount)
      BY <3>1, DepositUnderway DEF first
    <3>. QED
      BY <3>2
  <2>2. ASSUME NEW i \in Nat, i \in T
        PROVE  i + 1 \in T
    <3>. SUFFICES ASSUME i + 1 <= n
                  PROVE  Underway(s, f[i + 1], path, i + 1, trader, amount)
      OBVIOUS
    <3>. DEFINE j == i + 1
    <3>1. i <= n /\ j \in 0 .. n /\ j \in 1 .. n /\ j # 0 /\ j - 1 = i
      BY <1>1
    <3>2. Underway(s, f[i], path, i, trader, amount)
      BY <2>2, <3>1
    <3>. HIDE DEF j, T
    <3>3. f[j] = Then(f[i], Hop(f[i], path, j, trader, 0))
      <4>. DEFINE Step(c, k) == Then(c, Hop(c, path, k, trader, floors[k]))
      <4>1. f = [k \in 0 .. n |-> IF k = 0 THEN first ELSE Step(f[k - 1], k)]
        BY <1>6 DEF Hops
      <4>2. f[j] = Step(f[j - 1], j)
        <5>. HIDE DEF Step
        <5>. QED
          BY <3>1, <4>1
      <4>. QED
        BY <1>3, <3>1, <4>2
    <3>4. j \in 1 .. Len(path) - 1 /\ Underway(s, f[i], path, j - 1, trader, amount)
      BY <3>1, <3>2 DEF n
    <3>5. Underway(s, Then(f[i], Hop(f[i], path, j, trader, 0)), path, j, trader, amount)
      BY <1>8, <3>4, HopUnderway
    <3>. QED
      BY <3>3, <3>5 DEF j
  <2>3. n \in T
    <3>. HIDE DEF T
    <3>. QED
      BY <1>1, <2>1, <2>2, NumberInduction
  <2>4. Underway(s, f[n], path, n, trader, amount)
    BY <1>1, <2>3
  <2>5. d = Then(f[n], ends)
    BY <1>2, <1>6, <1>8
  <2>6. ASSUME NEW x \in d.failed
        PROVE  RouteCause(x, s, path, trader, amount)
    <3>1. CASE f[n].failed = {}
      <4>1. d = ends
        BY <2>5, <3>1 DEF Then
      <4>2. /\ OnRoute(s, f[n], path, Len(path) - 1, trader, amount)
            /\ OnTrack(s, f[n], path, Len(path) - 1, trader)
        BY <2>4, <3>1 DEF Underway, n
      <4>3. \A y \in ends.failed : RouteExcuse(y, s, path, trader)
        BY <1>8, <3>1, <4>2, SettleRefused DEF ends
      <4>. QED
        BY <2>6, <4>1, <4>3 DEF RouteCause
    <3>2. CASE f[n].failed # {}
      <4>1. d = f[n]
        BY <2>5, <3>2 DEF Then
      <4>. QED
        BY <2>4, <2>6, <4>1 DEF Underway
    <3>. QED
      BY <3>1, <3>2
  <2>. QED
    BY <2>6 DEF d, floors
<1>. QED
  BY <1>7, <1>8

-----------------------------------------------------------------------------
(* Refusals: the invariant. *)

\* No slot of a route to come is spent.
Behind(c) == c.used.id \in Nat /\ c.used.id <= c.routeId

RInv ==
  /\ IInv
  /\ \A t \in Tokens : \A a \in Pairs \cup {Router} : given[t][a] >= 0
  /\ Behind(chain)

LEMMA InitBehind == Init => RInv
<1>. SUFFICES ASSUME Init PROVE RInv
  OBVIOUS
<1>1. \A t \in Tokens : \A a \in Pairs \cup {Router} : given[t][a] = 0
  BY DEF Init
<1>2. chain.used.id = 0 /\ chain.routeId = 0
  BY DEF Init, InitChain
<1>. QED
  BY <1>1, <1>2, InitKeeps DEF RInv, Behind

\* The settlement spends slots of its own route.
LEMMA SettleSpends ==
  ASSUME NEW c, Whole(c), c.got \in Nat, NEW path, Last(path) \in Tokens, NEW to \in Wallets,
         NEW trader \in Wallets,
         c.refunds = <<>> \/ \E r \in Nat : c.refunds = <<RefundOf(trader, r)>>,
         Settle(c, path, to, 0).failed = {}
  PROVE  \/ Settle(c, path, to, 0).used = c.used
         \/ Settle(c, path, to, 0).used.id = c.ctx.id
<1>. DEFINE live == Live(c, path, to)
            mid == Refunded(c, path, to)
            paid == Paid(c, path, to)
            output == OutputEntry(c, path, to)
            owed == OwedBack(c.refunds)
            d == Settle(c, path, to, 0)
<1>1. LiveKeeps(c, live, path, to)
  BY LiveIs
<1>2. PaysOut(c, path, to, trader)
  BY SettlePays
<1>3. /\ c.refunds = <<>> => mid = live
      /\ c.refunds # <<>> => Moves(live, mid, Tax, Router, trader, owed, owed)
      /\ Moves(mid, paid, Last(path), Router, to, c.got, c.got)
      /\ d = [paid EXCEPT !.ctx = NoRoute, !.refunds = <<>>, !.got = 0]
  BY <1>2 DEF PaysOut
<1>4. /\ mid = live \/ mid = Deliver(live, c.refunds[1])
      /\ paid = mid \/ paid = Deliver(mid, output)
  BY DEF Refunded, Paid, Delivered, Then
<1>. HIDE DEF live, mid, paid, output, owed, d
<1>5. Whole(live) /\ live.used = c.used /\ live.ctx.id = c.ctx.id
  BY <1>1 DEF LiveKeeps
<1>6. Whole(mid) /\ Whole(paid)
  BY <1>3, <1>5 DEF Moves
<1>7. mid.ctx = live.ctx /\ (mid.used = live.used \/ mid.used.id = live.ctx.id)
  BY <1>4, <1>5, DeliverKeeps
<1>8. paid.used = mid.used \/ paid.used.id = mid.ctx.id
  BY <1>4, <1>6, DeliverKeeps
<1>9. d.used = paid.used
  BY <1>3, <1>6 DEF Whole
<1>. QED
  BY <1>5, <1>7, <1>8, <1>9 DEF d

LEMMA RouteBehind ==
  ASSUME RInv, NEW trader \in Wallets, NEW to \in Wallets, NEW path \in Paths, NEW amount \in Amounts,
         Route(trader, to, path, amount)
  PROVE  Behind(chain')
<1>1. amount \in Nat
  BY RouteAssumption
<1>. DEFINE after == Routed(chain, trader, to, path, amount, 0, NoFloors(path))
<1>2. after.failed = {} /\ chain' = after
  BY DEF Route
<1>3. PICK c : Arrives(after, c, chain, trader, to, path, amount)
  BY <1>1, <1>2, ChainRoutes DEF RInv
<1>. HIDE DEF after
<1>4. /\ OnRoute(chain, c, path, Len(path) - 1, trader, amount)
      /\ OnTrack(chain, c, path, Len(path) - 1, trader) /\ after = Settle(c, path, to, 0)
      /\ Settle(c, path, to, 0).failed = {}
  BY <1>2, <1>3 DEF Arrives
<1>5. Len(path) - 1 > 0 /\ Last(path) \in Tokens
  <2>. DEFINE n == Len(path)
  <2>1. n \in Nat /\ n > 1 /\ Last(path) = path[n] /\ \A i \in 1 .. n : path[i] \in Tokens
    BY PathHops
  <2>. HIDE DEF n
  <2>2. n - 1 > 0 /\ n \in 1 .. n
    BY <2>1
  <2>. QED
    BY <2>1, <2>2 DEF n
<1>6. c.used = chain.used /\ c.routeId = chain.routeId + 1 /\ c.ctx.id = c.routeId
  BY <1>4, <1>5 DEF OnTrack
<1>7. /\ Whole(c) /\ c.got \in Nat
      /\ c.refunds = <<>> \/ \E r \in Nat : c.refunds = <<RefundOf(trader, r)>>
  BY <1>4 DEF OnRoute
<1>8. after.used = c.used \/ after.used.id = c.ctx.id
  BY <1>4, <1>5, <1>7, SettleSpends
<1>9. Settled(chain, after, c.routeId)
  BY <1>1, <1>4, SettleMoves DEF RInv, IInv
<1>10. after.routeId = c.routeId
  BY <1>9 DEF Settled
<1>11. chain.routeId \in Nat /\ chain.used.id \in Nat /\ chain.used.id <= chain.routeId
  BY DEF RInv, Behind, IInv, Idle
<1>12. after.used.id \in Nat /\ after.used.id <= after.routeId
  BY <1>6, <1>8, <1>10, <1>11
<1>. QED
  BY <1>2, <1>12 DEF Behind

LEMMA TradeBehind ==
  ASSUME RInv, NEW wallet \in Wallets, NEW pair \in Pairs, NEW offer \in PairTokens[pair],
         NEW ask \in PairTokens[pair], offer # ask, NEW amount \in Amounts,
         Trade(wallet, offer, ask, amount)
  PROVE  Behind(chain')
<1>. DEFINE after == DirectSwap(chain, wallet, offer, ask, amount)
<1>1. after.failed = {} /\ chain' = after
  BY DEF Trade
<1>2. RatesOK /\ SinksOK /\ Whole(chain) /\ chain.failed = {} /\ amount \in Nat
  BY RouteAssumption DEF RInv, IInv, SettingsOK, Idle
<1>3. /\ IsPairOf(PairOf(offer, ask), offer, ask)
      /\ \E took, got \in Nat :
           Sells(chain, after, PairOf(offer, ask), wallet, offer, ask, took, wallet, got)
  BY <1>1, TradeSells DEF RInv
<1>4. after.used = chain.used
  <2>1. after = SendSwap(chain, wallet, offer, ask, amount, wallet, 0, Nobody)
    BY DEF DirectSwap
  <2>. HIDE DEF after
  <2>2. wallet \in Wallets \cup {Router}
    OBVIOUS
  <2>3. SendSwap(chain, wallet, offer, ask, amount, wallet, 0, Nobody).used = chain.used
    BY <1>1, <1>2, <1>3, <2>1, <2>2, SaleKeepsUsed
  <2>. QED
    BY <2>1, <2>3
<1>5. after.routeId = chain.routeId
  BY <1>3 DEF Sells
<1>. QED
  BY <1>1, <1>4, <1>5 DEF RInv, Behind

LEMMA GiveBehind ==
  ASSUME RInv, NEW from \in Wallets, NEW to \in Wallets \cup Pairs \cup {Router}, from # to,
         Give(from, to, Tax, Gift)
  PROVE  Behind(chain') /\ \A t \in Tokens : \A a \in Pairs \cup {Router} : given'[t][a] >= 0
<1>. DEFINE after == Pays(chain, Tax, from, to, Gift, NoHook)
            took == Took(chain, Tax, from, to, Gift, NoHook)
            gave == Gave(chain, Tax, from, to, Gift, NoHook)
<1>1. after.failed = {} /\ chain' = after
  BY DEF Give
<1>2. given' = [t \in Tokens |-> [a \in Pairs \cup {Router} |->
                  given[t][a] + (IF t = Tax /\ a = to
                                 THEN after.held[t][a] - chain.held[t][a] ELSE 0)]]
  BY DEF Give
<1>3. RatesOK /\ SinksOK /\ Whole(chain) /\ chain.failed = {} /\ Gift \in Nat /\ Tax \in Tokens
  BY RouteAssumption DEF RInv, IInv, SettingsOK, Idle
<1>4. /\ from \in Accounts /\ to \in Accounts
      /\ \A a \in Pairs \cup {Router} : a \in Accounts \ {Treasury} /\ a # from
  BY AccountAssumption DEF Accounts
<1>5. gave \in Nat /\ Moves(chain, after, Tax, from, to, took, gave)
  BY <1>1, <1>3, <1>4, PaysMoves
<1>6. after.used = chain.used
  BY <1>3, PaysKeepsUsed
<1>. HIDE DEF after, took, gave
<1>7. after.routeId = chain.routeId
  BY <1>5 DEF Moves
<1>8. ASSUME NEW t \in Tokens, NEW a \in Pairs \cup {Router}
      PROVE  given'[t][a] >= 0
  <2>1. given'[t][a] = given[t][a] + (IF t = Tax /\ a = to
                                      THEN after.held[t][a] - chain.held[t][a] ELSE 0)
    BY <1>2
  <2>2. given[t][a] \in Int /\ given[t][a] >= 0
    BY DEF RInv, IInv
  <2>3. CASE t = Tax /\ a = to
    <3>1. after.held[Tax][a] = chain.held[Tax][a] - 0 + gave
      BY <1>4, <1>5, <2>3 DEF Moves
    <3>2. chain.held[Tax][a] \in Int
      BY <1>3, <1>4 DEF Whole
    <3>. QED
      BY <1>5, <2>1, <2>2, <2>3, <3>1, <3>2
  <2>4. CASE ~(t = Tax /\ a = to)
    BY <2>1, <2>2, <2>4
  <2>. QED
    BY <2>3, <2>4
<1>. QED
  BY <1>1, <1>6, <1>7, <1>8 DEF RInv, Behind

\* A rotation leaves its floor at the last route.
LEMMA RotationBehind ==
  ASSUME RInv, NEW candidate \in {Router, Nobody}, RotateRouter(candidate)
  PROVE  Behind(chain')
<1>1. chain.routeId \in Nat /\ chain.used.id \in Nat /\ chain.used.id <= chain.routeId
  BY DEF RInv, Behind, IInv, Idle
<1>. DEFINE used == [id |-> IF candidate = Nobody THEN 0 ELSE Floor, slots |-> {}]
<1>2. chain' = [chain EXCEPT !.used = used]
  BY DEF RotateRouter
<1>3. used.id \in Nat /\ used.id <= chain.routeId
  BY <1>1 DEF Floor, Larger
<1>. HIDE DEF used
<1>4. chain'.used = used /\ chain'.routeId = chain.routeId
  BY <1>2 DEF RInv, IInv, Whole
<1>. QED
  BY <1>3, <1>4 DEF Behind

LEMMA NextBehind == RInv /\ [Next]_vars => RInv'
<1>. SUFFICES ASSUME RInv, [Next]_vars PROVE RInv'
  OBVIOUS
<1>1. IInv'
  BY NextKeeps DEF RInv
<1>2. ASSUME given' = given, Behind(chain')
      PROVE  RInv'
  BY <1>1, <1>2 DEF RInv, Behind
<1>3. ASSUME NEW trader \in Wallets, NEW to \in Wallets, NEW path \in Paths, NEW n \in Amounts,
             Route(trader, to, path, n)
      PROVE  RInv'
  BY <1>2, <1>3, RouteBehind DEF Route
<1>4. ASSUME NEW wallet \in Wallets, NEW p \in Pairs, NEW n \in Amounts, NEW offer \in PairTokens[p],
             NEW ask \in PairTokens[p], offer # ask, Trade(wallet, offer, ask, n)
      PROVE  RInv'
  BY <1>2, <1>4, TradeBehind DEF Trade
<1>5. ASSUME NEW from \in Wallets, NEW to \in Wallets \cup Pairs \cup {Router}, from # to,
             Give(from, to, Tax, Gift)
      PROVE  RInv'
  <2>1. Behind(chain') /\ \A t \in Tokens : \A a \in Pairs \cup {Router} : given'[t][a] >= 0
    BY <1>5, GiveBehind
  <2>. QED
    BY <1>1, <2>1 DEF RInv, Behind
<1>6. CASE Message
  BY <1>3, <1>4, <1>5, <1>6 DEF Message
<1>7. CASE Governance
  <2>1. given' = given
    BY <1>7 DEF Governance
  <2>2. CASE \E candidate \in {Router, Nobody} : RotateRouter(candidate)
    BY <1>2, <2>1, <2>2, RotationBehind
  <2>3. CASE chain' = chain
    BY <1>2, <2>1, <2>3 DEF RInv, Behind
  <2>. QED
    BY <1>7, <2>2, <2>3 DEF Governance, UpdateSettings, EnableLaunchGuards, RegisterListedPair
<1>8. CASE Tick \/ UNCHANGED vars
  BY <1>2, <1>8 DEF Tick, vars, RInv, Behind
<1>. QED
  BY <1>6, <1>7, <1>8 DEF Next

LEMMA RefusalInvariant == Spec => []RInv
  BY InitBehind, NextBehind, PTL DEF Spec

\* The books leave every pair its reserves, and the router nobody's debt.
LEMMA ChainSolvent ==
  ASSUME RInv
  PROVE  Solvent(chain)
<1>1. ASSUME NEW p \in Pairs, NEW t \in PairTokens[p]
      PROVE  chain.pool[p][t] <= chain.held[t][p]
  <2>1. t \in Tokens
    BY PoolTokens
  <2>2. chain.held[t][p] = chain.pool[p][t] + given[t][p]
    BY DEF RInv, IInv, BooksBalance
  <2>3. chain.pool[p][t] \in Nat \ {0}
    BY DEF RInv, IInv, Whole
  <2>4. given[t][p] \in Int /\ given[t][p] >= 0
    BY <2>1 DEF RInv, IInv
  <2>. QED
    BY <2>2, <2>3, <2>4
<1>2. ASSUME NEW t \in Tokens
      PROVE  0 <= chain.held[t][Router]
  <2>1. chain.held[t][Router] = given[t][Router]
    BY DEF RInv, IInv, BooksBalance
  <2>2. given[t][Router] \in Int /\ given[t][Router] >= 0
    BY DEF RInv, IInv
  <2>. QED
    BY <2>1, <2>2
<1>. QED
  BY <1>1, <1>2 DEF Solvent

\* After any messages, a route of the official router through pairs the token knows is
\* refused for what its trader asked or for a guard: the router funds every sale and explains
\* it to the token, each delivery finds its slot unspent, and a refund is never held to the cap
\* (reply_swap_hop, apply_transfer's route checks, apply_route_transfer's slots).
THEOREM RoutesRefusedForCause == Spec => []RefusedForCause
<1>1. RInv => RefusedForCause
  <2>. SUFFICES ASSUME RInv, official = Router, NEW trader \in Wallets, NEW path \in Paths,
                       NEW n \in Amounts, Listed(path)
                PROVE  LET causes == Routed(chain, trader, trader, path, n, 0, NoFloors(path)).failed
                       IN  /\ causes \subseteq {"path", "funds", "halted", "cooldown", "cap",
                                                "spread", "zero", "no output"}
                           /\ "funds" \in causes => chain.held[path[1]][trader] < n
                           /\ "cap" \in causes => Tax \in {path[i] : i \in 2 .. Len(path)}
                           /\ "path" \in causes =>
                                \E i, j \in 1 .. Len(path) : i # j /\ path[i] = Tax /\ path[j] = Tax
                           /\ "cooldown" \in causes => Cooling(chain, trader) \/ Cooling(chain, House)
    BY DEF RefusedForCause
  <2>. DEFINE causes == Routed(chain, trader, trader, path, n, 0, NoFloors(path)).failed
  <2>1. /\ SettingsOK /\ Whole(chain) /\ chain.failed = {} /\ chain.refunds = <<>>
        /\ chain.ctx = NoRoute /\ chain.routeId \in Nat
        /\ chain.used.id \in Nat /\ chain.used.id <= chain.routeId
    BY DEF RInv, IInv, Idle, Behind
  <2>2. Solvent(chain) /\ n \in Nat
    BY ChainSolvent, RouteAssumption
  <2>3. \A x \in causes : RouteCause(x, chain, path, trader, n) \/ (x = "path" /\ ~ValidPath(path))
    BY <2>1, <2>2, RouteRefused
  <2>. HIDE DEF causes
  <2>4. \A x \in causes :
          \/ x \in {"halted", "spread", "zero", "no output"}
          \/ x = "cooldown" /\ (Cooling(chain, trader) \/ Cooling(chain, House))
          \/ x = "cap" /\ \E j \in 2 .. Len(path) : path[j] = Tax
          \/ x = "funds" /\ chain.held[path[1]][trader] < n
          \/ x = "path" /\ ~ValidPath(path)
    BY <2>3 DEF RouteCause, RouteExcuse
  <2>5. ASSUME ~ValidPath(path)
        PROVE  \E i, j \in 1 .. Len(path) : i # j /\ path[i] = Tax /\ path[j] = Tax
    <3>1. PICK i \in 2 .. Len(path) : path[i] = Tax /\ \E j \in 1 .. i - 1 : path[j] = Tax
      BY <2>5 DEF ValidPath
    <3>2. PICK j \in 1 .. i - 1 : path[j] = Tax
      BY <3>1
    <3>. DEFINE m == Len(path)
    <3>3. m \in Nat
      BY PathHops
    <3>. HIDE DEF m
    <3>4. i \in 1 .. m /\ j \in 1 .. m /\ i # j
      BY <3>3 DEF m
    <3>. QED
      BY <3>1, <3>2, <3>4 DEF m
  <2>. QED
    BY <2>4, <2>5 DEF causes
<1>. QED
  BY <1>1, RefusalInvariant, PTL
=============================================================================
