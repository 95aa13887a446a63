--------------------------- MODULE MCLimitMatch ---------------------------
(* Swaps against both sides of the book: expired, blacklisted, unfillable   *)
(* and dust orders, fees, greedy pools, and withdrawals in between.         *)
EXTENDS LimitBookRefinement

Offer(s, p, a, e) == [side |-> s, price |-> p, amount |-> a, expires |-> e]
\* The bid at 25 can be left unfillable by a part fill, the one at 10 as dust.
MCOffers == {Offer("bid", 10, 4, 0), Offer("bid", 25, 8, 1), Offer("ask", 16, 5, 0)}
MCPools == {[rin |-> 0, rout |-> 0], [rin |-> 10, rout |-> 12]}
MCCleanCaps == {}
\* Below the present floors: a bid no token0 can buy, an ask worth nothing.
MCLegacy == {Offer("bid", 25, 2, 0), Offer("ask", 2, 3, 0)}
=============================================================================
