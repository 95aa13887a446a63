--------------------------- MODULE MCLimitClean ---------------------------
(* Keepers cleaning a book of expiring and shrinking orders, while the      *)
(* governance moves the dust floor and the rung cap and pauses the pair.    *)
EXTENDS LimitBookRefinement

Offer(s, p, a, e) == [side |-> s, price |-> p, amount |-> a, expires |-> e]
MCOffers == {Offer("bid", 10, 4, 1), Offer("bid", 10, 8, 0), Offer("bid", 20, 6, 0)}
MCPools == {[rin |-> 0, rout |-> 0]}
MCCleanCaps == {<<1, 2>>, <<3, 3>>}
MCLegacy == {Offer("bid", 25, 2, 0)}
=============================================================================
