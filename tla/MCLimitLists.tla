--------------------------- MODULE MCLimitLists ---------------------------
(* Insert walks, hints, reprices and withdrawals on one side of the book.   *)
EXTENDS LimitBookRefinement

OneSide(p) == [side |-> "bid", price |-> p, amount |-> 4, expires |-> 0]
MCOffers == {OneSide(10), OneSide(20)}
MCPools == {[rin |-> 0, rout |-> 0]}
MCCleanCaps == {<<1, 1>>}
=============================================================================
