----------------------------- MODULE MCPairFees -----------------------------
(* A trader, a router that may be trusted, a tier to earn and one given.    *)
EXTENDS FeeHistory, TLC

CONSTANTS alice, router, cl8y, other, new, reg, silent, t1, t2

Tier(m, d, l, g) == [min |-> m, swap |-> d, limit |-> l, gov |-> g]
MCLadder == 1 :> Tier(1, 5, 10, FALSE) @@ 255 :> Tier(0, 0, 0, TRUE)
\* The trader has earned a tier and comes through a router that is trusted.
MCStarts ==
  {[registration |-> alice :> [tier |-> 1, epoch |-> 1], epochs |-> 1, trusted |-> {router},
    balance |-> alice :> 1 @@ router :> 0]}
MCTerms == {Tier(0, 5, 5, FALSE)}
MCRequests == {<<1, alice, alice>>, <<1, alice, router>>}
MCOffered == [registry |-> {None, reg}, treasury |-> {t1, t2}, fee |-> {2, 4}]
MCConfig == [registry |-> reg, treasury |-> t1, fee |-> 4]
MCListed == <<cl8y, other>>
=============================================================================
