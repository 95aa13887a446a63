---------------------------- MODULE MCTaxRoutes ----------------------------
\* Two wallets and three tokens on two pairs: usd - tax - cl8y.
EXTENDS TaxRoutes

AllPairs == {"usd-tax", "tax-cl8y"}
TokensOf == [p \in AllPairs |-> IF p = "usd-tax" THEN {"usd", "tax"} ELSE {"tax", "cl8y"}]

HeldBy == [a \in {"ann", "bob"} |-> IF a = "ann" THEN 12 ELSE 3]

AllPaths == {<<"usd", "tax">>, <<"tax", "usd">>, <<"usd", "tax", "cl8y">>,
             <<"usd", "tax", "usd">>, <<"tax", "usd", "tax">>}

NoGuards == [on |-> FALSE, trading |-> TRUE, cooldown |-> 0, max |-> NoCap]
Launch == [on |-> TRUE, trading |-> TRUE, cooldown |-> 2, max |-> 7]
Closed == [Launch EXCEPT !.trading = FALSE]
Rates(b, s, t) == [buy |-> b, sell |-> s, transfer |-> t]
ToTreasury == <<[to |-> Treasury, bps |-> BPS]>>
Split == <<[to |-> Burn, bps |-> 3], [to |-> Treasury, bps |-> BPS - 3]>>

Setup(r, g, s, l, o) == [rates |-> r, guards |-> g, sinks |-> s, listed |-> l, official |-> o]

AllSetups ==
  {Setup(Rates(2, 3, 1), NoGuards, Split, AllPairs, Router),
   Setup(Rates(1, 3, 0), Launch, ToTreasury, AllPairs, Router),
   Setup(Rates(0, 1, 2), Closed, Split, {"usd-tax"}, Nobody),
   Setup(Rates(1, 3, 0), Launch, ToTreasury, {"tax-cl8y"}, Router)}
============================================================================
